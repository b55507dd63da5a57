------------------------ MODULE OrderingManagerProofs ------------------------
(***************************************************************************)
(* Proofs about OrderingManager: its calls of the two stores, its first    *)
(* invariant with what that says of the moment a POST leaves, and its      *)
(* second, of start-up, conclusions and clears.  OrderingManagerSafety     *)
(* goes on from here.                                                      *)
(***************************************************************************)
EXTENDS OrderingManager, FiniteSetTheorems, WellFoundedInduction, TLAPS

(***************************************************************************)
(* What OrderingManager's storage calls do, for its proofs: the invariants *)
(* of OrderingState and AttemptJournal hold in it whatever the manager     *)
(* does between two calls, and each call has an effect that its callers    *)
(* can be reasoned about without opening it.                               *)
(***************************************************************************)

SP == INSTANCE OrderingStateProofs WITH
         Attempts <- Nat, MaxRevision <- 0, MaxGeneration <- 0
JP == INSTANCE AttemptJournalProofs WITH MaxAttempt <- 0, MaxRevision <- 0

\* The invariants of the two components.
StateOK == SP!Inv
JournalOK == JP!Inv

\* The manager's constants meet the assumptions of the two stores.
LEMMA Constants ==
    /\ SP!StateConstants
    /\ JP!JournalConstants
    /\ MaxRecords \in Nat /\ MaxRecords >= 4
    /\ None \notin STRING
    /\ None \notin State!ManualBindings
    /\ None \notin State!PreparationBindings
<1>1. SP!Positive = State!Positive /\ SP!Resolutions = State!Resolutions
  BY DEF SP!Positive, State!Positive, SP!Resolutions, State!Resolutions
<1>2. SP!ManualBindings = State!ManualBindings
  BY <1>1 DEF SP!ManualBindings, State!ManualBindings
<1>3. SP!PreparationBindings = State!PreparationBindings
  BY <1>1 DEF SP!PreparationBindings, State!PreparationBindings
<1>4. None \notin SP!Resolutions
  BY <1>1, ManagerConstants
<1>5. /\ MaxRecords \in Nat /\ MaxRecords >= 4 /\ None \notin STRING
      /\ None \notin State!ManualBindings
      /\ None \notin State!PreparationBindings
  BY ManagerConstants
<1>6. SP!StateConstants
  BY <1>2, <1>3, <1>4, <1>5 DEF SP!StateConstants
<1>7. JP!JournalConstants
  BY <1>5 DEF JP!JournalConstants
<1> QED
  BY <1>5, <1>6, <1>7

(***************************************************************************)
(* The operations of OrderingState.                                        *)
(***************************************************************************)
\* The file and memory both name attempt a in their manual bindings.
Names(a) ==
    /\ snap.manual # None /\ snap.manual.attempt = a
    /\ disk.manual # None /\ disk.manual.attempt = a

\* What no operation of a running manager does: clear a fault.
StateKeeps ==
    /\ StateOK'
    /\ loaded' = loaded
    /\ disk.integrity => disk'.integrity
    /\ snap.integrity => snap'.integrity
    /\ storageFault => storageFault'

\* An operation without an attempt of its own leaves the bindings naming theirs.
StateStep ==
    /\ StateKeeps
    /\ \A a : Names(a) => Names(a)'
    /\ snap' = snap \/ snap' = disk'
    /\ disk.manual # None => disk'.manual # None

\* Memory knows of every integrity latch the step adds to the file.
NoHiddenFault == disk'.integrity => disk.integrity \/ snap'.integrity

\* How a call ends that its caller distinguishes.
Ends == {"ok", "refused", "fault", "cancelled"}

\* The two instances of OrderingState, the manager's and the one of the theorems, agree:
\* a save is the same,
LEMMA PersistBridge ==
    ASSUME NEW c, NEW p, NEW r
    PROVE  State!Persist(c, p, r) = SP!Persist(c, p, r)
  BY DEF State!Persist, SP!Persist, State!Refuse, SP!Refuse, State!stateVars, SP!stateVars

\* an advance of the generation is,
LEMMA BumpBridge ==
    ASSUME NEW l, NEW b, NEW r
    PROVE  State!Bump(l, b, r) = SP!Bump(l, b, r)
  BY PersistBridge
     DEF State!Bump, SP!Bump, State!ReadFails, SP!ReadFails, State!CancelRead,
         SP!CancelRead, State!RefuseForever, SP!RefuseForever, State!FaultForever,
         SP!FaultForever, State!stateVars, SP!stateVars, State!BindingChanged,
         SP!BindingChanged, State!BumpCandidate, SP!BumpCandidate, State!AtGeneration,
         SP!AtGeneration, State!FirstPresent, SP!FirstPresent, State!NextGeneration,
         SP!NextGeneration, State!Larger, SP!Larger

\* the manual latch is such an advance,
LEMMA LatchManualCheckBridge ==
    ASSUME NEW a, NEW v, NEW r
    PROVE  State!LatchManualCheck(a, v, r) =
              SP!Bump(FALSE, [attempt |-> a, revision |-> v,
                              generation |-> snap.generation, resolution |-> None], r)
  BY BumpBridge DEF State!LatchManualCheck

\* and so are the latch of a preparation,
LEMMA LatchPreparationBridge ==
    ASSUME NEW a, NEW v, NEW x, NEW r
    PROVE  State!LatchPreparationReconciliation(a, v, x, r) =
              SP!LatchPreparationReconciliation(a, v, x, r)
  BY PersistBridge
     DEF State!LatchPreparationReconciliation, SP!LatchPreparationReconciliation,
         State!ReadRaises, SP!ReadRaises, State!CancelRead, SP!CancelRead,
         State!RefuseForever, SP!RefuseForever, State!FaultForever, SP!FaultForever,
         State!stateVars, SP!stateVars, State!PreparationDiffers, SP!PreparationDiffers,
         State!AtGeneration, SP!AtGeneration, State!NextGeneration, SP!NextGeneration,
         State!Larger, SP!Larger

\* its clear,
LEMMA ClearPreparationBridge ==
    ASSUME NEW a, NEW x, NEW r
    PROVE  State!ClearPreparationReconciliation(a, x, r) =
              SP!ClearPreparationReconciliation(a, x, r)
  BY PersistBridge
     DEF State!ClearPreparationReconciliation, SP!ClearPreparationReconciliation,
         State!ReadRaises, SP!ReadRaises, State!CancelRead, SP!CancelRead,
         State!Refuse, SP!Refuse, State!stateVars, SP!stateVars,
         State!PreparationDiffers, SP!PreparationDiffers,
         State!AtGeneration, SP!AtGeneration, State!NextGeneration, SP!NextGeneration,
         State!Larger, SP!Larger

\* a new binding,
LEMMA UpdateManualBindingBridge ==
    ASSUME NEW a, NEW v, NEW s, NEW r
    PROVE  State!UpdateManualBinding(a, v, s, r) = SP!UpdateManualBinding(a, v, s, r)
  BY PersistBridge
     DEF State!UpdateManualBinding, SP!UpdateManualBinding,
         State!ReadRaises, SP!ReadRaises, State!CancelRead, SP!CancelRead,
         State!RefuseForever, SP!RefuseForever, State!FaultForever, SP!FaultForever,
         State!stateVars, SP!stateVars

\* the clear of the manual check
LEMMA ClearManualCheckBridge ==
    ASSUME NEW a, NEW v, NEW s, NEW g, NEW r
    PROVE  State!ClearManualCheck(a, v, s, g, r) = SP!ClearManualCheck(a, v, s, g, r)
  BY PersistBridge
     DEF State!ClearManualCheck, SP!ClearManualCheck,
         State!ReadFails, SP!ReadFails, State!CancelRead, SP!CancelRead,
         State!FaultForever, SP!FaultForever, State!Refuse, SP!Refuse,
         State!stateVars, SP!stateVars, State!Larger, SP!Larger

\* and the re-read before the POST.
LEMMA AssertCurrentBridge ==
    ASSUME NEW g, NEW r
    PROVE  State!AssertCurrent(g, r) = SP!AssertCurrent(g, r)
  BY DEF State!AssertCurrent, SP!AssertCurrent, State!AuthorityIsCurrent,
         SP!AuthorityIsCurrent, State!ReadFails, SP!ReadFails, State!CancelRead,
         SP!CancelRead, State!FaultForever, SP!FaultForever, State!Refuse, SP!Refuse,
         State!stateVars, SP!stateVars

\* What every writing step has in common.
LEMMA WritingEffect ==
    ASSUME StateOK, SP!Writing
    PROVE  /\ StateOK'
           /\ loaded' = loaded
           /\ disk.integrity => disk'.integrity
           /\ snap.integrity => snap'.integrity
           /\ snap' = snap \/ snap' = disk'
<1>1. StateOK'
  BY SP!WritingKeepsInv, Constants DEF StateOK
<1>2. CASE SP!Still
  BY <1>1, <1>2 DEF SP!Still
<1>3. CASE \E c : SP!KeepsPromises(c) /\ SP!Wrote(c)
  BY <1>1, <1>3 DEF SP!KeepsPromises, SP!Wrote
<1> QED
  BY <1>2, <1>3 DEF SP!Writing

\* Without a load nothing is written.
LEMMA UnloadedPersist ==
    ASSUME ~loaded, NEW c, NEW p, NEW r, SP!Persist(c, p, r)
    PROVE  r = "refused" /\ UNCHANGED stateVars
  BY DEF SP!Persist, SP!Refuse, SP!stateVars, stateVars

\* A call that only notes that storage failed counts as a write too.
LEMMA StillWriting ==
    ASSUME StateOK, disk' = disk, snap' = snap, loaded' = loaded,
           storageFault' \in BOOLEAN, transientFault' \in BOOLEAN
    PROVE  SP!Writing
  BY DEF SP!Writing, SP!FlagsOK, SP!Still

\* Carrying a binding keeps what it names.
LEMMA Carried ==
    ASSUME NEW b \in SP!ManualBindings, NEW g
    PROVE  /\ SP!AtGeneration(b, g) # None => 
                 /\ SP!AtGeneration(b, g).attempt = b.attempt
                 /\ SP!AtGeneration(b, g).revision = b.revision
                 /\ SP!AtGeneration(b, g).resolution = b.resolution
                 /\ SP!AtGeneration(b, g).generation = g
           /\ g \in SP!Positive => SP!AtGeneration(b, g) # None
<1>1. b # None /\ None \notin SP!ManualBindings
  BY Constants DEF SP!StateConstants
<1>2. SP!AtGeneration(b, g) = [b EXCEPT !.generation = g]
  BY <1>1 DEF SP!AtGeneration
<1>3. g \in SP!Positive => [b EXCEPT !.generation = g] \in SP!ManualBindings
  BY DEF SP!ManualBindings
<1> QED
  BY <1>1, <1>2, <1>3 DEF SP!ManualBindings

(***************************************************************************)
(* Effects.                                                                *)
(***************************************************************************)
Finished(r) == r # "cancelled"

\* A bump, with or without a latch: LatchFault, LatchManualCheck and the plain one.
LEMMA BumpEffect ==
    ASSUME StateOK, NEW l \in BOOLEAN, NEW b \in SP!ManualBindings \cup {None}, NEW r,
           SP!Bump(l, b, r)
    PROVE  /\ StateKeeps
           /\ snap' = snap \/ snap' = disk'
           /\ disk.manual # None => disk'.manual # None
           /\ l = FALSE \/ Finished(r) => NoHiddenFault
           /\ b = None => \A a : Names(a) => Names(a)'
           /\ r = "ok" /\ l = TRUE => disk'.integrity = TRUE
           /\ r = "ok" /\ b # None =>
                 /\ Names(b.attempt)'
                 /\ snap'.manual.revision = b.revision
                 /\ snap'.manual.resolution = b.resolution
                 /\ snap'.manual.generation = snap'.generation
<1> DEFINE g == SP!NextGeneration
           m == SP!FirstPresent(b, SP!FirstPresent(disk.manual, snap.manual))
           c == SP!BumpCandidate(l, b)
<1>1. /\ disk.manual \in SP!ManualBindings \cup {None}
      /\ snap.manual \in SP!ManualBindings \cup {None}
      /\ disk.integrity \in BOOLEAN /\ snap.integrity \in BOOLEAN
      /\ storageFault \in BOOLEAN /\ transientFault \in BOOLEAN
  BY DEF StateOK, SP!Inv, SP!TypeOK, SP!Snapshots
<1>2. CASE \/ SP!ReadFails(r)
           \/ SP!CancelRead(r)
           \/ SP!BindingChanged /\ SP!RefuseForever(r)
  <2>1. /\ disk' = disk /\ snap' = snap /\ loaded' = loaded
        /\ storageFault' \in BOOLEAN /\ transientFault' \in BOOLEAN
        /\ storageFault => storageFault'
        /\ r # "ok"
    BY <1>1, <1>2 DEF SP!ReadFails, SP!CancelRead, SP!RefuseForever, SP!FaultForever,
                      SP!stateVars
  <2>2. StateOK'
    BY <2>1, StillWriting, WritingEffect
  <2> QED
    BY <2>1, <2>2 DEF StateKeeps, NoHiddenFault, Names, Finished
<1>3. CASE ~loaded /\ SP!Persist(c, TRUE, r)
  <2>1. r = "refused" /\ UNCHANGED stateVars
    BY <1>3, UnloadedPersist
  <2>2. StateOK'
    BY <1>1, <2>1, StillWriting, WritingEffect DEF stateVars
  <2> QED
    BY <2>1, <2>2 DEF StateKeeps, NoHiddenFault, Names, stateVars
<1>4. CASE loaded /\ ~SP!BindingChanged /\ SP!Persist(c, TRUE, r)
  <2>1. SP!Writing
    BY <1>4, SP!BumpIsWriting, Constants DEF StateOK
  <2>2. /\ StateOK' /\ loaded' = loaded
        /\ disk.integrity => disk'.integrity
        /\ snap.integrity => snap'.integrity
        /\ snap' = snap \/ snap' = disk'
    BY <2>1, WritingEffect
  <2>3. g \in SP!Positive
    BY SP!NextGenerationAbove, Constants DEF StateOK, SP!Inv
  <2>4. /\ c.integrity = (snap.integrity \/ disk.integrity \/ l)
        /\ c.manual = SP!AtGeneration(m, g)
        /\ c.generation = g
    BY DEF SP!BumpCandidate
  <2>5. m \in SP!ManualBindings \cup {None} /\ (m # None => m \in SP!ManualBindings)
    BY <1>1 DEF SP!FirstPresent
  <2>6. /\ disk.manual # None \/ b # None => m # None
        /\ b # None => m = b
        /\ b = None /\ disk.manual # None => m = disk.manual
    BY DEF SP!FirstPresent
  <2> HIDE DEF m, g, c
  <2>7. m # None => /\ c.manual # None
                    /\ c.manual.attempt = m.attempt
                    /\ c.manual.revision = m.revision
                    /\ c.manual.resolution = m.resolution
                    /\ c.manual.generation = c.generation
    BY <2>3, <2>4, <2>5, Carried
  <2>8. \/ r = "ok" /\ disk' = c /\ snap' = c
        \/ r = "fault" /\ disk' = disk /\ snap' = snap
        \/ r = "cancelled" /\ disk' \in {disk, c} /\ snap' = snap
        \/ r = "refused" /\ disk' = disk /\ snap' = snap
    BY <1>4 DEF SP!Persist, SP!Refuse, SP!stateVars
  <2>9. storageFault => storageFault'
    BY <1>4 DEF SP!Persist, SP!Refuse, SP!stateVars
  <2>10. StateKeeps
    BY <2>2, <2>9 DEF StateKeeps
  <2>11. disk.manual # None => disk'.manual # None
    BY <2>6, <2>7, <2>8
  <2>12. l = FALSE \/ Finished(r) => NoHiddenFault
    BY <1>1, <2>2, <2>4, <2>8 DEF NoHiddenFault, Finished
  <2>13. b = None => \A a : Names(a) => Names(a)'
    BY <2>6, <2>7, <2>8 DEF Names
  <2>14. r = "ok" /\ b # None =>
                 /\ Names(b.attempt)'
                 /\ snap'.manual.revision = b.revision
                 /\ snap'.manual.resolution = b.resolution
                 /\ snap'.manual.generation = snap'.generation
    BY <2>6, <2>7, <2>8 DEF Names
  <2>15. r = "ok" /\ l = TRUE => disk'.integrity = TRUE
    BY <2>4, <2>8
  <2> QED
    BY <2>2, <2>10, <2>11, <2>12, <2>13, <2>14, <2>15
<1>5. \/ SP!ReadFails(r)
      \/ SP!CancelRead(r)
      \/ SP!BindingChanged /\ SP!RefuseForever(r)
      \/ ~SP!BindingChanged /\ SP!Persist(c, TRUE, r)
  BY DEF SP!Bump, c
<1> HIDE DEF c
<1> QED
  BY <1>2, <1>3, <1>4, <1>5

\* An advance ends as any storage call does,
LEMMA BumpEnds ==
    ASSUME NEW l, NEW b, NEW r, SP!Bump(l, b, r)
    PROVE  r \in Ends
  BY DEF SP!Bump, SP!Persist, SP!Refuse, SP!ReadFails, SP!CancelRead, SP!RefuseForever, Ends

\* and one that carries no binding forgets neither a binding nor a fault.
LEMMA PlainBump ==
    ASSUME StateOK, NEW r, State!Bump(FALSE, None, r)
    PROVE  StateStep /\ NoHiddenFault /\ r \in Ends
<1>1. SP!Bump(FALSE, None, r)
  BY BumpBridge
<1> QED
  BY <1>1, BumpEffect, BumpEnds DEF StateStep

\* A latched fault is on file; no binding is lost by it.
LEMMA LatchFaultEffect ==
    ASSUME StateOK, NEW r, State!LatchFault(r)
    PROVE  /\ StateStep
           /\ Finished(r) => NoHiddenFault
           /\ r = "ok" => disk'.integrity = TRUE
<1>1. SP!Bump(TRUE, None, r)
  BY BumpBridge DEF State!LatchFault
<1>2. /\ StateKeeps
      /\ snap' = snap \/ snap' = disk'
      /\ disk.manual # None => disk'.manual # None
      /\ \A a : Names(a) => Names(a)'
  BY <1>1, BumpEffect
<1>3. Finished(r) => NoHiddenFault
  BY <1>1, BumpEffect
<1>4. r = "ok" => disk'.integrity = TRUE
  BY <1>1, BumpEffect
<1> QED
  BY <1>2, <1>3, <1>4 DEF StateStep

\* A manual latch that was saved names its attempt in the file and in memory, whatever
\* it replaced.
LEMMA LatchManualCheckEffect ==
    ASSUME StateOK, NEW a \in Nat, NEW v \in Nat \ {0}, NEW r,
           State!LatchManualCheck(a, v, r)
    PROVE  /\ StateKeeps
           /\ NoHiddenFault
           /\ snap' = snap \/ snap' = disk'
           /\ disk.manual # None => disk'.manual # None
           /\ r \in Ends
           /\ r = "ok" => /\ Names(a)'
                          /\ snap'.manual.revision = v
                          /\ snap'.manual.resolution = None
                          /\ snap'.manual.generation = snap'.generation
<1> DEFINE b == [attempt |-> a, revision |-> v,
                 generation |-> snap.generation, resolution |-> None]
<1>1. SP!Bump(FALSE, b, r)
  BY LatchManualCheckBridge
<1>2. b \in SP!ManualBindings
  BY DEF StateOK, SP!Inv, SP!TypeOK, SP!Snapshots, SP!ManualBindings, SP!Positive
<1>3. b # None
  BY <1>2, Constants DEF SP!StateConstants
<1>4. b.attempt = a /\ b.revision = v /\ b.resolution = None
  OBVIOUS
<1> HIDE DEF b
<1> QED
  BY <1>1, <1>2, <1>3, <1>4, BumpEffect, BumpEnds

\* An operation that fails before its save leaves both images alone.
LEMMA StillEffect ==
    ASSUME StateOK, disk' = disk, snap' = snap, loaded' = loaded,
           storageFault' \in BOOLEAN, transientFault' \in BOOLEAN,
           storageFault => storageFault'
    PROVE  StateStep /\ NoHiddenFault
<1>1. StateOK'
  BY StillWriting, WritingEffect
<1> QED
  BY <1>1 DEF StateStep, StateKeeps, NoHiddenFault, Names

\* What a call does that fails before it saves.
LEMMA FailedBeforeSave ==
    ASSUME StateOK, NEW r,
           \/ SP!ReadFails(r) \/ SP!ReadRaises(r) \/ SP!CancelRead(r)
           \/ SP!Refuse(r) \/ SP!RefuseForever(r) \/ UNCHANGED stateVars
    PROVE  disk' = disk /\ snap' = snap /\ StateStep /\ NoHiddenFault
<1>1. storageFault \in BOOLEAN /\ transientFault \in BOOLEAN
  BY DEF StateOK, SP!Inv, SP!TypeOK
<1>2. /\ disk' = disk /\ snap' = snap /\ loaded' = loaded
      /\ storageFault' \in BOOLEAN /\ transientFault' \in BOOLEAN
      /\ storageFault => storageFault'
  BY <1>1 DEF SP!ReadFails, SP!ReadRaises, SP!CancelRead, SP!Refuse, SP!RefuseForever,
              SP!FaultForever, SP!stateVars, stateVars
<1> QED
  BY <1>2, StillEffect

\* What becomes of a candidate.
LEMMA PersistCases ==
    ASSUME NEW c, NEW p, NEW r, SP!Persist(c, p, r)
    PROVE  /\ disk' \in {disk, c}
           /\ snap' = snap \/ (snap' = c /\ disk' = c)
           /\ storageFault => storageFault'
  BY DEF SP!Persist, SP!Refuse, SP!stateVars

\* A candidate with the binding of the file, in the same or the next generation.
LEMMA CarryingEffect ==
    ASSUME StateOK, SP!Writing, NEW c, NEW p, NEW r, SP!Persist(c, p, r),
           c.integrity = disk.integrity,
           disk.manual # None => c.manual # None /\ c.manual.attempt = disk.manual.attempt
    PROVE  StateStep /\ NoHiddenFault
<1>1. /\ StateOK'
      /\ loaded' = loaded
      /\ disk.integrity => disk'.integrity
      /\ snap.integrity => snap'.integrity
      /\ snap' = snap \/ snap' = disk'
  BY WritingEffect
<1>2. /\ disk' \in {disk, c}
      /\ snap' = snap \/ (snap' = c /\ disk' = c)
      /\ storageFault => storageFault'
  BY PersistCases
<1>3. \A a : Names(a) => Names(a)'
  BY <1>2 DEF Names
<1>4. disk.manual # None => disk'.manual # None
  BY <1>2
<1>5. NoHiddenFault
  BY <1>2 DEF NoHiddenFault
<1> QED
  BY <1>1, <1>2, <1>3, <1>4, <1>5 DEF StateStep, StateKeeps

\* Saving a new binding for the attempt loses neither binding nor fault.
LEMMA UpdateManualBindingEffect ==
    ASSUME StateOK, NEW a \in Nat, NEW v \in Nat \ {0},
           NEW x \in State!Resolutions \cup {None}, NEW r,
           State!UpdateManualBinding(a, v, x, r)
    PROVE  StateStep /\ NoHiddenFault
<1> DEFINE b == [attempt |-> a, revision |-> v,
                 generation |-> disk.generation, resolution |-> x]
           c == [disk EXCEPT !.manual = b]
           bound == disk.manual # None /\ disk.manual.attempt = a
<1>1. SP!UpdateManualBinding(a, v, x, r)
  BY UpdateManualBindingBridge
<1>2. CASE bound /\ SP!Persist(c, TRUE, r)
  <2>1. CASE loaded
    <3>1. v \in SP!Positive /\ x \in SP!Resolutions \cup {None}
      BY DEF SP!Positive, SP!Resolutions, State!Resolutions
    <3>2. SP!Writing
      BY <1>1, <2>1, <3>1, SP!UpdateManualBindingIsWriting, Constants DEF StateOK
    <3>3. b # None
      <4>1. b \in SP!ManualBindings
        BY <3>1 DEF StateOK, SP!Inv, SP!TypeOK, SP!Snapshots, SP!ManualBindings
      <4> QED
        BY <4>1, Constants DEF SP!StateConstants
    <3>4. b.attempt = a
      OBVIOUS
    <3> HIDE DEF b
    <3>5. c.manual = b /\ c.integrity = disk.integrity
      BY DEF StateOK, SP!Inv, SP!TypeOK, SP!Snapshots
    <3> HIDE DEF c
    <3> QED
      BY <1>2, <3>2, <3>3, <3>4, <3>5, CarryingEffect
  <2>2. CASE ~loaded
    <3>1. UNCHANGED stateVars
      BY <1>2, <2>2, UnloadedPersist
    <3> QED
      BY <3>1, FailedBeforeSave
  <2> QED
    BY <2>1, <2>2
<1>3. CASE SP!ReadRaises(r) \/ SP!CancelRead(r) \/ SP!RefuseForever(r)
  BY <1>3, FailedBeforeSave
<1> QED
  BY <1>1, <1>2, <1>3 DEF SP!UpdateManualBinding

\* The operations of a preparation.
LEMMA CarriedByPreparation ==
    ASSUME StateOK
    PROVE  LET m == SP!AtGeneration(disk.manual, SP!NextGeneration)
           IN  disk.manual # None => m # None /\ m.attempt = disk.manual.attempt
<1>1. disk.manual # None => disk.manual \in SP!ManualBindings
  BY DEF StateOK, SP!Inv, SP!TypeOK, SP!Snapshots
<1>2. SP!NextGeneration \in SP!Positive
  BY SP!NextGenerationAbove, Constants DEF StateOK, SP!Inv
<1> QED
  BY <1>1, <1>2, Carried

\* Nor does the latch of a preparation,
LEMMA LatchPreparationEffect ==
    ASSUME StateOK, NEW a \in Nat, NEW v \in Nat \ {0}, NEW x \in Expectations, NEW r,
           State!LatchPreparationReconciliation(a, v, x, r)
    PROVE  StateStep /\ NoHiddenFault
<1> DEFINE c == [generation  |-> SP!NextGeneration,
                 integrity   |-> disk.integrity,
                 manual      |-> SP!AtGeneration(disk.manual, SP!NextGeneration),
                 preparation |-> [attempt |-> a, revision |-> v,
                                  generation |-> SP!NextGeneration,
                                  expectation |-> x]]
<1>1. SP!LatchPreparationReconciliation(a, v, x, r)
  BY LatchPreparationBridge
<1>2. CASE SP!Persist(c, TRUE, r)
  <2>1. CASE loaded
    <3>1. v \in SP!Positive
      BY DEF SP!Positive
    <3>2. SP!Writing
      BY <1>1, <2>1, <3>1, SP!LatchPreparationIsWriting, Constants DEF StateOK
    <3>3. /\ c.integrity = disk.integrity
          /\ c.manual = SP!AtGeneration(disk.manual, SP!NextGeneration)
      OBVIOUS
    <3> HIDE DEF c
    <3>4. disk.manual # None => c.manual # None /\ c.manual.attempt = disk.manual.attempt
      BY <3>3, CarriedByPreparation
    <3> QED
      BY <1>2, <3>2, <3>3, <3>4, CarryingEffect
  <2>2. CASE ~loaded
    <3>1. UNCHANGED stateVars
      BY <1>2, <2>2, UnloadedPersist
    <3> QED
      BY <3>1, FailedBeforeSave
  <2> QED
    BY <2>1, <2>2
<1>3. CASE SP!ReadRaises(r) \/ SP!CancelRead(r) \/ SP!RefuseForever(r)
  BY <1>3, FailedBeforeSave
<1> QED
  BY <1>1, <1>2, <1>3 DEF SP!LatchPreparationReconciliation

\* or its clear.
LEMMA ClearPreparationEffect ==
    ASSUME StateOK, NEW a, NEW x, NEW r, State!ClearPreparationReconciliation(a, x, r)
    PROVE  StateStep /\ NoHiddenFault
<1> DEFINE c == [generation  |-> SP!NextGeneration,
                 integrity   |-> disk.integrity,
                 manual      |-> SP!AtGeneration(disk.manual, SP!NextGeneration),
                 preparation |-> None]
<1>1. SP!ClearPreparationReconciliation(a, x, r)
  BY ClearPreparationBridge
<1>2. CASE SP!Persist(c, FALSE, r)
  <2>1. CASE loaded
    <3>1. SP!Writing
      BY <1>1, <2>1, SP!ClearPreparationIsWriting, Constants DEF StateOK
    <3>2. /\ c.integrity = disk.integrity
          /\ c.manual = SP!AtGeneration(disk.manual, SP!NextGeneration)
      OBVIOUS
    <3> HIDE DEF c
    <3>3. disk.manual # None => c.manual # None /\ c.manual.attempt = disk.manual.attempt
      BY <3>2, CarriedByPreparation
    <3> QED
      BY <1>2, <3>1, <3>2, <3>3, CarryingEffect
  <2>2. CASE ~loaded
    <3>1. UNCHANGED stateVars
      BY <1>2, <2>2, UnloadedPersist
    <3> QED
      BY <3>1, FailedBeforeSave
  <2> QED
    BY <2>1, <2>2
<1>3. CASE SP!ReadRaises(r) \/ SP!CancelRead(r) \/ SP!Refuse(r)
  BY <1>3, FailedBeforeSave
<1> QED
  BY <1>1, <1>2, <1>3 DEF SP!ClearPreparationReconciliation

\* The re-read changes nothing and ends well only while the authority is current.
LEMMA AssertCurrentEffect ==
    ASSUME StateOK, NEW g, NEW r, State!AssertCurrent(g, r)
    PROVE  /\ disk' = disk /\ snap' = snap
           /\ StateStep /\ NoHiddenFault
           /\ r \in Ends
           /\ r = "ok" => UNCHANGED stateVars /\ State!AuthorityIsCurrent(g)
<1>1. CASE SP!ReadFails(r) \/ SP!CancelRead(r) \/ SP!Refuse(r)
  <2>1. r # "ok" /\ r \in Ends
    BY <1>1 DEF SP!ReadFails, SP!CancelRead, SP!Refuse, Ends
  <2> QED
    BY <1>1, <2>1, FailedBeforeSave
<1>2. CASE r = "ok" /\ State!AuthorityIsCurrent(g) /\ UNCHANGED stateVars
  BY <1>2, FailedBeforeSave DEF Ends
<1> QED
  BY <1>1, <1>2, AssertCurrentBridge
     DEF SP!AssertCurrent, SP!AuthorityIsCurrent, State!AuthorityIsCurrent,
         SP!stateVars, stateVars

\* Clearing changes an image only where both name the attempt and hold no fault.
LEMMA ClearManualCheckEffect ==
    ASSUME StateOK, NEW a \in Nat, NEW v \in Nat \ {0}, NEW x \in State!Resolutions, NEW r,
           State!ClearManualCheck(a, v, x, snap.generation, r)
    PROVE  /\ StateKeeps
           /\ NoHiddenFault
           /\ r \in Ends
           /\ \/ disk' = disk /\ snap' = snap /\ (\A b : Names(b) => Names(b)') /\ r # "ok"
              \/ /\ ~disk.integrity /\ ~snap.integrity /\ ~storageFault
                 /\ Names(a)
                 /\ disk.manual.resolution = x
                 /\ ~disk'.integrity /\ ~snap'.integrity
<1> DEFINE expected == [attempt |-> a, revision |-> v,
                        generation |-> snap.generation, resolution |-> x]
           exact == /\ ~disk.integrity
                    /\ ~snap.integrity
                    /\ disk.manual = expected
                    /\ snap.manual = expected
                    /\ disk.generation = snap.generation
           c == [generation  |-> SP!Larger(snap.generation, disk.generation),
                 integrity   |-> FALSE,
                 manual      |-> None,
                 preparation |-> disk.preparation]
<1>0. x # None
  BY ManagerConstants
<1>1. SP!ClearManualCheck(a, v, x, snap.generation, r)
  BY ClearManualCheckBridge
<1>6. r \in Ends
  BY <1>1 DEF SP!ClearManualCheck, SP!Persist, SP!Refuse, SP!ReadFails, SP!CancelRead, Ends
<1>2. CASE exact /\ SP!Persist(c, FALSE, r) /\ loaded /\ ~storageFault
  <2>1. SP!Writing
    BY <1>1, <1>2, <1>0, SP!ClearManualCheckIsWriting, Constants DEF StateOK
  <2>2. /\ StateOK'
        /\ loaded' = loaded
        /\ disk.integrity => disk'.integrity
        /\ snap.integrity => snap'.integrity
    BY <2>1, WritingEffect
  <2>3. /\ disk' \in {disk, c}
        /\ snap' = snap \/ (snap' = c /\ disk' = c)
        /\ storageFault => storageFault'
    BY <1>2, PersistCases
  <2>4. ~c.integrity /\ expected.attempt = a /\ expected.resolution = x
    OBVIOUS
  <2>5. expected # None
    <3>1. expected \in State!ManualBindings
      BY DEF StateOK, SP!Inv, SP!TypeOK, SP!Snapshots, SP!Positive,
             State!ManualBindings, State!Positive
    <3> QED
      BY <3>1, Constants
  <2> HIDE DEF c, expected
  <2>6. ~disk.integrity /\ ~snap.integrity /\ ~disk'.integrity /\ ~snap'.integrity
    BY <1>2, <2>3, <2>4
  <2>7. Names(a) /\ disk.manual.resolution = x
    BY <1>2, <2>4, <2>5 DEF Names
  <2> QED
    BY <1>2, <1>6, <2>2, <2>3, <2>6, <2>7 DEF StateKeeps, NoHiddenFault
<1>3. CASE SP!Persist(c, FALSE, r) /\ ~(loaded /\ ~storageFault)
  <2>1. UNCHANGED stateVars /\ r # "ok"
    BY <1>3 DEF SP!Persist, SP!Refuse, SP!stateVars, stateVars
  <2> QED
    BY <1>6, <2>1, FailedBeforeSave DEF StateStep, stateVars
<1>4. CASE SP!ReadFails(r) \/ SP!CancelRead(r) \/ SP!Refuse(r)
  <2>1. r # "ok"
    BY <1>4 DEF SP!ReadFails, SP!CancelRead, SP!Refuse
  <2> QED
    BY <1>4, <1>6, <2>1, FailedBeforeSave DEF StateStep
<1>5. \/ exact /\ SP!Persist(c, FALSE, r)
      \/ SP!ReadFails(r) \/ SP!CancelRead(r) \/ SP!Refuse(r)
  BY <1>1 DEF SP!ClearManualCheck
<1> HIDE DEF exact, c, expected
<1> QED
  BY <1>2, <1>3, <1>4, <1>5, <1>6

(***************************************************************************)
(* The operations of AttemptJournal.                                       *)
(***************************************************************************)
Readable == journalLoaded /\ ~corrupt

\* A list in which attempt a has moved on to state s and nothing else differs.
Replaces(c, a, s) ==
    /\ a \in DOMAIN records
    /\ s \in Journal!Allowed(records[a].state) \/ (s = Journal!Manual /\ records[a].state = s)
    /\ DOMAIN c = DOMAIN records
    /\ \A b \in DOMAIN records : b # a => c[b] = records[b]
    /\ c[a].state = s
    /\ c[a].mode = records[a].mode
    /\ c[a].dispatched = (records[a].dispatched \/ s = "DISPATCHING")
    /\ c[a].revision = records[a].revision + 1

\* A list with a new draft, for which the oldest unprotected record may have gone.
Adds(c, a, mode) ==
    /\ a \notin DOMAIN records
    /\ a \in DOMAIN c
    /\ DOMAIN c \subseteq DOMAIN records \cup {a}
    /\ c[a] = Journal!Draft(mode)
    /\ \A b \in DOMAIN c : b # a => c[b] = records[b]
    /\ \A b \in DOMAIN records \ DOMAIN c :
          /\ ~Journal!Protected(records[b])
          /\ \A d \in DOMAIN records : ~Journal!Protected(records[d]) => b <= d
          /\ Cardinality(DOMAIN records) = MaxRecords

\* How a save of c may end.
Saves(c, r) ==
    /\ journal' = c
    /\ \/ r = "ok" /\ records' = c
       \/ r = "cancelled" /\ records' = records

JournalKeeps == JournalOK' /\ journalLoaded' = journalLoaded /\ corrupt' = corrupt

JournalStill == journal' = journal /\ records' = records

\* An operation on attempt a that takes it to state s.
Moves(a, s, r) ==
    /\ r \in Ends
    /\ JournalKeeps
    /\ \/ r # "ok" /\ JournalStill
       \/ Readable /\ \E c : Replaces(c, a, s) /\ Saves(c, r)

Creates(a, mode, r) ==
    /\ r \in Ends
    /\ JournalKeeps
    /\ \/ r # "ok" /\ JournalStill
       \/ Readable /\ \E c : Adds(c, a, mode) /\ Saves(c, r)

\* The two instances of AttemptJournal agree: they count alike,
LEMMA SizeBridge ==
    ASSUME NEW S
    PROVE  /\ Journal!Cardinality(S) = Cardinality(S)
           /\ JP!Cardinality(S) = Cardinality(S)
           /\ JP!IsFiniteSet(S) = IsFiniteSet(S)
<1>1. Journal!Cardinality(S) = Cardinality(S)
  BY DEF Journal!Cardinality, Cardinality
<1>2. JP!Cardinality(S) = Cardinality(S)
  BY DEF JP!Cardinality, Cardinality
<1>3. JP!IsFiniteSet(S) = IsFiniteSet(S)
  BY DEF JP!IsFiniteSet, IsFiniteSet
<1> QED
  BY <1>1, <1>2, <1>3

\* save alike,
LEMMA SaveBridge ==
    ASSUME NEW c, NEW r
    PROVE  Journal!Save(c, r) = JP!Save(c, r)
  BY DEF Journal!Save, JP!Save, Journal!JournalRefuse, JP!JournalRefuse,
         Journal!journalVars, JP!journalVars

\* call the states the same,
LEMMA NameBridge ==
    /\ Journal!Manual = JP!Manual /\ Journal!Integrity = JP!Integrity
    /\ Journal!LegacyMock = JP!LegacyMock
    /\ Journal!Preparing = JP!Preparing /\ Journal!InFlight = JP!InFlight
    /\ Journal!Confirmed = JP!Confirmed
    /\ Journal!Terminal = JP!Terminal
    /\ Journal!AdminResolutions = JP!AdminResolutions
  BY DEF Journal!Manual, JP!Manual, Journal!Integrity, JP!Integrity,
         Journal!LegacyMock, JP!LegacyMock, Journal!Preparing, JP!Preparing,
         Journal!InFlight, JP!InFlight, Journal!Confirmed, JP!Confirmed,
         Journal!Terminal, JP!Terminal, Journal!AdminResolutions, JP!AdminResolutions

\* accept the same records
LEMMA ValidBridge ==
    ASSUME NEW rec
    PROVE  Journal!Valid(rec) = JP!Valid(rec)
<1>1. \A s : Journal!ConfirmedBy(s) = JP!ConfirmedBy(s)
  BY DEF Journal!ConfirmedBy, JP!ConfirmedBy
<1>2. Journal!Unreviewed(rec) = JP!Unreviewed(rec)
  BY DEF Journal!Unreviewed, JP!Unreviewed
<1> QED
  BY <1>1, <1>2, NameBridge DEF Journal!Valid, JP!Valid

\* and write them alike;
LEMMA WriteBridge ==
    ASSUME NEW a, NEW new, NEW r
    PROVE  Journal!Write(a, new, r) = JP!Write(a, new, r)
  BY SaveBridge, ValidBridge
     DEF Journal!Write, JP!Write, Journal!JournalRefuse, JP!JournalRefuse,
         Journal!journalVars, JP!journalVars

\* a transition is the same in both,
LEMMA TransitionBridge ==
    ASSUME NEW a, NEW s, NEW k, NEW r
    PROVE  Journal!Transition(a, s, k, r) = JP!Transition(a, s, k, r)
<1>1. \A x : Journal!Allowed(x) = JP!Allowed(x)
  BY NameBridge DEF Journal!Allowed, JP!Allowed
<1>2. Journal!Metadata(s) = JP!Metadata(s)
  BY NameBridge DEF Journal!Metadata, JP!Metadata
<1>3. Journal!JournalRefuse(r) = JP!JournalRefuse(r)
  BY DEF Journal!JournalRefuse, JP!JournalRefuse, Journal!journalVars, JP!journalVars
<1> QED
  BY <1>1, <1>2, <1>3, WriteBridge DEF Journal!Transition, JP!Transition

\* so are the four ways to conclude or review,
LEMMA ConclusionBridge ==
    ASSUME NEW a, NEW v, NEW s, NEW k, NEW r
    PROVE  /\ Journal!RecordTerminal(a, v, s, k, r) = JP!RecordTerminal(a, v, s, k, r)
           /\ Journal!RecordReconciliation(a, v, s, r) = JP!RecordReconciliation(a, v, s, r)
           /\ Journal!ReviewUnknown(a, v, r) = JP!ReviewUnknown(a, v, r)
           /\ Journal!Resolve(a, v, s, r) = JP!Resolve(a, v, s, r)
<1>1. \A x, y : Journal!ByProvider(x, y) = JP!ByProvider(x, y)
  BY DEF Journal!ByProvider, JP!ByProvider, Journal!Outcome, JP!Outcome
<1>2. Journal!JournalRefuse(r) = JP!JournalRefuse(r)
  BY DEF Journal!JournalRefuse, JP!JournalRefuse, Journal!journalVars, JP!journalVars
<1>3. Journal!IsManual(a, v) = JP!IsManual(a, v)
  BY NameBridge DEF Journal!IsManual, JP!IsManual
<1>4. \A x : Journal!Outcome(x) = JP!Outcome(x)
  BY DEF Journal!Outcome, JP!Outcome
<1>5. Journal!RecordTerminal(a, v, s, k, r) = JP!RecordTerminal(a, v, s, k, r)
  BY <1>1, <1>2, WriteBridge DEF Journal!RecordTerminal, JP!RecordTerminal
<1>6. Journal!RecordReconciliation(a, v, s, r) = JP!RecordReconciliation(a, v, s, r)
  BY <1>1, <1>2, NameBridge, WriteBridge
     DEF Journal!RecordReconciliation, JP!RecordReconciliation
<1>7. Journal!ReviewUnknown(a, v, r) = JP!ReviewUnknown(a, v, r)
  BY <1>2, <1>3, WriteBridge DEF Journal!ReviewUnknown, JP!ReviewUnknown
<1>8. Journal!Resolve(a, v, s, r) = JP!Resolve(a, v, s, r)
  BY <1>2, <1>3, <1>4, NameBridge, WriteBridge DEF Journal!Resolve, JP!Resolve
<1> QED
  BY <1>5, <1>6, <1>7, <1>8

\* a new record
LEMMA CreateBridge ==
    ASSUME NEW a, NEW m, NEW r
    PROVE  Journal!Create(a, m, r) = JP!Create(a, m, r)
<1>1. Journal!Draft(m) = JP!Draft(m)
  BY DEF Journal!Draft, JP!Draft
<1>2. \A x : Journal!Protected(x) = JP!Protected(x)
  BY NameBridge DEF Journal!Protected, JP!Protected
<1>3. \A c : Journal!Bounded(c) = JP!Bounded(c)
  BY <1>2, SizeBridge DEF Journal!Bounded, JP!Bounded
<1>4. Journal!FullOfProtected(records) = JP!FullOfProtected(records)
  BY <1>2, SizeBridge DEF Journal!FullOfProtected, JP!FullOfProtected
<1>5. Journal!JournalRefuse(r) = JP!JournalRefuse(r)
  BY DEF Journal!JournalRefuse, JP!JournalRefuse, Journal!journalVars, JP!journalVars
<1> QED
  BY <1>1, <1>3, <1>4, <1>5, SaveBridge DEF Journal!Create, JP!Create

\* and the load.
LEMMA LoadBridge ==
    ASSUME NEW r
    PROVE  /\ Journal!LoadJournal(r) = JP!LoadJournal(r)
           /\ Journal!ForgetJournal = JP!ForgetJournal
<1>1. \A x : Journal!Recovered(x) = JP!Recovered(x)
  BY NameBridge DEF Journal!Recovered, JP!Recovered
<1>2. Journal!Normalized = JP!Normalized
  BY <1>1 DEF Journal!Normalized, JP!Normalized
<1>3. Journal!Loadable = JP!Loadable
  BY <1>1, SizeBridge, ValidBridge DEF Journal!Loadable, JP!Loadable
<1>4. Journal!NoRecords = JP!NoRecords
  BY DEF Journal!NoRecords, JP!NoRecords, Journal!Draft, JP!Draft
<1> QED
  BY <1>2, <1>3, <1>4
     DEF Journal!LoadJournal, JP!LoadJournal, Journal!ForgetJournal, JP!ForgetJournal

\* What the invariant says of a record, in the manager's words.
GoodEntry(rec) ==
    /\ rec.state \in Journal!States
    /\ rec.revision \in Nat \ {0}
    /\ rec.mode \in {"live", "mock"}
    /\ rec.dispatched \in BOOLEAN
    /\ rec.state \in Journal!InFlight => rec.dispatched
    /\ rec.state = Journal!Manual => rec.mode = "live" /\ rec.dispatched /\ rec.resolution = None
    /\ rec.state \in Journal!Confirmed /\ rec.mode = "live" =>
          rec.resolution \in State!Resolutions

\* A record that is good for the journal is good for the manager.
LEMMA RecordFacts ==
    ASSUME NEW rec, JP!GoodRecord(rec)
    PROVE  GoodEntry(rec)
<1>1. JP!States = Journal!States
  BY NameBridge DEF JP!States, Journal!States
<1>2. rec \in JP!Records /\ JP!Valid(rec)
  BY DEF JP!GoodRecord
<1>3. rec.state \in JP!InFlight => rec.dispatched
  BY <1>2 DEF JP!Valid
<1>4. rec.state = JP!Manual => rec.mode = "live" /\ rec.dispatched /\ rec.resolution = None
  BY <1>2 DEF JP!Valid
<1>5. rec.state \in JP!Confirmed /\ rec.mode = "live" => rec.resolution \in State!Resolutions
  BY <1>2 DEF JP!Valid, JP!ConfirmedBy, State!Resolutions
<1> QED
  BY <1>1, <1>2, <1>3, <1>4, <1>5, NameBridge DEF JP!Records, GoodEntry

\* What the journal's invariant says of its two lists.
LEMMA ListFacts ==
    ASSUME JournalOK
    PROVE  /\ DOMAIN records \subseteq Nat /\ DOMAIN journal \subseteq Nat
           /\ IsFiniteSet(DOMAIN records) /\ IsFiniteSet(DOMAIN journal)
           /\ Cardinality(DOMAIN records) <= MaxRecords
           /\ \A a \in DOMAIN records : GoodEntry(records[a])
           /\ \A a \in DOMAIN journal : GoodEntry(journal[a])
           /\ journalLoaded \in BOOLEAN /\ corrupt \in BOOLEAN
  BY RecordFacts, SizeBridge
     DEF JournalOK, JP!Inv, JP!GoodList, JP!Sized, JP!Attempts

\* A save that goes through is one of Saves; any other changes nothing.
LEMMA SaveOutcome ==
    ASSUME NEW c, NEW r, JP!Save(c, r)
    PROVE  /\ r \in Ends
           /\ \/ r # "ok" /\ JournalStill
              \/ Readable /\ Saves(c, r)
  BY DEF JP!Save, JP!JournalRefuse, JP!journalVars, JournalStill, Readable, Saves, Ends

\* A writing call keeps the journal's invariant and its flags.
LEMMA WritingKeeps ==
    ASSUME JournalOK, JP!Writing
    PROVE  JournalKeeps
<1>1. JournalOK'
  BY JP!WritingKeepsInv, Constants DEF JournalOK
<1> QED
  BY <1>1 DEF JournalKeeps, JP!Writing

\* A write of a record changes that record alone, or nothing.
LEMMA WriteOutcome ==
    ASSUME NEW a \in DOMAIN records, NEW new, NEW r, JP!Write(a, new, r)
    PROVE  /\ r \in Ends
           /\ \/ r # "ok" /\ JournalStill
              \/ Readable /\ Saves([records EXCEPT ![a] = new], r)
<1>1. CASE JP!Save([records EXCEPT ![a] = new], r)
  BY <1>1, SaveOutcome
<1>2. CASE JP!JournalRefuse(r)
  BY <1>2 DEF JP!JournalRefuse, JP!journalVars, JournalStill, Ends
<1> QED
  BY <1>1, <1>2 DEF JP!Write

\* So it moves the attempt on if the new record is one further;
LEMMA WriteMoves ==
    ASSUME JournalOK, JP!Writing, NEW a \in DOMAIN records, NEW new, NEW s, NEW r,
           JP!Write(a, new, r),
           s \in Journal!Allowed(records[a].state) \/ (s = Journal!Manual /\ records[a].state = s),
           new.state = s, new.mode = records[a].mode,
           new.dispatched = (records[a].dispatched \/ s = "DISPATCHING"),
           new.revision = records[a].revision + 1
    PROVE  Moves(a, s, r) /\ (r = "ok" => records'[a] = new)
<1> DEFINE c == [records EXCEPT ![a] = new]
<1>1. /\ r \in Ends
      /\ \/ r # "ok" /\ JournalStill
         \/ Readable /\ Saves(c, r)
  BY WriteOutcome
<1>2. /\ DOMAIN c = DOMAIN records
      /\ \A b \in DOMAIN records : b # a => c[b] = records[b]
      /\ c[a] = new
  OBVIOUS
<1> HIDE DEF c
<1>3. Replaces(c, a, s)
  BY <1>2 DEF Replaces
<1>4. JournalKeeps
  BY WritingKeeps
<1>5. r = "ok" => records'[a] = new
  BY <1>1, <1>2 DEF Saves
<1> QED
  BY <1>1, <1>3, <1>4, <1>5 DEF Moves

\* a refusal moves nothing.
LEMMA RefusalMoves ==
    ASSUME JournalOK, JP!Writing, NEW a, NEW s, NEW r, JP!JournalRefuse(r)
    PROVE  Moves(a, s, r) /\ r # "ok"
  BY WritingKeeps DEF JP!JournalRefuse, JP!journalVars, Moves, JournalStill, Ends

\* Where a record may go from where it is.
LEMMA AllowedFacts ==
    ASSUME NEW x, NEW s,
           s \in Journal!Allowed(x) \/ (s = Journal!Manual /\ x = s)
    PROVE  /\ x \notin Journal!Terminal
           /\ x \in Journal!InFlight =>
                 s = "VERIFYING" \/ s = Journal!Manual \/ s \in Journal!Terminal
           /\ x = Journal!Manual =>
                 s = Journal!Manual \/ s = Journal!Integrity \/ s \in Journal!Confirmed
           /\ s = Journal!Manual => x \in Journal!InFlight \cup {Journal!Manual}
           /\ s = "DISPATCHING" => x \in {"QUOTED", "RESERVED"}
           /\ s \in Journal!Confirmed => x \in Journal!InFlight \cup {Journal!Manual}
  BY DEF Journal!Allowed, Journal!Terminal, Journal!Confirmed, Journal!LegacyMock,
         Journal!Integrity, Journal!Manual, Journal!InFlight

\* Which states of an attempt exclude each other.
LEMMA StateNames ==
    /\ Journal!Manual \notin Journal!InFlight \cup Journal!Terminal
    /\ Journal!Integrity \in Journal!Terminal
    /\ Journal!Integrity \notin Journal!InFlight \cup Journal!Confirmed
    /\ Journal!Confirmed \subseteq Journal!Terminal
    /\ Journal!InFlight \cap Journal!Terminal = {}
    /\ Journal!LegacyMock \notin Journal!Confirmed \cup Journal!InFlight
    /\ Journal!LegacyMock # Journal!Integrity /\ Journal!LegacyMock # Journal!Manual
    /\ "DISPATCHING" \in Journal!InFlight
    /\ {"QUOTED", "RESERVED", "DRAFT"} \cap
         (Journal!InFlight \cup Journal!Terminal \cup {Journal!Manual}) = {}
  BY DEF Journal!Terminal, Journal!Confirmed, Journal!LegacyMock,
         Journal!Integrity, Journal!Manual, Journal!InFlight

\* A transition moves an attempt on, or changes nothing.
LEMMA TransitionEffect ==
    ASSUME JournalOK, NEW a, NEW s, NEW k \in BOOLEAN, NEW r, Journal!Transition(a, s, k, r)
    PROVE  Moves(a, s, r)
<1>1. JP!Transition(a, s, k, r)
  BY TransitionBridge
<1>2. JP!Writing
  BY <1>1, JP!TransitionIsWriting, Constants DEF JournalOK
<1>3. CASE JP!JournalRefuse(r)
  BY <1>2, <1>3, RefusalMoves
<1>4. CASE ~JP!JournalRefuse(r)
  <2> DEFINE new == [records[a] EXCEPT
                      !.state = s,
                      !.revision = @ + 1,
                      !.dispatched = (@ \/ s = "DISPATCHING"),
                      !.failure = JP!Metadata(s).failure,
                      !.resolution = JP!Metadata(s).resolution,
                      !.evidence = JP!Metadata(s).evidence,
                      !.checkout = (@ \/ k)]
  <2>1. a \in DOMAIN records /\ s \in JP!Allowed(records[a].state) /\ JP!Write(a, new, r)
    BY <1>1, <1>4 DEF JP!Transition
  <2>2. records[a] \in JP!Records
    BY <2>1 DEF JournalOK, JP!Inv, JP!GoodList, JP!GoodRecord
  <2>3. /\ new.state = s /\ new.mode = records[a].mode
        /\ new.dispatched = (records[a].dispatched \/ s = "DISPATCHING")
        /\ new.revision = records[a].revision + 1
    BY <2>2 DEF JP!Records
  <2> HIDE DEF new
  <2>4. s \in Journal!Allowed(records[a].state)
    BY <2>1, NameBridge DEF Journal!Allowed, JP!Allowed
  <2> QED
    BY <1>2, <2>1, <2>3, <2>4, WriteMoves
<1> QED
  BY <1>3, <1>4

\* Both outcomes are conclusions, whatever state they are reached from.
LEMMA OutcomeFacts ==
    ASSUME NEW s
    PROVE  /\ JP!Outcome(s) = Journal!Outcome(s)
           /\ Journal!Outcome(s) \in Journal!Confirmed
           /\ Journal!Outcome(s) \in Journal!Allowed("DISPATCHING")
           /\ Journal!Outcome(s) \in Journal!Allowed(Journal!Manual)
           /\ Journal!Outcome(s) # "DISPATCHING"
  BY DEF JP!Outcome, Journal!Outcome, Journal!Confirmed, Journal!Allowed, Journal!Terminal,
         Journal!Manual

\* What the provider's answer makes of a record.
LEMMA ProviderFacts ==
    ASSUME NEW rec \in JP!Records, NEW s
    PROVE  /\ JP!ByProvider(rec, s).state = Journal!Outcome(s)
           /\ JP!ByProvider(rec, s).mode = rec.mode
           /\ JP!ByProvider(rec, s).dispatched = rec.dispatched
           /\ JP!ByProvider(rec, s).revision = rec.revision + 1
           /\ JP!ByProvider(rec, s).resolution = ProviderResolution(s)
           /\ JP!ByProvider(rec, s).reviewed = TRUE
           /\ JP!ByProvider(rec, s).evidence = "provider_response"
           /\ JP!ByProvider(rec, s) \in JP!Records \/ s \notin BOOLEAN
<1>1. s \in BOOLEAN => JP!ByProvider(rec, s) \in JP!Records
  BY JP!ByProviderIsRecord, Constants
<1>2. JP!ByProvider(rec, s) =
        [rec EXCEPT !.state = Journal!Outcome(s), !.revision = @ + 1, !.reviewed = TRUE,
                    !.resolution = ProviderResolution(s), !.evidence = "provider_response"]
  BY OutcomeFacts DEF JP!ByProvider, ProviderResolution
<1>3. rec \in JP!Records
  OBVIOUS
<1> QED
  BY <1>1, <1>2, <1>3 DEF JP!Records

\* The answer to a POST concludes its attempt; it is not refused for a record that waits
\* for it.
LEMMA RecordTerminalEffect ==
    ASSUME JournalOK, NEW a, NEW n, NEW s \in BOOLEAN, NEW k \in BOOLEAN, NEW r,
           Journal!RecordTerminal(a, n, s, k, r)
    PROVE  /\ Moves(a, Journal!Outcome(s), r)
           /\ Readable /\ a \in DOMAIN records /\ records[a].mode = "live"
                /\ records[a].state = "DISPATCHING" /\ records[a].revision = n
              => r # "refused"
<1>1. JP!RecordTerminal(a, n, s, k, r)
  BY ConclusionBridge
<1>2. JP!Writing
  BY <1>1, JP!RecordTerminalIsWriting, Constants DEF JournalOK
<1> DEFINE ok == /\ a \in DOMAIN records
                 /\ records[a].mode = "live"
                 /\ records[a].state = "DISPATCHING"
                 /\ records[a].revision = n
           base == JP!ByProvider(records[a], s)
           new == [base EXCEPT !.failure = TRUE, !.checkout = k]
<1>3. CASE ~ok
  BY <1>1, <1>2, <1>3, RefusalMoves DEF JP!RecordTerminal
<1>4. CASE ok
  <2>1. JP!Write(a, new, r)
    BY <1>1, <1>4 DEF JP!RecordTerminal
  <2>2. records[a] \in JP!Records /\ records[a].dispatched
    BY <1>4, ListFacts
       DEF JournalOK, JP!Inv, JP!GoodList, JP!GoodRecord, GoodEntry, Journal!InFlight
  <2>3. base \in JP!Records
    BY <2>2, ProviderFacts
  <2>4. /\ base.state = Journal!Outcome(s) /\ base.mode = records[a].mode
        /\ base.dispatched = records[a].dispatched /\ base.revision = records[a].revision + 1
        /\ base.resolution = ProviderResolution(s) /\ base.reviewed
        /\ base.evidence = "provider_response"
    BY <2>2, ProviderFacts
  <2> HIDE DEF base
  <2>5. /\ new.state = Journal!Outcome(s) /\ new.mode = records[a].mode
        /\ new.dispatched = records[a].dispatched /\ new.revision = records[a].revision + 1
        /\ new.resolution = ProviderResolution(s) /\ new.reviewed /\ new.failure
        /\ new.evidence = "provider_response"
    BY <2>3, <2>4 DEF JP!Records
  <2> HIDE DEF new
  <2>6. JP!Valid(new)
    BY <1>4, <2>5
       DEF JP!Valid, JP!ConfirmedBy, Journal!Outcome, ProviderResolution, JP!Preparing,
           JP!InFlight, JP!Manual, JP!Confirmed, JP!LegacyMock, JP!Integrity
  <2>7. Readable => r # "refused"
    BY <2>1, <2>6 DEF JP!Write, JP!Save, Readable
  <2>8. Moves(a, Journal!Outcome(s), r)
    BY <1>2, <1>4, <2>1, <2>2, <2>5, OutcomeFacts, WriteMoves
  <2> QED
    BY <2>7, <2>8
<1> QED
  BY <1>3, <1>4

\* A status GET concludes its attempt with what the provider said.
LEMMA RecordReconciliationEffect ==
    ASSUME JournalOK, NEW a, NEW n, NEW s \in BOOLEAN, NEW r,
           Journal!RecordReconciliation(a, n, s, r)
    PROVE  /\ Moves(a, Journal!Outcome(s), r)
           /\ r = "ok" => records'[a].resolution = ProviderResolution(s)
<1>1. JP!RecordReconciliation(a, n, s, r)
  BY ConclusionBridge
<1>2. JP!Writing
  BY <1>1, JP!RecordReconciliationIsWriting, Constants DEF JournalOK
<1> DEFINE ok == /\ a \in DOMAIN records
                 /\ records[a].mode = "live"
                 /\ records[a].state = JP!Manual
                 /\ records[a].revision = n
                 /\ records[a].checkout
           new == JP!ByProvider(records[a], s)
<1>3. CASE ~ok
  BY <1>1, <1>2, <1>3, RefusalMoves DEF JP!RecordReconciliation
<1>4. CASE ok
  <2>1. JP!Write(a, new, r)
    BY <1>1, <1>4 DEF JP!RecordReconciliation
  <2>2. records[a] \in JP!Records /\ records[a].dispatched \in BOOLEAN
    BY <1>4 DEF JournalOK, JP!Inv, JP!GoodList, JP!GoodRecord, JP!Records
  <2>3. /\ new.state = Journal!Outcome(s) /\ new.mode = records[a].mode
        /\ new.dispatched = records[a].dispatched /\ new.revision = records[a].revision + 1
        /\ new.resolution = ProviderResolution(s)
    BY <2>2, ProviderFacts
  <2> HIDE DEF new
  <2>4. records[a].state = Journal!Manual
    BY <1>4, NameBridge
  <2> QED
    BY <1>2, <1>4, <2>1, <2>2, <2>3, <2>4, OutcomeFacts, WriteMoves
<1> QED
  BY <1>3, <1>4

\* An inconclusive review moves an unresolved attempt to where it is, or changes nothing.
LEMMA ReviewUnknownEffect ==
    ASSUME JournalOK, NEW a, NEW n, NEW r, Journal!ReviewUnknown(a, n, r)
    PROVE  /\ Moves(a, Journal!Manual, r)
           /\ records[a].state = Journal!Manual \/ JournalStill
<1>1. JP!ReviewUnknown(a, n, r)
  BY ConclusionBridge
<1>2. JP!Writing
  BY <1>1, JP!ReviewUnknownIsWriting, Constants DEF JournalOK
<1> DEFINE new == [records[a] EXCEPT !.reviewed = TRUE, !.revision = @ + 1]
<1>3. CASE ~JP!IsManual(a, n)
  <2>1. JP!JournalRefuse(r)
    BY <1>1, <1>3 DEF JP!ReviewUnknown
  <2>2. JournalStill
    BY <2>1 DEF JP!JournalRefuse, JP!journalVars, JournalStill
  <2> QED
    BY <1>2, <2>1, <2>2, RefusalMoves
<1>4. CASE JP!IsManual(a, n)
  <2>1. JP!Write(a, new, r)
    BY <1>1, <1>4 DEF JP!ReviewUnknown
  <2>2. a \in DOMAIN records /\ records[a] \in JP!Records
    BY <1>4 DEF JP!IsManual, JournalOK, JP!Inv, JP!GoodList, JP!GoodRecord
  <2>3. /\ new.state = records[a].state /\ new.mode = records[a].mode
        /\ new.dispatched = records[a].dispatched /\ new.revision = records[a].revision + 1
        /\ records[a].dispatched \in BOOLEAN
    BY <2>2 DEF JP!Records
  <2> HIDE DEF new
  <2>4. records[a].state = Journal!Manual /\ Journal!Manual # "DISPATCHING"
    BY <1>4, NameBridge DEF JP!IsManual, Journal!Manual
  <2> QED
    BY <1>2, <2>1, <2>2, <2>3, <2>4, WriteMoves
<1> QED
  BY <1>3, <1>4

\* A resolution concludes its attempt with what the administrator said.
LEMMA ResolveEffect ==
    ASSUME JournalOK, NEW a, NEW n, NEW x, NEW r, Journal!Resolve(a, n, x, r)
    PROVE  /\ Moves(a, Journal!Outcome(x = "found_succeeded"), r)
           /\ r = "ok" => records'[a].resolution = x
<1>1. JP!Resolve(a, n, x, r)
  BY ConclusionBridge
<1>2. JP!Writing
  BY <1>1, JP!ResolveIsWriting, Constants DEF JournalOK
<1> DEFINE ok == JP!IsManual(a, n) /\ x \in JP!AdminResolutions
           new == [records[a] EXCEPT
                     !.state = JP!Outcome(x = "found_succeeded"),
                     !.revision = @ + 1,
                     !.reviewed = TRUE,
                     !.resolution = x,
                     !.evidence = "admin_review"]
<1>3. CASE ~ok
  BY <1>1, <1>2, <1>3, RefusalMoves DEF JP!Resolve
<1>4. CASE ok
  <2>1. JP!Write(a, new, r)
    BY <1>1, <1>4 DEF JP!Resolve
  <2>2. a \in DOMAIN records /\ records[a] \in JP!Records
    BY <1>4 DEF JP!IsManual, JournalOK, JP!Inv, JP!GoodList, JP!GoodRecord
  <2>3. /\ new.state = JP!Outcome(x = "found_succeeded") /\ new.mode = records[a].mode
        /\ new.dispatched = records[a].dispatched /\ new.revision = records[a].revision + 1
        /\ new.resolution = x
        /\ records[a].dispatched \in BOOLEAN
    BY <2>2 DEF JP!Records
  <2> HIDE DEF new
  <2>4. records[a].state = Journal!Manual
    BY <1>4, NameBridge DEF JP!IsManual
  <2> QED
    BY <1>2, <2>1, <2>2, <2>3, <2>4, OutcomeFacts, WriteMoves
<1> QED
  BY <1>3, <1>4

\* A list that is one record too long loses its oldest unprotected record.
LEMMA BoundedEffect ==
    ASSUME NEW recs, DOMAIN recs \subseteq Nat, IsFiniteSet(DOMAIN recs),
           NEW x \in DOMAIN recs, ~JP!Protected(recs[x])
    PROVE  /\ DOMAIN JP!Bounded(recs) \subseteq DOMAIN recs
           /\ \A b \in DOMAIN JP!Bounded(recs) : JP!Bounded(recs)[b] = recs[b]
           /\ \A b \in DOMAIN recs \ DOMAIN JP!Bounded(recs) :
                 /\ ~JP!Protected(recs[b])
                 /\ \A d \in DOMAIN recs : ~JP!Protected(recs[d]) => b <= d
                 /\ Cardinality(DOMAIN recs) > MaxRecords
<1>0. Cardinality(DOMAIN recs) \in Nat /\ MaxRecords \in Nat
  BY FS_CardinalityType, Constants
<1>1. CASE Cardinality(DOMAIN recs) <= MaxRecords
  BY <1>1, SizeBridge DEF JP!Bounded
<1>2. CASE ~(Cardinality(DOMAIN recs) <= MaxRecords)
  <2> DEFINE removable == {a \in DOMAIN recs : ~JP!Protected(recs[a])}
             oldest == CHOOSE a \in removable : \A b \in removable : a <= b
             kept == [a \in DOMAIN recs \ {oldest} |-> recs[a]]
  <2>1. JP!Bounded(recs) = kept
    BY <1>2, SizeBridge DEF JP!Bounded
  <2>2. removable \in SUBSET JP!Attempts /\ removable # {}
    BY DEF JP!Attempts
  <2>3. \E a \in removable : \A b \in removable : a <= b
    <3> HIDE DEF removable
    <3> QED
      BY <2>2, JP!OldestExists, Constants
  <2>4. oldest \in removable /\ \A b \in removable : oldest <= b
    BY <2>3
  <2>5. /\ oldest \in DOMAIN recs /\ ~JP!Protected(recs[oldest])
        /\ \A d \in DOMAIN recs : ~JP!Protected(recs[d]) => oldest <= d
    BY <2>4
  <2> HIDE DEF oldest
  <2>6. DOMAIN kept = DOMAIN recs \ {oldest} /\ \A a \in DOMAIN kept : kept[a] = recs[a]
    OBVIOUS
  <2> HIDE DEF kept
  <2> QED
    BY <1>0, <1>2, <2>1, <2>5, <2>6
<1> QED
  BY <1>1, <1>2

\* A new record keeps the journal's invariant,
LEMMA CreateKeeps ==
    ASSUME JournalOK, NEW a \in Nat, NEW m \in {"live", "mock"}, NEW r,
           Journal!Create(a, m, r)
    PROVE  JournalKeeps
<1>1. JP!Writing
  BY CreateBridge, JP!CreateIsWriting, Constants DEF JournalOK, JP!Attempts
<1> QED
  BY <1>1, WritingKeeps

\* and at most the oldest unprotected record goes for it.
LEMMA CreateEffect ==
    ASSUME JournalOK, NEW a \in Nat, \A b \in DOMAIN records : b < a,
           NEW m \in {"live", "mock"}, NEW r, Journal!Create(a, m, r)
    PROVE  Creates(a, m, r)
<1> DEFINE c == [b \in DOMAIN records \cup {a} |-> IF b = a THEN JP!Draft(m) ELSE records[b]]
<1>1. JP!Create(a, m, r)
  BY CreateBridge
<1>2. JournalKeeps
  BY CreateKeeps
<1>3. CASE a \in DOMAIN records \/ JP!FullOfProtected(records)
  <2>1. JP!JournalRefuse(r)
    BY <1>1, <1>3 DEF JP!Create
  <2> QED
    BY <1>2, <2>1 DEF Creates, JP!JournalRefuse, JP!journalVars, JournalStill, Ends
<1>4. CASE ~(a \in DOMAIN records \/ JP!FullOfProtected(records))
  <2>1. JP!Save(JP!Bounded(c), r)
    BY <1>1, <1>4 DEF JP!Create
  <2>2. /\ DOMAIN c = DOMAIN records \cup {a}
        /\ a \notin DOMAIN records
        /\ c[a] = JP!Draft(m)
        /\ \A b \in DOMAIN records : c[b] = records[b]
    BY <1>4
  <2> HIDE DEF c
  <2>3. /\ IsFiniteSet(DOMAIN c)
        /\ Cardinality(DOMAIN c) = Cardinality(DOMAIN records) + 1
    BY <2>2, FS_AddElement, ListFacts
  <2>4. /\ Cardinality(DOMAIN records) \in Nat /\ MaxRecords \in Nat
        /\ Cardinality(DOMAIN records) <= MaxRecords
    BY FS_CardinalityType, Constants, ListFacts
  <2>5. DOMAIN c \subseteq Nat
    BY <2>2, ListFacts
  <2>6. ~JP!Protected(c[a])
    BY <2>2, JP!DraftIsGood, Constants
  <2>7. /\ DOMAIN JP!Bounded(c) \subseteq DOMAIN c
        /\ \A b \in DOMAIN JP!Bounded(c) : JP!Bounded(c)[b] = c[b]
        /\ \A b \in DOMAIN c \ DOMAIN JP!Bounded(c) :
              /\ ~JP!Protected(c[b])
              /\ \A d \in DOMAIN c : ~JP!Protected(c[d]) => b <= d
              /\ Cardinality(DOMAIN c) > MaxRecords
    BY <2>2, <2>3, <2>5, <2>6, BoundedEffect
  <2>8. a \in DOMAIN JP!Bounded(c)
    <3> SUFFICES ASSUME a \notin DOMAIN JP!Bounded(c)
                 PROVE  FALSE
      OBVIOUS
    <3>1. /\ \A d \in DOMAIN c : ~JP!Protected(c[d]) => a <= d
          /\ Cardinality(DOMAIN c) > MaxRecords
      BY <2>2, <2>7
    <3>2. \A d \in DOMAIN records : JP!Protected(records[d])
      <4> SUFFICES ASSUME NEW d \in DOMAIN records
                   PROVE  JP!Protected(records[d])
        OBVIOUS
      <4>1. d \in Nat /\ ~(a <= d)
        BY ListFacts
      <4> QED
        BY <2>2, <3>1, <4>1
    <3>3. {d \in DOMAIN records : JP!Protected(records[d])} = DOMAIN records
      BY <3>2
    <3>4. Cardinality(DOMAIN records) >= MaxRecords
      BY <2>3, <2>4, <3>1
    <3> QED
      BY <1>4, <3>3, <3>4, SizeBridge DEF JP!FullOfProtected
  <2>9. JP!Draft(m) = Journal!Draft(m)
    BY DEF JP!Draft, Journal!Draft
  <2>10. \A rec : JP!Protected(rec) = Journal!Protected(rec)
    BY NameBridge DEF JP!Protected, Journal!Protected
  <2>11. Cardinality(DOMAIN c) > MaxRecords => Cardinality(DOMAIN records) = MaxRecords
    BY <2>3, <2>4
  <2>12. Adds(JP!Bounded(c), a, m)
    <3> DEFINE k == JP!Bounded(c)
    <3>1. DOMAIN k \subseteq DOMAIN records \cup {a}
      BY <2>2, <2>7
    <3>2. k[a] = Journal!Draft(m)
      BY <2>2, <2>7, <2>8, <2>9
    <3>3. \A b \in DOMAIN k : b # a => k[b] = records[b]
      BY <2>2, <2>7
    <3>4. ASSUME NEW b \in DOMAIN records \ DOMAIN k
          PROVE  /\ ~Journal!Protected(records[b])
                 /\ \A d \in DOMAIN records : ~Journal!Protected(records[d]) => b <= d
                 /\ Cardinality(DOMAIN records) = MaxRecords
      BY <2>2, <2>7, <2>10, <2>11
    <3> HIDE DEF k
    <3> QED
      BY <2>2, <2>8, <3>1, <3>2, <3>3, <3>4 DEF Adds, k
  <2> QED
    BY <1>2, <2>1, <2>12, SaveOutcome DEF Creates
<1> QED
  BY <1>3, <1>4

\* The list a restart makes of the file.
Recovers(c) ==
    /\ DOMAIN c = DOMAIN journal
    /\ \A a \in DOMAIN journal :
          /\ journal[a].state \notin Journal!InFlight => c[a] = journal[a]
          /\ journal[a].state \in Journal!InFlight =>
                /\ c[a].mode = journal[a].mode
                /\ c[a].dispatched = journal[a].dispatched
                /\ c[a].state = IF journal[a].mode = "live" THEN Journal!Manual
                                                           ELSE Journal!LegacyMock

Loads(r) ==
    /\ JournalOK'
    /\ \/ /\ r = "ok" /\ Recovers(journal') /\ records' = journal'
          /\ journalLoaded' = TRUE /\ corrupt' = corrupt
       \/ /\ r = "fault" /\ journal' = journal /\ DOMAIN records' = {}
          /\ journalLoaded' = FALSE /\ corrupt' = TRUE
       \/ /\ r = "cancelled" /\ (journal' = journal \/ Recovers(journal'))
          /\ records' = records /\ journalLoaded' = journalLoaded /\ corrupt' = corrupt

\* A load reads the file and turns what was in flight into manual checks, or fails.
LEMMA LoadEffect ==
    ASSUME JournalOK, NEW r, Journal!LoadJournal(r)
    PROVE  Loads(r)
<1>1. JP!LoadJournal(r)
  BY LoadBridge
<1>2. JournalOK'
  BY <1>1, JP!LoadKeepsInv, Constants DEF JournalOK
<1>3. Recovers(JP!Normalized)
  <2>1. /\ DOMAIN JP!Normalized = DOMAIN journal
        /\ \A a \in DOMAIN journal : JP!Normalized[a] = JP!Recovered(journal[a])
    BY DEF JP!Normalized
  <2> SUFFICES ASSUME NEW a \in DOMAIN journal
               PROVE  /\ journal[a].state \notin Journal!InFlight =>
                           JP!Recovered(journal[a]) = journal[a]
                      /\ journal[a].state \in Journal!InFlight =>
                           /\ JP!Recovered(journal[a]).mode = journal[a].mode
                           /\ JP!Recovered(journal[a]).dispatched = journal[a].dispatched
                           /\ JP!Recovered(journal[a]).state =
                                IF journal[a].mode = "live" THEN Journal!Manual
                                                            ELSE Journal!LegacyMock
    BY <2>1 DEF Recovers
  <2>2. journal[a] \in JP!Records
    BY DEF JournalOK, JP!Inv, JP!GoodList, JP!GoodRecord
  <2> QED
    BY <2>2, NameBridge DEF JP!Recovered, JP!Records
<1>4. DOMAIN JP!NoRecords = {}
  BY JP!NoRecordsAreGood, Constants
<1> QED
  BY <1>1, <1>2, <1>3, <1>4 DEF JP!LoadJournal, Loads

\* The end of the process empties memory and leaves the files alone.
LEMMA ForgetEffect ==
    ASSUME JournalOK, StateOK, State!Forget, Journal!ForgetJournal
    PROVE  /\ StateOK' /\ JournalOK'
           /\ disk' = disk /\ journal' = journal
           /\ DOMAIN records' = {} /\ ~journalLoaded' /\ ~corrupt'
           /\ ~snap'.integrity /\ snap'.manual = None /\ ~storageFault'
<1>1. JP!ForgetJournal
  BY LoadBridge
<1>2. JournalOK'
  BY <1>1, JP!ForgetKeepsInv, Constants DEF JournalOK
<1>3. SP!Forget
  BY DEF State!Forget, SP!Forget, State!FreshSnapshot, SP!FreshSnapshot
<1>4. StateOK'
  <2>1. SP!Forgetting
    BY <1>3 DEF SP!Forget, SP!Forgetting, SP!FlagsOK
  <2> QED
    BY <2>1, SP!ForgettingKeepsInv, Constants DEF StateOK
<1>5. DOMAIN JP!NoRecords = {}
  BY JP!NoRecordsAreGood, Constants
<1> QED
  BY <1>1, <1>2, <1>3, <1>4, <1>5 DEF JP!ForgetJournal, SP!Forget, SP!FreshSnapshot

\* A load of the safety file takes it over, or leaves memory as it was.
LEMMA LoadStateEffect ==
    ASSUME StateOK, NEW r, State!Load(r)
    PROVE  /\ StateOK' /\ disk' = disk
           /\ r = "ok" => snap' = disk /\ ~storageFault'
           /\ r = "fault" => storageFault' /\ snap' = snap
           /\ r # "ok" => snap' = snap
           /\ r \in {"ok", "fault", "cancelled"}
<1>1. SP!Load(r)
  BY DEF State!Load, SP!Load, State!CancelRead, SP!CancelRead, State!stateVars, SP!stateVars
<1>2. StateOK'
  <2>1. storageFault \in BOOLEAN /\ transientFault \in BOOLEAN
    BY DEF StateOK, SP!Inv, SP!TypeOK
  <2>2. SP!Loading \/ SP!Writing
    BY <1>1, <2>1, StillWriting
       DEF SP!Load, SP!Loading, SP!CancelRead, SP!stateVars, SP!FlagsOK
  <2>3. SP!Loading => StateOK'
    BY SP!LoadingKeepsInv, Constants DEF StateOK
  <2> QED
    BY <2>2, <2>3, WritingEffect
<1> QED
  BY <1>1, <1>2 DEF SP!Load, SP!CancelRead, SP!stateVars

\* How the calls of the journal end, without their effect.
LEMMA JournalEnds ==
    /\ \A a, n, s, k, r : Journal!RecordTerminal(a, n, s, k, r) => r \in Ends
    /\ \A a, n, s, r : Journal!RecordReconciliation(a, n, s, r) => r \in Ends
    /\ \A a, n, r : Journal!ReviewUnknown(a, n, r) => r \in Ends
    /\ \A a, n, x, r : Journal!Resolve(a, n, x, r) => r \in Ends
    /\ \A a, m, r : Journal!Create(a, m, r) => r \in Ends
    /\ \A r : Journal!LoadJournal(r) => r \in Ends
<1>1. \A c, r : Journal!Save(c, r) \/ Journal!JournalRefuse(r) => r \in Ends
  BY DEF Journal!Save, Journal!JournalRefuse, Ends
<1>2. \A a, new, r : Journal!Write(a, new, r) => r \in Ends
  BY <1>1 DEF Journal!Write
<1>3. \A a, m, r : Journal!Create(a, m, r) => r \in Ends
  BY <1>1 DEF Journal!Create
<1>4. \A r : Journal!LoadJournal(r) => r \in Ends
  BY DEF Journal!LoadJournal, Ends
<1>5. \A a, n, s, k, r : Journal!RecordTerminal(a, n, s, k, r) => r \in Ends
  BY <1>1, <1>2 DEF Journal!RecordTerminal
<1>6. \A a, n, s, r : Journal!RecordReconciliation(a, n, s, r) => r \in Ends
  BY <1>1, <1>2 DEF Journal!RecordReconciliation
<1>7. \A a, n, r : Journal!ReviewUnknown(a, n, r) => r \in Ends
  BY <1>1, <1>2 DEF Journal!ReviewUnknown
<1>8. \A a, n, x, r : Journal!Resolve(a, n, x, r) => r \in Ends
  BY <1>1, <1>2 DEF Journal!Resolve
<1> QED
  BY <1>3, <1>4, <1>5, <1>6, <1>7, <1>8

\* How the calls of the safety state end, without their effect.
LEMMA StateEnds ==
    /\ \A l, b, r : State!Bump(l, b, r) => r \in Ends
    /\ \A a, n, r : State!LatchManualCheck(a, n, r) => r \in Ends
    /\ \A a, n, x, g, r : State!ClearManualCheck(a, n, x, g, r) => r \in Ends
    /\ \A g, r : State!AssertCurrent(g, r) => r \in Ends
    /\ \A r : State!Load(r) => r \in Ends
<1>1. \A l, b, r : State!Bump(l, b, r) => r \in Ends
  BY DEF State!Bump, State!Persist, State!Refuse, State!ReadFails, State!CancelRead,
         State!RefuseForever, Ends
<1>2. \A a, n, r : State!LatchManualCheck(a, n, r) => r \in Ends
  BY <1>1 DEF State!LatchManualCheck
<1>3. \A a, n, x, g, r : State!ClearManualCheck(a, n, x, g, r) => r \in Ends
  BY DEF State!ClearManualCheck, State!Persist, State!Refuse, State!ReadFails,
         State!CancelRead, Ends
<1>4. \A g, r : State!AssertCurrent(g, r) => r \in Ends
  BY DEF State!AssertCurrent, State!Refuse, State!ReadFails, State!CancelRead, Ends
<1>5. \A r : State!Load(r) => r \in Ends
  BY DEF State!Load, State!CancelRead, Ends
<1> QED
  BY <1>1, <1>2, <1>3, <1>4, <1>5

\* What the published and the durable images hold.
LEMMA StateTypes ==
    ASSUME StateOK
    PROVE  /\ snap.generation \in Nat /\ disk.generation \in Nat
           /\ snap.integrity \in BOOLEAN /\ disk.integrity \in BOOLEAN
           /\ storageFault \in BOOLEAN /\ transientFault \in BOOLEAN
           /\ snap.manual # None =>
                 /\ snap.manual.attempt \in Nat
                 /\ snap.manual.revision \in Nat \ {0}
                 /\ snap.manual.generation \in Nat
                 /\ snap.manual.resolution \in State!Resolutions \cup {None}
           /\ disk.manual # None =>
                 /\ disk.manual.attempt \in Nat
                 /\ disk.manual.resolution \in State!Resolutions \cup {None}
  BY DEF StateOK, SP!Inv, SP!TypeOK, SP!Snapshots, SP!ManualBindings, SP!Positive,
         SP!Resolutions, State!Resolutions

(***************************************************************************)
(* The number of a new attempt.                                            *)
(***************************************************************************)
\* A finite set of numbers that is not empty has a largest one.
LEMMA FiniteMaximum ==
    ASSUME NEW S, IsFiniteSet(S), S \subseteq Nat, S # {}
    PROVE  \E m \in S : \A x \in S : x <= m
<1> DEFINE Topped(T) == \E m \in T : \A x \in T : x <= m
           Bad == {n \in Nat : \E T \in SUBSET S :
                                  T # {} /\ Cardinality(T) = n /\ ~Topped(T)}
<1>1. \A T \in SUBSET S : IsFiniteSet(T) /\ Cardinality(T) \in Nat
  BY FS_Subset, FS_CardinalityType
<1> SUFFICES ASSUME ~Topped(S)
             PROVE  FALSE
  OBVIOUS
<1>2. Bad # {} /\ Bad \subseteq Nat
  BY <1>1
<1>3. PICK n \in Bad : \A k \in Bad : ~(<<k, n>> \in OpToRel(<, Nat))
  BY <1>2, NatLessThanWellFounded, WFMin
<1>4. \A k \in Bad : ~(k < n)
  BY <1>2, <1>3 DEF OpToRel
<1>5. PICK T \in SUBSET S : T # {} /\ Cardinality(T) = n /\ ~Topped(T)
  OBVIOUS
<1>6. PICK t \in T : TRUE
  BY <1>5
<1>7. Cardinality(T \ {t}) = n - 1 /\ n \in Nat /\ n - 1 \in Nat
  <2>1. Cardinality(T \ {t}) = n - 1
    BY <1>1, <1>5, <1>6, FS_RemoveElement
  <2>2. Cardinality(T \ {t}) \in Nat /\ n \in Nat
    BY <1>1
  <2> QED
    BY <2>1, <2>2
<1>8. T \ {t} # {}
  BY <1>5, <1>6
<1>9. Topped(T \ {t})
  <2>1. n - 1 \notin Bad
    BY <1>4, <1>7
  <2> QED
    BY <1>7, <1>8, <2>1
<1>10. PICK m \in T \ {t} : \A x \in T \ {t} : x <= m
  BY <1>9
<1>11. m \in Nat /\ t \in Nat /\ T \subseteq Nat
  BY <1>6
<1>12. CASE t <= m
  BY <1>5, <1>10, <1>11, <1>12
<1>13. CASE m < t
  <2>1. \A x \in T : x <= t
    BY <1>10, <1>11, <1>13
  <2> QED
    BY <1>5, <1>6, <2>1
<1> QED
  BY <1>11, <1>12, <1>13

\* A new attempt is younger than every record and every attempt that was sent.
LEMMA NewAttemptIsNew ==
    ASSUME JournalOK, posted \subseteq 1..MaxAttempts
    PROVE  /\ NewAttempt \in Nat \ {0}
           /\ \A a \in Seen : a < NewAttempt
<1>1. IsFiniteSet(posted)
  <2>1. IsFiniteSet(1..MaxAttempts)
    BY ManagerConstants, FS_Interval
  <2> QED
    BY <2>1, FS_Subset
<1>2. IsFiniteSet(Seen) /\ Seen \subseteq Nat
  <2>1. IsFiniteSet(DOMAIN records \cup DOMAIN journal)
    BY ListFacts, FS_Union
  <2>2. IsFiniteSet(Seen)
    BY <1>1, <2>1, FS_Union DEF Seen
  <2> QED
    <3>1. DOMAIN records \subseteq Nat /\ DOMAIN journal \subseteq Nat
      BY ListFacts
    <3>2. posted \subseteq Nat
      BY ManagerConstants
    <3> QED
      BY <2>2, <3>1, <3>2 DEF Seen
<1>3. CASE Seen = {}
  BY <1>3 DEF NewAttempt
<1>4. CASE Seen # {}
  <2> DEFINE top == CHOOSE a \in Seen : \A b \in Seen : b <= a
  <2>1. top \in Seen /\ \A b \in Seen : b <= top
    BY <1>2, <1>4, FiniteMaximum
  <2>2. NewAttempt = 1 + top
    BY <1>4 DEF NewAttempt
  <2> HIDE DEF top
  <2> QED
    BY <1>2, <2>1, <2>2
<1> QED
  BY <1>3, <1>4

\* The same facts of the lists that a step leaves behind.
LEMMA ListFactsNext ==
    ASSUME JournalOK'
    PROVE  /\ DOMAIN records' \subseteq Nat /\ DOMAIN journal' \subseteq Nat
           /\ IsFiniteSet(DOMAIN records') /\ IsFiniteSet(DOMAIN journal')
           /\ Cardinality(DOMAIN records') <= MaxRecords
           /\ \A a \in DOMAIN records' : GoodEntry(records'[a])
           /\ \A a \in DOMAIN journal' : GoodEntry(journal'[a])
  BY RecordFacts, SizeBridge
     DEF JournalOK, JP!Inv, JP!GoodList, JP!Sized, JP!Attempts

\* The types of the safety state after a step.
LEMMA StateTypesNext ==
    ASSUME StateOK'
    PROVE  /\ snap.generation' \in Nat
           /\ snap.integrity' \in BOOLEAN /\ disk.integrity' \in BOOLEAN
           /\ storageFault' \in BOOLEAN
  BY DEF StateOK, SP!Inv, SP!TypeOK, SP!Snapshots, SP!Positive

\* A step that touches neither store keeps what is known of both.
LEMMA StateStays ==
    ASSUME StateOK, UNCHANGED stateVars
    PROVE  StateStep /\ NoHiddenFault
  BY FailedBeforeSave

\* A step that leaves the journal alone keeps its invariant.
LEMMA JournalStays ==
    ASSUME JournalOK, UNCHANGED journalVars
    PROVE  JournalOK'
  BY DEF journalVars, JournalOK, JP!Inv, JP!GoodList, JP!Sized, JP!ProtectedIsDurable

(***************************************************************************)
(* The first invariant of OrderingManager, and what it says of the moment  *)
(* a POST leaves.                                                          *)
(*                                                                         *)
(* Types holds of the variables and of both stores.  Placed and Returning  *)
(* say in which life of the process, with which flags and on behalf of     *)
(* whom an await may be pending: the fault handlers are entered from       *)
(* everywhere and return by ctx.then.  Located is what a suspended method  *)
(* knows.  Recorded follows the draft of a checkout through its first four *)
(* saves, where the bounded journal must not drop it and no other record   *)
(* may overtake it; Authorized carries what the read of the safety file    *)
(* showed to the POST.                                                     *)
(***************************************************************************)

(***************************************************************************)
(* The inductive invariant.                                                *)
(***************************************************************************)
Preparing == {"create", "quoted", "reserved", "dispatching", "assert", "submit", "localFail"}
Drafted == (Preparing \ {"create"}) \cup {"unsent"}
Sending == {"reply", "terminal", "rejected", "ambiguous", "learn", "recover", "recoverLatch"}
Marking == {"markCreate", "markFault"}
Forcing == {"force", "markAttempt"}

\* The record _async_recover_live_ambiguity can work on.
Recoverable(a) ==
    /\ a \in DOMAIN records
    /\ records[a].mode = "live"
    /\ records[a].dispatched
    /\ records[a].state \in Journal!InFlight \cup {Journal!Manual}

\* Where a start goes on after a fault.
Rejoining == {"mixed", "sources", "unresolved", "finish"}

Thens == {"idle", "again", "persistence", "inspectFault", "finish", "unload", "sources",
          "unresolved", "mixed"}

Contexts ==
    [attempt : Nat, generation : Nat, revision : Nat, learned : BOOLEAN, saved : BOOLEAN,
     succeeded : BOOLEAN, resolution : State!Resolutions \cup {None, "still_unknown"},
     marker : Nat, forced : BOOLEAN, then : Thens]

Challenges ==
    [attempt : Nat, revision : Nat \ {0}, resolution : Requests, generation : Nat]

Typed ==
    /\ up \in {"down", "starting", "up"}
    /\ enabledFlag \in BOOLEAN /\ securityFault \in BOOLEAN /\ manualCheck \in BOOLEAN
    /\ challenge \in Challenges \cup {None}
    /\ gate \in [ordering : BOOLEAN, checkout : BOOLEAN]
    /\ reloading \in BOOLEAN /\ finalAdapter \in BOOLEAN
    /\ pc \in Steps
    /\ ctx \in Contexts
    /\ posted \subseteq 1..MaxAttempts

\* What the method in progress has put in its variables.
Located ==
    /\ pc \in (AdminSteps \ {"disable"}) \cup {"recover", "recoverLatch", "startLatch"} =>
          ctx.revision # 0
    /\ pc \in {"reconcile", "inspectBind", "inspectBump", "inspectClear", "resolveBump",
               "resolve", "resolveBind", "clear", "clearAgain"} =>
          ctx.resolution \in State!Resolutions
    /\ (pc \in CheckoutSteps \ {"again"}) \/ (pc \in Marking /\ ctx.then = "persistence") =>
          ctx.attempt \in 1..MaxAttempts

\* In which life of the process a method may be in progress, and with which flags.
Placed ==
    /\ pc \in CheckoutSteps \cup AdminSteps \cup {"inspectFault"} => up = "up"
    /\ pc \in StartSteps \ {"unload"} => up = "starting"
    /\ up = "starting" => pc \in StartSteps \cup FaultSteps
    /\ up = "down" => pc = "idle" /\ ~securityFault /\ ~enabledFlag /\ ~manualCheck
    /\ pc \in AdminSteps \ {"disable"} => ~securityFault
    /\ pc \in FaultSteps \cup {"persistence"} => securityFault
    /\ up = "up" /\ securityFault => ~enabledFlag
    /\ reloading => up = "up" /\ ~CheckoutGate

\* Where a subroutine returns to.
Returning ==
    /\ pc \in Forcing \cup Marking /\ up = "starting" =>
          ctx.then \in Rejoining /\ (ctx.forced \/ ctx.then = "finish")
    /\ pc \in Forcing \cup Marking /\ up = "up" =>
          ctx.then \in {"idle", "again", "persistence", "inspectFault", "unload"}
    /\ pc \in Forcing /\ up = "up" => ctx.then \in {"idle", "again"}
    /\ pc = "disable" => ctx.then \in {"idle", "unload"}
    /\ pc \in CheckoutSteps => ctx.then \in {"idle", "again"}

Types == StateOK /\ JournalOK /\ Typed /\ settled \subseteq Nat

\* The record of a checkout that has not been sent.
Drafting ==
    /\ pc = "create" => ctx.attempt = NewAttempt
    /\ pc \in Drafted => ctx.attempt \in DOMAIN records

Control == Located /\ Placed /\ Returning /\ Drafting

\* The draft of a checkout is the youngest record, the same on file, and dispatched
\* before the authority is asked for.
Recorded ==
    pc \in Drafted =>
        /\ journal = records
        /\ \A b \in DOMAIN records : b <= ctx.attempt
        /\ records[ctx.attempt].mode = "live"
        /\ pc \in {"assert", "submit"} => /\ records[ctx.attempt].state = "DISPATCHING"
                                         /\ records[ctx.attempt].dispatched

\* The authority as the file showed it still holds when the POST leaves.
Authorized == pc = "submit" => State!AuthorityIsCurrent(ctx.generation)

(***************************************************************************)
(* Types and control.                                                      *)
(***************************************************************************)
\* A method begins with a typed context.
LEMMA NoContextTyped == NoContext \in Contexts
  BY DEF NoContext, Contexts, Thens

\* An updated context is one.
LEMMA ContextUpdates ==
    ASSUME NEW c \in Contexts
    PROVE  /\ \A n \in Nat : /\ [c EXCEPT !.attempt = n] \in Contexts
                             /\ [c EXCEPT !.generation = n] \in Contexts
                             /\ [c EXCEPT !.revision = n] \in Contexts
                             /\ [c EXCEPT !.marker = n] \in Contexts
           /\ \A b \in BOOLEAN : /\ [c EXCEPT !.learned = b] \in Contexts
                                 /\ [c EXCEPT !.saved = b] \in Contexts
                                 /\ [c EXCEPT !.succeeded = b] \in Contexts
                                 /\ [c EXCEPT !.forced = b] \in Contexts
           /\ \A x \in State!Resolutions \cup {None, "still_unknown"} :
                 [c EXCEPT !.resolution = x] \in Contexts
           /\ \A t \in Thens : [c EXCEPT !.then = t] \in Contexts
  BY DEF Contexts

\* What a preparation may do to the safety file beside the manager.
LEMMA PreparationEffect ==
    ASSUME StateOK,
           \/ \E f : PreparationLatches(f)
           \/ \E x \in Expectations, r \in {"ok", "fault"} :
                State!ClearPreparationReconciliation(0, x, r)
    PROVE  StateStep /\ NoHiddenFault
<1>1. ASSUME NEW x \in Expectations, State!LatchPreparationReconciliation(0, 1, x, "ok")
      PROVE  StateStep /\ NoHiddenFault
  BY <1>1, LatchPreparationEffect
<1>2. ASSUME NEW r \in {"ok", "fault"}, State!LatchFault(r)
      PROVE  StateStep /\ NoHiddenFault
  <2>1. Finished(r)
    BY <1>2 DEF Finished
  <2> QED
    BY <1>2, <2>1, LatchFaultEffect
<1>3. ASSUME NEW x \in Expectations, NEW r \in {"ok", "fault"},
             State!ClearPreparationReconciliation(0, x, r)
      PROVE  StateStep /\ NoHiddenFault
  BY <1>3, ClearPreparationEffect
<1> QED
  BY <1>1, <1>2, <1>3 DEF PreparationLatches

\* Every step of the manager is, for each of its two stores, a call of one operation
\* or none, so the invariants of both components hold in it.
LEMMA StateKept ==
    ASSUME Types, Control, Next
    PROVE  StateOK' /\ (disk.integrity => disk'.integrity)
<1> USE DEF Types, Typed, StateStep, StateKeeps
<1>1. UNCHANGED stateVars => StateOK' /\ (disk.integrity => disk'.integrity)
  BY StateStays
<1>2. CASE AssertAuthority
  BY <1>2, AssertCurrentEffect DEF AssertAuthority
<1>3. CASE \/ BumpAfterAnswer \/ BumpAfterRejection \/ DisableBump
           \/ InspectionBump \/ ResolveBump
  BY <1>3, PlainBump
     DEF BumpAfterAnswer, BumpAfterRejection, DisableBump, InspectionBump, ResolveBump
<1>4. CASE ForceLatch
  BY <1>4, LatchFaultEffect DEF ForceLatch
<1>5. CASE RecoverLatch \/ StartLatch
  <2>1. ctx.attempt \in Nat /\ ctx.revision \in Nat \ {0}
    BY <1>5 DEF RecoverLatch, StartLatch, Control, Located, Contexts
  <2> QED
    BY <1>5, <2>1, LatchManualCheckEffect DEF RecoverLatch, StartLatch
<1>6. CASE InspectionBind \/ ReviewBind \/ ResolveBind
  <2>1. ctx.attempt \in Nat /\ ctx.revision \in Nat \ {0}
    BY <1>6
       DEF InspectionBind, ReviewBind, ResolveBind, Control, Located, AdminSteps, Contexts
  <2>2. InspectionBind \/ ResolveBind => ctx.resolution \in State!Resolutions
    BY DEF InspectionBind, ResolveBind, Control, Located
  <2> QED
    BY <1>6, <2>1, <2>2, UpdateManualBindingEffect
       DEF InspectionBind, ReviewBind, ResolveBind
<1>7. CASE InspectionClear \/ ClearAgain \/ ResolveClear
  <2>1. ctx.attempt \in Nat /\ ctx.revision \in Nat \ {0}
    BY <1>7
       DEF InspectionClear, ClearAgain, ResolveClear, Control, Located, AdminSteps, Contexts
  <2>2. ctx.resolution \in State!Resolutions
    BY <1>7 DEF InspectionClear, ClearAgain, ResolveClear, Control, Located
  <2> QED
    BY <1>7, <2>1, <2>2, ClearManualCheckEffect
       DEF InspectionClear, ClearAgain, ResolveClear
<1>8. CASE LoadState \/ LoadStateAgain
  BY <1>8, LoadStateEffect DEF LoadState, LoadStateAgain
<1>9. CASE LoadPreparations \/ PreparationWrites
  BY <1>1, <1>9, PreparationEffect DEF LoadPreparations, PreparationWrites
<1>10. CASE Unload \/ Crash
  BY <1>10, ForgetEffect DEF Unload, Crash, Lose
<1>11. CASE \/ CreateAttempt \/ AdvanceAttempt \/ RecordUnsent \/ FailLocally
            \/ Submit \/ Reply \/ RecordAnswer \/ RecordRejection
            \/ LearnFromAmbiguous \/ LearnFromAnswer \/ PersistenceFault
            \/ RecoverRecord \/ ForceAgain \/ MarkAttempt \/ MarkCreate \/ MarkFault
  BY ZenonT(60), <1>1, <1>11
     DEF CreateAttempt, AdvanceAttempt, RecordUnsent, FailLocally, Submit, Reply,
         RecordAnswer, RecordRejection, LearnFromAmbiguous, LearnFromAnswer,
         PersistenceFault, RecoverRecord, ForceAgain, MarkAttempt, MarkCreate, MarkFault
<1>12. CASE \/ InspectionAnswer \/ Reconcile \/ InspectionFault \/ Review \/ ResolveRecord
            \/ LoadAttempts \/ CheckSources \/ CheckUnresolved \/ Finish
            \/ Requested \/ BeginReload \/ Start \/ Withdraw
  BY <1>1, <1>12
     DEF InspectionAnswer, Reconcile, InspectionFault, Review, ResolveRecord,
         LoadAttempts, CheckSources, CheckUnresolved, Finish, Requested, BeginCheckout,
         Disable, BeginInspection, PrepareResolution, LoseChallenge, BeginResolution,
         BeginReload, Start, Withdraw
<1> QED
  BY <1>2, <1>3, <1>4, <1>5, <1>6, <1>7, <1>8, <1>9, <1>10, <1>11, <1>12
     DEF Next, Progress, Checkout, Faulting, Administration, Starting, Environment

\* Every step keeps the journal's invariant: its calls are calls of AttemptJournal.
LEMMA JournalKept ==
    ASSUME Types, Control, Next
    PROVE  JournalOK'
<1> USE DEF Types, Typed, Moves, Creates, JournalKeeps
<1>1. UNCHANGED journalVars => JournalOK'
  BY JournalStays
<1>2. CASE CreateAttempt \/ MarkCreate
  <2>1. NewAttempt \in Nat /\ \A b \in DOMAIN records : b < NewAttempt
    BY NewAttemptIsNew DEF Seen
  <2>2. CreateAttempt => ctx.attempt \in Nat
    BY DEF Contexts
  <2>3. CASE CreateAttempt
    BY <2>2, <2>3, CreateKeeps DEF CreateAttempt
  <2>4. CASE MarkCreate
    BY <2>1, <2>4, CreateKeeps DEF MarkCreate
  <2> QED
    BY <1>2, <2>3, <2>4
<1>3. CASE \/ AdvanceAttempt \/ RecordUnsent \/ LearnFromAmbiguous \/ LearnFromAnswer
           \/ RecoverRecord \/ MarkAttempt \/ MarkFault
  BY <1>3, TransitionEffect
     DEF AdvanceAttempt, RecordUnsent, LearnFromAmbiguous, LearnFromAnswer,
         RecoverRecord, MarkAttempt, MarkFault
<1>4. CASE FailLocally \/ RecordAnswer \/ RecordRejection
  <2>1. ctx.succeeded \in BOOLEAN
    BY DEF Contexts
  <2> QED
    BY ZenonT(60), <1>4, <2>1, RecordTerminalEffect
       DEF FailLocally, RecordAnswer, RecordRejection
<1>5. CASE Reconcile
  <2>1. ctx.succeeded \in BOOLEAN
    BY DEF Contexts
  <2> QED
    BY <1>5, <2>1, RecordReconciliationEffect DEF Reconcile
<1>6. CASE Review
  BY <1>6, ReviewUnknownEffect DEF Review
<1>7. CASE ResolveRecord
  BY <1>7, ResolveEffect DEF ResolveRecord
<1>8. CASE LoadAttempts
  BY <1>8, LoadEffect DEF LoadAttempts, Loads
<1>9. CASE Unload \/ Crash
  BY <1>9, ForgetEffect DEF Unload, Crash, Lose
<1>10. CASE \/ AssertAuthority \/ Submit \/ Reply \/ BumpAfterAnswer \/ BumpAfterRejection
            \/ PersistenceFault \/ RecoverLatch \/ ForceAgain \/ ForceLatch
            \/ DisableBump \/ InspectionAnswer \/ InspectionBind \/ InspectionBump
            \/ InspectionClear \/ InspectionFault \/ ClearAgain \/ ReviewBind
            \/ ResolveBump \/ ResolveBind \/ ResolveClear
  BY ZenonT(60), <1>1, <1>10
     DEF AssertAuthority, Submit, Reply, BumpAfterAnswer, BumpAfterRejection,
         PersistenceFault, RecoverLatch, ForceAgain, ForceLatch, DisableBump,
         InspectionAnswer, InspectionBind, InspectionBump, InspectionClear,
         InspectionFault, ClearAgain, ReviewBind, ResolveBump, ResolveBind, ResolveClear
<1>11. CASE \/ LoadState \/ LoadStateAgain \/ LoadPreparations \/ CheckSources
            \/ CheckUnresolved \/ StartLatch \/ Finish
            \/ Requested \/ BeginReload \/ Start \/ Withdraw \/ PreparationWrites
  BY <1>1, <1>11
     DEF LoadState, LoadStateAgain, LoadPreparations, CheckSources, CheckUnresolved,
         StartLatch, Finish, Requested, BeginCheckout, Disable, BeginInspection,
         PrepareResolution, LoseChallenge, BeginResolution, BeginReload, Start, Withdraw,
         PreparationWrites
<1> QED
  BY <1>2, <1>3, <1>4, <1>5, <1>6, <1>7, <1>8, <1>9, <1>10, <1>11
     DEF Next, Progress, Checkout, Faulting, Administration, Starting, Environment

\* The sorts of the fields that steps copy.
LEMMA Sizes ==
    ASSUME Types, JournalOK'
    PROVE  /\ ctx.attempt \in Nat /\ ctx.generation \in Nat /\ ctx.revision \in Nat
           /\ ctx.succeeded \in BOOLEAN /\ ctx.then \in Thens
           /\ ctx.resolution \in State!Resolutions \cup {None, "still_unknown"}
           /\ ctx.revision + 1 \in Nat \ {0}
           /\ snap.generation \in Nat
           /\ \A a \in DOMAIN records : records[a].revision \in Nat
           /\ \A a \in DOMAIN records' : /\ records'[a].revision \in Nat \ {0}
                                         /\ records'[a].revision + 1 \in Nat \ {0}
           /\ NewAttempt \in Nat
<1>1. NewAttempt \in Nat
  BY NewAttemptIsNew DEF Types, Typed
<1>2. \A a \in DOMAIN records : records[a].revision \in Nat
  BY ListFacts DEF Types, GoodEntry
<1>3. \A a \in DOMAIN records' : records'[a].revision \in Nat \ {0}
  BY ListFactsNext DEF GoodEntry
<1>4. snap.generation \in Nat
  BY StateTypes DEF Types
<1> QED
  BY <1>1, <1>2, <1>3, <1>4 DEF Types, Typed, Contexts

\* A step leaves the flags, the next await and its variables well-typed.
Lands ==
    /\ up' \in {"down", "starting", "up"}
    /\ enabledFlag' \in BOOLEAN /\ securityFault' \in BOOLEAN /\ manualCheck' \in BOOLEAN
    /\ challenge' \in Challenges \cup {None}
    /\ pc' \in Steps
    /\ ctx' \in Contexts

\* However a step continues its method, it lands at a step of one with a typed context.
LEMMA HelpersLand ==
    ASSUME Types, JournalOK'
    PROVE  /\ \A s \in Steps, c \in Contexts :
                 /\ Goto(s, c) /\ KeepFlags => Lands
                 /\ Goto(s, c) /\ ClearChallenge => Lands
                 /\ Goto(s, c) /\ ShutDown => Lands
                 /\ Goto(s, c) /\ SetManualCheck(TRUE) => Lands
                 /\ Goto(s, c) /\ SetManualCheck(FALSE) => Lands
           /\ \A s \in Steps : Continue(s) => Lands
           /\ \A s \in Steps : CheckedThen(s) => Lands
           /\ Done \/ Return \/ Abort \/ WriteMarker => Lands
           /\ \A a \in Nat, t \in Thens : /\ ForceFault(a, t) => Lands
                                          /\ Recover(a, t) => Lands
           /\ \A t \in Thens : MarkBumpFault(t) => Lands
<1> USE DEF Types, Typed
<1>1. ASSUME NEW s \in Steps, NEW c \in Contexts, Goto(s, c),
             \/ KeepFlags \/ ClearChallenge \/ ShutDown
             \/ SetManualCheck(TRUE) \/ SetManualCheck(FALSE)
      PROVE  Lands
  BY <1>1 DEF Goto, KeepFlags, ClearChallenge, ShutDown, SetManualCheck, flagVars, Lands
<1>2. ASSUME NEW s \in Steps, Continue(s)
      PROVE  Lands
  BY <1>1, <1>2 DEF Continue
<1>3. {"idle", "localFail", "markCreate", "markAttempt", "unload", "force", "recover",
       "recoverLatch"} \subseteq Steps /\ Thens \subseteq Steps
  BY DEF Steps, CheckoutSteps, FaultSteps, AdminSteps, StartSteps, Thens
<1>4. Done \/ Abort => Lands
  BY <1>1, <1>3, NoContextTyped DEF Done, Abort
<1>5. Return => Lands
  <2>1. ctx.then \in Thens /\ [ctx EXCEPT !.then = "idle"] \in Contexts
    BY Sizes, ContextUpdates DEF Thens
  <2> QED
    BY <1>1, <1>3, <2>1, NoContextTyped DEF Return
<1>6. WriteMarker => Lands
  BY <1>2, <1>3, <1>5 DEF WriteMarker
<1>7. ASSUME NEW s \in Steps, CheckedThen(s)
      PROVE  Lands
  BY <1>2, <1>3, <1>4, <1>7 DEF CheckedThen
<1>8. ASSUME NEW t \in Thens, MarkBumpFault(t)
      PROVE  Lands
  <2>1. [ctx EXCEPT !.then = t] \in Contexts
    BY ContextUpdates
  <2> QED
    BY <1>1, <1>3, <1>8, <2>1 DEF MarkBumpFault
<1>9. ASSUME NEW a \in Nat, NEW t \in Thens
      PROVE  [NoContext EXCEPT !.attempt = a, !.forced = TRUE, !.then = t] \in Contexts
  BY ContextUpdates, NoContextTyped
<1>10. ASSUME NEW a \in Nat, NEW t \in Thens, ForceFault(a, t)
       PROVE  Lands
  BY <1>1, <1>3, <1>9, <1>10 DEF ForceFault
<1>11. ASSUME NEW a \in Nat, NEW t \in Thens, NEW b \in BOOLEAN, NEW n \in Nat
       PROVE  [NoContext EXCEPT !.attempt = a, !.then = t, !.saved = b, !.revision = n]
                 \in Contexts
  BY ContextUpdates, NoContextTyped
<1>12. ASSUME NEW a \in Nat, NEW t \in Thens, Recover(a, t)
       PROVE  Lands
  <2> DEFINE live == /\ a \in DOMAIN records'
                     /\ records'[a].mode = "live"
                     /\ records'[a].dispatched
                     /\ records'[a].state \in Journal!InFlight \cup {Journal!Manual}
             open == records'[a].state \in Journal!InFlight
             n == IF open THEN records'[a].revision + 1 ELSE records'[a].revision
             c == [NoContext EXCEPT !.attempt = a, !.then = t, !.saved = ~open,
                                    !.revision = n]
  <2>1. CASE live
    <3>1. n \in Nat
      BY <2>1, Sizes
    <3>2. c \in Contexts
      BY <1>11, <3>1
    <3>3. /\ manualCheck' = TRUE /\ challenge' = None
          /\ UNCHANGED <<up, enabledFlag, securityFault>>
          /\ Goto(IF open THEN "recover" ELSE "recoverLatch", c)
      BY <1>12, <2>1 DEF Recover
    <3> HIDE DEF c
    <3> QED
      BY <1>3, <3>2, <3>3 DEF Goto, Lands
  <2>2. CASE ~live
    <3>1. /\ manualCheck' = TRUE /\ securityFault' = TRUE /\ enabledFlag' = FALSE
          /\ challenge' = None /\ UNCHANGED up
          /\ Goto("force", [NoContext EXCEPT !.attempt = a, !.forced = TRUE, !.then = t])
      BY <1>12, <2>2 DEF Recover
    <3> QED
      BY <1>3, <1>9, <3>1 DEF Goto, Lands
  <2> QED
    BY <2>1, <2>2
<1> QED
  BY <1>1, <1>2, <1>4, <1>5, <1>6, <1>7, <1>8, <1>10, <1>12

\* The steps a helper is sent to.
LEMMA StepNames ==
    {"create", "quoted", "reserved", "dispatching", "assert", "submit", "reply",
     "terminal", "finalBump", "rejected", "rejectedBump", "ambiguous", "learn",
     "unsent", "localFail", "recover", "recoverLatch", "persistence", "again", "force",
     "markAttempt", "markCreate", "markFault", "inspectFault", "disable", "inspect",
     "reconcile", "inspectBind", "inspectBump", "inspectClear", "review", "reviewBind",
     "resolveBump", "resolve", "resolveBind", "clear", "clearAgain", "loadState",
     "loadStateAgain", "preparations", "loadJournal", "sources", "unresolved",
     "startLatch", "finish", "unload", "idle"} \subseteq Steps
  BY DEF Steps, CheckoutSteps, FaultSteps, AdminSteps, StartSteps

\* Every action hands over to a step of the code with well-typed variables.
LEMMA CheckoutLands ==
    ASSUME Types, Control, StateOK', JournalOK', Checkout
    PROVE  Lands
<1> USE HelpersLand, ContextUpdates, NoContextTyped, Sizes, StepNames
        DEF Types, Typed, Ends, Raised, Thens
<1>1. CASE CreateAttempt
  BY ZenonT(60), <1>1, JournalEnds DEF CreateAttempt
<1>2. CASE AdvanceAttempt
  <2>1. Following[pc] \in Steps \/ pc = "dispatching"
    BY <1>2 DEF AdvanceAttempt, Following
  <2> QED
    BY ZenonT(60), <1>2, <2>1 DEF AdvanceAttempt
<1>3. CASE AssertAuthority
  BY ZenonT(60), <1>3, StateEnds DEF AssertAuthority
<1>4. CASE RecordUnsent
  BY <1>4, JournalEnds DEF RecordUnsent
<1>5. CASE FailLocally
  BY <1>5, JournalEnds DEF FailLocally
<1>6. CASE Submit
  <2>1. records[ctx.attempt].revision \in Nat
    BY SMTT(60), <1>6 DEF Submit, Control, Drafting, Drafted, Preparing
  <2> QED
    BY <1>6, <2>1 DEF Submit
<1>7. CASE Reply
  BY ZenonT(60), <1>7, StateEnds DEF Reply
<1>8. CASE RecordAnswer
  BY ZenonT(60), <1>8, JournalEnds DEF RecordAnswer
<1>9. CASE BumpAfterAnswer
  BY ZenonT(60), <1>9, StateEnds DEF BumpAfterAnswer
<1>10. CASE RecordRejection
  BY ZenonT(60), <1>10, JournalEnds DEF RecordRejection
<1>11. CASE BumpAfterRejection
  BY <1>11, StateEnds DEF BumpAfterRejection
<1>12. CASE LearnFromAmbiguous
  BY <1>12, JournalEnds DEF LearnFromAmbiguous
<1>13. CASE LearnFromAnswer
  BY ZenonT(60), <1>13, JournalEnds DEF LearnFromAnswer
<1>14. CASE PersistenceFault
  BY <1>14, StateEnds DEF PersistenceFault
<1>15. CASE RecoverRecord
  BY ZenonT(60), <1>15, JournalEnds DEF RecoverRecord
<1>16. CASE RecoverLatch
  BY ZenonT(60), <1>16, StateEnds DEF RecoverLatch
<1>17. CASE ForceAgain
  BY <1>17, StateEnds DEF ForceAgain
<1> QED
  BY <1>1, <1>2, <1>3, <1>4, <1>5, <1>6, <1>7, <1>8, <1>9, <1>10, <1>11, <1>12, <1>13,
     <1>14, <1>15, <1>16, <1>17
     DEF Checkout

\* So does every step of a fault,
LEMMA FaultingLands ==
    ASSUME Types, Control, StateOK', JournalOK', Faulting
    PROVE  Lands
<1> USE HelpersLand, ContextUpdates, NoContextTyped, Sizes, StepNames
        DEF Types, Typed, Ends, Raised, Thens
<1>1. CASE ForceLatch
  BY <1>1, StateEnds DEF ForceLatch
<1>2. CASE MarkAttempt
  BY <1>2, JournalEnds DEF MarkAttempt
<1>3. CASE MarkCreate
  <2>1. MarkerCancelled => Lands
    BY DEF MarkerCancelled
  <2>2. [ctx EXCEPT !.marker = NewAttempt] \in Contexts
    OBVIOUS
  <2> QED
    BY ZenonT(60), <1>3, <2>1, <2>2, JournalEnds DEF MarkCreate
<1>4. CASE MarkFault
  <2>1. MarkerCancelled => Lands
    BY DEF MarkerCancelled
  <2> QED
    BY <1>4, <2>1, JournalEnds DEF MarkFault
<1> QED
  BY <1>1, <1>2, <1>3, <1>4 DEF Faulting

\* of an administrator's method,
LEMMA AdministrationLands ==
    ASSUME Types, Control, StateOK', JournalOK', Administration
    PROVE  Lands
<1> USE HelpersLand, ContextUpdates, NoContextTyped, Sizes, StepNames
        DEF Types, Typed, Ends, Raised, Thens
<1>1. CASE DisableBump
  BY ZenonT(60), <1>1, StateEnds DEF DisableBump
<1>2. CASE InspectionAnswer
  <2>1. ASSUME NEW s \in BOOLEAN
        PROVE  [ctx EXCEPT !.succeeded = s, !.resolution = ProviderResolution(s)] \in Contexts
    BY DEF ProviderResolution, State!Resolutions
  <2> QED
    BY ZenonT(60), <1>2, <2>1 DEF InspectionAnswer
<1>3. CASE Reconcile
  BY ZenonT(60), <1>3, JournalEnds DEF Reconcile
<1>4. CASE InspectionBind
  BY ZenonT(60), <1>4, StateEnds DEF InspectionBind
<1>5. CASE InspectionBump
  BY ZenonT(60), <1>5, StateEnds DEF InspectionBump
<1>6. CASE InspectionClear
  BY ZenonT(60), <1>6, StateEnds DEF InspectionClear
<1>7. CASE InspectionFault
  BY <1>7, StateEnds DEF InspectionFault
<1>8. CASE ClearAgain
  BY ZenonT(60), <1>8, StateEnds DEF ClearAgain
<1>9. CASE Review
  BY ZenonT(60), <1>9, JournalEnds DEF Review
<1>10. CASE ReviewBind
  BY ZenonT(60), <1>10, StateEnds DEF ReviewBind
<1>11. CASE ResolveBump
  BY ZenonT(60), <1>11, StateEnds DEF ResolveBump
<1>12. CASE ResolveRecord
  BY ZenonT(60), <1>12, JournalEnds DEF ResolveRecord
<1>13. CASE ResolveBind
  BY ZenonT(60), <1>13, StateEnds DEF ResolveBind
<1>14. CASE ResolveClear
  BY ZenonT(60), <1>14, StateEnds DEF ResolveClear
<1> QED
  BY <1>1, <1>2, <1>3, <1>4, <1>5, <1>6, <1>7, <1>8, <1>9, <1>10, <1>11, <1>12, <1>13, <1>14
     DEF Administration

\* of start-up,
LEMMA StartingLands ==
    ASSUME Types, Control, StateOK', JournalOK', Starting
    PROVE  Lands
<1> USE HelpersLand, ContextUpdates, NoContextTyped, Sizes, StepNames
        DEF Types, Typed, Ends, Raised, Thens
<1>1. CASE LoadState
  BY ZenonT(60), <1>1, StateEnds DEF LoadState
<1>2. CASE LoadStateAgain
  <2>1. ReadFlags => securityFault' \in BOOLEAN /\ manualCheck' \in BOOLEAN
    BY StateTypesNext DEF ReadFlags, State!IntegrityFault
  <2> QED
    BY ZenonT(60), <1>2, <2>1, StateEnds
       DEF LoadStateAgain, Goto, ReadFlags, Abort, Continue, KeepFlags, flagVars, Lands
<1>3. CASE LoadPreparations
  <2>1. securityFault' \in BOOLEAN /\ manualCheck' \in BOOLEAN
    BY <1>3, StateTypesNext DEF LoadPreparations, ReadFlags, State!IntegrityFault
  <2> QED
    BY <1>3, <2>1 DEF LoadPreparations, Goto, ReadFlags, Lands
<1>4. CASE LoadAttempts
  BY ZenonT(60), <1>4, JournalEnds DEF LoadAttempts
<1>5. CASE CheckSources
  BY <1>5, StateEnds DEF CheckSources
<1>6. CASE CheckUnresolved
  <2> DEFINE unresolved == Journal!UnresolvedManualChecks
             a == CHOOSE b \in unresolved : TRUE
  <2>1. unresolved \subseteq DOMAIN records /\ DOMAIN records \subseteq Nat
    BY ListFacts DEF Journal!UnresolvedManualChecks
  <2>2. unresolved # {} => a \in Nat /\ records[a].revision \in Nat
    BY <2>1
  <2>3. snap.manual # None => snap.manual.attempt \in Nat
    BY StateTypes
  <2>4. unresolved # {} =>
          [NoContext EXCEPT !.attempt = a, !.revision = records[a].revision] \in Contexts
    BY <2>2
  <2> HIDE DEF unresolved, a
  <2>5. \/ Continue("finish") \/ ForceFault(0, "finish")
        \/ unresolved # {} /\ ForceFault(a, "finish")
        \/ snap.manual # None /\ ForceFault(snap.manual.attempt, "finish")
        \/ Goto("finish", NoContext) /\ SetManualCheck(TRUE)
        \/ /\ unresolved # {}
           /\ Goto("startLatch", [NoContext EXCEPT !.attempt = a,
                                                   !.revision = records[a].revision])
           /\ SetManualCheck(TRUE)
    BY <1>6 DEF CheckUnresolved, unresolved, a
  <2> QED
    BY ZenonT(60), <2>2, <2>3, <2>4, <2>5
<1>7. CASE StartLatch
  BY ZenonT(60), <1>7, StateEnds DEF StartLatch
<1>8. CASE Finish
  <2>1. [NoContext EXCEPT !.then = "finish", !.saved = TRUE] \in Contexts
    OBVIOUS
  <2> QED
    BY ZenonT(60), <1>8, <2>1 DEF Finish, Goto, Lands
<1>9. CASE Unload
  BY <1>9 DEF Unload, Lose, Goto, Lands
<1> QED
  BY <1>1, <1>2, <1>3, <1>4, <1>5, <1>6, <1>7, <1>8, <1>9 DEF Starting

\* every request,
LEMMA RequestedLands ==
    ASSUME Types, Control, StateOK', JournalOK', Requested
    PROVE  Lands
<1> USE HelpersLand, ContextUpdates, NoContextTyped, Sizes, StepNames
        DEF Types, Typed, Ends, Raised, Thens
<1>1. CASE BeginCheckout
  BY ZenonT(60), <1>1, StateEnds DEF BeginCheckout
<1>2. CASE Disable
  BY ZenonT(60), <1>2 DEF Disable, Goto, Lands
<1>3. CASE BeginInspection
  <2> DEFINE c == [NoContext EXCEPT !.attempt = snap.manual.attempt,
                                    !.revision = snap.manual.revision]
  <2>1. c \in Contexts /\ pc' = "inspect" /\ ctx' = c /\ KeepFlags
    BY <1>3, StateTypes DEF BeginInspection, Bound, Goto
  <2> QED
    BY <2>1 DEF Goto
<1>4. CASE PrepareResolution
  <2>1. challenge' \in Challenges
    <3>1. /\ snap.manual.attempt \in Nat /\ snap.manual.revision \in Nat \ {0}
          /\ snap.generation \in Nat
      BY <1>4, StateTypes DEF PrepareResolution, Bound
    <3> QED
      BY <1>4, <3>1 DEF PrepareResolution, Challenges
  <2> QED
    BY <1>4, <2>1 DEF PrepareResolution, Lands
<1>5. CASE LoseChallenge
  BY <1>5 DEF LoseChallenge, Lands
<1>6. CASE BeginResolution
  <2> DEFINE c == [NoContext EXCEPT !.attempt = challenge.attempt,
                                    !.revision = challenge.revision,
                                    !.resolution = challenge.resolution]
  <2>1. challenge \in Challenges
    BY <1>6 DEF BeginResolution
  <2>2. /\ challenge.attempt \in Nat /\ challenge.revision \in Nat
        /\ challenge.resolution \in State!Resolutions \cup {"still_unknown"}
    BY <2>1 DEF Challenges, Requests, Journal!AdminResolutions, State!Resolutions
  <2>3. c \in Contexts
    BY <2>2
  <2>4. ctx' = c /\ pc' \in {"clearAgain", "review", "resolveBump"} /\ ClearChallenge
    BY <1>6 DEF BeginResolution, Goto
  <2> QED
    BY ZenonT(60), <2>3, <2>4 DEF Goto
<1> QED
  BY <1>1, <1>2, <1>3, <1>4, <1>5, <1>6 DEF Requested

\* and what happens around the manager.
LEMMA EnvironmentLands ==
    ASSUME Types, Control, StateOK', JournalOK', Environment
    PROVE  Lands
<1> USE HelpersLand, ContextUpdates, NoContextTyped, Sizes, StepNames
        DEF Types, Typed, Ends, Raised, Thens
<1>1. CASE Crash
  BY <1>1 DEF Crash, Lose, Goto, Lands
<1>2. CASE Withdraw
  BY <1>2 DEF Withdraw, controlVars, flagVars, Lands
<1>3. CASE PreparationWrites
  BY <1>3 DEF PreparationWrites, controlVars, flagVars, Lands
<1> QED
  BY <1>1, <1>2, <1>3 DEF Environment

\* The options, the marks of the entry and the history keep their types.
LEMMA EnvironmentTyped ==
    ASSUME Types, Control, Next
    PROVE  /\ gate' \in [ordering : BOOLEAN, checkout : BOOLEAN]
           /\ reloading' \in BOOLEAN /\ finalAdapter' \in BOOLEAN
           /\ posted' \subseteq 1..MaxAttempts
<1> USE DEF Types, Typed
<1>1. UNCHANGED <<gate, reloading, finalAdapter, posted>> \/ Submit \/ Finish \/ Unload
        \/ BeginReload \/ Start \/ Crash \/ Withdraw
  BY ZenonT(60) DEF Next, Progress, Requested, Environment, environmentVars, restVars,
         Checkout, Faulting, Administration, Starting,
         CreateAttempt, AdvanceAttempt, AssertAuthority, RecordUnsent, FailLocally,
         Reply, RecordAnswer, BumpAfterAnswer, RecordRejection, BumpAfterRejection,
         LearnFromAmbiguous, LearnFromAnswer, PersistenceFault, RecoverRecord,
         RecoverLatch, ForceAgain, ForceLatch, MarkAttempt, MarkCreate, MarkFault,
         DisableBump, InspectionAnswer, Reconcile, InspectionBind, InspectionBump,
         InspectionClear, InspectionFault, ClearAgain, Review, ReviewBind, ResolveBump,
         ResolveRecord, ResolveBind, ResolveClear, LoadState, LoadStateAgain,
         LoadPreparations, LoadAttempts, CheckSources, CheckUnresolved, StartLatch,
         BeginCheckout, Disable, BeginInspection, PrepareResolution, LoseChallenge,
         BeginResolution, PreparationWrites
<1>2. CASE Submit
  <2>1. ctx.attempt \in 1..MaxAttempts
    BY <1>2 DEF Submit, Control, Located, CheckoutSteps
  <2> QED
    BY <1>2, <2>1 DEF Submit, restVars, environmentVars
<1>3. CASE Crash
  <2>1. pc = "submit" => ctx.attempt \in 1..MaxAttempts
    BY DEF Control, Located, CheckoutSteps
  <2> QED
    BY <1>3, <2>1 DEF Crash, Lose
<1>4. CASE Finish
  BY <1>4 DEF Finish, Enabled, CheckoutGate, LiveGate, State!SafetyFault
<1>5. CASE Unload
  BY <1>5 DEF Unload, Lose
<1>6. CASE BeginReload
  BY <1>6 DEF BeginReload
<1>7. CASE Start
  <2>1. BothConsents \in [ordering : BOOLEAN, checkout : BOOLEAN]
    BY DEF BothConsents
  <2> QED
    BY <1>7, <2>1 DEF Start
<1>8. CASE Withdraw
  BY <1>8 DEF Withdraw
<1> QED
  BY ZenonT(60), <1>1, <1>2, <1>3, <1>4, <1>5, <1>6, <1>7, <1>8

\* Types is kept by every step.
LEMMA TypesKept ==
    ASSUME Types, Control, Next
    PROVE  Types'
<1>1. StateOK' /\ JournalOK'
  BY StateKept, JournalKept
<1>2. Lands
  <2>1. CASE BeginReload
    <3>1. [NoContext EXCEPT !.then = "unload"] \in Contexts
      BY NoContextTyped, ContextUpdates DEF Thens
    <3> QED
      BY <2>1, <3>1, StepNames DEF BeginReload, Goto, Lands, Types, Typed
  <2>2. CASE Start
    BY <2>2, EnvironmentTyped, NoContextTyped, StepNames
       DEF Start, Goto, Lands, Types, Typed
  <2> QED
    BY <1>1, <2>1, <2>2, CheckoutLands, FaultingLands, AdministrationLands, StartingLands,
       RequestedLands, EnvironmentLands DEF Next, Progress
<1>3. settled' \subseteq Nat
  BY <1>1, ListFactsNext DEF Types, Next, Settle, Concluded
<1> QED
  BY <1>1, <1>2, <1>3, EnvironmentTyped DEF Types, Typed, Lands

(***************************************************************************)
(* What each method has in its variables, and in which life it runs.       *)
(***************************************************************************)
Places == (Located /\ Placed /\ Returning)'

\* The fields an update leaves alone.
LEMMA ContextFields ==
    ASSUME NEW c \in Contexts
    PROVE  /\ \A n : /\ [c EXCEPT !.revision = n].attempt = c.attempt
                     /\ [c EXCEPT !.revision = n].then = c.then
                     /\ [c EXCEPT !.revision = n].revision = n
                     /\ [c EXCEPT !.revision = n].resolution = c.resolution
           /\ \A s, b : /\ [c EXCEPT !.succeeded = s, !.learned = b].attempt = c.attempt
                        /\ [c EXCEPT !.succeeded = s, !.learned = b].then = c.then
           /\ \A b : /\ [c EXCEPT !.learned = b].attempt = c.attempt
                     /\ [c EXCEPT !.learned = b].then = c.then
           /\ \A b : /\ [c EXCEPT !.saved = b].attempt = c.attempt
                     /\ [c EXCEPT !.saved = b].then = c.then
                     /\ [c EXCEPT !.saved = b].saved = b
                     /\ [c EXCEPT !.saved = b].revision = c.revision
           /\ \A t : /\ [c EXCEPT !.then = t].attempt = c.attempt
                     /\ [c EXCEPT !.then = t].then = t
           /\ \A s, x : /\ [c EXCEPT !.succeeded = s, !.resolution = x].attempt = c.attempt
                        /\ [c EXCEPT !.succeeded = s, !.resolution = x].revision = c.revision
                        /\ [c EXCEPT !.succeeded = s, !.resolution = x].resolution = x
                        /\ [c EXCEPT !.succeeded = s, !.resolution = x].succeeded = s
           /\ [c EXCEPT !.revision = @ + 1] = [c EXCEPT !.revision = c.revision + 1]
  BY DEF Contexts

\* Where a recovery begins: at a record it can mark, or in a fault.
LEMMA RecoverGoes ==
    ASSUME JournalOK', NEW a, NEW t, Recover(a, t)
    PROVE  /\ up' = up /\ manualCheck' = TRUE
           /\ ctx'.attempt = a /\ ctx'.then = t
           /\ \/ /\ pc' = "force" /\ ctx'.forced
                 /\ securityFault' = TRUE /\ enabledFlag' = FALSE
                 /\ ~ Recoverable(a)'
              \/ /\ securityFault' = securityFault /\ enabledFlag' = enabledFlag
                 /\ Recoverable(a)'
                 /\ ctx'.revision # 0
                 /\ \/ pc' = "recover" /\ records'[a].state \in Journal!InFlight
                    \/ /\ pc' = "recoverLatch" /\ ctx'.saved
                       /\ records'[a].state = Journal!Manual
                       /\ ctx'.revision = records'[a].revision
<1>1. CASE Recoverable(a)'
  <2>1. records'[a].revision \in Nat \ {0}
    BY <1>1, ListFactsNext DEF Recoverable, GoodEntry
  <2>2. records'[a].revision + 1 # 0
    BY <2>1
  <2>3. CASE records'[a].state \in Journal!InFlight
    BY <1>1, <2>2, <2>3 DEF Recover, Recoverable, Goto, NoContext
  <2>4. CASE records'[a].state \notin Journal!InFlight
    BY ZenonT(60), <1>1, <2>1, <2>4 DEF Recover, Recoverable, Goto, NoContext
  <2> QED
    BY <2>3, <2>4
<1>2. CASE ~ Recoverable(a)'
  BY <1>2 DEF Recover, Recoverable, Goto, NoContext
<1> QED
  BY <1>1, <1>2

\* Steps of a checkout that need no more than its attempt.
CheckoutTargets == CheckoutSteps \ {"recover", "recoverLatch", "persistence", "again"}

\* What is known while a method of a running manager is in progress.
InUp ==
    /\ Types /\ Located /\ Placed /\ Returning /\ UNCHANGED <<gate, reloading>>
    /\ up = "up"

\* How the steps of a running manager's methods keep to their places.
LEMMA UpHelpersPlace ==
    ASSUME InUp, JournalOK'
    PROVE  /\ Done \/ Abort => Places
           /\ \A c : Goto("idle", c) /\ (KeepFlags \/ SetManualCheck(TRUE) \/ SetManualCheck(FALSE))
                => Places
           /\ \A t \in {"idle", "again"} :
                /\ \A a \in Nat : ForceFault(a, t) => Places
                /\ \A a \in 1..MaxAttempts : Recover(a, t) => Places
           /\ \A t \in {"idle", "again", "persistence", "inspectFault", "unload"} :
                (t = "persistence" => ctx.attempt \in 1..MaxAttempts) =>
                   (MarkBumpFault(t) => Places)
<1> USE DEF InUp, Types, Typed, Located, Placed, Returning, Places,
            CheckoutGate, Goto, flagVars, KeepFlags, SetManualCheck, ClearChallenge,
            CheckoutSteps, AdminSteps, FaultSteps, StartSteps, Sending, Marking, Forcing,
            Rejoining
<1>1. Done \/ Abort => Places
  BY DEF Done, Abort
<1>2. \A c : Goto("idle", c) /\ (KeepFlags \/ SetManualCheck(TRUE) \/ SetManualCheck(FALSE))
                => Places
  OBVIOUS
<1>3. \A t \in {"idle", "again"}, a \in Nat : ForceFault(a, t) => Places
  BY DEF ForceFault, ShutDown, NoContext
<1>4. ASSUME NEW a \in 1..MaxAttempts, NEW t \in {"idle", "again"}, Recover(a, t)
      PROVE  Places
  BY ZenonT(60), <1>4, RecoverGoes
<1>5. ASSUME NEW t \in {"idle", "again", "persistence", "inspectFault", "unload"},
             MarkBumpFault(t), t = "persistence" => ctx.attempt \in 1..MaxAttempts
      PROVE  Places
  <2>1. ctx'.then = t /\ ctx'.attempt = ctx.attempt
    BY <1>5 DEF MarkBumpFault, Contexts
  <2> QED
    BY <1>5, <2>1 DEF MarkBumpFault, ShutDown
<1> QED
  BY <1>1, <1>2, <1>3, <1>4, <1>5

\* A checkout goes on with its attempt.
LEMMA CheckoutHelpersPlace ==
    ASSUME InUp, pc \in CheckoutTargets
    PROVE  \A s \in CheckoutTargets :
             /\ Continue(s) \/ CheckedThen(s) => Places
             /\ Goto(s, ctx) /\ ClearChallenge => Places
             /\ \A n : Goto(s, [ctx EXCEPT !.revision = n]) /\ KeepFlags => Places
             /\ \A b : Goto(s, [ctx EXCEPT !.learned = b]) /\ KeepFlags => Places
             /\ \A x, b : Goto(s, [ctx EXCEPT !.succeeded = x, !.learned = b]) /\ KeepFlags
                            => Places
             /\ Goto(s, [ctx EXCEPT !.then = "again"]) /\ KeepFlags => Places
<1> USE DEF InUp, Types, Typed, Located, Placed, Returning, Places,
            CheckoutGate, Goto, flagVars, KeepFlags, ClearChallenge, CheckoutTargets,
            CheckoutSteps, AdminSteps, FaultSteps, StartSteps, Sending, Marking, Forcing,
            Rejoining
<1> SUFFICES ASSUME NEW s \in CheckoutTargets
             PROVE  /\ Continue(s) \/ CheckedThen(s) => Places
                    /\ Goto(s, ctx) /\ ClearChallenge => Places
                    /\ \A n : Goto(s, [ctx EXCEPT !.revision = n]) /\ KeepFlags => Places
                    /\ \A b : Goto(s, [ctx EXCEPT !.learned = b]) /\ KeepFlags => Places
                    /\ \A x, b : Goto(s, [ctx EXCEPT !.succeeded = x, !.learned = b])
                                   /\ KeepFlags => Places
                    /\ Goto(s, [ctx EXCEPT !.then = "again"]) /\ KeepFlags => Places
  BY ZenonT(60)
<1>1. ASSUME NEW c, c.attempt \in 1..MaxAttempts, c.then \in {"idle", "again"},
             Goto(s, c), KeepFlags \/ ClearChallenge
      PROVE  Places
  BY <1>1
<1>2. ctx \in Contexts /\ ctx.attempt \in 1..MaxAttempts /\ ctx.then \in {"idle", "again"}
  OBVIOUS
<1>3. Continue(s) \/ CheckedThen(s) => Places
  BY DEF CheckedThen, Continue, Done, NoContext
<1> HIDE DEF InUp, Types, Typed, Located, Placed, Returning, Places,
             CheckoutGate, Goto, flagVars, KeepFlags, ClearChallenge, CheckoutTargets,
             CheckoutSteps, AdminSteps, FaultSteps, StartSteps, Sending, Marking, Forcing,
             Rejoining
<1>4. Goto(s, ctx) /\ ClearChallenge => Places
  BY <1>1, <1>2
<1>5. ASSUME NEW n, Goto(s, [ctx EXCEPT !.revision = n]), KeepFlags
      PROVE  Places
  <2>1. /\ [ctx EXCEPT !.revision = n].attempt \in 1..MaxAttempts
        /\ [ctx EXCEPT !.revision = n].then \in {"idle", "again"}
    BY <1>2, ContextFields
  <2> QED
    BY <1>1, <1>5, <2>1
<1>6. ASSUME NEW b, Goto(s, [ctx EXCEPT !.learned = b]), KeepFlags
      PROVE  Places
  <2>1. /\ [ctx EXCEPT !.learned = b].attempt \in 1..MaxAttempts
        /\ [ctx EXCEPT !.learned = b].then \in {"idle", "again"}
    BY <1>2, ContextFields
  <2> QED
    BY <1>1, <1>6, <2>1
<1>7. ASSUME NEW x, NEW b, Goto(s, [ctx EXCEPT !.succeeded = x, !.learned = b]), KeepFlags
      PROVE  Places
  <2>1. /\ [ctx EXCEPT !.succeeded = x, !.learned = b].attempt \in 1..MaxAttempts
        /\ [ctx EXCEPT !.succeeded = x, !.learned = b].then \in {"idle", "again"}
    BY <1>2, ContextFields
  <2> QED
    BY <1>1, <1>7, <2>1
<1>8. ASSUME Goto(s, [ctx EXCEPT !.then = "again"]), KeepFlags
      PROVE  Places
  <2>1. /\ [ctx EXCEPT !.then = "again"].attempt \in 1..MaxAttempts
        /\ [ctx EXCEPT !.then = "again"].then \in {"idle", "again"}
    BY <1>2, ContextFields
  <2> QED
    BY <1>1, <1>8, <2>1
<1> QED
  BY ZenonT(60), <1>3, <1>4, <1>5, <1>6, <1>7, <1>8

\* An operator's action goes on: the attempt stays, only the revision may advance.
LEMMA AdminHelpersPlace ==
    ASSUME InUp, ~securityFault, NEW s \in AdminSteps \ {"disable"}, NEW c,
           c.revision # 0, c.resolution \in State!Resolutions \/ s \in {"inspect", "review", "reviewBind"},
           Goto(s, c), KeepFlags \/ ClearChallenge
    PROVE  Places
  BY DEF InUp, Types, Typed, Located, Placed, Returning, Places,
         CheckoutGate, Goto, flagVars, KeepFlags, ClearChallenge,
         CheckoutSteps, AdminSteps, FaultSteps, StartSteps, Sending, Marking, Forcing,
         Rejoining

\* The subroutines of faults, in either life.
LEMMA FaultHelpersPlace ==
    ASSUME Types, Located, Placed, Returning, UNCHANGED <<gate, reloading>>, JournalOK',
           pc \in Forcing \cup Marking
    PROVE  /\ Return => Places
           /\ pc \in Forcing /\ (Continue("markCreate") \/ Continue("markAttempt")) => Places
           /\ \A n : Goto("markFault", [ctx EXCEPT !.marker = n]) /\ KeepFlags => Places
           /\ MarkerCancelled => Places
<1> USE DEF Types, Typed, Located, Placed, Returning, Places,
            CheckoutGate, Goto, flagVars, KeepFlags, Continue, Done, Abort,
            CheckoutSteps, AdminSteps, FaultSteps, StartSteps, Sending, Marking, Forcing,
            Rejoining
<1>1. Return => Places
  <2>1. ctx.then # "idle" => [ctx EXCEPT !.then = "idle"].attempt = ctx.attempt
                             /\ [ctx EXCEPT !.then = "idle"].then = "idle"
    BY DEF Contexts
  <2>2. CASE ctx.then = "idle"
    BY <2>2 DEF Return, NoContext
  <2>3. CASE ctx.then # "idle"
    <3> SUFFICES ASSUME Return PROVE Places
      OBVIOUS
    <3>1. /\ pc' = ctx.then /\ ctx'.then = "idle" /\ ctx'.attempt = ctx.attempt
          /\ up' = up /\ securityFault' = securityFault /\ enabledFlag' = enabledFlag
          /\ gate' = gate /\ reloading' = reloading
      BY <2>1, <2>3 DEF Return
    <3>2. CASE up = "up"
      BY <2>3, <3>1, <3>2
    <3>3. CASE up = "starting"
      BY <2>3, <3>1, <3>3
    <3> QED
      BY <3>2, <3>3
  <2> QED
    BY <2>2, <2>3
<1>2. pc \in Forcing /\ (Continue("markCreate") \/ Continue("markAttempt")) => Places
  OBVIOUS
<1>3. \A n : Goto("markFault", [ctx EXCEPT !.marker = n]) /\ KeepFlags => Places
  BY DEF Contexts
<1>4. MarkerCancelled => Places
  <2>1. ctx.then = "persistence" => up = "up" /\ ctx.attempt \in 1..MaxAttempts
    BY SMTT(60)
  <2>2. ctx.then = "persistence" /\ Recover(ctx.attempt, "idle") => Places
    BY <2>1, UpHelpersPlace DEF InUp
  <2>3. Abort => Places
    OBVIOUS
  <2>4. Done /\ (ctx.forced = FALSE) /\ ctx.then # "finish" => Places
    BY DEF NoContext
  <2>5. ctx.forced \in BOOLEAN
    BY DEF Contexts
  <2> HIDE DEF Types, Typed, Located, Placed, Returning, Places,
               CheckoutGate, Goto, flagVars, KeepFlags, Continue, Done, Abort,
               CheckoutSteps, AdminSteps, FaultSteps, StartSteps, Sending, Marking, Forcing,
               Rejoining
  <2>6. CASE ctx.forced
    BY <1>1, <2>6 DEF MarkerCancelled
  <2>7. CASE ~ctx.forced
    BY SMTT(60), <2>2, <2>3, <2>4, <2>5, <2>7 DEF MarkerCancelled
  <2> QED
    BY <2>6, <2>7
<1> QED
  BY <1>1, <1>2, <1>3, <1>4

\* Start-up goes on.
LEMMA StartHelpersPlace ==
    ASSUME Types, Located, Placed, Returning, UNCHANGED <<gate, reloading>>, up = "starting"
    PROVE  /\ \A s \in StartSteps : \A c :
                 /\ s = "startLatch" => c.revision # 0
                 /\ Goto(s, c) /\ up' = up
                 => Places
           /\ \A s \in StartSteps \ {"startLatch"} : Continue(s) => Places
           /\ Abort => Places
           /\ \A t \in Rejoining, a \in Nat : ForceFault(a, t) => Places
<1> USE DEF Types, Typed, Located, Placed, Returning, Places,
            CheckoutGate, Goto, flagVars, KeepFlags, NoContext,
            CheckoutSteps, AdminSteps, FaultSteps, StartSteps, Sending, Marking, Forcing,
            Rejoining
<1>1. \A s \in StartSteps : \A c :
                 /\ s = "startLatch" => c.revision # 0
                 /\ Goto(s, c) /\ up' = up
                 => Places
  OBVIOUS
<1>2. \A s \in StartSteps \ {"startLatch"} : Continue(s) => Places
  BY DEF Continue
<1>3. Abort => Places
  BY DEF Abort
<1>4. \A t \in Rejoining, a \in Nat : ForceFault(a, t) => Places
  BY DEF ForceFault, ShutDown
<1> QED
  BY <1>1, <1>2, <1>3, <1>4

\* The steps of a checkout do,
LEMMA CheckoutPlaced ==
    ASSUME Types, Control, StateOK', JournalOK', Checkout
    PROVE  Places
<1>0. pc \in CheckoutSteps
  BY
     DEF Checkout, CheckoutSteps, CreateAttempt, AdvanceAttempt, AssertAuthority,
         RecordUnsent, FailLocally, Submit, Reply, RecordAnswer, BumpAfterAnswer,
         RecordRejection, BumpAfterRejection, LearnFromAmbiguous, LearnFromAnswer,
         PersistenceFault, RecoverRecord, RecoverLatch, ForceAgain
<1>1. /\ up = "up" /\ ctx \in Contexts
      /\ pc # "again" => ctx.attempt \in 1..MaxAttempts
      /\ ctx.then \in {"idle", "again"}
      /\ pc \in {"recover", "recoverLatch"} => ctx.revision # 0
  BY SMTT(60), <1>0 DEF Types, Typed, Control, Located, Placed, Returning
<1>2. UNCHANGED <<gate, reloading>>
  BY
     DEF Checkout, CreateAttempt, AdvanceAttempt, AssertAuthority, RecordUnsent,
         FailLocally, Submit, Reply, RecordAnswer, BumpAfterAnswer, RecordRejection,
         BumpAfterRejection, LearnFromAmbiguous, LearnFromAnswer, PersistenceFault,
         RecoverRecord, RecoverLatch, ForceAgain, environmentVars, restVars
<1>3. InUp
  BY SMTT(60), <1>1, <1>2 DEF InUp, Control
<1>4. \/ PersistenceFault \/ ForceAgain \/ RecoverRecord \/ RecoverLatch
      \/ pc \in CheckoutTargets
  BY
     DEF Checkout, CheckoutTargets, CheckoutSteps, CreateAttempt, AdvanceAttempt,
         AssertAuthority, RecordUnsent, FailLocally, Submit, Reply, RecordAnswer,
         BumpAfterAnswer, RecordRejection, BumpAfterRejection, LearnFromAmbiguous,
         LearnFromAnswer, PersistenceFault, RecoverRecord, RecoverLatch, ForceAgain
<1>5. {"quoted", "reserved", "dispatching", "assert", "submit", "terminal", "reply",
       "finalBump", "rejected", "rejectedBump", "ambiguous", "learn", "unsent", "localFail"}
        \subseteq CheckoutTargets
  BY DEF CheckoutTargets, CheckoutSteps
<1>6. 0 \in Nat /\ \A n \in 1..MaxAttempts : n \in Nat
  BY ManagerConstants
<1>7. CASE pc \in CheckoutTargets
  <2>0. AdvanceAttempt => pc = "dispatching" \/ Following[pc] \in {"reserved", "dispatching"}
    BY SMTT(60) DEF AdvanceAttempt, Following
  <2> USE <1>1, <1>3, <1>5, <1>6, <1>7, UpHelpersPlace, CheckoutHelpersPlace
  <2>1. CASE CreateAttempt
    BY <2>1, JournalEnds DEF CreateAttempt, Ends, Raised
  <2>2. CASE AdvanceAttempt
    BY <2>0, <2>2, JournalEnds DEF AdvanceAttempt, Ends
  <2>3. CASE AssertAuthority
    BY <2>3, StateEnds DEF AssertAuthority, Ends, Raised
  <2>4. CASE RecordUnsent
    BY <2>4, JournalEnds DEF RecordUnsent, Ends, Raised
  <2>5. CASE FailLocally
    BY <2>5, JournalEnds DEF FailLocally, Ends, Raised
  <2>6. CASE Submit
    BY ZenonT(60), <2>6, StateEnds DEF Submit, Ends, Raised
  <2>7. CASE Reply
    BY <2>7, StateEnds DEF Reply, Ends, Raised
  <2>8. CASE RecordAnswer
    BY <2>8, JournalEnds DEF RecordAnswer, Ends, Raised
  <2>9. CASE BumpAfterAnswer
    BY ZenonT(60), <2>9, StateEnds DEF BumpAfterAnswer, Ends, Raised
  <2>10. CASE RecordRejection
    BY <2>10, JournalEnds DEF RecordRejection, Ends, Raised
  <2>11. CASE BumpAfterRejection
    BY <2>11, StateEnds DEF BumpAfterRejection, Ends, Raised
  <2>12. CASE LearnFromAmbiguous
    BY <2>12, JournalEnds DEF LearnFromAmbiguous, Ends, Raised
  <2>13. CASE LearnFromAnswer
    BY ZenonT(60), <2>13, JournalEnds DEF LearnFromAnswer, Ends, Raised
  <2>14. ~ (PersistenceFault \/ ForceAgain \/ RecoverRecord \/ RecoverLatch)
    BY DEF CheckoutTargets, PersistenceFault, ForceAgain, RecoverRecord, RecoverLatch
  <2> QED
    BY ZenonT(60), <2>1, <2>2, <2>3, <2>4, <2>5, <2>6, <2>7, <2>8, <2>9, <2>10, <2>11, <2>12,
       <2>13, <2>14
       DEF Checkout
<1>8. CASE PersistenceFault
  BY <1>1, <1>3, <1>6, <1>8, UpHelpersPlace DEF PersistenceFault
<1>9. CASE ForceAgain
  BY <1>1, <1>3, <1>6, <1>9, UpHelpersPlace DEF ForceAgain
<1>10. CASE RecoverRecord
  <2>1. /\ pc = "recover" /\ pc' = "recoverLatch" /\ KeepFlags
        /\ ctx'.attempt = ctx.attempt /\ ctx'.revision = ctx.revision /\ ctx'.then = ctx.then
    BY <1>1, <1>10, ContextFields DEF RecoverRecord, Goto
  <2> QED
    BY <1>1, <1>3, <2>1
       DEF InUp, Located, Placed, Returning, Places, KeepFlags, flagVars, CheckoutGate,
           CheckoutSteps, AdminSteps, FaultSteps, StartSteps, Sending, Marking, Forcing,
           Rejoining
<1>11. CASE RecoverLatch
  <2>1. Return => Places
    <3>1. [ctx EXCEPT !.then = "idle"].then = "idle"
      BY <1>1, ContextFields
    <3>2. SUFFICES ASSUME Return PROVE Places
      OBVIOUS
    <3>3. KeepFlags /\ \/ Goto("idle", NoContext)
                       \/ Goto("again", [ctx EXCEPT !.then = "idle"])
      BY <1>1, <3>2 DEF Return
    <3>4. /\ pc' \in {"idle", "again"} /\ ctx'.then = "idle"
          /\ up' = up /\ securityFault' = securityFault /\ enabledFlag' = enabledFlag
      BY <1>1, <3>3 DEF KeepFlags, flagVars, Goto, NoContext, Contexts
    <3> QED
      BY <1>1, <1>3, <3>4
         DEF InUp, Located, Placed, Returning, Places, CheckoutGate,
             CheckoutSteps, AdminSteps, FaultSteps, StartSteps, Sending, Marking, Forcing,
             Rejoining
  <2> QED
    BY <1>1, <1>3, <1>6, <1>11, <2>1, UpHelpersPlace DEF RecoverLatch
<1> QED
  BY SMTT(60), <1>4, <1>7, <1>8, <1>9, <1>10, <1>11

\* those of a fault,
LEMMA FaultingPlaced ==
    ASSUME Types, Control, StateOK', JournalOK', Faulting
    PROVE  Places
<1>1. pc \in Forcing \cup Marking /\ UNCHANGED <<gate, reloading>>
  BY
     DEF Faulting, ForceLatch, MarkAttempt, MarkCreate, MarkFault, environmentVars,
         Forcing, Marking
<1>2. Located /\ Placed /\ Returning /\ ctx \in Contexts
  BY DEF Control, Types, Typed
<1>3. /\ Return => Places
      /\ pc \in Forcing /\ (Continue("markCreate") \/ Continue("markAttempt")) => Places
      /\ \A n : Goto("markFault", [ctx EXCEPT !.marker = n]) /\ KeepFlags => Places
      /\ MarkerCancelled => Places
  BY <1>1, <1>2, FaultHelpersPlace
<1>4. CASE ForceLatch
  <2>1. pc \in Forcing
    BY <1>4 DEF ForceLatch, Forcing
  <2>2. WriteMarker => Places
    BY <1>3, <2>1 DEF WriteMarker
  <2> QED
    BY <1>3, <1>4, <2>2 DEF ForceLatch
<1>5. CASE MarkAttempt
  BY <1>3, <1>5, JournalEnds DEF MarkAttempt, Ends, Raised
<1>6. CASE MarkCreate
  BY <1>3, <1>6, JournalEnds DEF MarkCreate, Ends, Raised
<1>7. CASE MarkFault
  BY <1>3, <1>7, JournalEnds DEF MarkFault, Ends, Raised
<1> QED
  BY <1>4, <1>5, <1>6, <1>7 DEF Faulting

\* those of an administrator's method,
LEMMA AdministrationPlaced ==
    ASSUME Types, Control, StateOK', JournalOK', Administration
    PROVE  Places
<1>0. pc \in AdminSteps \cup {"inspectFault"}
  BY ZenonT(60)
     DEF Administration, AdminSteps, DisableBump, InspectionAnswer, Reconcile,
         InspectionBind, InspectionBump, InspectionClear, InspectionFault, ClearAgain,
         Review, ReviewBind, ResolveBump, ResolveRecord, ResolveBind, ResolveClear
<1>1. UNCHANGED <<gate, reloading>>
  BY
     DEF Administration, DisableBump, InspectionAnswer, Reconcile, InspectionBind,
         InspectionBump, InspectionClear, InspectionFault, ClearAgain, Review,
         ReviewBind, ResolveBump, ResolveRecord, ResolveBind, ResolveClear,
         environmentVars, restVars
<1>2. /\ up = "up" /\ ctx \in Contexts
      /\ ctx.attempt \in Nat /\ ctx.revision \in Nat /\ ctx.revision + 1 # 0
      /\ pc \notin {"disable", "inspectFault"} => ~securityFault /\ ctx.revision # 0
      /\ pc = "disable" => ctx.then \in {"idle", "unload"}
      /\ pc \in {"reconcile", "inspectBind", "inspectBump", "inspectClear", "resolveBump",
               "resolve", "resolveBind", "clear", "clearAgain"} =>
          ctx.resolution \in State!Resolutions
  <2>1. ctx.revision \in Nat => ctx.revision + 1 # 0
    OBVIOUS
  <2> QED
    BY <1>0, <2>1, Sizes DEF Types, Typed, Control, Located, Placed, Returning, AdminSteps
<1>3. InUp
  BY <1>1, <1>2 DEF InUp, Control
<1> DEFINE Targets == AdminSteps \ {"disable"}
<1>4. ASSUME pc \notin {"disable", "inspectFault"}, NEW s \in Targets
      PROVE  /\ s \in {"inspect", "review", "reviewBind"} \/ ctx.resolution \in State!Resolutions
                  => /\ Continue(s) => Places
                     /\ Goto(s, ctx) /\ ClearChallenge => Places
                     /\ Goto(s, [ctx EXCEPT !.revision = @ + 1]) /\ KeepFlags => Places
  <2>1. \A n \in {ctx.revision + 1} : [ctx EXCEPT !.revision = n].revision # 0
                          /\ [ctx EXCEPT !.revision = n].resolution = ctx.resolution
    BY <1>2, ContextFields
  <2>2. [ctx EXCEPT !.revision = @ + 1].revision # 0
        /\ [ctx EXCEPT !.revision = @ + 1].resolution = ctx.resolution
    BY <1>2 DEF Contexts
  <2>3. ASSUME NEW c, c.revision # 0, Goto(s, c), KeepFlags \/ ClearChallenge,
               c.resolution \in State!Resolutions \/ s \in {"inspect", "review", "reviewBind"}
        PROVE  Places
    BY <1>2, <1>3, <1>4, <2>3, AdminHelpersPlace
  <2> QED
    BY <1>2, <1>4, <2>2, <2>3 DEF Continue
<1>5. pc = "inspect" =>
        \A s \in BOOLEAN :
           Goto("reconcile", [ctx EXCEPT !.succeeded = s, !.resolution = ProviderResolution(s)])
             /\ KeepFlags => Places
  <2> SUFFICES ASSUME pc = "inspect", NEW s \in BOOLEAN, KeepFlags,
                      Goto("reconcile", [ctx EXCEPT !.succeeded = s,
                                                    !.resolution = ProviderResolution(s)])
               PROVE  Places
    OBVIOUS
  <2> DEFINE c == [ctx EXCEPT !.succeeded = s, !.resolution = ProviderResolution(s)]
  <2>1. c.revision # 0 /\ c.resolution \in State!Resolutions
    BY <1>2 DEF Contexts, ProviderResolution, State!Resolutions
  <2>2. "reconcile" \in AdminSteps \ {"disable"} /\ ~securityFault
    BY <1>2 DEF AdminSteps
  <2> HIDE DEF c
  <2>3. Goto("reconcile", c)
    BY DEF c
  <2> QED
    BY <1>3, <2>1, <2>2, <2>3, AdminHelpersPlace
<1>6. {"inspectBind", "inspectBump", "inspectClear", "reviewBind", "resolve", "resolveBind",
       "clear"} \subseteq Targets
  BY DEF AdminSteps
<1> HIDE DEF Targets
<1> USE <1>2, <1>3, <1>4, <1>6, UpHelpersPlace
<1>7. CASE DisableBump
  <2>1. pc = "disable"
    BY <1>7 DEF DisableBump
  <2>2. Return => Places
    <3>1. SUFFICES ASSUME Return PROVE Places
      OBVIOUS
    <3>2. KeepFlags /\ \/ Goto("idle", NoContext)
                       \/ Goto("unload", [ctx EXCEPT !.then = "idle"])
      BY <2>1, <3>1 DEF Return
    <3>3. /\ pc' \in {"idle", "unload"} /\ ctx'.then = "idle"
          /\ up' = up /\ securityFault' = securityFault /\ enabledFlag' = enabledFlag
      BY SMTT(60), <3>2 DEF KeepFlags, flagVars, Goto, NoContext, Contexts
    <3> QED
      BY <3>3
         DEF InUp, Located, Placed, Returning, Places, CheckoutGate,
             CheckoutSteps, AdminSteps, FaultSteps, StartSteps, Sending, Marking, Forcing,
             Rejoining
  <2> QED
    BY <1>7, <2>1, <2>2, StateEnds DEF DisableBump, Ends, Raised
<1>8. CASE InspectionAnswer
  BY <1>5, <1>8 DEF InspectionAnswer, Ends, Raised
<1>9. CASE Reconcile
  BY <1>9, JournalEnds DEF Reconcile, Ends, Raised
<1>10. CASE InspectionBind
  BY <1>10, StateEnds DEF InspectionBind, Ends, Raised
<1>11. CASE InspectionBump
  BY <1>11, StateEnds DEF InspectionBump, Ends, Raised
<1>12. CASE InspectionClear
  BY <1>12, StateEnds DEF InspectionClear, Ends, Raised
<1>13. CASE InspectionFault
  BY <1>13, StateEnds DEF InspectionFault, Ends, Raised
<1>14. CASE ClearAgain
  BY <1>14, StateEnds DEF ClearAgain, Ends, Raised
<1>15. CASE Review
  BY <1>15, JournalEnds DEF Review, Ends, Raised
<1>16. CASE ReviewBind
  BY <1>16, StateEnds DEF ReviewBind, Ends, Raised
<1>17. CASE ResolveBump
  BY <1>17, StateEnds DEF ResolveBump, Ends, Raised
<1>18. CASE ResolveRecord
  BY <1>18, JournalEnds DEF ResolveRecord, Ends, Raised
<1>19. CASE ResolveBind
  BY <1>19, StateEnds DEF ResolveBind, Ends, Raised
<1>20. CASE ResolveClear
  BY <1>20, StateEnds DEF ResolveClear, Ends, Raised
<1> QED
  BY <1>7, <1>8, <1>9, <1>10, <1>11, <1>12, <1>13, <1>14, <1>15, <1>16, <1>17, <1>18, <1>19,
     <1>20
     DEF Administration

\* those of start-up,
LEMMA StartingPlaced ==
    ASSUME Types, Control, StateOK', JournalOK', Starting
    PROVE  Places
<1>1. pc \in StartSteps
  BY
     DEF Starting, StartSteps, LoadState, LoadStateAgain, LoadPreparations,
         LoadAttempts, CheckSources, CheckUnresolved, StartLatch, Finish, Unload
<1>2. CASE Unload
  BY <1>2
     DEF Unload, Lose, Goto, NoContext, Control, Located, Placed, Returning, Places,
         CheckoutGate, CheckoutSteps, AdminSteps, FaultSteps, StartSteps, Sending,
         Marking, Forcing, Rejoining
<1>3. CASE Finish
  <2>1. up = "starting" /\ UNCHANGED <<gate, reloading>>
    BY <1>3 DEF Finish, Control, Placed, StartSteps
  <2>2. CASE securityFault /\ ~State!IntegrityFault /\ ~ctx.saved
    <3>1. /\ pc' = "markCreate" /\ ctx'.then = "finish" /\ up' = "starting"
          /\ securityFault' = TRUE /\ enabledFlag' = FALSE
          /\ UNCHANGED <<gate, reloading>>
      BY <1>3, <2>1, <2>2 DEF Finish, ShutDown, Goto, NoContext
    <3> QED
      BY <2>1, <3>1
         DEF Control, Located, Placed, Returning, Places, CheckoutGate, CheckoutSteps,
             AdminSteps, FaultSteps, StartSteps, Sending, Marking, Forcing, Rejoining
  <2>3. CASE ~(securityFault /\ ~State!IntegrityFault /\ ~ctx.saved)
    BY <1>3, <2>1, <2>3
       DEF Finish, Goto, NoContext, Control, Types, Typed, Located, Placed, Returning,
           Places, CheckoutGate, CheckoutSteps, AdminSteps, FaultSteps, StartSteps,
           Sending, Marking, Forcing, Rejoining
  <2> QED
    BY <2>2, <2>3
<1>4. CASE ~(Unload \/ Finish)
  <2>0. UNCHANGED <<gate, reloading>>
    BY <1>4
       DEF Starting, LoadState, LoadStateAgain, LoadPreparations, LoadAttempts,
           CheckSources, CheckUnresolved, StartLatch, environmentVars, restVars
  <2>1. up = "starting" /\ 0 \in Nat
    BY <1>1, <1>4 DEF Control, Placed, StartSteps, Unload, Starting,
           LoadState, LoadStateAgain, LoadPreparations, LoadAttempts, CheckSources,
           CheckUnresolved, StartLatch
  <2>2. /\ \A s \in StartSteps \ {"startLatch"} : Continue(s) => Places
        /\ Abort => Places
        /\ \A t \in Rejoining, a \in Nat : ForceFault(a, t) => Places
    BY <2>0, <2>1, StartHelpersPlace DEF Control
  <2>3. ASSUME NEW s \in StartSteps, NEW c, s = "startLatch" => c.revision # 0, Goto(s, c),
               KeepFlags \/ ReadFlags \/ SetManualCheck(TRUE) \/ up' = up
        PROVE  Places
    <3>1. up' = up
      BY <2>3 DEF KeepFlags, ReadFlags, SetManualCheck, flagVars
    <3> QED
      BY <2>0, <2>1, <2>3, <3>1, StartHelpersPlace DEF Control
  <2>4. /\ {"loadStateAgain", "preparations", "loadJournal", "sources", "unresolved", "finish"}
              \subseteq StartSteps \ {"startLatch"}
        /\ {"sources", "unresolved", "finish"} \subseteq Rejoining
    BY DEF StartSteps, Rejoining
  <2>5. ctx.attempt \in Nat /\ (snap.manual # None => snap.manual.attempt \in Nat)
    BY Sizes, StateTypes DEF Types
  <2>6. CASE CheckUnresolved
    <3> DEFINE unresolved == Journal!UnresolvedManualChecks
               a == CHOOSE b \in unresolved : TRUE
               c == [NoContext EXCEPT !.attempt = a, !.revision = records[a].revision]
    <3>1. unresolved \subseteq DOMAIN records /\ DOMAIN records \subseteq Nat
      BY ListFacts DEF Journal!UnresolvedManualChecks, Types
    <3>2. unresolved # {} => a \in Nat /\ records[a].revision # 0
      BY <3>1, ListFacts DEF Types, GoodEntry
    <3>3. unresolved # {} => c.revision # 0
      BY <3>2 DEF NoContext
    <3>4. "startLatch" \in StartSteps
      BY DEF StartSteps
    <3> HIDE DEF unresolved, a, c
    <3>5. \/ Continue("finish") \/ ForceFault(0, "finish")
          \/ unresolved # {} /\ ForceFault(a, "finish")
          \/ snap.manual # None /\ ForceFault(snap.manual.attempt, "finish")
          \/ Goto("finish", NoContext) /\ SetManualCheck(TRUE)
          \/ unresolved # {} /\ Goto("startLatch", c) /\ SetManualCheck(TRUE)
      BY <2>6 DEF CheckUnresolved, unresolved, a, c
    <3>6. Goto("finish", NoContext) /\ SetManualCheck(TRUE) => Places
      BY <2>3, <2>4
    <3>7. unresolved # {} /\ Goto("startLatch", c) /\ SetManualCheck(TRUE) => Places
      BY <2>3, <3>3, <3>4
    <3> QED
      BY <2>1, <2>2, <2>4, <2>5, <3>2, <3>5, <3>6, <3>7
  <2>7. CASE LoadState
    BY <2>1, <2>2, <2>4, <2>5, <2>7, StateEnds DEF LoadState, Ends, Raised
  <2>8. CASE LoadStateAgain
    <3>1. \/ Abort
          \/ Goto("loadJournal", NoContext) /\ up' = up
      BY <2>8, StateEnds DEF LoadStateAgain, Ends, Raised, ReadFlags
    <3> QED
      BY <2>2, <2>3, <2>4, <3>1
  <2>9. CASE LoadPreparations
    <3>1. Goto("loadJournal", NoContext) /\ ReadFlags => Places
      BY <2>3, <2>4
    <3> QED
      BY <3>1, <2>1, <2>2, <2>4, <2>5, <2>9, StateEnds
         DEF LoadPreparations, Ends, Raised
  <2>10. CASE LoadAttempts
    BY <2>1, <2>2, <2>4, <2>5, <2>10, JournalEnds DEF LoadAttempts, Ends, Raised
  <2>11. CASE CheckSources
    BY <2>1, <2>2, <2>4, <2>5, <2>11, StateEnds DEF CheckSources, Ends, Raised
  <2>12. CASE StartLatch
    <3>1. Goto("finish", NoContext) /\ KeepFlags => Places
      BY <2>3, <2>4
    <3> QED
      BY <3>1, <2>1, <2>2, <2>4, <2>5, <2>12, StateEnds DEF StartLatch, Ends, Raised
  <2> QED
    BY <1>4, <2>6, <2>7, <2>8, <2>9, <2>10, <2>11, <2>12 DEF Starting
<1> QED
  BY <1>2, <1>3, <1>4

\* and whatever begins a method or ends the process.
LEMMA RequestsPlaced ==
    ASSUME Types, Control, StateOK', JournalOK',
           Requested \/ BeginReload \/ Start \/ Environment
    PROVE  Places
<1> USE DEF Control, Types, Typed
<1>1. CASE BeginCheckout
  <2>1. NewAttempt \in 1..MaxAttempts
    BY <1>1, ManagerConstants, NewAttemptIsNew DEF BeginCheckout
  <2>2. /\ up = "up" /\ pc' = "create" /\ KeepFlags /\ UNCHANGED <<gate, reloading>>
        /\ ctx'.attempt = NewAttempt /\ ctx'.then = "idle"
    BY <1>1 DEF BeginCheckout, Goto, NoContext, restVars, environmentVars
  <2> QED
    BY <2>1, <2>2
       DEF KeepFlags, flagVars, Located, Placed, Returning, Places, CheckoutGate,
           CheckoutSteps, AdminSteps, FaultSteps, StartSteps, Sending, Marking, Forcing,
           Rejoining
<1>2. CASE Disable
  BY <1>2
     DEF Disable, Goto, restVars, environmentVars, NoContext, controlVars, flagVars,
         Located, Placed, Returning, Places, CheckoutGate, CheckoutSteps, AdminSteps,
         FaultSteps, StartSteps, Sending, Marking, Forcing, Rejoining
<1>3. CASE BeginInspection
  <2>1. snap.manual.revision # 0
    BY <1>3, StateTypes DEF BeginInspection, Bound
  <2>2. /\ up = "up" /\ pc' = "inspect" /\ KeepFlags /\ UNCHANGED <<gate, reloading>>
        /\ ctx'.revision # 0 /\ ctx'.then = "idle" /\ ~securityFault
    BY <1>3, <2>1
       DEF BeginInspection, Goto, NoContext, restVars, environmentVars, IntegrityFault
  <2> QED
    BY <2>2
       DEF KeepFlags, flagVars, Located, Placed, Returning, Places, CheckoutGate,
           CheckoutSteps, AdminSteps, FaultSteps, StartSteps, Sending, Marking, Forcing,
           Rejoining
<1>4. CASE PrepareResolution
  BY <1>4
     DEF PrepareResolution, restVars, environmentVars, NoContext, controlVars, flagVars,
         Located, Placed, Returning, Places, CheckoutGate, CheckoutSteps, AdminSteps,
         FaultSteps, StartSteps, Sending, Marking, Forcing, Rejoining, Challenges
<1>5. CASE LoseChallenge
  BY <1>5
     DEF LoseChallenge, restVars, environmentVars, NoContext, controlVars, flagVars,
         Located, Placed, Returning, Places, CheckoutGate, CheckoutSteps, AdminSteps,
         FaultSteps, StartSteps, Sending, Marking, Forcing, Rejoining
<1>6. CASE BeginResolution
  <2>1. challenge \in Challenges /\ ~securityFault
    BY <1>6 DEF BeginResolution, IntegrityFault
  <2>2. challenge.revision # 0 /\ challenge.resolution \in State!Resolutions \cup {"still_unknown"}
    BY <2>1 DEF Challenges, Requests, Journal!AdminResolutions, State!Resolutions
  <2> DEFINE c == [NoContext EXCEPT !.attempt = challenge.attempt,
                                    !.revision = challenge.revision,
                                    !.resolution = challenge.resolution]
  <2>3. c.revision # 0 /\ c.resolution = challenge.resolution
    BY <2>2 DEF NoContext
  <2>4. /\ up = "up" /\ ctx' = c /\ ClearChallenge /\ UNCHANGED <<gate, reloading>>
        /\ \/ pc' = "review"
           \/ pc' = "resolveBump" /\ c.resolution # "still_unknown"
           \/ pc' = "clearAgain" /\ c.resolution # "still_unknown"
    <3>1. /\ up = "up" /\ ctx' = c /\ ClearChallenge /\ UNCHANGED <<gate, reloading>>
      BY <1>6 DEF BeginResolution, Goto, restVars, environmentVars
    <3>2. CASE records[challenge.attempt].state # Journal!Manual
      <4>1. /\ challenge.attempt \in DOMAIN records
            /\ records[challenge.attempt].resolution = challenge.resolution
            /\ records[challenge.attempt].state \in Journal!Confirmed
            /\ records[challenge.attempt].resolution = snap.manual.resolution
            /\ snap.manual # None /\ snap.manual.resolution # None
        BY <1>6, <3>2 DEF BeginResolution, ChallengeCurrent, Accepts, Bound
      <4>2. challenge.resolution \in State!Resolutions
        BY <4>1, StateTypes
      <4>3. challenge.resolution # "still_unknown"
        BY <4>2 DEF State!Resolutions
      <4> QED
        BY <1>6, <2>3, <3>1, <3>2, <4>3 DEF BeginResolution, Goto
    <3>3. CASE records[challenge.attempt].state = Journal!Manual
      BY <1>6, <2>3, <3>1, <3>3 DEF BeginResolution, Goto
    <3> QED
      BY <3>2, <3>3
  <2> HIDE DEF c
  <2> QED
    BY <2>1, <2>2, <2>3, <2>4
       DEF ClearChallenge, flagVars, Located, Placed, Returning, Places, CheckoutGate,
           CheckoutSteps, AdminSteps, FaultSteps, StartSteps, Sending, Marking, Forcing,
           Rejoining
<1>7. CASE BeginReload
  BY <1>7
     DEF BeginReload, Goto, NoContext, controlVars, flagVars, restVars, environmentVars,
         Located, Placed, Returning, Places, CheckoutGate, CheckoutSteps, AdminSteps,
         FaultSteps, StartSteps, Sending, Marking, Forcing, Rejoining
<1>8. CASE Start
  BY <1>8
     DEF Start, BothConsents, Goto, NoContext, controlVars, flagVars, restVars,
         environmentVars, Located, Placed, Returning, Places, CheckoutGate,
         CheckoutSteps, AdminSteps, FaultSteps, StartSteps, Sending, Marking, Forcing,
         Rejoining
<1>9. CASE Crash
  BY <1>9
     DEF Crash, Lose, Goto, NoContext, controlVars, flagVars, restVars, environmentVars,
         Located, Placed, Returning, Places, CheckoutGate, CheckoutSteps, AdminSteps,
         FaultSteps, StartSteps, Sending, Marking, Forcing, Rejoining
<1>10. CASE Withdraw
  BY <1>10
     DEF Withdraw, controlVars, flagVars, NoContext, restVars, environmentVars, Located,
         Placed, Returning, Places, CheckoutGate, CheckoutSteps, AdminSteps, FaultSteps,
         StartSteps, Sending, Marking, Forcing, Rejoining
<1>11. CASE PreparationWrites
  BY <1>11
     DEF PreparationWrites, controlVars, restVars, flagVars, environmentVars, NoContext,
         Located, Placed, Returning, Places, CheckoutGate, CheckoutSteps, AdminSteps,
         FaultSteps, StartSteps, Sending, Marking, Forcing, Rejoining
<1> QED
  BY <1>1, <1>2, <1>3, <1>4, <1>5, <1>6, <1>7, <1>8, <1>9, <1>10, <1>11
     DEF Requested, Environment

\* The step leads to no step of a checkout before its POST.
Away == pc' \notin Preparing \cup {"unsent"}

\* However a method continues elsewhere, no draft is being prepared then.
LEMMA HelpersLeave ==
    ASSUME Types
    PROVE  /\ \A s \in Steps \ (Preparing \cup {"unsent"}) : \A c : Goto(s, c) => Away
           /\ \A s \in Steps \ (Preparing \cup {"unsent"}) : Continue(s) => Away
           /\ Done \/ Abort \/ Return \/ WriteMarker \/ MarkerCancelled => Away
           /\ \A a, t : ForceFault(a, t) \/ Recover(a, t) => Away
           /\ \A t : MarkBumpFault(t) => Away
<1> USE DEF Away, Preparing, Goto
<1>1. \A s \in Steps \ (Preparing \cup {"unsent"}) : \A c : Goto(s, c) => Away
  OBVIOUS
<1>2. \A s \in Steps \ (Preparing \cup {"unsent"}) : Continue(s) => Away
  BY DEF Continue
<1>3. Done \/ Abort => Away
  BY DEF Done, Abort
<1>4. Return => Away
  BY DEF Return, Types, Typed, Contexts, Thens
<1>5. \A a, t : ForceFault(a, t) => Away
  BY DEF ForceFault
<1>6. \A a, t : Recover(a, t) => Away
  BY DEF Recover
<1>7. \A t : MarkBumpFault(t) => Away
  BY DEF MarkBumpFault
<1>8. WriteMarker => Away
  <2>1. Continue("markCreate") \/ Continue("markAttempt") => Away
    BY DEF Continue
  <2> HIDE DEF Away, Preparing, Goto
  <2> QED
    BY <1>4, <2>1 DEF WriteMarker
<1>9. MarkerCancelled => Away
  <2>1. ctx.forced \in BOOLEAN
    BY DEF Types, Typed, Contexts
  <2> HIDE DEF Away, Preparing, Goto
  <2>2. CASE ctx.forced
    BY <1>4, <2>2 DEF MarkerCancelled
  <2>3. CASE ~ctx.forced
    BY <1>3, <1>6, <2>1, <2>3 DEF MarkerCancelled
  <2> QED
    BY <2>2, <2>3
<1> QED
  BY <1>1, <1>2, <1>3, <1>4, <1>5, <1>6, <1>7, <1>8, <1>9

\* Only the steps of a checkout before its POST go on preparing one.
LEMMA LeavesDrafts ==
    ASSUME Types, Control, Next
    PROVE  \/ BeginCheckout \/ CreateAttempt \/ AdvanceAttempt \/ AssertAuthority
           \/ Withdraw \/ Away
<1>1. /\ \A s \in Steps \ (Preparing \cup {"unsent"}) : \A c : Goto(s, c) => Away
      /\ \A s \in Steps \ (Preparing \cup {"unsent"}) : Continue(s) => Away
      /\ Done \/ Abort \/ Return \/ WriteMarker \/ MarkerCancelled => Away
      /\ \A a, t : ForceFault(a, t) \/ Recover(a, t) => Away
      /\ \A t : MarkBumpFault(t) => Away
  BY HelpersLeave
<1>2. {"reply", "terminal", "finalBump", "rejected", "rejectedBump", "ambiguous",
       "learn", "recover", "recoverLatch", "persistence", "again", "force",
       "markAttempt", "markCreate", "markFault", "inspectFault", "disable",
       "inspect", "reconcile", "inspectBind", "inspectBump", "inspectClear",
       "review", "reviewBind", "resolveBump", "resolve", "resolveBind", "clear",
       "clearAgain", "loadState", "loadStateAgain", "preparations", "loadJournal",
       "sources", "unresolved", "startLatch", "finish", "unload", "idle"}
        \subseteq Steps \ (Preparing \cup {"unsent"})
  BY DEF Steps, CheckoutSteps, FaultSteps, AdminSteps, StartSteps, Preparing
<1> USE <1>1, <1>2
<1>3. CASE RecordUnsent
  BY <1>3, JournalEnds DEF RecordUnsent, Ends, Raised
<1>4. CASE FailLocally
  BY <1>4, JournalEnds DEF FailLocally, Ends, Raised
<1>5. CASE Submit
  BY <1>5 DEF Submit, Ends, Raised
<1>6. CASE Reply
  BY <1>6 DEF Reply, Ends, Raised
<1>7. CASE RecordAnswer
  BY <1>7, JournalEnds DEF RecordAnswer, Ends, Raised
<1>8. CASE BumpAfterAnswer
  BY <1>8, StateEnds DEF BumpAfterAnswer, Ends, Raised
<1>9. CASE RecordRejection
  BY <1>9, JournalEnds DEF RecordRejection, Ends, Raised
<1>10. CASE BumpAfterRejection
  BY <1>10, StateEnds DEF BumpAfterRejection, Ends, Raised
<1>11. CASE LearnFromAmbiguous
  BY <1>11, JournalEnds DEF LearnFromAmbiguous, Ends, Raised
<1>12. CASE LearnFromAnswer
  BY <1>12, JournalEnds DEF LearnFromAnswer, Ends, Raised
<1>13. CASE PersistenceFault
  BY <1>13, StateEnds DEF PersistenceFault, Ends, Raised
<1>14. CASE RecoverRecord
  BY <1>14, JournalEnds DEF RecoverRecord, Ends, Raised
<1>15. CASE RecoverLatch
  BY <1>15, StateEnds DEF RecoverLatch, Ends, Raised
<1>16. CASE ForceAgain
  BY <1>16, StateEnds DEF ForceAgain, Ends, Raised
<1>17. CASE ForceLatch
  BY <1>17, StateEnds DEF ForceLatch, Ends, Raised
<1>18. CASE MarkAttempt
  BY <1>18, JournalEnds DEF MarkAttempt, Ends, Raised
<1>19. CASE MarkCreate
  BY <1>19, JournalEnds DEF MarkCreate, Ends, Raised
<1>20. CASE MarkFault
  BY <1>20, JournalEnds DEF MarkFault, Ends, Raised
<1>21. CASE DisableBump
  BY <1>21, StateEnds DEF DisableBump, Ends, Raised
<1>22. CASE InspectionAnswer
  BY <1>22, StateEnds DEF InspectionAnswer, Ends, Raised
<1>23. CASE Reconcile
  BY <1>23, JournalEnds DEF Reconcile, Ends, Raised
<1>24. CASE InspectionBind
  BY <1>24, StateEnds DEF InspectionBind, Ends, Raised
<1>25. CASE InspectionBump
  BY <1>25, StateEnds DEF InspectionBump, Ends, Raised
<1>26. CASE InspectionClear
  BY <1>26, StateEnds DEF InspectionClear, Ends, Raised
<1>27. CASE InspectionFault
  BY <1>27, StateEnds DEF InspectionFault, Ends, Raised
<1>28. CASE ClearAgain
  BY <1>28, StateEnds DEF ClearAgain, Ends, Raised
<1>29. CASE Review
  BY <1>29, JournalEnds DEF Review, Ends, Raised
<1>30. CASE ReviewBind
  BY <1>30, StateEnds DEF ReviewBind, Ends, Raised
<1>31. CASE ResolveBump
  BY <1>31, StateEnds DEF ResolveBump, Ends, Raised
<1>32. CASE ResolveRecord
  BY ZenonT(60), <1>32, JournalEnds DEF ResolveRecord, Ends, Raised
<1>33. CASE ResolveBind
  BY <1>33, StateEnds DEF ResolveBind, Ends, Raised
<1>34. CASE ResolveClear
  BY <1>34, StateEnds DEF ResolveClear, Ends, Raised
<1>35. CASE LoadState
  BY <1>35, StateEnds DEF LoadState, Ends, Raised
<1>36. CASE LoadStateAgain
  BY ZenonT(60), <1>36, StateEnds
     DEF LoadStateAgain, Goto, Away, Preparing, ForceFault, Abort, Continue, Raised,
         Ends
<1>37. CASE LoadPreparations
  BY <1>37, StateEnds DEF LoadPreparations, Ends, Raised
<1>38. CASE LoadAttempts
  BY <1>38, JournalEnds DEF LoadAttempts, Ends, Raised
<1>39. CASE CheckSources
  BY <1>39, StateEnds DEF CheckSources, Ends, Raised
<1>40. CASE CheckUnresolved
  BY ZenonT(60), <1>40, StateEnds
     DEF CheckUnresolved, Goto, Away, Preparing, ForceFault, Abort, Continue, Raised,
         Ends
<1>41. CASE StartLatch
  BY <1>41, StateEnds DEF StartLatch, Ends, Raised
<1>42. CASE Finish
  BY <1>42 DEF Finish, Ends, Raised
<1>43. CASE Unload
  BY <1>43 DEF Unload, Lose
<1>44. CASE Disable
  BY <1>44 DEF Disable, Ends, Raised
<1>45. CASE BeginInspection
  BY <1>45, StateEnds DEF BeginInspection, Ends, Raised
<1>46. CASE PrepareResolution
  BY <1>46, StateEnds DEF PrepareResolution, Away, Preparing
<1>47. CASE LoseChallenge
  BY <1>47, StateEnds DEF LoseChallenge, Away, Preparing
<1>48. CASE BeginResolution
  BY <1>48, StateEnds
     DEF BeginResolution, Goto, Away, Preparing, ForceFault, Abort, Continue, Raised,
         Ends
<1>49. CASE Crash
  BY <1>49 DEF Crash, Lose
<1>50. CASE PreparationWrites
  BY <1>50, StateEnds DEF PreparationWrites, Away, Preparing, CheckoutSteps, controlVars
<1>51. CASE BeginReload
  BY <1>51, StateEnds DEF BeginReload, Ends, Raised
<1>52. CASE Start
  BY <1>52, StateEnds DEF Start, Ends, Raised
<1> QED
  BY <1>3, <1>4, <1>5, <1>6, <1>7, <1>8, <1>9, <1>10, <1>11, <1>12, <1>13, <1>14, <1>15,
     <1>16, <1>17, <1>18, <1>19, <1>20, <1>21, <1>22, <1>23, <1>24, <1>25, <1>26, <1>27,
     <1>28, <1>29, <1>30, <1>31, <1>32, <1>33, <1>34, <1>35, <1>36, <1>37, <1>38, <1>39,
     <1>40, <1>41, <1>42, <1>43, <1>44, <1>45, <1>46, <1>47, <1>48, <1>49, <1>50, <1>51,
     <1>52
     DEF Next, Progress, Requested, Environment, Checkout, Faulting, Administration,
         Starting

\* The draft of a checkout stays the youngest record and as far as its checkout is.
LEMMA DraftingKept ==
    ASSUME Types, Control, JournalOK', Next
    PROVE  Drafting'
<1>1. CASE Away
  BY <1>1 DEF Away, Drafting, Drafted, Preparing
<1>2. CASE BeginCheckout
  BY <1>2
     DEF BeginCheckout, Goto, NoContext, Drafting, Drafted, Preparing, NewAttempt, Seen,
         journalVars, restVars, environmentVars
<1>3. CASE CreateAttempt
  <2>1. ctx.attempt = NewAttempt /\ ctx.attempt \in Nat /\ \A b \in DOMAIN records : b < NewAttempt
    BY <1>3, NewAttemptIsNew DEF CreateAttempt, Control, Drafting, Types, Typed, Seen
  <2>2. PICK r \in Results : /\ Journal!Create(ctx.attempt, "live", r)
                             /\ IF r = "ok" THEN Continue("quoted") ELSE ForceFault(0, "idle")
    BY <1>3 DEF CreateAttempt
  <2>3. Creates(ctx.attempt, "live", r)
    BY <2>1, <2>2, CreateEffect DEF Types
  <2>4. CASE r = "ok"
    BY <2>2, <2>3, <2>4
       DEF Creates, Adds, Saves, Drafting, Drafted, Preparing, Continue, Goto
  <2>5. CASE r # "ok"
    BY <2>2, <2>5 DEF ForceFault, Goto, Drafting, Drafted, Preparing
  <2> QED
    BY <2>4, <2>5
<1>4. CASE AdvanceAttempt
  <2>1. PICK r \in Results :
           /\ Journal!Transition(ctx.attempt, Target[pc], FALSE, r)
           /\ IF r # "ok" THEN ForceFault(0, "idle")
              ELSE IF pc = "dispatching" THEN CheckedThen("assert")
              ELSE Continue(Following[pc])
    BY <1>4 DEF AdvanceAttempt
  <2>2. Moves(ctx.attempt, Target[pc], r)
    BY <2>1, TransitionEffect DEF Types
  <2>3. CASE r # "ok"
    BY <2>1, <2>3 DEF ForceFault, Goto, Drafting, Drafted, Preparing
  <2>4. CASE r = "ok"
    <3>1. ctx.attempt \in DOMAIN records'
      BY <2>2, <2>4 DEF Moves, Replaces, Saves
    <3>2. ctx' = ctx \/ pc' = "idle"
      BY <2>1, <2>4 DEF CheckedThen, Continue, Done, Goto
    <3>3. pc' # "create"
      BY <1>4, <2>1, <2>4
         DEF AdvanceAttempt, CheckedThen, Continue, Done, Goto, Following
    <3> QED
      BY <3>1, <3>2, <3>3 DEF Drafting, Drafted, Preparing
  <2> QED
    BY <2>3, <2>4
<1>5. CASE AssertAuthority
  <2>1. pc' # "create" /\ (ctx' = ctx \/ pc' \in {"idle", "force"}) /\ records' = records
    BY <1>5, StateEnds
       DEF AssertAuthority, CheckedThen, Continue, Done, Goto, ForceFault, journalVars,
           Ends, Raised, KeepFlags, ShutDown
  <2>2. pc = "assert"
    BY <1>5 DEF AssertAuthority
  <2> QED
    BY <2>1, <2>2 DEF Drafting, Drafted, Preparing, Control
<1>6. CASE Withdraw
  BY <1>6 DEF Withdraw, Drafting, Control, controlVars, journalVars, NewAttempt, Seen
<1> QED
  BY <1>1, <1>2, <1>3, <1>4, <1>5, <1>6, LeavesDrafts

\* Together: the types and the control state are an inductive invariant.
LEMMA ControlKept ==
    ASSUME Types, Control, Next
    PROVE  Types' /\ Control'
<1>1. Types'
  BY TypesKept
<1>2. StateOK' /\ JournalOK'
  BY <1>1 DEF Types
<1>3. Places
  BY <1>2, CheckoutPlaced, FaultingPlaced, AdministrationPlaced, StartingPlaced,
     RequestsPlaced DEF Next, Progress
<1> QED
  BY <1>1, <1>2, <1>3, DraftingKept DEF Control, Places

(***************************************************************************)
(* The record and the authority of a checkout before its POST.             *)
(***************************************************************************)
\* The draft stays the same on file, and the youngest.
LEMMA RecordedKept ==
    ASSUME Types, Control, JournalOK', Recorded, Next
    PROVE  Recorded'
<1> USE DEF Recorded, Drafted, Preparing
<1>1. CASE Away
  BY <1>1 DEF Away
<1>2. CASE BeginCheckout
  BY <1>2 DEF BeginCheckout, Goto
<1>3. CASE CreateAttempt
  <2>1. ctx.attempt = NewAttempt /\ ctx.attempt \in Nat /\ \A b \in DOMAIN records : b < NewAttempt
    BY <1>3, NewAttemptIsNew DEF CreateAttempt, Control, Drafting, Types, Typed, Seen
  <2>2. PICK r \in Results : /\ Journal!Create(ctx.attempt, "live", r)
                             /\ IF r = "ok" THEN Continue("quoted") ELSE ForceFault(0, "idle")
    BY <1>3 DEF CreateAttempt
  <2>3. Creates(ctx.attempt, "live", r)
    BY <2>1, <2>2, CreateEffect DEF Types
  <2>4. CASE r = "ok"
    <3>1. PICK c : Adds(c, ctx.attempt, "live") /\ journal' = c /\ records' = c
      BY <2>3, <2>4 DEF Creates, Saves
    <3>2. DOMAIN records \subseteq Nat
      BY ListFacts DEF Types
    <3>3. \A b \in DOMAIN c : b <= ctx.attempt
      BY <2>1, <3>1, <3>2 DEF Adds
    <3>4. c[ctx.attempt].mode = "live"
      BY <3>1 DEF Adds, Journal!Draft
    <3> QED
      BY <2>2, <2>4, <3>1, <3>3, <3>4 DEF Continue, Goto
  <2>5. CASE r # "ok"
    BY <2>2, <2>5 DEF ForceFault, Goto
  <2> QED
    BY <2>4, <2>5
<1>4. CASE AdvanceAttempt
  <2>1. PICK r \in Results :
           /\ Journal!Transition(ctx.attempt, Target[pc], FALSE, r)
           /\ IF r # "ok" THEN ForceFault(0, "idle")
              ELSE IF pc = "dispatching" THEN CheckedThen("assert")
              ELSE Continue(Following[pc])
    BY <1>4 DEF AdvanceAttempt
  <2>2. Moves(ctx.attempt, Target[pc], r)
    BY <2>1, TransitionEffect DEF Types
  <2>3. CASE r # "ok"
    BY <2>1, <2>3 DEF ForceFault, Goto
  <2>4. CASE r = "ok"
    <3>1. PICK c : Replaces(c, ctx.attempt, Target[pc]) /\ journal' = c /\ records' = c
      BY <2>2, <2>4 DEF Moves, Saves
    <3>0. pc \in {"quoted", "reserved", "dispatching"}
      BY <1>4 DEF AdvanceAttempt
    <3>4. pc = "dispatching" => Target[pc] = "DISPATCHING"
      BY DEF Target
    <3>5. /\ journal = records /\ ctx.attempt \in DOMAIN records
          /\ \A b \in DOMAIN records : b <= ctx.attempt
          /\ records[ctx.attempt].mode = "live"
      BY <3>0 DEF Control, Drafting
    <3>2. /\ \A b \in DOMAIN c : b <= ctx.attempt
          /\ c[ctx.attempt].mode = "live"
          /\ c[ctx.attempt].state = Target[pc]
          /\ pc = "dispatching" => c[ctx.attempt].dispatched
      BY <3>1, <3>4, <3>5 DEF Replaces
    <3>3. /\ ctx' = ctx \/ pc' = "idle"
          /\ pc # "dispatching" => pc' = Following[pc]
          /\ pc = "dispatching" => pc' \in {"idle", "localFail", "assert"}
      BY <2>1, <2>4 DEF CheckedThen, Continue, Done, Goto
    <3> QED
      BY <3>0, <3>1, <3>2, <3>3, <3>4 DEF Following
  <2> QED
    BY <2>3, <2>4
<1>5. CASE AssertAuthority
  <2>1. (ctx' = ctx \/ pc' \in {"idle", "force"}) /\ records' = records /\ journal' = journal
    BY <1>5, StateEnds
       DEF AssertAuthority, CheckedThen, Continue, Done, Goto, ForceFault, journalVars,
           Ends, Raised, KeepFlags, ShutDown
  <2> QED
    BY <1>5, <2>1 DEF AssertAuthority
<1>6. CASE Withdraw
  BY <1>6 DEF Withdraw, controlVars, journalVars
<1> QED
  BY <1>1, <1>2, <1>3, <1>4, <1>5, <1>6, LeavesDrafts

\* Nothing that happens between the re-read and the POST writes the safety file.
LEMMA AuthorizedKept ==
    ASSUME Types, Control, Authorized, Next
    PROVE  Authorized'
<1> USE DEF Authorized
<1>1. CASE Away
  BY <1>1 DEF Away, Preparing
<1>2. CASE BeginCheckout \/ CreateAttempt \/ AdvanceAttempt
  <2>1. BeginCheckout => pc' = "create"
    BY DEF BeginCheckout, Goto
  <2>2. CreateAttempt => pc' \in {"quoted", "force"}
    BY DEF CreateAttempt, Continue, ForceFault, Goto
  <2>3. AdvanceAttempt =>
          pc' \in {"force", "reserved", "dispatching", "assert", "localFail", "idle"}
    <3>1. pc \in {"quoted", "reserved"} => Following[pc] \in {"reserved", "dispatching"}
      BY DEF Following
    <3> QED
      BY <3>1 DEF AdvanceAttempt, Continue, ForceFault, CheckedThen, Done, Goto
  <2> QED
    BY <1>2, <2>1, <2>2, <2>3
<1>3. CASE AssertAuthority
  <2>1. PICK r \in Results :
           /\ State!AssertCurrent(ctx.generation, r)
           /\ CASE r = "ok"         -> CheckedThen("submit")
                [] r \in Raised    -> Continue("unsent")
                [] r = "cancelled" -> ForceFault(0, "idle")
    BY <1>3 DEF AssertAuthority
  <2>2. r \in Ends /\ (r = "ok" => UNCHANGED stateVars /\ State!AuthorityIsCurrent(ctx.generation))
    BY <2>1, AssertCurrentEffect DEF Types
  <2>3. CASE r = "ok"
    <3>1. pc' = "submit" => ctx' = ctx
      BY <2>1, <2>3 DEF CheckedThen, Continue, Done, Goto
    <3> QED
      BY <2>2, <2>3, <3>1 DEF State!AuthorityIsCurrent, stateVars
  <2>4. CASE r # "ok"
    BY <2>1, <2>2, <2>4
       DEF Continue, ForceFault, Goto, Ends, Raised, KeepFlags, ShutDown
  <2> QED
    BY <2>3, <2>4
<1>4. CASE Withdraw
  BY <1>4 DEF Withdraw, controlVars, stateVars, State!AuthorityIsCurrent
<1> QED
  BY <1>1, <1>2, <1>3, <1>4, LeavesDrafts

\* The initial states have all of it.
LEMMA InitTypes == Init => Types /\ Control /\ Recorded /\ Authorized
<1> SUFFICES ASSUME Init
             PROVE  Types /\ Control /\ Recorded /\ Authorized
  OBVIOUS
<1>1. StateOK /\ JournalOK
  <2>1. State!Init => SP!Init
    BY DEF State!Init, SP!Init, State!FreshSnapshot, SP!FreshSnapshot
  <2>2. Journal!Init => JP!Init
    BY DEF Journal!Init, JP!Init, Journal!NoRecords, JP!NoRecords
  <2>3. SP!Init => SP!Inv
    BY Constants, SP!InitInv
  <2>4. JP!Init => JP!Inv
    BY Constants, JP!InitEstablishesInv
  <2> QED
    BY <2>1, <2>2, <2>3, <2>4 DEF Init, StateOK, JournalOK
<1>2. Typed /\ settled \subseteq Nat
  BY NoContextTyped DEF Init, AtRest, Typed, Steps, BothConsents
<1>3. Control
  BY DEF Init, AtRest, Control, Located, Placed, Returning, Drafting, Drafted, Preparing,
         CheckoutSteps, AdminSteps, FaultSteps, StartSteps, Forcing, Marking
<1> QED
  BY <1>1, <1>2, <1>3
     DEF Types, Init, AtRest, Recorded, Authorized, Drafted, Preparing

(***************************************************************************)
(* The theorems.                                                           *)
(***************************************************************************)
Before == Types /\ Control /\ Recorded /\ Authorized

\* Nothing changes: neither does any of the above.
LEMMA StutterKeeps == Before /\ UNCHANGED vars => Before'
<1> SUFFICES ASSUME Before, UNCHANGED vars
             PROVE  Before'
  OBVIOUS
<1>1. StateOK' /\ JournalOK'
  BY StateStays, JournalStays DEF Before, Types, vars, StateStep, StateKeeps
<1>2. Types'
  BY <1>1
     DEF Before, Types, Typed, vars, controlVars, flagVars, restVars, environmentVars
<1>3. Control'
  BY DEF Before, Control, Located, Placed, Returning, Drafting, CheckoutGate, NewAttempt,
         Seen, vars, controlVars, flagVars, restVars, environmentVars, journalVars
<1>4. Recorded' /\ Authorized'
  BY DEF Before, Recorded, Authorized, State!AuthorityIsCurrent, vars, controlVars,
         stateVars, journalVars
<1> QED
  BY <1>2, <1>3, <1>4 DEF Before

\* Every step keeps what holds before a POST.
LEMMA BeforeKept == Before /\ [Next]_vars => Before'
<1>1. Before /\ Next => Before'
  <2> SUFFICES ASSUME Before, Next
               PROVE  Before'
    OBVIOUS
  <2>1. Types' /\ Control'
    BY ControlKept DEF Before
  <2>2. JournalOK'
    BY <2>1 DEF Types
  <2>3. Recorded' /\ Authorized'
    BY <2>2, RecordedKept, AuthorizedKept DEF Before
  <2> QED
    BY <2>1, <2>3 DEF Before
<1> QED
  BY <1>1, StutterKeeps

\* It holds in every state the manager can be in.
LEMMA BeforeHolds == Spec => []Before
<1>1. Init => Before
  BY InitTypes DEF Before
<1> QED
  BY <1>1, BeforeKept, PTL DEF Spec

\* The manager makes only such calls of its two stores as keep their invariants, and
\* its own variables keep their types.
THEOREM TypesHold == Spec => []Types
<1>1. Before => Types
  BY DEF Before
<1> QED
  BY <1>1, BeforeHolds, PTL

\* When the POST may leave, the file still holds the generation of the confirmed quote
\* and no block: whatever was written since the authority was asserted was refused.
THEOREM AuthorityHoldsAtPost == Spec => []AuthorityCurrentAtPost
<1>1. Before => AuthorityCurrentAtPost
  BY DEF Before, Authorized, AuthorityCurrentAtPost, State!AuthorityIsCurrent
<1> QED
  BY <1>1, BeforeHolds, PTL

\* The POST leaves only after its dispatch is durable.
THEOREM DispatchIsDurable == Spec => []DispatchRecordedBeforePost
<1>1. Before => DispatchRecordedBeforePost
  BY DEF Before, Control, Drafting, Recorded, Drafted, Preparing, DispatchRecordedBeforePost
<1> QED
  BY <1>1, BeforeHolds, PTL

(***************************************************************************)
(* The second invariant of OrderingManager: what it keeps across failures  *)
(* and restarts, and so why a start binds what it finds and a latch is     *)
(* cleared only after the journal's conclusion.                            *)
(*                                                                         *)
(* FaultsKnown says that a fault on a file that has been read is known;    *)
(* StartUp what each step of the start has established for the next ones;  *)
(* Conclusive that a conclusion in memory is the one on file, which only a *)
(* manager without a fault relies on.                                      *)
(***************************************************************************)

\* The awaits of start-up before the files are read, and those of the conclusions.
Unread == {"loadState", "loadStateAgain", "preparations", "loadJournal"}
\* From the load of the journal to the check of what it holds: LegacyRepair's steps are
\* between the two.
RepairSteps == {"lineage", "repairJournal", "repairState"}
SourceChecks == {"sources", "mixed"} \cup RepairSteps

Concluding ==
    {"inspectBind", "inspectBump", "inspectClear", "resolveBind", "clear", "clearAgain"}

StateRead == up # "down" /\ pc \notin {"loadState", "loadStateAgain", "unload"}
JournalRead == up # "down" /\ pc \notin Unread \cup {"unload"}

HasFault(list) == \E b \in DOMAIN list : list[b].state = Journal!Integrity

\* A manager that has read a file knows of the fault that is on it.
FaultsKnown ==
    /\ HasFault(records) /\ pc \notin SourceChecks => securityFault
    /\ JournalRead => Readable \/ securityFault
    /\ StateRead /\ disk.integrity => IntegrityFault
    /\ pc = "again" => IntegrityFault

\* What start-up has found so far.
StartUp ==
    /\ up = "down" \/ pc \in Unread => DOMAIN records = {} /\ ~corrupt
    /\ pc \in {"loadState", "loadStateAgain", "preparations"} => ~securityFault
    /\ up = "starting" =>
          \A b \in DOMAIN records : records[b].state \notin Journal!InFlight
    /\ pc \in {"preparations", "loadJournal", "unresolved"} \cup SourceChecks
         /\ ~IntegrityFault /\ snap.manual # None => Names(snap.manual.attempt)
    /\ pc \in {"loadJournal", "unresolved"} \cup SourceChecks
         /\ ~securityFault /\ manualCheck => snap.manual # None
    /\ pc = "startLatch" =>
          /\ ~securityFault
          /\ Journal!UnresolvedManualChecks = {ctx.attempt}
          /\ records[ctx.attempt].revision = ctx.revision
    /\ pc = "finish" /\ ~IntegrityFault /\ ManualCheckRequired => Bound

\* What has been concluded in memory is concluded the same on file.
Conclusive ==
    /\ ~securityFault =>
          \A b \in DOMAIN records : records[b].state \in Journal!Confirmed =>
             /\ b \in DOMAIN journal
             /\ journal[b].state = records[b].state
             /\ journal[b].resolution = records[b].resolution
    /\ pc \in Concluding =>
          /\ ctx.attempt \in DOMAIN records
          /\ records[ctx.attempt].state \in Journal!Confirmed
          /\ records[ctx.attempt].resolution = ctx.resolution
    /\ pc = "reconcile" => ctx.resolution = ProviderResolution(ctx.succeeded)

(***************************************************************************)
(* What most steps have in common.                                         *)
(***************************************************************************)
\* Which steps a part of the next-state relation takes.
LEMMA Where ==
    /\ Checkout => pc \in CheckoutSteps
    /\ Faulting => pc \in Forcing \cup Marking
    /\ Administration => pc \in AdminSteps \cup {"inspectFault"}
    /\ Starting => pc \in StartSteps
    /\ Requested \/ BeginReload => pc = "idle"
    /\ Start => up = "down"
<1>1. Checkout => pc \in CheckoutSteps
  BY
     DEF Checkout, CreateAttempt, AdvanceAttempt, AssertAuthority, RecordUnsent,
         FailLocally, Submit, Reply, RecordAnswer, BumpAfterAnswer, RecordRejection,
         BumpAfterRejection, LearnFromAmbiguous, LearnFromAnswer, PersistenceFault,
         RecoverRecord, RecoverLatch, ForceAgain, CheckoutSteps
<1>2. Faulting => pc \in Forcing \cup Marking
  BY DEF Faulting, ForceLatch, MarkAttempt, MarkCreate, MarkFault, Forcing, Marking
<1>3. Administration => pc \in AdminSteps \cup {"inspectFault"}
  BY
     DEF Administration, DisableBump, InspectionAnswer, Reconcile, InspectionBind,
         InspectionBump, InspectionClear, InspectionFault, ClearAgain, Review,
         ReviewBind, ResolveBump, ResolveRecord, ResolveBind, ResolveClear, AdminSteps
<1>4. Starting => pc \in StartSteps
  BY
     DEF Starting, LoadState, LoadStateAgain, LoadPreparations, LoadAttempts,
         CheckSources, CheckUnresolved, StartLatch, Finish, Unload, StartSteps
<1>5. Requested \/ BeginReload => pc = "idle"
  BY
     DEF Requested, BeginCheckout, Disable, BeginInspection, PrepareResolution,
         LoseChallenge, BeginResolution, BeginReload
<1> QED
  BY SMTT(60), <1>1, <1>2, <1>3, <1>4, <1>5 DEF Start

\* The process goes on; no fault is forgotten, nothing is enabled, and a checkpoint of
\* start-up, or the second fault of a recovery, is reached by a fault only.
Steady ==
    /\ up' = up
    /\ securityFault => securityFault'
    /\ enabledFlag' => enabledFlag
    /\ pc' \notin Unread \cup RepairSteps \cup {"startLatch"}
    /\ pc' \in SourceChecks \cup {"unresolved", "finish"} => securityFault'
    /\ pc' = "again" => IntegrityFault'

\* The steps that bring a conclusion nearer.
Conclude ==
    \/ InspectionAnswer \/ Reconcile \/ InspectionBind \/ InspectionBump
    \/ BeginResolution \/ ResolveRecord \/ ResolveBind

\* However a method of a running manager continues, it is steady.
LEMMA HelpersSteady ==
    ASSUME Types, Control
    PROVE  /\ Done \/ Abort => Steady
           /\ pc \in FaultSteps \cup {"disable"} /\ Return => Steady
           /\ pc = "recoverLatch" /\ (securityFault \/ snap'.integrity) /\ Return => Steady
           /\ pc \in FaultSteps /\ (WriteMarker \/ MarkerCancelled) => Steady
           /\ \A a, t : ForceFault(a, t) \/ Recover(a, t) => Steady
           /\ \A t : MarkBumpFault(t) => Steady
           /\ \A s \in (CheckoutSteps \cup FaultSteps \cup AdminSteps) \ {"again"} :
                /\ Continue(s) \/ CheckedThen(s) => Steady
                /\ \A c : /\ Goto(s, c) /\ KeepFlags => Steady
                          /\ Goto(s, c) /\ ClearChallenge => Steady
           /\ \A c : /\ Goto("idle", c) /\ KeepFlags => Steady
                     /\ Goto("idle", c) /\ SetManualCheck(TRUE) => Steady
                     /\ Goto("idle", c) /\ SetManualCheck(FALSE) => Steady
<1> USE DEF Steady, Unread, RepairSteps, SourceChecks, Goto, KeepFlags, flagVars
<1>1. Done \/ Abort => Steady
  BY DEF Done, Abort
<1>2. pc \in FaultSteps \cup {"disable"} /\ Return => Steady
  <2>1. ctx.then \in Thens /\ (pc \in FaultSteps => securityFault)
        /\ (pc = "disable" => ctx.then \in {"idle", "unload"})
    BY DEF Control, Placed, Returning, Types, Typed, Contexts
  <2> QED
    BY <2>1 DEF Return, Thens, IntegrityFault
<1>3. pc = "recoverLatch" /\ (securityFault \/ snap'.integrity) /\ Return => Steady
  <2>1. pc = "recoverLatch" => ctx.then \in {"idle", "again"}
    BY DEF Control, Returning, CheckoutSteps
  <2> QED
    BY <2>1 DEF Return, IntegrityFault, State!IntegrityFault
<1>4. \A a, t : ForceFault(a, t) => Steady
  BY DEF ForceFault, ShutDown
<1>5. \A a, t : Recover(a, t) => Steady
  BY DEF Recover
<1>6. \A t : MarkBumpFault(t) => Steady
  BY DEF MarkBumpFault, ShutDown
<1>7. ASSUME NEW s \in (CheckoutSteps \cup FaultSteps \cup AdminSteps) \ {"again"}
      PROVE  /\ Continue(s) \/ CheckedThen(s) => Steady
             /\ \A c : /\ Goto(s, c) /\ KeepFlags => Steady
                       /\ Goto(s, c) /\ ClearChallenge => Steady
  <2>1. s \notin Unread \cup SourceChecks \cup {"startLatch", "unresolved", "finish", "again"}
    BY DEF CheckoutSteps, FaultSteps, AdminSteps
  <2>2. \A c : /\ Goto(s, c) /\ KeepFlags => Steady
               /\ Goto(s, c) /\ ClearChallenge => Steady
    BY <2>1 DEF ClearChallenge
  <2>3. Continue(s) => Steady
    BY <2>2 DEF Continue
  <2>4. Continue("localFail") => Steady
    BY DEF Continue
  <2> HIDE DEF Steady, Goto, KeepFlags
  <2>5. CheckedThen(s) => Steady
    BY <1>1, <2>3, <2>4 DEF CheckedThen
  <2> QED
    BY <2>2, <2>3, <2>5
<1>8. \A c : /\ Goto("idle", c) /\ KeepFlags => Steady
             /\ Goto("idle", c) /\ SetManualCheck(TRUE) => Steady
             /\ Goto("idle", c) /\ SetManualCheck(FALSE) => Steady
  BY DEF SetManualCheck
<1>9. pc \in FaultSteps /\ WriteMarker => Steady
  <2>1. Continue("markCreate") \/ Continue("markAttempt") => Steady
    BY DEF Continue
  <2> HIDE DEF Steady, Goto, KeepFlags
  <2> QED
    BY <1>2, <2>1 DEF WriteMarker
<1>10. pc \in FaultSteps /\ MarkerCancelled => Steady
  <2>1. ctx.forced \in BOOLEAN
    BY DEF Types, Typed, Contexts
  <2> HIDE DEF Steady, Goto, KeepFlags
  <2>2. CASE ctx.forced
    BY <1>2, <2>2 DEF MarkerCancelled
  <2>3. CASE ~ctx.forced
    BY <1>1, <1>5, <2>1, <2>3 DEF MarkerCancelled
  <2> QED
    BY <2>2, <2>3
<1> QED
  BY <1>1, <1>2, <1>3, <1>4, <1>5, <1>6, <1>7, <1>8, <1>9, <1>10

\* The steps that are not steady, and why: start-up, its end, and the environment.
LEMMA MostAreSteady ==
    ASSUME Types, Control, Next
    PROVE  \/ Steady /\ pc \notin StartSteps /\ up # "down"
           \/ LoseChallenge \/ Withdraw \/ PreparationWrites \/ Start \/ Unload \/ Crash
           \/ LoadState \/ LoadStateAgain \/ LoadPreparations \/ LoadAttempts
           \/ CheckSources \/ CheckUnresolved \/ StartLatch \/ Finish
<1>1. /\ Done \/ Abort => Steady
      /\ pc \in FaultSteps \cup {"disable"} /\ Return => Steady
      /\ pc = "recoverLatch" /\ (securityFault \/ snap'.integrity) /\ Return => Steady
      /\ pc \in FaultSteps /\ (WriteMarker \/ MarkerCancelled) => Steady
      /\ \A a, t : ForceFault(a, t) \/ Recover(a, t) => Steady
      /\ \A t : MarkBumpFault(t) => Steady
      /\ \A s \in (CheckoutSteps \cup FaultSteps \cup AdminSteps) \ {"again"} :
           /\ Continue(s) \/ CheckedThen(s) => Steady
           /\ \A c : /\ Goto(s, c) /\ KeepFlags => Steady
                     /\ Goto(s, c) /\ ClearChallenge => Steady
      /\ \A c : /\ Goto("idle", c) /\ KeepFlags => Steady
                /\ Goto("idle", c) /\ SetManualCheck(TRUE) => Steady
                /\ Goto("idle", c) /\ SetManualCheck(FALSE) => Steady
  BY HelpersSteady
<1>2. {"create", "quoted", "reserved", "dispatching", "assert", "submit", "reply",
       "terminal", "finalBump", "rejected", "rejectedBump", "ambiguous", "learn",
       "unsent", "localFail", "recover", "recoverLatch", "persistence", "force",
       "markAttempt", "markCreate", "markFault", "inspectFault", "disable",
       "inspect", "reconcile", "inspectBind", "inspectBump", "inspectClear",
       "review", "reviewBind", "resolveBump", "resolve", "resolveBind", "clear",
       "clearAgain"}
        \subseteq (CheckoutSteps \cup FaultSteps \cup AdminSteps) \ {"again"}
  BY DEF CheckoutSteps, FaultSteps, AdminSteps
<1>3. {"force", "markAttempt", "markCreate", "markFault"} \subseteq FaultSteps
  BY DEF FaultSteps
<1>4. AdvanceAttempt => pc = "dispatching" \/ Following[pc] \in {"reserved", "dispatching"}
  BY DEF AdvanceAttempt, Following
<1> USE <1>1, <1>2
<1>5. CreateAttempt => Steady
  BY JournalEnds DEF CreateAttempt, Ends, Raised
<1>6. AdvanceAttempt => Steady
  BY ZenonT(60), <1>4, JournalEnds DEF AdvanceAttempt, Ends, Raised
<1>7. AssertAuthority => Steady
  BY StateEnds DEF AssertAuthority, Ends, Raised
<1>8. RecordUnsent => Steady
  BY JournalEnds DEF RecordUnsent, Ends, Raised
<1>9. FailLocally => Steady
  BY JournalEnds DEF FailLocally, Ends, Raised
<1>10. Submit => Steady
  BY SMTT(60), StateEnds DEF Submit, Ends, Raised
<1>11. Reply => Steady
  BY StateEnds DEF Reply, Ends, Raised
<1>12. RecordAnswer => Steady
  BY JournalEnds DEF RecordAnswer, Ends, Raised
<1>13. BumpAfterAnswer => Steady
  BY StateEnds DEF BumpAfterAnswer, Ends, Raised
<1>14. RecordRejection => Steady
  BY JournalEnds DEF RecordRejection, Ends, Raised
<1>15. BumpAfterRejection => Steady
  BY StateEnds DEF BumpAfterRejection, Ends, Raised
<1>16. LearnFromAmbiguous => Steady
  BY JournalEnds DEF LearnFromAmbiguous, Ends, Raised
<1>17. LearnFromAnswer => Steady
  BY JournalEnds DEF LearnFromAnswer, Ends, Raised
<1>18. PersistenceFault => Steady
  BY StateEnds DEF PersistenceFault, Ends, Raised
<1>19. RecoverRecord => Steady
  BY JournalEnds DEF RecoverRecord, Ends, Raised
<1>20. RecoverLatch => Steady
  BY StateEnds DEF RecoverLatch, Ends, Raised
<1>21. ForceAgain => Steady
  BY StateEnds DEF ForceAgain, Ends, Raised
<1>22. ForceLatch => Steady
  BY <1>3, StateEnds DEF ForceLatch, Ends, Raised
<1>23. MarkAttempt => Steady
  BY <1>3, JournalEnds DEF MarkAttempt, Ends, Raised
<1>24. MarkCreate => Steady
  BY <1>3, JournalEnds DEF MarkCreate, Ends, Raised
<1>25. MarkFault => Steady
  BY <1>3, JournalEnds DEF MarkFault, Ends, Raised
<1>26. DisableBump => Steady
  BY StateEnds DEF DisableBump, Ends, Raised
<1>27. InspectionAnswer => Steady
  BY StateEnds DEF InspectionAnswer, Ends, Raised
<1>28. Reconcile => Steady
  BY JournalEnds DEF Reconcile, Ends, Raised
<1>29. InspectionBind => Steady
  BY StateEnds DEF InspectionBind, Ends, Raised
<1>30. InspectionBump => Steady
  BY StateEnds DEF InspectionBump, Ends, Raised
<1>31. InspectionClear => Steady
  BY StateEnds DEF InspectionClear, Ends, Raised
<1>32. InspectionFault => Steady
  BY StateEnds DEF InspectionFault, Ends, Raised
<1>33. ClearAgain => Steady
  BY StateEnds DEF ClearAgain, Ends, Raised
<1>34. Review => Steady
  BY JournalEnds DEF Review, Ends, Raised
<1>35. ReviewBind => Steady
  BY StateEnds DEF ReviewBind, Ends, Raised
<1>36. ResolveBump => Steady
  BY StateEnds DEF ResolveBump, Ends, Raised
<1>37. ResolveRecord => Steady
  BY JournalEnds DEF ResolveRecord, Ends, Raised
<1>38. ResolveBind => Steady
  BY StateEnds DEF ResolveBind, Ends, Raised
<1>39. ResolveClear => Steady
  BY StateEnds DEF ResolveClear, Ends, Raised
<1>40. BeginCheckout => Steady
  BY StateEnds DEF BeginCheckout, Ends, Raised
<1>41. Disable => Steady
  BY DEF Disable, Steady, Goto, Unread, RepairSteps, SourceChecks
<1>42. BeginInspection => Steady
  BY StateEnds DEF BeginInspection, Ends, Raised
<1>43. PrepareResolution => Steady
  BY DEF PrepareResolution, Steady, Unread, RepairSteps, SourceChecks
<1>44. BeginResolution => Steady
  BY StateEnds DEF BeginResolution, Ends, Raised
<1>45. BeginReload => Steady
  BY DEF BeginReload, Steady, Goto, Unread, RepairSteps, SourceChecks
<1>46. Checkout => Steady
  BY <1>5, <1>6, <1>7, <1>8, <1>9, <1>10, <1>11, <1>12, <1>13, <1>14, <1>15, <1>16, <1>17,
     <1>18, <1>19, <1>20, <1>21
     DEF Checkout
<1>47. Faulting => Steady
  BY <1>22, <1>23, <1>24, <1>25 DEF Faulting
<1>48. Administration => Steady
  BY <1>26, <1>27, <1>28, <1>29, <1>30, <1>31, <1>32, <1>33, <1>34, <1>35, <1>36, <1>37,
     <1>38, <1>39
     DEF Administration
<1>49. Requested => Steady \/ LoseChallenge
  BY SMTT(60), <1>40, <1>41, <1>42, <1>43, <1>44 DEF Requested
<1>50. (pc \notin StartSteps /\ up # "down") \/ Starting \/ Start \/ Environment \/ LoseChallenge
  BY Where DEF Next, Progress, Control, Placed, CheckoutSteps, Forcing, Marking, AdminSteps,
     StartSteps, Requested, BeginCheckout, Disable, BeginInspection, PrepareResolution,
     BeginResolution, BeginReload
<1> QED
  BY <1>46, <1>47, <1>48, <1>49, <1>45, <1>50 DEF Next, Progress, Environment, Starting

\* The step leads to no await of a conclusion.
Apart == pc' \notin Concluding \cup {"reconcile"}

\* However a method continues elsewhere, it is at no conclusion.
LEMMA HelpersApart ==
    ASSUME Types
    PROVE  /\ \A s \in Steps \ (Concluding \cup {"reconcile"}) : \A c : Goto(s, c) => Apart
           /\ \A s \in Steps \ (Concluding \cup {"reconcile"}) :
                 Continue(s) \/ CheckedThen(s) => Apart
           /\ Done \/ Abort \/ Return \/ WriteMarker \/ MarkerCancelled => Apart
           /\ \A a, t : ForceFault(a, t) \/ Recover(a, t) => Apart
           /\ \A t : MarkBumpFault(t) => Apart
<1> USE DEF Apart, Concluding, Goto
<1>1. \A s \in Steps \ (Concluding \cup {"reconcile"}) : \A c : Goto(s, c) => Apart
  OBVIOUS
<1>2. Done \/ Abort => Apart
  BY DEF Done, Abort
<1>3. \A s \in Steps \ (Concluding \cup {"reconcile"}) :
         Continue(s) \/ CheckedThen(s) => Apart
  <2>1. \A s \in Steps \ (Concluding \cup {"reconcile"}) : Continue(s) => Apart
    BY DEF Continue
  <2>2. Continue("localFail") => Apart
    BY DEF Continue
  <2> HIDE DEF Apart, Concluding, Goto
  <2> QED
    BY <1>2, <2>1, <2>2 DEF CheckedThen
<1>4. Return => Apart
  BY DEF Return, Types, Typed, Contexts, Thens
<1>5. \A a, t : ForceFault(a, t) => Apart
  BY DEF ForceFault
<1>6. \A a, t : Recover(a, t) => Apart
  BY DEF Recover
<1>7. \A t : MarkBumpFault(t) => Apart
  BY DEF MarkBumpFault
<1>8. WriteMarker => Apart
  <2>1. Continue("markCreate") \/ Continue("markAttempt") => Apart
    BY DEF Continue
  <2> HIDE DEF Apart, Concluding, Goto
  <2> QED
    BY <1>4, <2>1 DEF WriteMarker
<1>9. MarkerCancelled => Apart
  <2>1. ctx.forced \in BOOLEAN
    BY DEF Types, Typed, Contexts
  <2> HIDE DEF Apart, Concluding, Goto
  <2>2. CASE ctx.forced
    BY <1>4, <2>2 DEF MarkerCancelled
  <2>3. CASE ~ctx.forced
    BY <1>2, <1>6, <2>1, <2>3 DEF MarkerCancelled
  <2> QED
    BY <2>2, <2>3
<1> QED
  BY <1>1, <1>2, <1>3, <1>4, <1>5, <1>6, <1>7, <1>8, <1>9

\* Only the steps that bring a conclusion nearer get to one.
LEMMA MostStayApart ==
    ASSUME Types, Control, Next
    PROVE  \/ Apart \/ Conclude \/ LoseChallenge \/ Withdraw \/ PreparationWrites
<1>1. /\ \A s \in Steps \ (Concluding \cup {"reconcile"}) : \A c : Goto(s, c) => Apart
      /\ \A s \in Steps \ (Concluding \cup {"reconcile"}) :
            Continue(s) \/ CheckedThen(s) => Apart
      /\ Done \/ Abort \/ Return \/ WriteMarker \/ MarkerCancelled => Apart
      /\ \A a, t : ForceFault(a, t) \/ Recover(a, t) => Apart
      /\ \A t : MarkBumpFault(t) => Apart
  BY HelpersApart
<1>2. {"create", "quoted", "reserved", "dispatching", "assert", "submit", "reply",
       "terminal", "finalBump", "rejected", "rejectedBump", "ambiguous", "learn",
       "unsent", "localFail", "recover", "recoverLatch", "persistence", "again",
       "force", "markAttempt", "markCreate", "markFault", "inspectFault",
       "disable", "inspect", "review", "reviewBind", "resolveBump", "resolve",
       "loadState", "loadStateAgain", "preparations", "loadJournal", "sources",
       "unresolved", "startLatch", "finish", "unload", "idle"}
        \subseteq Steps \ (Concluding \cup {"reconcile"})
  BY DEF Steps, CheckoutSteps, FaultSteps, AdminSteps, StartSteps, Concluding
<1>3. AdvanceAttempt => pc = "dispatching" \/ Following[pc] \in {"reserved", "dispatching"}
  BY DEF AdvanceAttempt, Following
<1> USE <1>1, <1>2
<1>4. CreateAttempt => Apart
  BY JournalEnds DEF CreateAttempt, Ends, Raised
<1>5. AdvanceAttempt => Apart
  BY ZenonT(60), <1>3, JournalEnds DEF AdvanceAttempt, Ends, Raised
<1>6. AssertAuthority => Apart
  BY StateEnds DEF AssertAuthority, Ends, Raised
<1>7. RecordUnsent => Apart
  BY JournalEnds DEF RecordUnsent, Ends, Raised
<1>8. FailLocally => Apart
  BY JournalEnds DEF FailLocally, Ends, Raised
<1>9. Submit => Apart
  BY StateEnds DEF Submit, Ends, Raised
<1>10. Reply => Apart
  BY StateEnds DEF Reply, Ends, Raised
<1>11. RecordAnswer => Apart
  BY ZenonT(60), JournalEnds DEF RecordAnswer, Ends, Raised
<1>12. BumpAfterAnswer => Apart
  BY StateEnds DEF BumpAfterAnswer, Ends, Raised
<1>13. RecordRejection => Apart
  BY JournalEnds DEF RecordRejection, Ends, Raised
<1>14. BumpAfterRejection => Apart
  BY StateEnds DEF BumpAfterRejection, Ends, Raised
<1>15. LearnFromAmbiguous => Apart
  BY JournalEnds DEF LearnFromAmbiguous, Ends, Raised
<1>16. LearnFromAnswer => Apart
  BY JournalEnds DEF LearnFromAnswer, Ends, Raised
<1>17. PersistenceFault => Apart
  BY StateEnds DEF PersistenceFault, Ends, Raised
<1>18. RecoverRecord => Apart
  BY JournalEnds DEF RecoverRecord, Ends, Raised
<1>19. RecoverLatch => Apart
  BY StateEnds DEF RecoverLatch, Ends, Raised
<1>20. ForceAgain => Apart
  BY StateEnds DEF ForceAgain, Ends, Raised
<1>21. ForceLatch => Apart
  BY StateEnds DEF ForceLatch, Ends, Raised
<1>22. MarkAttempt => Apart
  BY JournalEnds DEF MarkAttempt, Ends, Raised
<1>23. MarkCreate => Apart
  BY JournalEnds DEF MarkCreate, Ends, Raised
<1>24. MarkFault => Apart
  BY JournalEnds DEF MarkFault, Ends, Raised
<1>25. DisableBump => Apart
  BY StateEnds DEF DisableBump, Ends, Raised
<1>26. InspectionClear => Apart
  BY StateEnds DEF InspectionClear, Ends, Raised
<1>27. InspectionFault => Apart
  BY StateEnds DEF InspectionFault, Ends, Raised
<1>28. ClearAgain => Apart
  BY StateEnds DEF ClearAgain, Ends, Raised
<1>29. Review => Apart
  BY JournalEnds DEF Review, Ends, Raised
<1>30. ReviewBind => Apart
  BY StateEnds DEF ReviewBind, Ends, Raised
<1>31. ResolveBump => Apart
  BY StateEnds DEF ResolveBump, Ends, Raised
<1>32. ResolveClear => Apart
  BY StateEnds DEF ResolveClear, Ends, Raised
<1>33. LoadState => Apart
  BY StateEnds DEF LoadState, Ends, Raised
<1>34. LoadStateAgain => Apart
  BY StateEnds DEF LoadStateAgain, Ends, Raised
<1>35. LoadPreparations => Apart
  BY StateEnds DEF LoadPreparations, Ends, Raised
<1>36. LoadAttempts => Apart
  BY JournalEnds DEF LoadAttempts, Ends, Raised
<1>37. CheckSources => Apart
  BY StateEnds DEF CheckSources, Ends, Raised
<1>38. CheckUnresolved => Apart
  BY StateEnds DEF CheckUnresolved, Ends, Raised
<1>39. StartLatch => Apart
  BY StateEnds DEF StartLatch, Ends, Raised
<1>40. Finish => Apart
  BY StateEnds DEF Finish, Ends, Raised
<1>41. Unload => Apart
  BY StateEnds DEF Unload, Lose
<1>42. BeginCheckout => Apart
  BY StateEnds DEF BeginCheckout, Ends, Raised
<1>43. Disable => Apart
  BY StateEnds DEF Disable, Ends, Raised
<1>44. BeginInspection => Apart
  BY StateEnds DEF BeginInspection, Ends, Raised
<1>45. PrepareResolution => Apart
  BY DEF PrepareResolution, Apart, Concluding
<1>46. Crash => Apart
  BY StateEnds DEF Crash, Lose
<1>47. BeginReload => Apart
  BY StateEnds DEF BeginReload, Ends, Raised
<1>48. Start => Apart
  BY StateEnds DEF Start, Ends, Raised
<1>49. Checkout => Apart
  BY <1>4, <1>5, <1>6, <1>7, <1>8, <1>9, <1>10, <1>11, <1>12, <1>13, <1>14, <1>15, <1>16,
     <1>17, <1>18, <1>19, <1>20
     DEF Checkout
<1>50. Faulting => Apart
  BY <1>21, <1>22, <1>23, <1>24 DEF Faulting
<1>51. Administration => Apart \/ Conclude
  BY <1>25, <1>26, <1>27, <1>28, <1>29, <1>30, <1>31, <1>32 DEF Administration, Conclude
<1>52. Starting => Apart
  BY <1>33, <1>34, <1>35, <1>36, <1>37, <1>38, <1>39, <1>40, <1>41 DEF Starting
<1>53. Requested => Apart \/ Conclude \/ LoseChallenge
  BY <1>42, <1>43, <1>44, <1>45 DEF Requested, Conclude
<1>54. Environment => Apart \/ Withdraw \/ PreparationWrites
  BY <1>46 DEF Environment
<1> QED
  BY <1>49, <1>50, <1>51, <1>52, <1>53, <1>54, <1>47, <1>48 DEF Next, Progress

(***************************************************************************)
(* What a step may do to the two stores.                                   *)
(***************************************************************************)
\* No step hides a fault of the safety file from the manager, and only a latch or a
\* clear changes the attempt that its manual binding names.
LEMMA StateCalls ==
    ASSUME Types, Control, Next
    PROVE  \/ /\ StateKeeps /\ (NoHiddenFault \/ securityFault)
              /\ \/ StateStep
                 \/ RecoverLatch \/ StartLatch
                 \/ InspectionClear \/ ClearAgain \/ ResolveClear
           \/ LoadState \/ LoadStateAgain \/ Unload \/ Crash
<1> USE DEF Types, Typed, StateStep
<1>1. UNCHANGED stateVars => StateStep /\ NoHiddenFault
  BY StateStays
<1>2. CASE AssertAuthority
  BY <1>2, AssertCurrentEffect DEF AssertAuthority
<1>3. CASE \/ BumpAfterAnswer \/ BumpAfterRejection \/ DisableBump
           \/ InspectionBump \/ ResolveBump
  BY <1>3, PlainBump
     DEF BumpAfterAnswer, BumpAfterRejection, DisableBump, InspectionBump, ResolveBump
<1>4. CASE ForceLatch
  <2>1. securityFault
    BY <1>4 DEF ForceLatch, Control, Placed, FaultSteps
  <2> QED
    BY <1>4, <2>1, LatchFaultEffect DEF ForceLatch
<1>5. CASE RecoverLatch \/ StartLatch
  <2>1. ctx.attempt \in Nat /\ ctx.revision \in Nat \ {0}
    BY <1>5 DEF RecoverLatch, StartLatch, Control, Located, Contexts
  <2> QED
    BY <1>5, <2>1, LatchManualCheckEffect DEF RecoverLatch, StartLatch
<1>6. CASE InspectionBind \/ ReviewBind \/ ResolveBind
  <2>1. ctx.attempt \in Nat /\ ctx.revision \in Nat \ {0}
    BY <1>6
       DEF InspectionBind, ReviewBind, ResolveBind, Control, Located, AdminSteps, Contexts
  <2>2. InspectionBind \/ ResolveBind => ctx.resolution \in State!Resolutions
    BY DEF InspectionBind, ResolveBind, Control, Located
  <2> QED
    BY <1>6, <2>1, <2>2, UpdateManualBindingEffect
       DEF InspectionBind, ReviewBind, ResolveBind
<1>7. CASE InspectionClear \/ ClearAgain \/ ResolveClear
  <2>1. ctx.attempt \in Nat /\ ctx.revision \in Nat \ {0}
    BY <1>7
       DEF InspectionClear, ClearAgain, ResolveClear, Control, Located, AdminSteps, Contexts
  <2>2. ctx.resolution \in State!Resolutions
    BY <1>7 DEF InspectionClear, ClearAgain, ResolveClear, Control, Located
  <2> QED
    BY <1>7, <2>1, <2>2, ClearManualCheckEffect
       DEF InspectionClear, ClearAgain, ResolveClear
<1>8. CASE LoadPreparations \/ PreparationWrites
  BY <1>1, <1>8, PreparationEffect DEF LoadPreparations, PreparationWrites
<1>9. CASE \/ CreateAttempt \/ AdvanceAttempt \/ RecordUnsent \/ FailLocally
           \/ Submit \/ Reply \/ RecordAnswer \/ RecordRejection
           \/ LearnFromAmbiguous \/ LearnFromAnswer \/ PersistenceFault
           \/ RecoverRecord \/ ForceAgain \/ MarkAttempt \/ MarkCreate \/ MarkFault
  BY <1>1, <1>9
     DEF CreateAttempt, AdvanceAttempt, RecordUnsent, FailLocally, Submit, Reply,
         RecordAnswer, RecordRejection, LearnFromAmbiguous, LearnFromAnswer,
         PersistenceFault, RecoverRecord, ForceAgain, MarkAttempt, MarkCreate, MarkFault
<1>10. CASE \/ InspectionAnswer \/ Reconcile \/ InspectionFault \/ Review \/ ResolveRecord
            \/ LoadAttempts \/ CheckSources \/ CheckUnresolved \/ Finish
            \/ Requested \/ BeginReload \/ Start \/ Withdraw
  BY <1>1, <1>10
     DEF InspectionAnswer, Reconcile, InspectionFault, Review, ResolveRecord,
         LoadAttempts, CheckSources, CheckUnresolved, Finish, Requested, BeginCheckout,
         Disable, BeginInspection, PrepareResolution, LoseChallenge, BeginResolution,
         BeginReload, Start, Withdraw
<1> QED
  BY <1>2, <1>3, <1>4, <1>5, <1>6, <1>7, <1>8, <1>9, <1>10
     DEF Next, Progress, Checkout, Faulting, Administration, Starting, Environment

\* The record a journal call of the current step works on, and the states it may go to.
Subject == IF pc = "markFault" THEN ctx.marker ELSE ctx.attempt

Due(s) ==
    \/ pc \in {"quoted", "reserved", "dispatching"} /\ s = Target[pc]
    \/ pc \in {"unsent", "ambiguous", "learn", "recover"} /\ s = Journal!Manual
    \/ pc \in {"localFail", "terminal", "rejected", "reconcile", "resolve"}
         /\ s \in Journal!Confirmed
    \/ pc = "review" /\ s = Journal!Manual
         /\ (records[ctx.attempt].state = Journal!Manual \/ JournalStill)
    \/ pc \in {"markAttempt", "markFault"} /\ s = Journal!Integrity

Sets == \E s, r : Due(s) /\ Moves(Subject, s, r)

Drafts ==
    \E r : \/ pc = "create" /\ Creates(ctx.attempt, "live", r) /\ (r # "ok" => securityFault')
           \/ pc = "markCreate" /\ Creates(NewAttempt, "mock", r)

\* What a step may do to the journal: move an attempt on, add one, load it or lose it.
LEMMA JournalCalls ==
    ASSUME Types, Control, Next
    PROVE  \/ UNCHANGED journalVars
           \/ Sets
           \/ Drafts
           \/ LoadAttempts \/ Unload \/ Crash
<1> USE DEF Types, Typed
<1>1. CASE AdvanceAttempt
  <2>1. PICK r \in Results : Journal!Transition(ctx.attempt, Target[pc], FALSE, r)
    BY <1>1 DEF AdvanceAttempt
  <2>2. Moves(ctx.attempt, Target[pc], r)
    BY <2>1, TransitionEffect
  <2> QED
    BY <1>1, <2>2 DEF AdvanceAttempt, Sets, Due, Subject
<1>2. CASE RecordUnsent \/ RecoverRecord
  <2>1. PICK r \in Results : Journal!Transition(ctx.attempt, Journal!Manual, FALSE, r)
    BY <1>2 DEF RecordUnsent, RecoverRecord
  <2>2. Moves(ctx.attempt, Journal!Manual, r)
    BY <2>1, TransitionEffect
  <2> QED
    BY <1>2, <2>2 DEF RecordUnsent, RecoverRecord, Sets, Due, Subject
<1>3. CASE LearnFromAmbiguous \/ LearnFromAnswer
  <2>1. PICK r \in Results : Journal!Transition(ctx.attempt, Journal!Manual, TRUE, r)
    BY <1>3 DEF LearnFromAmbiguous, LearnFromAnswer
  <2>2. Moves(ctx.attempt, Journal!Manual, r)
    BY <2>1, TransitionEffect
  <2> QED
    BY <1>3, <2>2 DEF LearnFromAmbiguous, LearnFromAnswer, Sets, Due, Subject
<1>4. CASE FailLocally \/ RecordAnswer \/ RecordRejection
  <2>1. ctx.succeeded \in BOOLEAN
    BY DEF Contexts
  <2>2. PICK r, n, k, s :
           /\ s \in BOOLEAN /\ k \in BOOLEAN
           /\ Journal!RecordTerminal(ctx.attempt, n, s, k, r)
    BY <1>4, <2>1 DEF FailLocally, RecordAnswer, RecordRejection
  <2>3. Moves(ctx.attempt, Journal!Outcome(s), r)
    BY <2>2, RecordTerminalEffect
  <2>4. Journal!Outcome(s) \in Journal!Confirmed
    BY OutcomeFacts
  <2>5. pc \in {"localFail", "terminal", "rejected"}
    BY <1>4 DEF FailLocally, RecordAnswer, RecordRejection
  <2>6. Due(Journal!Outcome(s)) /\ Subject = ctx.attempt
    BY <2>4, <2>5 DEF Due, Subject
  <2> QED
    BY <2>3, <2>6 DEF Sets
<1>5. CASE Reconcile
  <2>1. ctx.succeeded \in BOOLEAN
    BY DEF Contexts
  <2>2. PICK r \in Results :
           Journal!RecordReconciliation(ctx.attempt, ctx.revision, ctx.succeeded, r)
    BY <1>5 DEF Reconcile
  <2>3. Moves(ctx.attempt, Journal!Outcome(ctx.succeeded), r)
    BY <2>1, <2>2, RecordReconciliationEffect
  <2>4. Due(Journal!Outcome(ctx.succeeded)) /\ Subject = ctx.attempt
    BY <1>5, OutcomeFacts DEF Reconcile, Due, Subject
  <2> QED
    BY <2>3, <2>4 DEF Sets
<1>6. CASE ResolveRecord
  <2>1. PICK r \in Results : Journal!Resolve(ctx.attempt, ctx.revision, ctx.resolution, r)
    BY <1>6 DEF ResolveRecord
  <2>2. Moves(ctx.attempt, Journal!Outcome(ctx.resolution = "found_succeeded"), r)
    BY <2>1, ResolveEffect
  <2>3. Journal!Outcome(ctx.resolution = "found_succeeded") \in Journal!Confirmed
    BY OutcomeFacts
  <2>4. pc = "resolve"
    BY <1>6 DEF ResolveRecord
  <2> QED
    BY <2>2, <2>3, <2>4 DEF Sets, Due, Subject
<1>7. CASE Review
  <2>1. PICK r \in Results : Journal!ReviewUnknown(ctx.attempt, ctx.revision, r)
    BY <1>7 DEF Review
  <2>2. /\ Moves(ctx.attempt, Journal!Manual, r)
        /\ records[ctx.attempt].state = Journal!Manual \/ JournalStill
    BY <2>1, ReviewUnknownEffect
  <2>3. pc = "review"
    BY <1>7 DEF Review
  <2>4. Due(Journal!Manual) /\ Subject = ctx.attempt
    BY <2>2, <2>3 DEF Due, Subject
  <2> QED
    BY <2>2, <2>4 DEF Sets
<1>8. CASE MarkAttempt
  <2>1. PICK r \in Results : Journal!Transition(ctx.attempt, Journal!Integrity, FALSE, r)
    BY <1>8 DEF MarkAttempt
  <2>2. Moves(ctx.attempt, Journal!Integrity, r)
    BY <2>1, TransitionEffect
  <2> QED
    BY <1>8, <2>2 DEF MarkAttempt, Sets, Due, Subject
<1>9. CASE MarkFault
  <2>1. PICK r \in Results : Journal!Transition(ctx.marker, Journal!Integrity, FALSE, r)
    BY <1>9 DEF MarkFault
  <2>2. Moves(ctx.marker, Journal!Integrity, r)
    BY <2>1, TransitionEffect
  <2> QED
    BY <1>9, <2>2 DEF MarkFault, Sets, Due, Subject
<1>10. NewAttempt \in Nat /\ \A b \in DOMAIN records : b < NewAttempt
  BY NewAttemptIsNew DEF Seen
<1>11. CASE CreateAttempt
  <2>1. ctx.attempt = NewAttempt
    BY <1>11 DEF CreateAttempt, Control, Drafting
  <2>2. PICK r \in Results : /\ Journal!Create(ctx.attempt, "live", r)
                             /\ IF r = "ok" THEN Continue("quoted") ELSE ForceFault(0, "idle")
    BY <1>11 DEF CreateAttempt
  <2>3. Creates(ctx.attempt, "live", r)
    BY <1>10, <2>1, <2>2, CreateEffect
  <2>4. r # "ok" => securityFault'
    BY <2>2 DEF ForceFault, ShutDown
  <2> QED
    BY <1>11, <2>3, <2>4 DEF CreateAttempt, Drafts
<1>12. CASE MarkCreate
  <2>1. PICK r \in Results : Journal!Create(NewAttempt, "mock", r)
    BY <1>12 DEF MarkCreate
  <2>2. Creates(NewAttempt, "mock", r)
    BY SMTT(60), <1>10, <2>1, CreateEffect
  <2> QED
    BY <1>12, <2>2 DEF MarkCreate, Drafts
<1>13. CASE \/ AssertAuthority \/ Submit \/ Reply \/ BumpAfterAnswer \/ BumpAfterRejection
            \/ PersistenceFault \/ RecoverLatch \/ ForceAgain \/ ForceLatch
            \/ DisableBump \/ InspectionAnswer \/ InspectionBind \/ InspectionBump
            \/ InspectionClear \/ InspectionFault \/ ClearAgain \/ ReviewBind
            \/ ResolveBump \/ ResolveBind \/ ResolveClear
  BY <1>13
     DEF AssertAuthority, Submit, Reply, BumpAfterAnswer, BumpAfterRejection,
         PersistenceFault, RecoverLatch, ForceAgain, ForceLatch, DisableBump,
         InspectionAnswer, InspectionBind, InspectionBump, InspectionClear,
         InspectionFault, ClearAgain, ReviewBind, ResolveBump, ResolveBind, ResolveClear
<1>14. CASE \/ LoadState \/ LoadStateAgain \/ LoadPreparations \/ CheckSources
            \/ CheckUnresolved \/ StartLatch \/ Finish
            \/ Requested \/ BeginReload \/ Start \/ Withdraw \/ PreparationWrites
  BY <1>14
     DEF LoadState, LoadStateAgain, LoadPreparations, CheckSources, CheckUnresolved,
         StartLatch, Finish, Requested, BeginCheckout, Disable, BeginInspection,
         PrepareResolution, LoseChallenge, BeginResolution, BeginReload, Start, Withdraw,
         PreparationWrites
<1> QED
  BY <1>1, <1>2, <1>3, <1>4, <1>5, <1>6, <1>7, <1>8, <1>9, <1>11, <1>12, <1>13, <1>14
     DEF Next, Progress, Checkout, Faulting, Administration, Starting, Environment

\* What the calls on the journal of a running manager leave alone, whatever becomes of
\* them: only a marker makes a fault, and only a dispatch an attempt in flight.
LEMMA RecordsChange ==
    ASSUME Types, Control, UNCHANGED journalVars \/ Sets \/ Drafts
    PROVE  /\ journalLoaded' = journalLoaded /\ corrupt' = corrupt
           /\ \A b \in DOMAIN records' : records'[b].state = Journal!Integrity =>
                 pc \in {"markAttempt", "markFault"} \/ HasFault(records)
           /\ \A b \in DOMAIN records' : records'[b].state \in Journal!InFlight =>
                 pc = "dispatching" \/ (b \in DOMAIN records
                                        /\ records[b].state \in Journal!InFlight)
           /\ \A b \in DOMAIN records' : records'[b].state = Journal!Manual =>
                 \/ b = ctx.attempt /\ pc \in {"unsent", "ambiguous", "learn", "recover"}
                 \/ b \in DOMAIN records /\ records[b].state = Journal!Manual
           /\ pc \in {"idle", "disable", "inspectFault"} => records' = records
<1> USE StateNames
<1>1. CASE UNCHANGED journalVars
  BY <1>1 DEF journalVars, HasFault
<1>2. CASE Sets
  <2>1. PICK s, r : Due(s) /\ Moves(Subject, s, r)
    BY <1>2 DEF Sets
  <2>2. CASE records' = records
    BY <2>1, <2>2 DEF Moves, JournalKeeps, HasFault, Due
  <2>3. CASE records' # records
    <3>1. PICK c : Replaces(c, Subject, s) /\ Saves(c, r)
      BY <2>1, <2>3 DEF Moves, JournalStill
    <3>2. records' = c
      BY <2>3, <3>1 DEF Saves
    <3>3. /\ s = Journal!Integrity => pc \in {"markAttempt", "markFault"}
          /\ s \in Journal!InFlight => pc = "dispatching"
          /\ s = Journal!Manual =>
                /\ Subject = ctx.attempt
                /\ \/ pc \in {"unsent", "ambiguous", "learn", "recover"}
                   \/ records[ctx.attempt].state = Journal!Manual
          /\ pc \notin {"idle", "disable", "inspectFault"}
      BY <2>1, <2>3 DEF Due, Target, Subject, JournalStill
    <3>4. \A b \in DOMAIN records' :
             b \in DOMAIN records /\ (records'[b] = records[b]
                                      \/ (b = Subject /\ records'[b].state = s))
      BY <3>1, <3>2 DEF Replaces
    <3> QED
      BY <2>1, <3>3, <3>4 DEF Moves, JournalKeeps, HasFault
  <2> QED
    BY <2>2, <2>3
<1>3. CASE Drafts
  <2>1. PICK a, m, r : Creates(a, m, r)
    BY <1>3 DEF Drafts
  <2>2. CASE records' = records
    BY <1>3, <2>1, <2>2 DEF Creates, JournalKeeps, HasFault, Drafts
  <2>3. CASE records' # records
    <3>1. PICK c : Adds(c, a, m) /\ Saves(c, r)
      BY <2>1, <2>3 DEF Creates, JournalStill
    <3>2. records' = c
      BY <2>3, <3>1 DEF Saves
    <3>3. c[a].state = "DRAFT"
      BY <3>1 DEF Adds, Journal!Draft
    <3>4. "DRAFT" \notin Journal!InFlight \cup Journal!Terminal \cup {Journal!Manual}
      OBVIOUS
    <3>5. \A b \in DOMAIN records' :
             records'[b].state = "DRAFT" \/ (b \in DOMAIN records /\ records'[b] = records[b])
      BY <3>1, <3>2, <3>3 DEF Adds
    <3> QED
      BY <1>3, <2>1, <3>4, <3>5 DEF Creates, JournalKeeps, HasFault, Drafts
  <2> QED
    BY <2>2, <2>3
<1> QED
  BY <1>1, <1>2, <1>3

\* The process ends, in a step that its files survive.
LEMMA EndOfProcess ==
    ASSUME Types, Unload \/ Crash
    PROVE  /\ disk' = disk /\ journal' = journal
           /\ DOMAIN records' = {} /\ ~journalLoaded' /\ ~corrupt'
           /\ snap'.manual = None
           /\ up' = "down" /\ pc' = "idle" /\ ~securityFault' /\ ~enabledFlag' /\ ~manualCheck'
  BY ForgetEffect DEF Types, Unload, Crash, Lose, Goto

(***************************************************************************)
(* A manager knows of the faults on file.                                  *)
(***************************************************************************)
\* What a manager knows of the faults on file it does not forget.
LEMMA FaultsKept ==
    ASSUME Types, Control, Types', FaultsKnown, StartUp, Next
    PROVE  FaultsKnown'
<1> USE DEF SourceChecks, RepairSteps
<1>1. CASE Steady /\ pc \notin StartSteps /\ up # "down"
  <2>1. UNCHANGED journalVars \/ Sets \/ Drafts
    BY <1>1, JournalCalls, EndOfProcess DEF LoadAttempts, StartSteps, Steady
  <2>2. /\ StateKeeps /\ (NoHiddenFault \/ securityFault)
    BY <1>1, StateCalls, EndOfProcess DEF LoadState, LoadStateAgain, StartSteps, Steady
  <2>3. pc \notin Unread \cup SourceChecks \cup {"unload"}
    BY <1>1 DEF Unread, StartSteps
  <2>4. HasFault(records)' => securityFault'
    <3>1. HasFault(records)' => pc \in {"markAttempt", "markFault"} \/ HasFault(records)
      BY <2>1, RecordsChange DEF HasFault
    <3> QED
      BY <1>1, <2>3, <3>1 DEF Steady, FaultsKnown, Control, Placed, FaultSteps
  <2>5. JournalRead' => Readable' \/ securityFault'
    <3>1. journalLoaded' = journalLoaded /\ corrupt' = corrupt
      BY <2>1, RecordsChange
    <3> QED
      BY <1>1, <2>3, <3>1 DEF Steady, FaultsKnown, JournalRead, Readable
  <2>6. disk'.integrity => IntegrityFault'
    <3>1. StateRead
      BY <1>1, <2>3 DEF StateRead, Unread
    <3> QED
      BY <1>1, <2>2, <3>1
         DEF FaultsKnown, IntegrityFault, State!IntegrityFault, StateKeeps, NoHiddenFault,
             Steady
  <2> QED
    BY <1>1, <2>4, <2>5, <2>6 DEF Steady, FaultsKnown
<1>2. CASE LoseChallenge \/ Withdraw \/ PreparationWrites
  <2>1. UNCHANGED <<up, pc, securityFault>> /\ UNCHANGED journalVars
    BY <1>2
       DEF LoseChallenge, Withdraw, PreparationWrites, controlVars, flagVars
  <2>2. /\ StateKeeps /\ (NoHiddenFault \/ securityFault)
    BY <1>2, StateStays, PreparationEffect
       DEF Types, LoseChallenge, Withdraw, PreparationWrites, StateStep
  <2>3. /\ disk.integrity => disk'.integrity
        /\ IntegrityFault => IntegrityFault'
        /\ disk'.integrity => disk.integrity \/ IntegrityFault'
    BY <2>1, <2>2
       DEF IntegrityFault, State!IntegrityFault, StateKeeps, NoHiddenFault
  <2> QED
    BY <2>1, <2>3
       DEF FaultsKnown, HasFault, JournalRead, StateRead, Readable, journalVars
<1>3. CASE Start
  BY <1>3
     DEF Start, Goto, FaultsKnown, StartUp, HasFault, JournalRead, StateRead, Unread,
         journalVars
<1>4. CASE Unload \/ Crash
  BY <1>4, EndOfProcess DEF FaultsKnown, HasFault, JournalRead, StateRead
<1>5. CASE LoadState \/ LoadStateAgain
  <2>1. PICK r : /\ State!Load(r)
                 /\ LoadState => CASE r = "ok"         -> Continue("preparations")
                                   [] r \in Raised    -> Continue("loadStateAgain")
                                   [] r = "cancelled" -> Abort
                 /\ LoadStateAgain =>
                       CASE r = "ok"         -> Goto("loadJournal", NoContext) /\ ReadFlags
                         [] r \in Raised    -> /\ Goto("loadJournal", NoContext)
                                               /\ securityFault' = TRUE
                                               /\ enabledFlag' = FALSE
                                               /\ UNCHANGED <<up, manualCheck, challenge>>
                         [] r = "cancelled" -> Abort
    BY <1>5 DEF LoadState, LoadStateAgain
  <2>2. /\ r \in {"ok", "fault", "cancelled"}
        /\ disk' = disk /\ (r = "ok" => snap' = disk)
    BY <2>1, LoadStateEffect DEF Types
  <2>3. journal' = journal /\ records' = records /\ DOMAIN records = {}
    BY <1>5 DEF LoadState, LoadStateAgain, journalVars, StartUp, Unread
  <2>4. pc' \in {"preparations", "loadStateAgain", "loadJournal", "unload"}
    BY <1>5, <2>1, <2>2 DEF Continue, Abort, Goto, Raised
  <2>5. pc' \in {"preparations", "loadJournal"} /\ disk'.integrity => IntegrityFault'
    BY <1>5, <2>1, <2>2
       DEF Continue, Abort, Goto, Raised, ReadFlags, IntegrityFault, State!IntegrityFault
  <2> QED
    BY <2>3, <2>4, <2>5 DEF FaultsKnown, HasFault, JournalRead, StateRead, Unread
<1>6. CASE LoadPreparations
  <2>1. StateKeeps /\ NoHiddenFault
    BY <1>6, StateStays, PreparationEffect DEF Types, LoadPreparations, StateStep
  <2>2. ~securityFault /\ StateRead /\ DOMAIN records = {} /\ records' = records
    BY <1>6
       DEF LoadPreparations, StartUp, StateRead, Unread, Control, Placed, StartSteps,
           journalVars
  <2>3. disk'.integrity => IntegrityFault'
    BY <1>6, <2>1, <2>2
       DEF LoadPreparations, ReadFlags, StateKeeps, NoHiddenFault, IntegrityFault,
           State!IntegrityFault, FaultsKnown
  <2> QED
    BY <1>6, <2>2, <2>3
       DEF LoadPreparations, Goto, FaultsKnown, HasFault, JournalRead, Unread
<1>7. CASE LoadAttempts
  <2>1. PICK r : /\ Journal!LoadJournal(r)
                 /\ CASE r = "ok"         -> Continue("sources")
                      [] r \in Raised    -> ForceFault(0, "sources")
                      [] r = "cancelled" -> Abort
    BY <1>7 DEF LoadAttempts
  <2>2. Loads(r) /\ r \in Ends
    BY <2>1, LoadEffect, JournalEnds DEF Types
  <2>3. DOMAIN records = {} /\ ~corrupt /\ StateRead /\ UNCHANGED stateVars
    BY <1>7 DEF LoadAttempts, StartUp, Unread, StateRead, Control, Placed, StartSteps
  <2>4. CASE r = "ok"
    <3>1. journalLoaded' /\ ~corrupt'
      BY <2>2, <2>3, <2>4 DEF Loads
    <3>2. pc' = "sources" /\ up' = up /\ securityFault' = securityFault
      BY <2>1, <2>4 DEF Raised, Continue, Goto, KeepFlags, flagVars
    <3>3. disk'.integrity => IntegrityFault'
      BY <2>3, <3>2
         DEF FaultsKnown, IntegrityFault, State!IntegrityFault, stateVars
    <3> QED
      BY <3>1, <3>2, <3>3 DEF FaultsKnown, Readable
  <2>5. CASE r \in Raised
    BY <2>1, <2>5 DEF Raised, ForceFault, ShutDown, Goto, FaultsKnown, IntegrityFault
  <2>6. CASE r = "cancelled"
    BY <2>1, <2>2, <2>3, <2>6
       DEF Abort, Goto, Loads, FaultsKnown, HasFault, JournalRead, StateRead
  <2> QED
    BY <2>2, <2>4, <2>5, <2>6 DEF Ends, Raised
<1>8. CASE CheckSources \/ CheckUnresolved \/ Finish
  <2>1. UNCHANGED stateVars /\ UNCHANGED journalVars
    BY <1>8 DEF CheckSources, CheckUnresolved, Finish
  <2>2. up = "starting" /\ pc \in {"sources", "unresolved", "finish"}
    BY <1>8 DEF CheckSources, CheckUnresolved, Finish, Control, Placed, StartSteps
  <2>3. securityFault => securityFault'
    BY <1>8
       DEF CheckSources, CheckUnresolved, Finish, ForceFault, ShutDown, Continue, KeepFlags,
           flagVars, SetManualCheck
  <2>4. pc' \in {"force", "unresolved", "finish", "startLatch", "markCreate", "idle"}
    BY <1>8 DEF CheckSources, CheckUnresolved, Finish, ForceFault, Continue, Goto
  <2>5. pc = "sources" /\ HasFault(records) => securityFault'
    <3>1. HasFault(records) => Journal!JournalIntegrityFault
      BY DEF HasFault, Journal!JournalIntegrityFault
    <3>2. pc = "sources" => CheckSources
      BY <1>8 DEF CheckUnresolved, Finish
    <3> QED
      BY <3>1, <3>2 DEF CheckSources, ForceFault, ShutDown
  <2>6. FaultsKnown /\ JournalRead /\ StateRead
    BY <2>2 DEF JournalRead, StateRead, Unread
  <2> QED
    BY <2>1, <2>2, <2>3, <2>4, <2>5, <2>6
       DEF FaultsKnown, HasFault, Readable, IntegrityFault, State!IntegrityFault, stateVars,
           journalVars
<1>9. CASE StartLatch
  <2>1. PICK r : /\ State!LatchManualCheck(ctx.attempt, ctx.revision, r)
                 /\ CASE r = "ok"         -> Goto("finish", NoContext) /\ KeepFlags
                      [] r \in Raised    -> ForceFault(ctx.attempt, "finish")
                      [] r = "cancelled" -> Abort
    BY <1>9 DEF StartLatch
  <2>2. ctx.attempt \in Nat /\ ctx.revision \in Nat \ {0}
    BY <1>9 DEF StartLatch, Control, Located, Types, Typed, Contexts
  <2>3. StateKeeps /\ NoHiddenFault /\ r \in Ends
    BY <2>1, <2>2, LatchManualCheckEffect DEF Types
  <2>4. /\ pc' \in {"finish", "force", "unload"}
        /\ securityFault => securityFault'
    BY <2>1, <2>3
       DEF Ends, Raised, Goto, KeepFlags, flagVars, ForceFault, ShutDown, Abort
  <2>5. up = "starting" /\ pc = "startLatch" /\ UNCHANGED journalVars
    BY <1>9 DEF StartLatch, Control, Placed, StartSteps
  <2>6. JournalRead /\ StateRead
    BY <2>5 DEF JournalRead, StateRead, Unread
  <2> QED
    BY <2>3, <2>4, <2>5, <2>6
       DEF FaultsKnown, HasFault, Readable, IntegrityFault, State!IntegrityFault,
           StateKeeps, NoHiddenFault, journalVars
<1> QED
  BY <1>1, <1>2, <1>3, <1>4, <1>5, <1>6, <1>7, <1>8, <1>9, MostAreSteady

(***************************************************************************)
(* What start-up has found.                                                *)
(***************************************************************************)
\* The list a load publishes has nothing in flight.
LEMMA LoadedIsRecovered ==
    ASSUME JournalOK, NEW c, Recovers(c)
    PROVE  \A b \in DOMAIN c : c[b].state \notin Journal!InFlight
  BY StateNames DEF Recovers

\* A manual check that is the only one is the one that start-up chooses.
LEMMA OneUnresolved ==
    ASSUME JournalOK, ~(Cardinality(Journal!UnresolvedManualChecks) > 1),
           NEW a \in Journal!UnresolvedManualChecks
    PROVE  Journal!UnresolvedManualChecks = {a}
<1> DEFINE S == Journal!UnresolvedManualChecks
<1>1. IsFiniteSet(S)
  BY ListFacts, FS_Subset DEF Journal!UnresolvedManualChecks
<1>2. ASSUME NEW b \in S, b # a
      PROVE  FALSE
  <2>0. IsFiniteSet({a}) /\ Cardinality({a}) = 1
    BY FS_Singleton
  <2>1. IsFiniteSet({a} \cup {b}) /\ Cardinality({a} \cup {b}) = 2
    BY <1>2, <2>0, FS_AddElement
  <2>2. {a} \cup {b} \subseteq S
    BY <1>2
  <2>3. Cardinality({a} \cup {b}) <= Cardinality(S) /\ Cardinality(S) \in Nat
    BY <1>1, <2>2, FS_Subset, FS_CardinalityType
  <2> QED
    BY <2>1, <2>3
<1> QED
  BY <1>2

\* The checks of start-up end in a binding that names the one record to be checked, in
\* the latch of a record that has none, or in a fault.
LEMMA UnresolvedChecked ==
    ASSUME Types, Control, StartUp, CheckUnresolved
    PROVE  /\ pc' = "startLatch" =>
                 /\ ~securityFault'
                 /\ Journal!UnresolvedManualChecks = {ctx'.attempt}
                 /\ records[ctx'.attempt].revision = ctx'.revision
           /\ pc' = "finish" /\ ~IntegrityFault' /\ ManualCheckRequired' => Bound
           /\ pc' \in {"force", "startLatch", "finish"}
           /\ pc' = "force" => securityFault'
           /\ securityFault => securityFault'
           /\ up' = up
<1> DEFINE U == Journal!UnresolvedManualChecks
<1>1. pc = "unresolved" /\ UNCHANGED stateVars /\ UNCHANGED journalVars
  BY DEF CheckUnresolved
<1>2. CASE Cardinality(U) > 1
  <2>1. ForceFault(0, "finish")
    BY <1>2 DEF CheckUnresolved
  <2> QED
    BY <2>1 DEF ForceFault, ShutDown, Goto
<1>3. CASE ~(Cardinality(U) > 1) /\ securityFault
  <2>1. Continue("finish")
    BY <1>3 DEF CheckUnresolved
  <2> QED
    BY <1>3, <2>1 DEF Continue, Goto, KeepFlags, flagVars, IntegrityFault
<1>4. CASE ~(Cardinality(U) > 1) /\ ~securityFault /\ U # {}
  <2> DEFINE a == CHOOSE b \in U : TRUE
  <2>1. a \in U
    BY <1>4
  <2>2. U = {a}
    BY <1>4, <2>1, OneUnresolved DEF Types
  <2>3. a \in DOMAIN records /\ records[a].state = Journal!Manual
    BY <2>1 DEF Journal!UnresolvedManualChecks
  <2>4. records[a].revision \in Nat
    BY <2>3, ListFacts DEF Types, GoodEntry
  <2>5. IF snap.manual = None
        THEN /\ Goto("startLatch", [NoContext EXCEPT !.attempt = a,
                                                     !.revision = records[a].revision])
             /\ SetManualCheck(TRUE)
        ELSE IF BindingMatches(a)
        THEN Goto("finish", NoContext) /\ SetManualCheck(TRUE)
        ELSE ForceFault(a, "finish")
    BY <1>4 DEF CheckUnresolved
  <2> HIDE DEF a, U
  <2>6. CASE snap.manual = None
    <3>1. ctx' = [NoContext EXCEPT !.attempt = a, !.revision = records[a].revision]
          /\ pc' = "startLatch" /\ up' = up /\ securityFault' = securityFault
      BY <2>5, <2>6 DEF Goto, SetManualCheck
    <3>2. ctx'.attempt = a /\ ctx'.revision = records[a].revision
      BY <3>1 DEF NoContext
    <3> QED
      BY <1>4, <2>2, <3>1, <3>2 DEF U
  <2>7. CASE snap.manual # None /\ BindingMatches(a)
    <3>1. Bound
      BY <2>3, <2>7 DEF Bound, BindingMatches
    <3> QED
      BY <1>4, <2>5, <2>7, <3>1 DEF Goto, SetManualCheck
  <2>8. CASE snap.manual # None /\ ~BindingMatches(a)
    BY <2>5, <2>8 DEF ForceFault, ShutDown, Goto
  <2> QED
    BY <2>6, <2>7, <2>8
<1>5. CASE ~(Cardinality(U) > 1) /\ ~securityFault /\ U = {}
  <2>1. IF snap.manual # None /\ ~PendingClear
        THEN ForceFault(snap.manual.attempt, "finish")
        ELSE Continue("finish")
    BY <1>5 DEF CheckUnresolved
  <2>2. CASE snap.manual # None /\ ~PendingClear
    BY <2>1, <2>2 DEF ForceFault, ShutDown, Goto
  <2>3. CASE ~(snap.manual # None /\ ~PendingClear)
    <3>1. Continue("finish")
      BY <2>1, <2>3
    <3>2. manualCheck => snap.manual # None
      BY <1>1, <1>5 DEF StartUp
    <3>3. pc' = "finish" /\ up' = up /\ manualCheck' = manualCheck /\ snap' = snap
          /\ securityFault' = securityFault
      BY <1>1, <3>1 DEF Continue, Goto, KeepFlags, flagVars, stateVars
    <3>4. ManualCheckRequired' => Bound
      BY <2>3, <3>2, <3>3 DEF ManualCheckRequired, PendingClear
    <3> QED
      BY <3>3, <3>4
  <2> QED
    BY <2>2, <2>3
<1> QED
  BY <1>2, <1>3, <1>4, <1>5

\* After the step, the file and memory name attempt a.
NamedNext(a) ==
    /\ snap'.manual # None /\ snap'.manual.attempt = a
    /\ disk'.manual # None /\ disk'.manual.attempt = a

\* The latch of start-up names the attempt it was called for, or a fault is forced.
LEMMA LatchedAtStart ==
    ASSUME Types, Control, StartUp, StartLatch
    PROVE  /\ pc' \in {"finish", "force", "unload"} /\ up' = up
           /\ pc' = "finish" => Bound' /\ NamedNext(ctx.attempt)
           /\ pc' = "force" => securityFault'
<1>1. PICK r : /\ State!LatchManualCheck(ctx.attempt, ctx.revision, r)
               /\ CASE r = "ok"         -> Goto("finish", NoContext) /\ KeepFlags
                    [] r \in Raised    -> ForceFault(ctx.attempt, "finish")
                    [] r = "cancelled" -> Abort
  BY DEF StartLatch
<1>2. /\ pc = "startLatch" /\ ctx.attempt \in Nat /\ ctx.revision \in Nat \ {0}
      /\ UNCHANGED journalVars
  BY DEF StartLatch, Control, Located, Types, Typed, Contexts
<1>3. /\ r \in Ends
      /\ r = "ok" => /\ NamedNext(ctx.attempt)
                     /\ snap'.manual.revision = ctx.revision
                     /\ snap'.manual.resolution = None
                     /\ snap'.manual.generation = snap'.generation
  BY <1>1, <1>2, LatchManualCheckEffect DEF Types, Names, NamedNext
<1>4. /\ ctx.attempt \in DOMAIN records
      /\ records[ctx.attempt].state = Journal!Manual
      /\ records[ctx.attempt].revision = ctx.revision
  BY <1>2 DEF StartUp, Journal!UnresolvedManualChecks
<1>5. r = "ok" => Bound'
  BY <1>2, <1>3, <1>4 DEF Bound, NamedNext, journalVars
<1>6. CASE r = "ok"
  BY <1>1, <1>3, <1>5, <1>6 DEF Raised, Goto, KeepFlags, flagVars
<1>7. CASE r # "ok"
  BY <1>1, <1>3, <1>7
     DEF Ends, Raised, Goto, KeepFlags, flagVars, ForceFault, ShutDown, Abort
<1> QED
  BY <1>6, <1>7

\* Start-up goes through its checkpoints in order.
LEMMA StartUpKept ==
    ASSUME Types, Control, Types', Control', FaultsKnown, StartUp, Next
    PROVE  StartUp'
<1> USE DEF SourceChecks, RepairSteps
<1>1. CASE Steady /\ pc \notin StartSteps /\ up # "down"
  <2>1. UNCHANGED journalVars \/ Sets \/ Drafts
    BY <1>1, JournalCalls, EndOfProcess DEF LoadAttempts, StartSteps, Steady
  <2>2. up' = "starting" => \A b \in DOMAIN records' : records'[b].state \notin Journal!InFlight
    <3>1. up = "starting" => pc \notin CheckoutSteps
      BY DEF Control, Placed
    <3> QED
      BY <1>1, <2>1, <3>1, RecordsChange DEF Steady, StartUp, CheckoutSteps
  <2> QED
    BY <1>1, <2>2 DEF Steady, StartUp, Unread, IntegrityFault
<1>2. CASE LoseChallenge \/ Withdraw \/ PreparationWrites
  <2>1. UNCHANGED <<up, pc, ctx, securityFault, manualCheck>> /\ UNCHANGED journalVars
    BY <1>2 DEF LoseChallenge, Withdraw, PreparationWrites, controlVars, flagVars
  <2>2. pc \notin StartSteps \ {"unload"}
    BY <1>2 DEF LoseChallenge, Withdraw, PreparationWrites, Control, Placed, StartSteps
  <2> QED
    BY <2>1, <2>2 DEF StartUp, Unread, StartSteps, journalVars
<1>3. CASE Start
  BY <1>3 DEF Start, Goto, StartUp, Unread, Control, Placed, journalVars
<1>4. CASE Unload \/ Crash
  BY <1>4, EndOfProcess DEF StartUp, Unread
<1>5. CASE LoadState \/ LoadStateAgain
  <2>1. PICK r : /\ State!Load(r)
                 /\ LoadState => CASE r = "ok"         -> Continue("preparations")
                                   [] r \in Raised    -> Continue("loadStateAgain")
                                   [] r = "cancelled" -> Abort
                 /\ LoadStateAgain =>
                       CASE r = "ok"         -> Goto("loadJournal", NoContext) /\ ReadFlags
                         [] r \in Raised    -> /\ Goto("loadJournal", NoContext)
                                               /\ securityFault' = TRUE
                                               /\ enabledFlag' = FALSE
                                               /\ UNCHANGED <<up, manualCheck, challenge>>
                         [] r = "cancelled" -> Abort
    BY <1>5 DEF LoadState, LoadStateAgain
  <2>2. /\ r \in {"ok", "fault", "cancelled"}
        /\ disk' = disk /\ (r = "ok" => snap' = disk)
    BY <2>1, LoadStateEffect DEF Types
  <2>3. /\ UNCHANGED journalVars /\ DOMAIN records = {} /\ ~corrupt /\ ~securityFault
        /\ up = "starting"
    BY <1>5
       DEF LoadState, LoadStateAgain, journalVars, StartUp, Unread, Control, Placed,
           StartSteps
  <2>4. /\ pc' \in {"preparations", "loadStateAgain", "loadJournal", "unload"} /\ up' = up
        /\ pc' \in {"preparations", "loadStateAgain"} => ~securityFault'
        /\ pc' \in {"preparations", "loadJournal"} => r = "ok" \/ securityFault'
        /\ pc' = "loadJournal" => securityFault' \/ manualCheck' = (snap'.manual # None)
    BY <1>5, <2>1, <2>2, <2>3
       DEF Continue, Abort, Goto, Raised, KeepFlags, flagVars, ReadFlags
  <2>5. r = "ok" /\ snap'.manual # None => Names(snap.manual.attempt)'
    BY <2>2 DEF Names
  <2> QED
    BY <2>3, <2>4, <2>5 DEF StartUp, Unread, IntegrityFault, journalVars
<1>6. CASE LoadPreparations
  <2>1. StateStep
    BY <1>6, StateStays, PreparationEffect DEF Types, LoadPreparations
  <2>2. /\ ~securityFault /\ DOMAIN records = {} /\ ~corrupt /\ up = "starting"
        /\ UNCHANGED journalVars /\ pc = "preparations"
    BY <1>6 DEF LoadPreparations, StartUp, Unread, Control, Placed, StartSteps
  <2>3. /\ pc' = "loadJournal" /\ up' = up
        /\ securityFault' = State!IntegrityFault'
        /\ manualCheck' = (snap'.manual # None)
    BY <1>6 DEF LoadPreparations, ReadFlags, Goto
  <2>4. ~IntegrityFault' /\ snap'.manual # None => Names(snap.manual.attempt)'
    <3>1. ~IntegrityFault' => ~IntegrityFault
      BY <2>1, <2>2 DEF IntegrityFault, State!IntegrityFault, StateStep, StateKeeps
    <3>2. ~IntegrityFault /\ snap.manual # None => Names(snap.manual.attempt)
      BY <2>2 DEF StartUp
    <3>3. CASE snap' = snap
      BY <2>1, <3>1, <3>2, <3>3 DEF StateStep, Names
    <3>4. CASE snap' = disk'
      BY <3>4 DEF Names
    <3> QED
      BY <2>1, <3>3, <3>4 DEF StateStep
  <2> QED
    BY <2>2, <2>3, <2>4 DEF StartUp, Unread, journalVars
<1>7. CASE LoadAttempts
  <2>1. PICK r : /\ Journal!LoadJournal(r)
                 /\ CASE r = "ok"         -> Continue("sources")
                      [] r \in Raised    -> ForceFault(0, "sources")
                      [] r = "cancelled" -> Abort
    BY <1>7 DEF LoadAttempts
  <2>2. Loads(r) /\ r \in Ends
    BY <2>1, LoadEffect, JournalEnds DEF Types
  <2>3. /\ DOMAIN records = {} /\ ~corrupt /\ UNCHANGED stateVars /\ up = "starting"
        /\ pc = "loadJournal"
    BY <1>7 DEF LoadAttempts, StartUp, Unread, Control, Placed, StartSteps
  <2>4. CASE r = "ok"
    <3>1. pc' = "sources" /\ UNCHANGED flagVars
      BY <2>1, <2>4 DEF Raised, Continue, Goto, KeepFlags
    <3>2. \A b \in DOMAIN records' : records'[b].state \notin Journal!InFlight
      BY <2>2, <2>4, LoadedIsRecovered DEF Loads, Types
    <3> QED
      BY <2>3, <3>1, <3>2
         DEF flagVars, StartUp, Unread, Names, IntegrityFault, State!IntegrityFault,
             stateVars
  <2>5. CASE r \in Raised
    <3>1. DOMAIN records' = {}
      BY <2>2, <2>3, <2>5 DEF Loads, Raised
    <3> QED
      BY <2>1, <2>3, <2>5, <3>1
         DEF Raised, ForceFault, ShutDown, Goto, StartUp, Unread
  <2>6. CASE r = "cancelled"
    BY <2>1, <2>2, <2>3, <2>6
       DEF Abort, Goto, KeepFlags, flagVars, Loads, Raised, StartUp, Unread
  <2> QED
    BY <2>2, <2>4, <2>5, <2>6 DEF Ends, Raised
<1>8. CASE CheckSources
  <2>1. /\ UNCHANGED stateVars /\ UNCHANGED journalVars
        /\ up = "starting" /\ pc = "sources" /\ up' = up
        /\ \/ pc' = "force" /\ securityFault'
           \/ pc' = "unresolved" /\ UNCHANGED flagVars
    BY <1>8
       DEF CheckSources, Control, Placed, StartSteps, ForceFault, ShutDown, Continue, Goto,
           KeepFlags, flagVars
  <2> QED
    BY <2>1
       DEF StartUp, Unread, Names, IntegrityFault, State!IntegrityFault, stateVars,
           journalVars, flagVars
<1>9. CASE CheckUnresolved
  <2>1. /\ UNCHANGED stateVars /\ UNCHANGED journalVars /\ up = "starting"
    BY <1>9 DEF CheckUnresolved, Control, Placed, StartSteps
  <2>2. Bound' = Bound
    BY <2>1 DEF Bound, stateVars, journalVars
  <2>3. Journal!UnresolvedManualChecks' = Journal!UnresolvedManualChecks
    BY <2>1 DEF Journal!UnresolvedManualChecks, journalVars
  <2>4. \A b \in DOMAIN records' : records'[b].state \notin Journal!InFlight
    BY <2>1 DEF StartUp, journalVars
  <2> QED
    BY <1>9, <2>1, <2>2, <2>3, <2>4, UnresolvedChecked DEF StartUp, Unread, journalVars
<1>10. CASE StartLatch
  <2>1. UNCHANGED journalVars /\ up = "starting"
    BY <1>10 DEF StartLatch, Control, Placed, StartSteps
  <2> QED
    BY <1>10, <2>1, LatchedAtStart DEF StartUp, Unread, journalVars
<1>11. CASE Finish
  <2>1. /\ UNCHANGED journalVars /\ up = "starting" /\ pc' \in {"markCreate", "idle"}
        /\ up' \in {"starting", "up"}
    BY <1>11 DEF Finish, Control, Placed, StartSteps, Goto, ShutDown
  <2> QED
    BY <2>1 DEF StartUp, Unread, journalVars
<1> QED
  BY <1>1, <1>2, <1>3, <1>4, <1>5, <1>6, <1>7, <1>8, <1>9, <1>10, <1>11, MostAreSteady

(***************************************************************************)
(* Conclusions are on file before they are published.                      *)
(***************************************************************************)
OnFileAlike(b) ==
    /\ b \in DOMAIN journal
    /\ journal[b].state = records[b].state
    /\ journal[b].resolution = records[b].resolution

\* A call that does not shut the manager down leaves every conclusion in memory on file.
LEMMA ConclusionsOnFile ==
    ASSUME Types, Control, Conclusive, ~securityFault, ~securityFault',
           UNCHANGED journalVars \/ Sets \/ Drafts
    PROVE  \A b \in DOMAIN records' : records'[b].state \in Journal!Confirmed =>
              OnFileAlike(b)'
<1> USE DEF OnFileAlike
<1>0. \A b \in DOMAIN records : records[b].state \in Journal!Confirmed => OnFileAlike(b)
  BY DEF Conclusive
<1>1. CASE UNCHANGED journalVars
  BY <1>0, <1>1 DEF journalVars
<1>2. CASE Sets
  <2>1. PICK s, r : Due(s) /\ Moves(Subject, s, r)
    BY <1>2 DEF Sets
  <2>2. CASE journal' = journal /\ records' = records
    BY <1>0, <2>2
  <2>3. CASE ~(journal' = journal /\ records' = records)
    <3>1. PICK c : Replaces(c, Subject, s) /\ Saves(c, r)
      BY <2>1, <2>3 DEF Moves, JournalStill
    <3>2. CASE r = "ok"
      BY <3>1, <3>2 DEF Saves
    <3>3. CASE r # "ok"
      <4>1. records' = records /\ journal' = c
        BY <3>1, <3>3 DEF Saves
      <4>2. records[Subject].state \notin Journal!Confirmed
        BY <3>1, AllowedFacts, StateNames DEF Replaces
      <4>3. \A b \in DOMAIN records : records[b].state \in Journal!Confirmed =>
               b \in DOMAIN c /\ c[b] = records[b]
        BY <3>1, <4>2 DEF Replaces
      <4> QED
        BY <4>1, <4>3
    <3> QED
      BY <3>2, <3>3
  <2> QED
    BY <2>2, <2>3
<1>3. CASE Drafts
  <2>1. PICK r : Creates(ctx.attempt, "live", r) /\ (r # "ok" => securityFault')
    BY <1>3 DEF Drafts, Control, Placed, FaultSteps
  <2>2. PICK c : Adds(c, ctx.attempt, "live") /\ Saves(c, r)
    BY <2>1 DEF Creates
  <2>3. journal' = c /\ records' = c
    BY <2>1, <2>2 DEF Saves
  <2> QED
    BY <2>3
<1> QED
  BY <1>1, <1>2, <1>3

\* A conclusion that is published is on file, whatever else a step does.
LEMMA ConclusivePublished ==
    ASSUME Types, Control, FaultsKnown, StartUp, Conclusive, Next
    PROVE  ~securityFault' =>
              \A b \in DOMAIN records' : records'[b].state \in Journal!Confirmed =>
                 OnFileAlike(b)'
<1> SUFFICES ASSUME ~securityFault'
             PROVE  \A b \in DOMAIN records' : records'[b].state \in Journal!Confirmed =>
                       OnFileAlike(b)'
  OBVIOUS
<1>1. CASE Steady /\ pc \notin StartSteps /\ up # "down"
  <2>1. UNCHANGED journalVars \/ Sets \/ Drafts
    BY <1>1, JournalCalls, EndOfProcess DEF LoadAttempts, StartSteps, Steady
  <2> QED
    BY <1>1, <2>1, ConclusionsOnFile DEF Steady
<1>2. CASE LoseChallenge \/ Withdraw \/ PreparationWrites
  <2>1. UNCHANGED <<journalVars, securityFault>>
    BY <1>2 DEF LoseChallenge, Withdraw, PreparationWrites, controlVars, flagVars
  <2>2. ~securityFault
    BY <2>1
  <2> QED
    BY <2>1, <2>2, ConclusionsOnFile
<1>3. CASE Start \/ LoadState \/ LoadStateAgain \/ LoadPreparations
  <2>1. records' = records /\ DOMAIN records = {}
    BY <1>3
       DEF Start, LoadState, LoadStateAgain, LoadPreparations, StartUp, Unread, journalVars
  <2> QED
    BY <2>1
<1>4. CASE Unload \/ Crash
  BY <1>4, EndOfProcess
<1>5. CASE LoadAttempts
  <2>1. PICK r : Loads(r)
    BY <1>5, LoadEffect DEF Types, LoadAttempts
  <2>2. DOMAIN records = {}
    BY <1>5 DEF LoadAttempts, StartUp, Unread
  <2> QED
    BY <2>1, <2>2 DEF Loads, OnFileAlike
<1>6. CASE CheckSources \/ CheckUnresolved \/ StartLatch \/ Finish
  <2>1. UNCHANGED journalVars
    BY <1>6 DEF CheckSources, CheckUnresolved, StartLatch, Finish
  <2>2. securityFault => securityFault'
    <3>1. StartLatch => (securityFault => securityFault')
      BY DEF StartUp, StartLatch
    <3>2. CheckUnresolved => (securityFault => securityFault')
      BY UnresolvedChecked
    <3> QED
      BY <1>6, <3>1, <3>2
         DEF CheckSources, Finish, ForceFault, ShutDown, Continue, KeepFlags, flagVars
  <2> QED
    BY <2>1, <2>2, ConclusionsOnFile
<1> QED
  BY <1>1, <1>2, <1>3, <1>4, <1>5, <1>6, MostAreSteady

\* A conclusion of the record the binding names was published before its clear begins.
LEMMA ConclusiveReached ==
    ASSUME Types, Control, Conclusive, Next, pc' \in Concluding \cup {"reconcile"}
    PROVE  /\ pc' \in Concluding =>
                 /\ ctx'.attempt \in DOMAIN records'
                 /\ records'[ctx'.attempt].state \in Journal!Confirmed
                 /\ records'[ctx'.attempt].resolution = ctx'.resolution
           /\ pc' = "reconcile" => ctx'.resolution = ProviderResolution(ctx'.succeeded)
<1>0. "reconcile" \notin Concluding /\ "idle" \notin Concluding /\ "force" \notin Concluding
      /\ "markCreate" \notin Concluding
  BY DEF Concluding
<1>1. CASE LoseChallenge \/ Withdraw \/ PreparationWrites
  BY <1>1
     DEF LoseChallenge, Withdraw, PreparationWrites, controlVars, journalVars, Conclusive
<1>2. CASE InspectionAnswer
  <2>1. \/ pc' = "idle"
        \/ \E s \in BOOLEAN : /\ pc' = "reconcile"
                              /\ ctx' = [ctx EXCEPT !.succeeded = s,
                                                    !.resolution = ProviderResolution(s)]
    BY <1>2 DEF InspectionAnswer, Done, Goto
  <2>2. ctx \in Contexts
    BY DEF Types, Typed
  <2> QED
    BY ZenonT(60), <1>0, <2>1, <2>2 DEF Contexts
<1>3. CASE Reconcile
  <2>1. PICK r : /\ Journal!RecordReconciliation(ctx.attempt, ctx.revision, ctx.succeeded, r)
                 /\ IF r = "ok"
                    THEN Goto("inspectBind", [ctx EXCEPT !.revision = @ + 1]) /\ KeepFlags
                    ELSE Done
    BY <1>3 DEF Reconcile
  <2>2. ctx \in Contexts /\ ctx.succeeded \in BOOLEAN
    BY DEF Types, Typed, Contexts
  <2>3. r = "ok"
    BY <1>0, <2>1 DEF Done, Goto
  <2>4. /\ Moves(ctx.attempt, Journal!Outcome(ctx.succeeded), r)
        /\ records'[ctx.attempt].resolution = ProviderResolution(ctx.succeeded)
    BY <2>1, <2>2, <2>3, RecordReconciliationEffect DEF Types
  <2>5. ctx.resolution = ProviderResolution(ctx.succeeded)
    BY <1>3 DEF Reconcile, Conclusive
  <2>6. /\ ctx.attempt \in DOMAIN records'
        /\ records'[ctx.attempt].state = Journal!Outcome(ctx.succeeded)
    BY <2>3, <2>4 DEF Moves, Replaces, Saves
  <2>7. /\ pc' = "inspectBind"
        /\ ctx'.attempt = ctx.attempt /\ ctx'.resolution = ctx.resolution
    BY <2>1, <2>2, <2>3 DEF Goto, Contexts
  <2> QED
    BY <2>4, <2>5, <2>6, <2>7, OutcomeFacts
<1>4. CASE ResolveRecord
  <2>1. PICK r : /\ Journal!Resolve(ctx.attempt, ctx.revision, ctx.resolution, r)
                 /\ CASE r = "ok"         -> /\ Goto("resolveBind", [ctx EXCEPT !.revision = @ + 1])
                                            /\ KeepFlags
                      [] r \in Raised    -> Goto("idle", NoContext) /\ SetManualCheck(TRUE)
                      [] r = "cancelled" -> Done
    BY <1>4 DEF ResolveRecord
  <2>2. ctx \in Contexts /\ r \in Ends
    BY <2>1, JournalEnds DEF Types, Typed
  <2>3. r = "ok"
    BY <1>0, <2>1, <2>2 DEF Done, Goto, Ends, Raised
  <2>4. /\ Moves(ctx.attempt, Journal!Outcome(ctx.resolution = "found_succeeded"), r)
        /\ records'[ctx.attempt].resolution = ctx.resolution
    BY <2>1, <2>3, ResolveEffect DEF Types
  <2>6. /\ ctx.attempt \in DOMAIN records'
        /\ records'[ctx.attempt].state = Journal!Outcome(ctx.resolution = "found_succeeded")
    BY <2>3, <2>4 DEF Moves, Replaces, Saves
  <2>7. /\ pc' = "resolveBind"
        /\ ctx'.attempt = ctx.attempt /\ ctx'.resolution = ctx.resolution
    BY <2>1, <2>2, <2>3 DEF Goto, Contexts, Raised
  <2> QED
    BY <1>0, <2>4, <2>6, <2>7, OutcomeFacts
<1>5. CASE InspectionBind \/ InspectionBump \/ ResolveBind
  <2>1. pc \in Concluding /\ records' = records
    BY <1>5 DEF InspectionBind, InspectionBump, ResolveBind, Concluding, journalVars
  <2>2. pc' \in Concluding \cup {"reconcile"} => ctx' = ctx /\ pc' # "reconcile"
    <3>1. \A a, t : ForceFault(a, t) => pc' = "force"
      BY DEF ForceFault, Goto
    <3>2. \A t : MarkBumpFault(t) => pc' = "markCreate"
      BY DEF MarkBumpFault, Goto
    <3>3. Done => pc' = "idle"
      BY DEF Done, Goto
    <3>4. \A s : Continue(s) => pc' = s /\ ctx' = ctx
      BY DEF Continue, Goto
    <3>5. Goto("inspectBump", ctx) => pc' = "inspectBump" /\ ctx' = ctx
      BY DEF Goto
    <3>6. {"clear", "inspectClear", "inspectBump"} \subseteq Concluding
      BY DEF Concluding
    <3>7. CASE InspectionBind
      BY <1>0, <3>1, <3>3, <3>5, <3>7 DEF InspectionBind
    <3>8. CASE InspectionBump
      <4>1. PICK r \in Results :
               /\ State!Bump(FALSE, None, r)
               /\ CASE r = "ok"         -> Continue("inspectClear")
                    [] r \in Raised    -> MarkBumpFault("inspectFault")
                    [] r = "cancelled" -> Done
        BY <3>8 DEF InspectionBump
      <4>2. r \in Ends
        BY <4>1, StateEnds
      <4>3. Continue("inspectClear") \/ MarkBumpFault("inspectFault") \/ Done
        BY <4>1, <4>2 DEF Ends, Raised
      <4> QED
        BY <1>0, <3>2, <3>3, <3>4, <4>3
    <3>9. CASE ResolveBind
      BY <1>0, <3>1, <3>3, <3>4, <3>9 DEF ResolveBind
    <3> QED
      BY <1>5, <3>7, <3>8, <3>9
  <2> QED
    BY <2>1, <2>2 DEF Conclusive
<1>6. CASE BeginResolution
  <2> DEFINE rec == records[challenge.attempt]
             concluded == rec.state # Journal!Manual
             unknown == challenge.resolution = "still_unknown"
             next == IF concluded THEN "clearAgain"
                     ELSE IF unknown THEN "review" ELSE "resolveBump"
  <2>1. /\ ChallengeCurrent
        /\ Goto(next, [NoContext EXCEPT !.attempt = challenge.attempt,
                                        !.revision = challenge.revision,
                                        !.resolution = challenge.resolution])
        /\ records' = records
    BY <1>6 DEF BeginResolution, journalVars
  <2>2. pc' = next /\ ctx'.attempt = challenge.attempt /\ ctx'.resolution = challenge.resolution
    BY <2>1 DEF Goto, NoContext
  <2>3. "review" \notin Concluding /\ "resolveBump" \notin Concluding
    BY DEF Concluding
  <2>4. concluded /\ pc' = "clearAgain"
    BY <1>0, <2>2, <2>3
  <2>5. /\ snap.manual.attempt = challenge.attempt
        /\ snap.manual.attempt \in DOMAIN records
        /\ rec.state \in Journal!Confirmed
        /\ rec.resolution = challenge.resolution
    BY <2>1, <2>4 DEF ChallengeCurrent, Bound, Accepts
  <2> QED
    BY <2>1, <2>2, <2>4, <2>5
<1> QED
  BY <1>1, <1>2, <1>3, <1>4, <1>5, <1>6, MostStayApart DEF Apart, Conclude

\* A conclusion keeps agreeing with the file and with the call that makes it.
LEMMA ConclusiveKept ==
    ASSUME Types, Control, FaultsKnown, StartUp, Conclusive, Next
    PROVE  Conclusive'
<1>1. pc' \in Concluding \cup {"reconcile"} =>
         /\ pc' \in Concluding =>
               /\ ctx'.attempt \in DOMAIN records'
               /\ records'[ctx'.attempt].state \in Journal!Confirmed
               /\ records'[ctx'.attempt].resolution = ctx'.resolution
         /\ pc' = "reconcile" => ctx'.resolution = ProviderResolution(ctx'.succeeded)
  BY ConclusiveReached
<1>2. (pc \in Concluding)' = (pc' \in Concluding)
      /\ (pc = "reconcile" => ctx.resolution = ProviderResolution(ctx.succeeded))'
           = (pc' = "reconcile" => ctx'.resolution = ProviderResolution(ctx'.succeeded))
  BY DEF Concluding, ProviderResolution
<1> QED
  BY <1>1, <1>2, ConclusivePublished DEF Conclusive, OnFileAlike

(***************************************************************************)
(* Start-up and the clears.                                                *)
(***************************************************************************)
Secure == Before /\ FaultsKnown /\ StartUp /\ Conclusive

\* The initial states are secure,
LEMMA SecureInit == Init => Secure
<1> SUFFICES ASSUME Init
             PROVE  Secure
  OBVIOUS
<1>1. Before
  BY InitTypes DEF Before
<1>2. DOMAIN records = {} /\ ~corrupt
  BY DEF Init, Journal!Init, Journal!NoRecords
<1>3. FaultsKnown /\ StartUp /\ Conclusive
  BY <1>2
     DEF Init, AtRest, FaultsKnown, StartUp, Conclusive, HasFault, StateRead, JournalRead,
         Unread, SourceChecks, RepairSteps, Concluding
<1> QED
  BY <1>1, <1>3 DEF Secure

\* nothing changes when nothing does,
LEMMA SecureStutter == Secure /\ UNCHANGED vars => Secure'
<1> SUFFICES ASSUME Secure, UNCHANGED vars
             PROVE  Secure'
  OBVIOUS
<1> USE DEF vars, stateVars, journalVars, controlVars, flagVars
<1>1. Before'
  BY StutterKeeps DEF Secure
<1>2. FaultsKnown'
  BY DEF Secure, FaultsKnown, HasFault, StateRead, JournalRead, Readable, IntegrityFault,
         State!IntegrityFault
<1>3. Bound' = Bound /\ Journal!UnresolvedManualChecks' = Journal!UnresolvedManualChecks
  BY DEF Bound, Journal!UnresolvedManualChecks
<1>4. StartUp'
  BY <1>3
     DEF Secure, StartUp, IntegrityFault, State!IntegrityFault, ManualCheckRequired, Names
<1>5. Conclusive'
  BY DEF Secure, Conclusive, ProviderResolution
<1> QED
  BY <1>1, <1>2, <1>4, <1>5 DEF Secure

\* and every step keeps it.
LEMMA SecureKept == Secure /\ [Next]_vars => Secure'
<1>1. ASSUME Secure, Next
      PROVE  Secure'
  <2>1. Before'
    BY <1>1, BeforeKept DEF Secure
  <2>2. Types' /\ Control'
    BY <2>1 DEF Before
  <2>3. FaultsKnown' /\ StartUp' /\ Conclusive'
    BY <1>1, <2>2, FaultsKept, StartUpKept, ConclusiveKept DEF Secure, Before
  <2> QED
    BY <2>1, <2>3 DEF Secure
<1> QED
  BY <1>1, SecureStutter

\* So every state the manager can be in is secure.
LEMMA SecureHolds == Spec => []Secure
  BY SecureInit, SecureKept, PTL DEF Spec

\* The last step of start-up leaves the binding it found.
LEMMA FinishBinds ==
    ASSUME Secure, Next, pc = "finish", pc' = "idle"
    PROVE  (ManualCheckRequired /\ ~IntegrityFault => Bound)'
<1>1. up = "starting"
  BY DEF Secure, Before, Control, Placed, StartSteps
<1>2. Finish \/ Crash
  BY <1>1, MostAreSteady
     DEF Secure, Before, StartSteps, LoseChallenge, Withdraw, PreparationWrites, Start,
         Unload, LoadState, LoadStateAgain, LoadPreparations, LoadAttempts, CheckSources,
         CheckUnresolved, StartLatch
<1>3. CASE Finish
  <2>1. UNCHANGED <<securityFault, manualCheck>>
    BY <1>3 DEF Finish, Goto
  <2>2. Bound' = Bound
    BY <1>3 DEF Finish, Bound, stateVars, journalVars
  <2>3. ManualCheckRequired' = ManualCheckRequired /\ IntegrityFault' = IntegrityFault
    BY <1>3, <2>1
       DEF Finish, stateVars, ManualCheckRequired, IntegrityFault, State!IntegrityFault
  <2> QED
    BY <2>2, <2>3 DEF Secure, StartUp
<1>4. CASE Crash
  BY <1>4, EndOfProcess DEF Secure, Before, ManualCheckRequired
<1> QED
  BY <1>2, <1>3, <1>4

\* Only a clear empties the durable binding, and it does when the journal has the
\* conclusion that the binding is to.
LEMMA ClearsConclude ==
    ASSUME Secure, Next, disk.manual # None, disk'.manual = None
    PROVE  LET a == disk.manual.attempt
           IN  /\ a \in DOMAIN journal
               /\ journal[a].state \in Journal!Confirmed
               /\ journal[a].resolution = disk.manual.resolution
<1> USE DEF Secure, Before, Types
<1>1. CASE RecoverLatch \/ StartLatch
  <2>1. ctx.attempt \in Nat /\ ctx.revision \in Nat \ {0}
    BY <1>1 DEF RecoverLatch, StartLatch, Control, Located, Typed, Contexts
  <2> QED
    BY <1>1, <2>1, LatchManualCheckEffect DEF RecoverLatch, StartLatch
<1>2. CASE InspectionClear \/ ClearAgain \/ ResolveClear
  <2>1. pc \in Concluding /\ pc \in AdminSteps \ {"disable"}
    BY <1>2 DEF InspectionClear, ClearAgain, ResolveClear, Concluding, AdminSteps
  <2>2. ctx.attempt \in Nat /\ ctx.revision \in Nat \ {0}
    BY <2>1 DEF Control, Located, Typed, Contexts
  <2>3. ctx.resolution \in State!Resolutions
    BY <1>2 DEF InspectionClear, ClearAgain, ResolveClear, Control, Located
  <2>4. Names(ctx.attempt) /\ disk.manual.resolution = ctx.resolution
    BY <1>2, <2>2, <2>3, ClearManualCheckEffect
       DEF InspectionClear, ClearAgain, ResolveClear
  <2>5. ~securityFault
    BY <2>1 DEF Control, Placed
  <2> QED
    BY <2>1, <2>4, <2>5 DEF Conclusive, Names
<1>3. CASE LoadState \/ LoadStateAgain \/ Unload \/ Crash
  BY <1>3, LoadStateEffect, EndOfProcess DEF LoadState, LoadStateAgain
<1> QED
  BY <1>1, <1>2, <1>3, StateCalls DEF StateStep

\* Start-up never opens a manager that demands a manual check it cannot name.
THEOREM StartupBinds == Spec => StartupBindsOrFaults
<1>1. Secure /\ [Next]_vars =>
         [pc = "finish" /\ pc' = "idle" =>
             (ManualCheckRequired /\ ~IntegrityFault => Bound)']_vars
  BY FinishBinds
<1> QED
  BY <1>1, SecureHolds, PTL DEF Spec, StartupBindsOrFaults

\* The manual latch goes only when the journal durably holds the very conclusion the
\* latch is bound to.
THEOREM ClearsFollowTheJournal == Spec => ClearedAgainstJournal
<1>1. Secure /\ [Next]_vars =>
         [disk.manual # None /\ disk'.manual = None =>
             LET a == disk.manual.attempt
             IN  /\ a \in DOMAIN journal
                 /\ journal[a].state \in Journal!Confirmed
                 /\ journal[a].resolution = disk.manual.resolution]_vars
  BY ClearsConclude
<1> QED
  BY <1>1, SecureHolds, PTL DEF Spec, ClearedAgainstJournal
=============================================================================
