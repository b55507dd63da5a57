------------------------ MODULE OrderingStateProofs ------------------------
(***************************************************************************)
(* Proofs about OrderingState: its invariants are inductive together, and  *)
(* every step that writes the file writes a candidate that keeps the       *)
(* promises (KeepsPromises).  The operations enter the proofs only in      *)
(* WritesKeepPromises; the theorems follow from its one conclusion.        *)
(***************************************************************************)
EXTENDS OrderingState, TLAPS

Inv ==
    /\ TypeOK
    /\ MemoryNeverAhead
    /\ BindingsAreCurrent
    /\ SameGenerationSameBlocks

\* Neither image changed.
Still == disk' = disk /\ snap' = snap /\ loaded' = loaded

\* The candidate reached the file, or memory as well, or neither.
Wrote(c) ==
    /\ disk' \in {disk, c}
    /\ snap' = snap \/ (snap' = c /\ disk' = c)
    /\ loaded' = loaded

\* What makes a candidate harmless, whatever becomes of its save.
KeepsPromises(c) ==
    /\ c \in Snapshots
    /\ c.generation >= disk.generation
    /\ c.generation >= snap.generation
    /\ disk.integrity => c.integrity
    /\ snap.integrity => c.integrity
    /\ c.manual # None => c.manual.generation = c.generation
    /\ c.preparation # None => c.preparation.generation = c.generation
    /\ c.generation = snap.generation =>
          c.integrity = snap.integrity /\ c.preparation = snap.preparation
    /\ disk.manual # None /\ c.manual = None =>
          disk.manual.resolution # None /\ ~disk.integrity

FlagsOK == storageFault' \in BOOLEAN /\ transientFault' \in BOOLEAN

\* What a step that is neither a load nor a restart does.
Writing == FlagsOK /\ (Still \/ \E c : KeepsPromises(c) /\ Wrote(c))

\* The next generation is above both images' generations.
LEMMA NextGenerationAbove ==
    ASSUME TypeOK
    PROVE  /\ NextGeneration \in Positive
           /\ NextGeneration > disk.generation
           /\ NextGeneration > snap.generation
  BY DEF TypeOK, Snapshots, Positive, NextGeneration, Larger

\* Persist either leaves both images alone or writes its candidate.
LEMMA PersistWrites ==
    ASSUME TypeOK, NEW c, NEW permanent \in BOOLEAN, NEW r, Persist(c, permanent, r)
    PROVE  Wrote(c) /\ FlagsOK
  BY DEF Persist, Refuse, stateVars, Wrote, FlagsOK, TypeOK

\* Carrying a binding into a generation keeps it a binding of that generation.
LEMMA CarriedManual ==
    ASSUME NEW b \in ManualBindings \cup {None}, NEW g \in Positive
    PROVE  /\ AtGeneration(b, g) \in ManualBindings \cup {None}
           /\ b # None => AtGeneration(b, g) # None
           /\ AtGeneration(b, g) # None => AtGeneration(b, g).generation = g
<1>1. CASE b = None
  BY <1>1 DEF AtGeneration
<1>2. CASE b # None
  <2>1. b \in ManualBindings
    BY <1>2
  <2>2. [b EXCEPT !.generation = g] \in ManualBindings
    BY <2>1 DEF ManualBindings
  <2>3. [b EXCEPT !.generation = g].generation = g
    BY <2>1 DEF ManualBindings
  <2> QED
    BY <1>2, <2>2, <2>3, StateConstants DEF AtGeneration
<1> QED
  BY <1>1, <1>2

LEMMA CarriedPreparation ==
    ASSUME NEW b \in PreparationBindings \cup {None}, NEW g \in Positive
    PROVE  /\ AtGeneration(b, g) \in PreparationBindings \cup {None}
           /\ AtGeneration(b, g) # None => AtGeneration(b, g).generation = g
<1>1. CASE b = None
  BY <1>1 DEF AtGeneration
<1>2. CASE b # None
  <2>1. b \in PreparationBindings
    BY <1>2
  <2>2. [b EXCEPT !.generation = g] \in PreparationBindings
    BY <2>1 DEF PreparationBindings
  <2>3. [b EXCEPT !.generation = g].generation = g
    BY <2>1 DEF PreparationBindings
  <2> QED
    BY <1>2, <2>2, <2>3 DEF AtGeneration
<1> QED
  BY <1>1, <1>2

\* The candidate of a bump keeps the promises.
LEMMA BumpKeepsPromises ==
    ASSUME Inv, loaded, NEW latch \in BOOLEAN, NEW b \in ManualBindings \cup {None}
    PROVE  KeepsPromises(BumpCandidate(latch, b))
<1> DEFINE c == BumpCandidate(latch, b)
           m == FirstPresent(b, FirstPresent(disk.manual, snap.manual))
           p == FirstPresent(disk.preparation, snap.preparation)
<1>1. /\ NextGeneration \in Positive
      /\ NextGeneration > disk.generation
      /\ NextGeneration > snap.generation
  BY NextGenerationAbove DEF Inv
<1>2. m \in ManualBindings \cup {None} /\ (disk.manual # None => m # None)
  BY DEF Inv, TypeOK, Snapshots, FirstPresent
<1>3. p \in PreparationBindings \cup {None}
  BY DEF Inv, TypeOK, Snapshots, FirstPresent
<1>4. /\ AtGeneration(m, NextGeneration) \in ManualBindings \cup {None}
      /\ m # None => AtGeneration(m, NextGeneration) # None
      /\ AtGeneration(m, NextGeneration) # None =>
            AtGeneration(m, NextGeneration).generation = NextGeneration
  BY <1>1, <1>2, CarriedManual
<1>5. /\ AtGeneration(p, NextGeneration) \in PreparationBindings \cup {None}
      /\ AtGeneration(p, NextGeneration) # None =>
            AtGeneration(p, NextGeneration).generation = NextGeneration
  BY <1>1, <1>3, CarriedPreparation
<1>6. /\ disk.integrity \in BOOLEAN /\ snap.integrity \in BOOLEAN
      /\ disk.generation \in Nat /\ snap.generation \in Nat
  BY DEF Inv, TypeOK, Snapshots, Positive
<1>7. /\ c.generation = NextGeneration
      /\ c.integrity = (snap.integrity \/ disk.integrity \/ latch)
      /\ c.manual = AtGeneration(m, NextGeneration)
      /\ c.preparation = AtGeneration(p, NextGeneration)
  BY DEF BumpCandidate
<1>8. c \in Snapshots
  BY <1>1, <1>4, <1>5, <1>6 DEF BumpCandidate, Snapshots
<1> HIDE DEF c, m, p
<1> QED
  BY <1>1, <1>2, <1>4, <1>5, <1>6, <1>7, <1>8 DEF KeepsPromises, Positive, c

(***************************************************************************)
(* The operations.                                                         *)
(***************************************************************************)
LEMMA BumpIsWriting ==
    ASSUME Inv, loaded, NEW latch \in BOOLEAN, NEW b \in ManualBindings \cup {None}, NEW r,
           Bump(latch, b, r)
    PROVE  Writing
<1>1. KeepsPromises(BumpCandidate(latch, b))
  BY BumpKeepsPromises
<1>2. CASE Persist(BumpCandidate(latch, b), TRUE, r)
  BY <1>1, <1>2, PersistWrites DEF Writing, Inv
<1>3. CASE ReadFails(r) \/ CancelRead(r) \/ RefuseForever(r)
  BY <1>3 DEF ReadFails, CancelRead, RefuseForever, FaultForever, stateVars,
              Writing, Still, FlagsOK, Inv, TypeOK
<1> QED
  BY <1>2, <1>3 DEF Bump

LEMMA LatchManualCheckIsWriting ==
    ASSUME Inv, loaded, NEW a \in Attempts, NEW v \in Positive, NEW r,
           LatchManualCheck(a, v, r)
    PROVE  Writing
<1> DEFINE b == [attempt |-> a, revision |-> v,
                 generation |-> snap.generation, resolution |-> None]
<1>1. b \in ManualBindings
  BY DEF Inv, TypeOK, Snapshots, ManualBindings
<1>2. Bump(FALSE, b, r)
  BY DEF LatchManualCheck
<1> HIDE DEF b
<1> QED
  BY <1>1, <1>2, BumpIsWriting

\* Both preparation operations carry the file's manual binding along.
LEMMA CarriedWithPreparation ==
    ASSUME Inv, loaded, NEW p \in PreparationBindings \cup {None},
           p # None => p.generation = NextGeneration
    PROVE  KeepsPromises([generation  |-> NextGeneration,
                          integrity   |-> disk.integrity,
                          manual      |-> AtGeneration(disk.manual, NextGeneration),
                          preparation |-> p])
<1> DEFINE m == AtGeneration(disk.manual, NextGeneration)
           c == [generation |-> NextGeneration, integrity |-> disk.integrity,
                 manual |-> m, preparation |-> p]
<1>1. /\ NextGeneration \in Positive
      /\ NextGeneration > disk.generation
      /\ NextGeneration > snap.generation
  BY NextGenerationAbove DEF Inv
<1>2. /\ m \in ManualBindings \cup {None}
      /\ disk.manual # None => m # None
      /\ m # None => m.generation = NextGeneration
  BY <1>1, CarriedManual DEF Inv, TypeOK, Snapshots
<1>3. /\ disk.integrity \in BOOLEAN
      /\ snap.integrity => disk.integrity
      /\ disk.generation \in Nat /\ snap.generation \in Nat
  BY DEF Inv, TypeOK, Snapshots, Positive, MemoryNeverAhead
<1> HIDE DEF m
<1>4. c \in Snapshots
  BY <1>1, <1>2, <1>3 DEF Snapshots
<1>5. KeepsPromises(c)
  BY <1>1, <1>2, <1>3, <1>4 DEF KeepsPromises, Positive
<1> QED
  BY <1>5 DEF m

LEMMA LatchPreparationIsWriting ==
    ASSUME Inv, loaded, NEW a \in Attempts, NEW v \in Positive, NEW x \in Expectations,
           NEW r, LatchPreparationReconciliation(a, v, x, r)
    PROVE  Writing
<1> DEFINE p == [attempt |-> a, revision |-> v,
                 generation |-> NextGeneration, expectation |-> x]
           c == [generation  |-> NextGeneration,
                 integrity   |-> disk.integrity,
                 manual      |-> AtGeneration(disk.manual, NextGeneration),
                 preparation |-> p]
<1>1. p \in PreparationBindings /\ p.generation = NextGeneration
  BY NextGenerationAbove DEF Inv, PreparationBindings
<1>2. KeepsPromises(c)
  <2> HIDE DEF p
  <2> QED BY <1>1, CarriedWithPreparation
<1>3. CASE Persist(c, TRUE, r)
  <2> HIDE DEF c
  <2> QED BY <1>2, <1>3, PersistWrites DEF Writing, Inv
<1>4. CASE ReadRaises(r) \/ CancelRead(r) \/ RefuseForever(r)
  BY <1>4 DEF ReadRaises, CancelRead, RefuseForever, FaultForever, stateVars,
              Writing, Still, FlagsOK, Inv, TypeOK
<1> QED
  BY <1>3, <1>4 DEF LatchPreparationReconciliation

LEMMA ClearPreparationIsWriting ==
    ASSUME Inv, loaded, NEW a, NEW x, NEW r, ClearPreparationReconciliation(a, x, r)
    PROVE  Writing
<1> DEFINE c == [generation  |-> NextGeneration,
                 integrity   |-> disk.integrity,
                 manual      |-> AtGeneration(disk.manual, NextGeneration),
                 preparation |-> None]
<1>1. KeepsPromises(c)
  BY CarriedWithPreparation
<1>2. CASE Persist(c, FALSE, r)
  <2> HIDE DEF c
  <2> QED BY <1>1, <1>2, PersistWrites DEF Writing, Inv
<1>3. CASE ReadRaises(r) \/ CancelRead(r) \/ Refuse(r)
  BY <1>3 DEF ReadRaises, CancelRead, Refuse, stateVars, Writing, Still, FlagsOK, Inv, TypeOK
<1> QED
  BY <1>2, <1>3 DEF ClearPreparationReconciliation

LEMMA UpdateManualBindingIsWriting ==
    ASSUME Inv, loaded, NEW a \in Attempts, NEW v \in Positive,
           NEW s \in Resolutions \cup {None}, NEW r, UpdateManualBinding(a, v, s, r)
    PROVE  Writing
<1> DEFINE b == [attempt |-> a, revision |-> v,
                 generation |-> disk.generation, resolution |-> s]
           c == [disk EXCEPT !.manual = b]
<1>1. b \in ManualBindings /\ b.generation = disk.generation
  BY DEF Inv, TypeOK, Snapshots, ManualBindings
<1>2. b # None
  BY <1>1, StateConstants
<1> HIDE DEF b
<1>3. /\ c \in Snapshots
      /\ c.generation = disk.generation
      /\ c.integrity = disk.integrity
      /\ c.manual = b
      /\ c.preparation = disk.preparation
  BY <1>1 DEF Inv, TypeOK, Snapshots
<1>4. /\ disk.generation \in Nat /\ snap.generation \in Nat
      /\ snap.generation <= disk.generation
      /\ snap.integrity => disk.integrity
      /\ disk.preparation # None => disk.preparation.generation = disk.generation
      /\ snap.generation = disk.generation =>
            snap.integrity = disk.integrity /\ snap.preparation = disk.preparation
  BY DEF Inv, TypeOK, Snapshots, Positive, MemoryNeverAhead, BindingsAreCurrent,
         SameGenerationSameBlocks
<1> HIDE DEF c
<1>5. KeepsPromises(c)
  BY <1>1, <1>2, <1>3, <1>4 DEF KeepsPromises
<1>6. CASE Persist(c, TRUE, r)
  BY <1>5, <1>6, PersistWrites DEF Writing, Inv
<1>7. CASE ReadRaises(r) \/ CancelRead(r) \/ RefuseForever(r)
  BY <1>7 DEF ReadRaises, CancelRead, RefuseForever, FaultForever, stateVars,
              Writing, Still, FlagsOK, Inv, TypeOK
<1> QED
  BY <1>6, <1>7 DEF UpdateManualBinding, b, c

LEMMA ClearManualCheckIsWriting ==
    ASSUME Inv, loaded, NEW a, NEW v, NEW s, s # None, NEW r,
           ClearManualCheck(a, v, s, snap.generation, r)
    PROVE  Writing
<1> DEFINE expected == [attempt |-> a, revision |-> v,
                        generation |-> snap.generation, resolution |-> s]
           exact == /\ ~disk.integrity
                    /\ ~snap.integrity
                    /\ disk.manual = expected
                    /\ snap.manual = expected
                    /\ disk.generation = snap.generation
           c == [generation  |-> Larger(snap.generation, disk.generation),
                 integrity   |-> FALSE,
                 manual      |-> None,
                 preparation |-> disk.preparation]
<1>1. CASE exact /\ Persist(c, FALSE, r)
  <2>1. /\ disk.generation \in Positive
        /\ disk.generation = snap.generation
        /\ disk.preparation \in PreparationBindings \cup {None}
        /\ disk.preparation # None => disk.preparation.generation = disk.generation
        /\ disk.preparation = snap.preparation
    BY <1>1 DEF Inv, TypeOK, Snapshots, BindingsAreCurrent, SameGenerationSameBlocks
  <2>2. /\ Larger(snap.generation, disk.generation) = disk.generation
        /\ c.generation = disk.generation
        /\ ~c.integrity
        /\ c.manual = None
        /\ c.preparation = disk.preparation
    BY <2>1 DEF Larger
  <2>3. c \in Snapshots
    BY <2>1, <2>2 DEF Snapshots
  <2>4. ~disk.integrity /\ ~snap.integrity /\ c.integrity = snap.integrity
    BY <1>1 DEF Inv, TypeOK, Snapshots
  <2>5. disk.manual.resolution # None
    BY <1>1
  <2> HIDE DEF c
  <2>6. KeepsPromises(c)
    BY <2>1, <2>2, <2>3, <2>4, <2>5 DEF KeepsPromises, Positive
  <2> QED
    BY <1>1, <2>6, PersistWrites DEF Writing, Inv
<1>2. CASE ReadFails(r) \/ CancelRead(r) \/ Refuse(r)
  BY <1>2 DEF ReadFails, CancelRead, Refuse, FaultForever, stateVars,
              Writing, Still, FlagsOK, Inv, TypeOK
<1> QED
  BY <1>1, <1>2 DEF ClearManualCheck

LEMMA AssertCurrentIsWriting ==
    ASSUME Inv, NEW g, NEW r, AssertCurrent(g, r)
    PROVE  Writing
  BY DEF AssertCurrent, ReadFails, CancelRead, Refuse, FaultForever, stateVars,
         Writing, Still, FlagsOK, Inv, TypeOK

\* Loading publishes the file; a failed or cancelled load publishes nothing.
Loading ==
    /\ FlagsOK
    /\ disk' = disk
    /\ \/ snap' = disk /\ loaded' = TRUE
       \/ snap' = snap /\ loaded' = FALSE

LEMMA LoadIsLoading == ASSUME Inv, DoLoad PROVE Loading
  BY DEF DoLoad, Load, CancelRead, stateVars, Loading, FlagsOK, Inv, TypeOK

Forgetting == FlagsOK /\ disk' = disk /\ snap' = FreshSnapshot /\ loaded' = FALSE

\* Every step is one of four kinds.
LEMMA EveryStep ==
    ASSUME Inv, [Next]_stateVars
    PROVE  Writing \/ Loading \/ Forgetting
<1>1. CASE DoLoad
  BY <1>1, LoadIsLoading
<1>2. CASE DoBump
  BY <1>2, BumpIsWriting DEF DoBump, CanBump
<1>3. CASE DoLatchFault
  BY <1>3, BumpIsWriting DEF DoLatchFault, CanBump, LatchFault
<1>4. CASE DoLatchManualCheck
  <2>1. Revisions \subseteq Positive
    BY DEF Revisions, Positive
  <2> QED
    BY <1>4, <2>1, LatchManualCheckIsWriting DEF DoLatchManualCheck, CanBump
<1>5. CASE DoLatchPreparation
  <2>1. Revisions \subseteq Positive
    BY DEF Revisions, Positive
  <2> QED
    BY <1>5, <2>1, LatchPreparationIsWriting DEF DoLatchPreparation, CanBump
<1>6. CASE DoClearPreparation
  BY <1>6, ClearPreparationIsWriting DEF DoClearPreparation, CanBump
<1>7. CASE DoUpdateManualBinding
  <2>1. Revisions \subseteq Positive
    BY DEF Revisions, Positive
  <2> QED
    BY <1>7, <2>1, UpdateManualBindingIsWriting DEF DoUpdateManualBinding
<1>8. CASE DoClearManualCheck
  BY <1>8, ClearManualCheckIsWriting, StateConstants DEF DoClearManualCheck
<1>9. CASE DoAssertCurrent
  BY <1>9, AssertCurrentIsWriting DEF DoAssertCurrent
<1>10. CASE Forget
  BY <1>10 DEF Forget, Forgetting, FlagsOK
<1>11. CASE UNCHANGED stateVars
  BY <1>11 DEF stateVars, Writing, Still, FlagsOK, Inv, TypeOK
<1> QED
  BY <1>1, <1>2, <1>3, <1>4, <1>5, <1>6, <1>7, <1>8, <1>9, <1>10, <1>11 DEF Next

(***************************************************************************)
(* The invariants.                                                         *)
(***************************************************************************)
LEMMA FreshIsSnapshot == FreshSnapshot \in Snapshots
  BY DEF FreshSnapshot, Snapshots, Positive

LEMMA InitInv == Init => Inv
<1> SUFFICES ASSUME Init PROVE Inv
  OBVIOUS
<1>1. TypeOK
  BY FreshIsSnapshot DEF Init, TypeOK
<1>2. disk = snap /\ disk.manual = None /\ disk.preparation = None /\ disk.generation = 1
  BY DEF Init, FreshSnapshot
<1>3. ~loaded
  BY DEF Init
<1> QED
  BY <1>1, <1>2, <1>3 DEF Inv, MemoryNeverAhead, BindingsAreCurrent, SameGenerationSameBlocks

LEMMA WritingKeepsInv == ASSUME Inv, Writing PROVE Inv'
<1>1. CASE Still
  BY <1>1 DEF Writing, Still, FlagsOK, Inv, TypeOK, MemoryNeverAhead,
              BindingsAreCurrent, SameGenerationSameBlocks
<1>2. CASE \E c : KeepsPromises(c) /\ Wrote(c)
  <2>1. PICK c : KeepsPromises(c) /\ Wrote(c)
    BY <1>2
  <2>2. TypeOK'
    BY <2>1 DEF Writing, FlagsOK, Inv, TypeOK, KeepsPromises, Wrote
  <2>3. MemoryNeverAhead'
    <3>1. disk.generation \in Nat /\ snap.generation \in Nat /\ c.generation \in Nat
      BY <2>1 DEF Inv, TypeOK, Snapshots, Positive, KeepsPromises
    <3> QED
      BY <2>1, <3>1 DEF Inv, MemoryNeverAhead, KeepsPromises, Wrote
  <2>4. BindingsAreCurrent'
    BY <2>1 DEF Inv, BindingsAreCurrent, KeepsPromises, Wrote
  <2>5. SameGenerationSameBlocks'
    BY <2>1 DEF Inv, SameGenerationSameBlocks, KeepsPromises, Wrote
  <2> QED
    BY <2>2, <2>3, <2>4, <2>5 DEF Inv
<1> QED
  BY <1>1, <1>2 DEF Writing

LEMMA LoadingKeepsInv == ASSUME Inv, Loading PROVE Inv'
<1>1. TypeOK'
  BY DEF Loading, FlagsOK, Inv, TypeOK
<1>2. disk.generation \in Nat
  BY DEF Inv, TypeOK, Snapshots, Positive
<1> QED
  BY <1>1, <1>2 DEF Loading, Inv, MemoryNeverAhead, BindingsAreCurrent,
                    SameGenerationSameBlocks

LEMMA ForgettingKeepsInv == ASSUME Inv, Forgetting PROVE Inv'
  BY FreshIsSnapshot DEF Forgetting, FlagsOK, Inv, TypeOK, MemoryNeverAhead,
                         BindingsAreCurrent, SameGenerationSameBlocks

LEMMA NextInv == ASSUME Inv, [Next]_stateVars PROVE Inv'
  BY EveryStep, WritingKeepsInv, LoadingKeepsInv, ForgettingKeepsInv

\* The four invariants are inductive together: the memory image and the file relate
\* as documented after every sequence of calls, failures, cancellations and restarts.
THEOREM StateInvariant == Spec => []Inv
  BY InitInv, NextInv, PTL DEF Spec

\* Both images are well formed.
THEOREM TypeCorrect == Spec => []TypeOK
<1>1. Inv => TypeOK
  BY DEF Inv
<1> QED
  BY <1>1, StateInvariant, PTL

\* Memory never publishes what is not durable.
THEOREM MemoryIsDurable == Spec => []MemoryNeverAhead
<1>1. Inv => MemoryNeverAhead
  BY DEF Inv
<1> QED
  BY <1>1, StateInvariant, PTL

\* A latch always carries the generation it is stored with.
THEOREM BindingsStayCurrent == Spec => []BindingsAreCurrent
<1>1. Inv => BindingsAreCurrent
  BY DEF Inv
<1> QED
  BY <1>1, StateInvariant, PTL

\* Comparing generations is enough at the final boundary.
THEOREM GenerationNamesBlocks == Spec => []SameGenerationSameBlocks
<1>1. Inv => SameGenerationSameBlocks
  BY DEF Inv
<1> QED
  BY <1>1, StateInvariant, PTL

\* The durable generation never falls and the integrity latch never opens.
THEOREM LatchesAlwaysHold == Spec => LatchesHold
<1>1. ASSUME Inv, [Next]_stateVars
      PROVE  disk.generation <= disk'.generation /\ (disk.integrity => disk'.integrity)
  <2>1. disk.generation \in Nat
    BY <1>1 DEF Inv, TypeOK, Snapshots, Positive
  <2>2. CASE disk' = disk
    BY <2>1, <2>2
  <2>3. CASE \E c : KeepsPromises(c) /\ Wrote(c)
    <3>1. PICK c : KeepsPromises(c) /\ Wrote(c)
      BY <2>3
    <3>2. c.generation \in Nat
      BY <3>1 DEF KeepsPromises, Snapshots, Positive
    <3> QED
      BY <2>1, <3>1, <3>2 DEF KeepsPromises, Wrote
  <2> QED
    BY <1>1, <2>2, <2>3, EveryStep DEF Writing, Still, Loading, Forgetting
<1> QED
  BY <1>1, StateInvariant, PTL DEF Spec, LatchesHold

\* The manual latch leaves the file only with a conclusion and no integrity fault.
THEOREM ManualClearIsConcluded == Spec => ManualClearedOnlyConcluded
<1>1. ASSUME Inv, [Next]_stateVars, disk.manual # None, disk'.manual = None
      PROVE  disk.manual.resolution # None /\ ~disk.integrity
  <2>1. disk' # disk
    BY <1>1
  <2>2. PICK c : KeepsPromises(c) /\ Wrote(c)
    BY <1>1, <2>1, EveryStep DEF Writing, Still, Loading, Forgetting
  <2>3. disk' = c
    BY <2>1, <2>2 DEF Wrote
  <2> QED
    BY <1>1, <2>2, <2>3 DEF KeepsPromises
<1> QED
  BY <1>1, StateInvariant, PTL DEF Spec, ManualClearedOnlyConcluded
=============================================================================
