--------------------------- MODULE OrderingState ---------------------------
(***************************************************************************)
(* DurableOrderingState (ordering_state.py): the durable generation, the   *)
(* resolvable manual-check latch, the preparation latch and the permanent  *)
(* integrity latch of one account.                                         *)
(*                                                                         *)
(* `disk' is the v2 safety file, `snap' the snapshot published in memory.  *)
(* Every operation holds the object's own lock from its first read to its  *)
(* save, so an operation is one action here; what can differ is how it     *)
(* ends.  The result `r' of an operation is                                *)
(*   "ok"         it returned,                                             *)
(*   "refused"    it raised OrderingStateFault by a check of its own,      *)
(*   "fault"      it raised OrderingStateFault because storage failed,     *)
(*   "raised"     a storage exception escaped unconverted,                 *)
(*   "cancelled"  the awaiting task was cancelled inside the read or the   *)
(*                save; a cancelled save may or may not have reached the   *)
(*                file, and neither `except Exception' sees it.            *)
(* Callers cannot tell "refused" from "fault".  Here `disk' is a v2 image  *)
(* from the start; the account that comes with a v1 file, and the one      *)
(* repair that drops its latch again, are in LegacyRepair.                 *)
(***************************************************************************)
EXTENDS Naturals

CONSTANTS
    Attempts,       \* identities of checkout attempts, and of preparation attempts
    Expectations,   \* a preparation's purpose together with its expectation hash
    None,           \* an absent binding or resolution
    MaxGeneration,  \* bound on the generation in Next (the code has none)
    MaxRevision     \* bound on the record revisions callers pass in Next

VARIABLES
    disk,           \* the v2 file
    snap,           \* self._snapshot
    loaded,         \* self.loaded
    storageFault,   \* self.storage_fault
    transientFault  \* self.transient_write_fault

stateVars == <<disk, snap, loaded, storageFault, transientFault>>

Positive == Nat \ {0}

Resolutions == {"found_succeeded", "found_failed_or_cancelled",
                "provider_succeeded", "provider_failed"}

ManualBindings ==
    [attempt : Attempts, revision : Positive, generation : Positive,
     resolution : Resolutions \cup {None}]

PreparationBindings ==
    [attempt : Attempts, revision : Positive, generation : Positive,
     expectation : Expectations]

\* manual_check_required is true exactly when a manual binding is present:
\* from_raw refuses any other image and every candidate is built that way.
Snapshots ==
    [generation : Positive, integrity : BOOLEAN,
     manual : ManualBindings \cup {None},
     preparation : PreparationBindings \cup {None}]

ASSUME StateConstants ==
    /\ MaxGeneration \in Nat
    /\ MaxRevision \in Nat
    /\ None \notin Resolutions
    /\ None \notin ManualBindings
    /\ None \notin PreparationBindings

FreshSnapshot ==
    [generation |-> 1, integrity |-> FALSE, manual |-> None, preparation |-> None]

IntegrityFault == snap.integrity \/ storageFault

SafetyFault ==
    \/ snap.manual # None
    \/ snap.preparation # None
    \/ IntegrityFault
    \/ transientFault

Larger(m, n) == IF m >= n THEN m ELSE n

\* Mutant: a carried binding keeps the generation it was made at.
AtOldGeneration(binding, g) == binding

\* A binding is carried into the generation that will hold it.
AtGeneration(binding, g) ==
    IF binding = None THEN None ELSE [binding EXCEPT !.generation = g]

FirstPresent(b, c) == IF b # None THEN b ELSE c

NextGeneration == Larger(snap.generation, disk.generation) + 1

(***************************************************************************)
(* How an operation ends.                                                  *)
(***************************************************************************)
Refuse(r) == r = "refused" /\ UNCHANGED stateVars

\* The fault is made permanent for this process.
FaultForever ==
    /\ storageFault' = TRUE
    /\ UNCHANGED <<disk, snap, loaded, transientFault>>

RefuseForever(r) == r = "refused" /\ FaultForever

ReadFails(r) == r = "fault" /\ FaultForever

\* Cancelled while waiting for the lock or inside the read.
CancelRead(r) == r = "cancelled" /\ UNCHANGED stateVars

\* Three operations neither record nor always convert a failure of their read.
ReadRaises(r) == r \in {"raised", "fault"} /\ UNCHANGED stateVars

\* Mutant: memory is published whether or not the save succeeded.
PersistPublishingFirst(candidate, permanent, r) ==
    /\ r \in {"ok", "fault", "cancelled"}
    /\ disk' \in {disk, candidate}
    /\ r = "ok" => disk' = candidate
    /\ snap' = candidate
    /\ UNCHANGED <<loaded, storageFault, transientFault>>

Persist(candidate, permanent, r) ==
    IF loaded /\ ~storageFault
    THEN \/ /\ r = "ok"
            /\ disk' = candidate
            /\ snap' = candidate
            /\ transientFault' = FALSE
            /\ UNCHANGED <<loaded, storageFault>>
         \/ /\ r = "fault"
            /\ storageFault' = permanent
            /\ transientFault' = (transientFault \/ ~permanent)
            /\ UNCHANGED <<disk, snap, loaded>>
         \/ /\ r = "cancelled"
            /\ disk' \in {disk, candidate}
            /\ UNCHANGED <<snap, loaded, storageFault, transientFault>>
    ELSE Refuse(r)

(***************************************************************************)
(* The operations.                                                         *)
(***************************************************************************)

Load(r) ==
    \/ /\ r = "ok"
       /\ snap' = disk
       /\ loaded' = TRUE
       /\ storageFault' = FALSE
       /\ transientFault' = FALSE
       /\ UNCHANGED disk
    \/ /\ r = "fault"
       /\ loaded' = FALSE
       /\ storageFault' = TRUE
       /\ UNCHANGED <<disk, snap, transientFault>>
    \/ CancelRead(r)

\* Mutant: a bump is built from its arguments alone and drops the latches set.
BumpCandidateForgetting(latchFault, manualBinding) ==
    [generation  |-> NextGeneration,
     integrity   |-> latchFault,
     manual      |-> AtGeneration(manualBinding, NextGeneration),
     preparation |-> None]

BumpCandidate(latchFault, manualBinding) ==
    [generation  |-> NextGeneration,
     integrity   |-> snap.integrity \/ disk.integrity \/ latchFault,
     manual      |-> AtGeneration(
                       FirstPresent(manualBinding, FirstPresent(disk.manual, snap.manual)),
                       NextGeneration),
     preparation |-> AtGeneration(FirstPresent(disk.preparation, snap.preparation),
                                  NextGeneration)]

BindingChanged ==
    /\ snap.manual # None
    /\ disk.manual # None
    /\ snap.manual # disk.manual

Bump(latchFault, manualBinding, r) ==
    \/ ReadFails(r)
    \/ CancelRead(r)
    \/ BindingChanged /\ RefuseForever(r)
    \/ ~BindingChanged /\ Persist(BumpCandidate(latchFault, manualBinding), TRUE, r)

LatchFault(r) == Bump(TRUE, None, r)

LatchManualCheck(attempt, revision, r) ==
    Bump(FALSE,
         [attempt |-> attempt, revision |-> revision,
          generation |-> snap.generation, resolution |-> None],
         r)

PreparationDiffers(attempt, expectation) ==
    /\ disk.preparation # None
    /\ \/ disk.preparation.attempt # attempt
       \/ disk.preparation.expectation # expectation

LatchPreparationReconciliation(attempt, revision, expectation, r) ==
    \/ ReadRaises(r)
    \/ CancelRead(r)
    \/ PreparationDiffers(attempt, expectation) /\ RefuseForever(r)
    \/ /\ ~PreparationDiffers(attempt, expectation)
       /\ Persist([generation  |-> NextGeneration,
                   integrity   |-> disk.integrity,
                   manual      |-> AtGeneration(disk.manual, NextGeneration),
                   preparation |-> [attempt |-> attempt, revision |-> revision,
                                    generation |-> NextGeneration,
                                    expectation |-> expectation]],
                  TRUE, r)

\* Mutant: the clear does not advance the generation.
ClearPreparationInPlace(attempt, expectation, r) ==
    IF disk.preparation # None /\ ~PreparationDiffers(attempt, expectation)
    THEN Persist([disk EXCEPT !.preparation = None], FALSE, r)
    ELSE Refuse(r)

ClearPreparationReconciliation(attempt, expectation, r) ==
    LET matches == /\ disk.preparation # None
                   /\ ~PreparationDiffers(attempt, expectation)
    IN  \/ ReadRaises(r)
        \/ CancelRead(r)
        \/ ~matches /\ Refuse(r)
        \/ /\ matches
           /\ Persist([generation  |-> NextGeneration,
                       integrity   |-> disk.integrity,
                       manual      |-> AtGeneration(disk.manual, NextGeneration),
                       preparation |-> None],
                      FALSE, r)

UpdateManualBinding(attempt, revision, resolution, r) ==
    LET bound == disk.manual # None /\ disk.manual.attempt = attempt
    IN  \/ ReadRaises(r)
        \/ CancelRead(r)
        \/ ~bound /\ RefuseForever(r)
        \/ /\ bound
           /\ Persist([disk EXCEPT !.manual =
                         [attempt |-> attempt, revision |-> revision,
                          generation |-> disk.generation, resolution |-> resolution]],
                      TRUE, r)

\* Mutant: the clear matches the attempt and the revision but not the conclusion.
ClearManualCheckLoosely(attempt, revision, resolution, generation, r) ==
    IF disk.manual # None /\ disk.manual.attempt = attempt /\ disk.manual.revision = revision
    THEN Persist([disk EXCEPT !.manual = None], FALSE, r)
    ELSE Refuse(r)

ClearManualCheck(attempt, revision, resolution, generation, r) ==
    LET expected == [attempt |-> attempt, revision |-> revision,
                     generation |-> generation, resolution |-> resolution]
        exact == /\ ~disk.integrity
                 /\ ~snap.integrity
                 /\ disk.manual = expected
                 /\ snap.manual = expected
                 /\ disk.generation = generation
    IN  \/ ReadFails(r)
        \/ CancelRead(r)
        \/ ~exact /\ Refuse(r)
        \/ /\ exact
           /\ Persist([generation  |-> Larger(snap.generation, disk.generation),
                       integrity   |-> FALSE,
                       manual      |-> None,
                       preparation |-> disk.preparation],
                      FALSE, r)

\* The re-read at the final execution boundary saves nothing.
AuthorityIsCurrent(expected) ==
    /\ disk.generation = expected
    /\ snap.generation = expected
    /\ disk.manual = None
    /\ disk.preparation = None
    /\ ~disk.integrity

AssertCurrent(expected, r) ==
    \/ ReadFails(r)
    \/ CancelRead(r)
    \/ ~AuthorityIsCurrent(expected) /\ Refuse(r)
    \/ r = "ok" /\ AuthorityIsCurrent(expected) /\ UNCHANGED stateVars

\* The process ends; the next one starts with an unloaded object.
Forget ==
    /\ snap' = FreshSnapshot
    /\ loaded' = FALSE
    /\ storageFault' = FALSE
    /\ transientFault' = FALSE
    /\ UNCHANGED disk

(***************************************************************************)
(* The object under every legal sequence of calls, crashes and failures.   *)
(***************************************************************************)
Results == {"ok", "refused", "fault", "raised", "cancelled"}

Init ==
    /\ disk = FreshSnapshot
    /\ snap = FreshSnapshot
    /\ loaded = FALSE
    /\ storageFault = FALSE
    /\ transientFault = FALSE

Revisions == 1..MaxRevision

CanBump == loaded /\ NextGeneration <= MaxGeneration

DoLoad == ~loaded /\ \E r \in Results : Load(r)

DoBump == CanBump /\ \E r \in Results : Bump(FALSE, None, r)

DoLatchFault == CanBump /\ \E r \in Results : LatchFault(r)

DoLatchManualCheck ==
    /\ CanBump
    /\ \E a \in Attempts, v \in Revisions, r \in Results : LatchManualCheck(a, v, r)

DoLatchPreparation ==
    /\ CanBump
    /\ \E a \in Attempts, v \in Revisions, x \in Expectations, r \in Results :
          LatchPreparationReconciliation(a, v, x, r)

DoClearPreparation ==
    /\ CanBump
    /\ \E a \in Attempts, x \in Expectations, r \in Results :
          ClearPreparationReconciliation(a, x, r)

DoUpdateManualBinding ==
    /\ loaded
    /\ \E a \in Attempts, v \in Revisions, s \in Resolutions \cup {None}, r \in Results :
          UpdateManualBinding(a, v, s, r)

DoClearManualCheck ==
    /\ loaded
    /\ \E a \in Attempts, v \in Revisions, s \in Resolutions, r \in Results :
          ClearManualCheck(a, v, s, snap.generation, r)

DoAssertCurrent == loaded /\ \E r \in Results : AssertCurrent(snap.generation, r)

Next ==
    \/ DoLoad
    \/ DoBump
    \/ DoLatchFault
    \/ DoLatchManualCheck
    \/ DoLatchPreparation
    \/ DoClearPreparation
    \/ DoUpdateManualBinding
    \/ DoClearManualCheck
    \/ DoAssertCurrent
    \/ Forget

Spec == Init /\ [][Next]_stateVars

(***************************************************************************)
(* Properties.                                                             *)
(***************************************************************************)
\* Every image, in memory and on disk, is one from_raw accepts.
TypeOK ==
    /\ disk \in Snapshots
    /\ snap \in Snapshots
    /\ loaded \in BOOLEAN
    /\ storageFault \in BOOLEAN
    /\ transientFault \in BOOLEAN

\* What memory publishes is durable: whatever failed or was cancelled, the file
\* is at least at the published generation and holds a published integrity fault.
MemoryNeverAhead ==
    loaded => /\ snap.generation <= disk.generation
              /\ snap.integrity => disk.integrity

\* Every operation re-stamps the bindings it carries, so after any sequence of
\* operations of either latch the manager still finds its binding at the
\* current generation (_bound_manual_record refuses any other).
BindingsAreCurrent ==
    /\ disk.manual # None => disk.manual.generation = disk.generation
    /\ disk.preparation # None => disk.preparation.generation = disk.generation

\* A generation names one state of the blocks nobody may clear unseen: when memory
\* and disk agree on it, they agree on integrity and preparation.  The check at the
\* final boundary compares generations and relies on this.
SameGenerationSameBlocks ==
    loaded /\ snap.generation = disk.generation =>
        /\ snap.integrity = disk.integrity
        /\ snap.preparation = disk.preparation

\* No operation lowers the durable generation or clears the integrity latch,
\* from whatever memory image it started.
LatchesHold ==
    [][/\ disk.generation <= disk'.generation
       /\ disk.integrity => disk'.integrity]_stateVars

\* The manual latch leaves the file only with a conclusion written beforehand and
\* without an integrity fault.
ManualClearedOnlyConcluded ==
    [][disk.manual # None /\ disk'.manual = None =>
          disk.manual.resolution # None /\ ~disk.integrity]_stateVars
=============================================================================
