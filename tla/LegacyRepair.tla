---------------------------- MODULE LegacyRepair ----------------------------
(***************************************************************************)
(* The account of an earlier release: its v1 safety file and v1 attempt    *)
(* journal are taken over when the v2 files are first missing              *)
(* (ordering_state.py, ordering_journal.py), and a start of the manager    *)
(* with every consent withdrawn may lift an integrity fault that the take- *)
(* over itself has left behind (_async_repair_inert_legacy_mock_migration, *)
(* ordering_manager.py).  Every other step is one of OrderingManager.      *)
(*                                                                         *)
(* The v1 files are never written again and are read as long as the v2     *)
(* file is missing.  `disk' and `journal' stand for what the next load     *)
(* finds, that is, for a v1 file as the load takes it over; `stateFile'    *)
(* and `journalFile' say whether the v2 file exists yet.  The two are      *)
(* saved by two loads one after the other, so a crash, a failure or a      *)
(* cancellation can leave one of them behind.                              *)
(***************************************************************************)
EXTENDS OrderingManager

CONSTANT LegacyFiles    \* the pairs of v1 files an account may come with

VARIABLES
    legacy,         \* the v1 files: the latch of the one, the records of the other
    stateFile,      \* what the next load of the safety state reads
    journalFile,    \* what the next load of the journal reads
    stateSource,    \* self._durable_state.load_source
    journalSource,  \* self.journal.load_source
    repairTried,    \* this start has looked at the repair
    prepared,       \* the preparation authority's own file holds a record
    lifted          \* history: a repair has changed a file

sourceVars == <<stateSource, journalSource>>
fileVars == <<stateFile, journalFile>>
legacyVars == <<vars, legacy, fileVars, sourceVars, repairTried, prepared, lifted>>

V1Open == {"DRAFT", "QUOTED", "RESERVED", "DISPATCHING", "VERIFYING", "UNCERTAIN"}
V1States == V1Open \cup {"CONFIRMED_SUCCEEDED", "CONFIRMED_FAILED", "SECURITY_FAULT"}

\* Attempt 0 is no attempt of OrderingManager's methods, so a v1 record keeps it.
ASSUME LegacyConstants ==
    \A files \in LegacyFiles :
        /\ files.fault \in BOOLEAN \cup {None}
        /\ files.attempts = None
             \/ files.attempts \in [{0} -> V1States] \cup [{} -> V1States]

(***************************************************************************)
(* How the v1 files are taken over.                                        *)
(***************************************************************************)
\* Mutant: the marker of a fault is taken over like an attempt left open.
MigratedStateForgiving(state) ==
    IF state \in Journal!Confirmed THEN state ELSE Journal!LegacyMock

\* The v1 release had the fixture adapter only: an attempt it left open had no remote
\* effect.  Its fault marker remains a fault.
MigratedState(state) ==
    CASE state = "SECURITY_FAULT" -> Journal!Integrity
      [] state \in V1Open         -> Journal!LegacyMock
      [] OTHER                    -> state

MigratedResolution ==
    [CONFIRMED_SUCCEEDED |-> "synthetic_success", CONFIRMED_FAILED |-> "synthetic_failure",
     LEGACY_MOCK_NO_REMOTE_EFFECT |-> "legacy_mock_no_remote_effect",
     INTEGRITY_FAULT |-> None]

MigratedEvidence ==
    [CONFIRMED_SUCCEEDED |-> "mock_adapter", CONFIRMED_FAILED |-> "mock_adapter",
     LEGACY_MOCK_NO_REMOTE_EFFECT |-> "legacy_migration", INTEGRITY_FAULT |-> None]

MigrateRecord(state) ==
    [Journal!Draft("mock") EXCEPT
        !.state = MigratedState(state),
        !.reviewed = TRUE,
        !.resolution = MigratedResolution[MigratedState(state)],
        !.evidence = MigratedEvidence[MigratedState(state)]]

\* The journal a load makes of the v1 records.
Migrated ==
    IF legacy.attempts = None
    THEN Journal!NoRecords
    ELSE [a \in DOMAIN legacy.attempts |-> MigrateRecord(legacy.attempts[a])]

\* The same with its fault markers ended, as the repair leaves it.
Repaired ==
    [a \in DOMAIN Migrated |->
        IF Migrated[a].state = Journal!Integrity
        THEN [MigrateRecord("UNCERTAIN") EXCEPT !.revision = 2]
        ELSE Migrated[a]]

\* from_legacy: a v1 fault becomes the integrity latch.
FromLegacy(fault) == [State!FreshSnapshot EXCEPT !.integrity = (fault = TRUE)]

(***************************************************************************)
(* Which files exist, step by step.                                        *)
(***************************************************************************)
\* A load of a state that is not there in v2 saves it in v2 before it is published;
\* if it is cancelled, the save may have happened.
TrackState ==
    /\ stateFile' \in
          IF pc \notin {"loadState", "loadStateAgain"} THEN {stateFile}
          ELSE IF loaded' THEN {"v2"}
          ELSE IF pc' = "unload" THEN {stateFile, "v2"}
          ELSE {stateFile}
    /\ stateSource' =
          IF pc \in {"loadState", "loadStateAgain"} /\ loaded' THEN stateFile ELSE stateSource

\* The load of a v1 journal saves it in v2; a journal that never existed is created by
\* its first record.  A load that fails in its save has already named its source.
TrackJournal ==
    /\ journalFile' \in
          IF journal' # journal THEN {"v2"}
          ELSE IF pc # "loadJournal" \/ journalFile # "v1" THEN {journalFile}
          ELSE IF journalLoaded' THEN {"v2"}
          ELSE IF pc' = "unload" THEN {"v1", "v2"}
          ELSE {"v1"}
    /\ journalSource' \in
          IF pc # "loadJournal" THEN {journalSource}
          ELSE IF journalLoaded' THEN {journalFile}
          ELSE IF journalFile = "new" THEN {journalSource}
          ELSE {journalSource, journalFile}

Tracked ==
    /\ TrackState
    /\ TrackJournal
    /\ UNCHANGED <<legacy, repairTried, prepared, lifted>>

\* A new manager has looked at nothing yet.
Fresh ==
    /\ stateSource' = "unloaded"
    /\ journalSource' = "unloaded"
    /\ repairTried' = FALSE
    /\ UNCHANGED <<legacy, fileVars, prepared, lifted>>

(***************************************************************************)
(* _async_repair_inert_legacy_mock_migration, between the loads of both    *)
(* files and the check of what they hold.                                  *)
(***************************************************************************)
EmptyJournalLineage ==
    /\ journalSource = "new"
    /\ records = Journal!NoRecords
    /\ stateSource = "v1" \/ (stateSource = "v2" /\ State!IntegrityFault)

\* A take-over that stopped half-way, one that has latched a fault since, or a state
\* whose account never had a journal.
Eligible ==
    \/ stateSource = "v2" /\ journalSource = "v1"
    \/ stateSource = "v2" /\ journalSource = "v2" /\ State!IntegrityFault
    \/ EmptyJournalLineage

NoConsents == [ordering |-> FALSE, checkout |-> FALSE]

\* All four options are the literal False; here a consent that is missing counts as False,
\* so that a repair may run where the code's would not.
AllGatesClosed == gate = NoConsents

Unbound == snap.manual = None /\ snap.preparation = None

MayRepair(pristine) ==
    /\ Eligible
    /\ loaded /\ ~storageFault
    /\ Unbound
    /\ AllGatesClosed
    /\ pristine
    /\ journalLoaded /\ ~corrupt
    /\ Journal!UnresolvedManualChecks = {}

\* Any preparation record disqualifies, and so does a preparation file that could not
\* be read at this start.
TryRepair ==
    /\ pc = "sources" /\ ~repairTried
    /\ \E pristine \in {~prepared} \cup (IF failures < MaxFailures THEN {FALSE} ELSE {}) :
          IF MayRepair(pristine)
          THEN Continue(IF EmptyJournalLineage THEN "lineage" ELSE "repairJournal")
          ELSE Continue("mixed")
    /\ repairTried' = TRUE
    /\ UNCHANGED <<stateVars, journalVars, restVars>>
    /\ UNCHANGED <<legacy, fileVars, sourceVars, prepared, lifted>>

\* A fault of either repair latches the account and leaves it unrepaired; a
\* cancellation ends the setup.
RepairStopped(r) == IF r = "cancelled" THEN Abort ELSE ForceFault(0, "mixed")

\* _async_proves_inert_legacy_state_lineage changes nothing: the v1 safety file is
\* still there and the v2 file is what this process has loaded.
ProveLineage ==
    /\ pc = "lineage"
    /\ \E r \in Results \cap {"ok", "fault", "cancelled"} :
         /\ Counted(r)
         /\ IF r # "ok" \/ legacy.fault = None THEN RepairStopped(r)
            ELSE IF disk = snap /\ Unbound THEN Continue("repairState")
            ELSE Continue("mixed")
    /\ UNCHANGED <<stateVars, journalVars, environmentVars>>
    /\ UNCHANGED <<legacy, fileVars, sourceVars, repairTried, prepared, lifted>>

\* Mutant: any journal without an open check passes for the v1 one.
RepairJournalUncompared ==
    /\ pc = "repairJournal"
    /\ Continue("repairState")
    /\ UNCHANGED <<stateVars, journalVars, restVars>>
    /\ UNCHANGED <<legacy, fileVars, sourceVars, repairTried, prepared, lifted>>

\* Mutant: a repair that was interrupted after this save is not recognised.
RepairJournalOnce ==
    /\ pc = "repairJournal"
    /\ IF legacy.attempts # None /\ records = Migrated
       THEN \E r \in Results :
              /\ Counted(r)
              /\ Journal!Save(Repaired, r)
              /\ IF r = "ok" THEN Continue("repairState") ELSE RepairStopped(r)
              /\ lifted' = (lifted \/ journal' # journal)
       ELSE /\ Continue("mixed")
            /\ UNCHANGED <<journalVars, failures, lifted>>
    /\ UNCHANGED <<stateVars, environmentVars>>
    /\ UNCHANGED <<legacy, fileVars, sourceVars, repairTried, prepared>>

\* async_repair_legacy_mock_no_remote_effect: the v2 journal must be the image of the
\* v1 file, before or after this very save, and nothing else.
RepairJournal ==
    /\ pc = "repairJournal"
    /\ \/ /\ legacy.attempts # None
          /\ records = Migrated
          /\ \E r \in Results :
               /\ Counted(r)
               /\ Journal!Save(Repaired, r)
               /\ IF r = "ok" THEN Continue("repairState") ELSE RepairStopped(r)
          /\ lifted' = (lifted \/ journal' # journal)
       \/ /\ legacy.attempts = None \/ records # Migrated
          /\ IF legacy.attempts # None /\ records = Repaired
             THEN Continue("repairState") ELSE Continue("mixed")
          /\ UNCHANGED <<journalVars, failures, lifted>>
       \/ \E r \in Results \cap {"fault", "cancelled"} :    \* the v1 file cannot be read
            /\ Counted(r)
            /\ RepairStopped(r)
            /\ UNCHANGED <<journalVars, lifted>>
    /\ UNCHANGED <<stateVars, environmentVars>>
    /\ UNCHANGED <<legacy, fileVars, sourceVars, repairTried, prepared>>

\* _async_repair_legacy_mock_integrity: the only save that drops the integrity latch.
LiftIntegrity(r) ==
    \/ State!ReadFails(r)
    \/ State!CancelRead(r)
    \/ disk # snap /\ State!RefuseForever(r)
    \/ /\ disk = snap
       /\ State!Persist([State!FreshSnapshot EXCEPT !.generation = snap.generation + 1],
                        TRUE, r)

\* A repaired manager starts disabled, and takes the sources as settled.
RepairState ==
    /\ pc = "repairState"
    /\ \E r \in Results :
         /\ Counted(r)
         /\ LiftIntegrity(r)
         /\ IF r = "ok"
            THEN /\ Goto("sources", NoContext)
                 /\ securityFault' = FALSE
                 /\ manualCheck' = FALSE
                 /\ enabledFlag' = FALSE
                 /\ challenge' = None
                 /\ UNCHANGED up
            ELSE RepairStopped(r)
    /\ lifted' = (lifted \/ disk' # disk)
    /\ UNCHANGED <<journalVars, environmentVars>>
    /\ UNCHANGED <<legacy, fileVars, sourceVars, repairTried, prepared>>

\* async_initialize without a repair: a v1 file beside anything else is a fault.
CheckMixed ==
    /\ pc = "mixed"
    /\ IF "v1" \in {stateSource, journalSource} /\ stateSource # journalSource
       THEN ForceFault(0, "sources") ELSE Continue("sources")
    /\ UNCHANGED <<stateVars, journalVars, restVars>>
    /\ UNCHANGED <<legacy, fileVars, sourceVars, repairTried, prepared, lifted>>

Repair == TryRepair \/ ProveLineage \/ RepairJournal \/ RepairState \/ CheckMixed

(***************************************************************************)
(* The specification.                                                      *)
(***************************************************************************)
\* A method in progress goes on; the check of the sources follows the repair.
LegacyProgress ==
    \/ /\ pc \notin {"sources", "unload"} \/ (pc = "sources" /\ repairTried)
       /\ Progress
       /\ Tracked
    \/ Repair

\* A preparation's first mutation leaves a record whatever becomes of it.
PrepareMutation ==
    /\ up = "up" /\ pc = "idle" /\ ~reloading
    /\ Enabled
    /\ ~prepared
    /\ prepared' = TRUE
    /\ UNCHANGED vars
    /\ UNCHANGED <<legacy, fileVars, sourceVars, repairTried, lifted>>

\* Every consent is withdrawn at once.
CloseConsents ==
    /\ up = "up" /\ ~reloading
    /\ crashes < MaxCrashes
    /\ gate' = NoConsents
    /\ gate' # gate
    /\ reloading' = TRUE
    /\ UNCHANGED <<finalAdapter, posted, crashes, failures>>
    /\ UNCHANGED <<stateVars, journalVars, controlVars>>

\* A checkout confirms a quote that was asked for under a preparation record.
LegacyRequested ==
    \/ Requested /\ (pc' = "create" => prepared) /\ Tracked
    \/ BeginReload /\ Tracked
    \/ (Withdraw \/ CloseConsents) /\ Tracked

\* The update has withdrawn every consent; any start may follow a renewed one.
LegacyInit ==
    /\ legacy \in LegacyFiles
    /\ disk = FromLegacy(legacy.fault)
    /\ journal = Migrated
    /\ stateFile = IF legacy.fault = None THEN "new" ELSE "v1"
    /\ journalFile = IF legacy.attempts = None THEN "new" ELSE "v1"
    /\ snap = State!FreshSnapshot
    /\ records = Journal!NoRecords
    /\ loaded = FALSE /\ storageFault = FALSE /\ transientFault = FALSE
    /\ journalLoaded = FALSE /\ corrupt = FALSE
    /\ AtRest
    /\ gate = NoConsents
    /\ settled = Concluded(journal)
    /\ stateSource = "unloaded"
    /\ journalSource = "unloaded"
    /\ repairTried = FALSE
    /\ prepared = FALSE
    /\ lifted = FALSE

LegacyNext ==
    \/ /\ LegacyProgress \/ LegacyRequested
       /\ Settle
    \/ (Start \/ Unload \/ Crash) /\ Fresh /\ Settle
    \/ PrepareMutation

LegacySpec == LegacyInit /\ [][LegacyNext]_legacyVars

\* As in OrderingManager.
LegacyFairness ==
    /\ WF_legacyVars(LegacyProgress /\ Settle)
    /\ WF_legacyVars((Start \/ Unload) /\ Fresh /\ Settle)
    /\ WF_legacyVars(BeginReload /\ Tracked /\ Settle)

FairLegacySpec == LegacySpec /\ LegacyFairness

(***************************************************************************)
(* Properties.                                                             *)
(***************************************************************************)
\* The one save that drops the permanent latch happens only to an account that comes
\* from the v1 release and has done nothing since: no basket or quote was sent to the
\* provider, no checkout was so much as begun, let alone posted.
LiftedOnlyInert ==
    [][disk.integrity /\ ~disk'.integrity =>
          /\ legacy.fault # None \/ legacy.attempts # None
          /\ posted = {} /\ ~prepared
          /\ \A a \in DOMAIN journal : journal[a].mode = "mock" /\ a = 0]_legacyVars

V1Faulted ==
    \/ legacy.fault = TRUE
    \/ legacy.attempts # None /\ 0 \in DOMAIN legacy.attempts
                               /\ legacy.attempts[0] = "SECURITY_FAULT"

\* A fault of the v1 release, in either file, keeps the account closed until a repair
\* has been at work, however often the take-over of the two files is interrupted.
V1FaultBlocks == V1Faulted /\ Idle /\ Enabled => lifted

\* The account still is as it came: the v1 records and nothing else, in v2 or not.
AsItCame ==
    /\ legacy.fault # None \/ legacy.attempts # None
    /\ ~prepared
    /\ DOMAIN journal = DOMAIN Migrated

\* Wherever an earlier start was interrupted, in the take-over or in a repair: an inert
\* account whose fault is latched is free of it after a start with the consents
\* withdrawn in which storage works and nothing is cancelled.
RepairCompletes ==
    /\ pc = "loadState" /\ AllGatesClosed
    /\ AsItCame
    /\ stateFile = "v2" /\ disk.integrity
    /\ failures = MaxFailures /\ crashes = MaxCrashes
    ~> Idle /\ ~IntegrityFault
=============================================================================
