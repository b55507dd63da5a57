--------------------------- MODULE AttemptJournal ---------------------------
(***************************************************************************)
(* AttemptJournal (ordering_journal.py): the bounded, durable journal of   *)
(* checkout attempts.  `journal' is the v2 file, `records' the list the    *)
(* object publishes; both map an attempt to its record.                    *)
(*                                                                         *)
(* Attempts are numbered in the order they are created, so "oldest" is     *)
(* "smallest".  (_bounded also moves protected records to the front of the *)
(* list, which would matter only for one that is concluded after a full    *)
(* journal took another record: the manager never does that.)  Of a record *)
(* the model keeps what the code decides on: the state, the revision, the  *)
(* execution mode, and which of the authority fields are set.  Amounts,    *)
(* labels, fingerprints and timestamps never decide anything here and are  *)
(* left out.                                                               *)
(*                                                                         *)
(* Every operation holds the journal's lock from its first read to its     *)
(* save and is one action.  It ends "ok"; "refused" by a check of its own  *)
(* or with a "fault" of storage, both JournalFault with nothing changed;   *)
(* or "cancelled" inside the save, which may then have reached the file    *)
(* while memory keeps the old list.  Each operation re-validates the       *)
(* record it builds (AttemptRecord.from_dict).  The take-over of a v1      *)
(* journal and the repair of what it leaves are in LegacyRepair.           *)
(***************************************************************************)
EXTENDS Integers, FiniteSets

CONSTANTS
    MaxRecords,     \* MAX_JOURNAL_RECORDS
    MaxAttempt,     \* bound on the attempts created in Next
    MaxRevision,    \* bound on record revisions in Next
    None            \* an absent resolution or evidence source

ASSUME JournalConstants ==
    /\ MaxRecords \in Nat \ {0}
    /\ MaxAttempt \in Nat
    /\ MaxRevision \in Nat
    /\ None \notin STRING

VARIABLES
    journal,        \* the v2 file
    records,        \* self._records
    journalLoaded,  \* self.loaded
    corrupt         \* self.corrupt

journalVars == <<journal, records, journalLoaded, corrupt>>

Attempts == Nat

Preparing == {"DRAFT", "QUOTED", "RESERVED"}
InFlight == {"DISPATCHING", "VERIFYING"}
Confirmed == {"CONFIRMED_SUCCEEDED", "CONFIRMED_FAILED"}
Manual == "MANUAL_CHECK_REQUIRED"
LegacyMock == "LEGACY_MOCK_NO_REMOTE_EFFECT"
Integrity == "INTEGRITY_FAULT"
Terminal == Confirmed \cup {LegacyMock, Integrity}
States == Preparing \cup InFlight \cup {Manual} \cup Terminal

AdminResolutions == {"found_succeeded", "found_failed_or_cancelled"}

Resolutions ==
    AdminResolutions \cup
    {"provider_succeeded", "provider_failed", "synthetic_success", "synthetic_failure",
     "legacy_mock_no_remote_effect"}

EvidenceSources == {"admin_review", "provider_response", "mock_adapter", "legacy_migration"}

Records ==
    [state : States, revision : Nat \ {0}, mode : {"live", "mock"},
     dispatched : BOOLEAN,      \* dispatch_started_at is set
     failure : BOOLEAN,         \* failure_class is set
     checkout : BOOLEAN,        \* checkout_id is set
     reviewed : BOOLEAN,        \* last_reviewed_at is set
     resolution : Resolutions \cup {None},
     evidence : EvidenceSources \cup {None}]

\* The transitions async_transition allows; the terminal states have none.
Allowed(from) ==
    CASE from = "DRAFT"           -> {"QUOTED", Integrity}
      [] from = "QUOTED"          -> {"RESERVED", "DISPATCHING", Integrity}
      [] from = "RESERVED"        -> {"DISPATCHING", Integrity}
      [] from = "DISPATCHING"     -> {"VERIFYING", Manual} \cup Terminal
      [] from = "VERIFYING"       -> {Manual} \cup Terminal
      [] from = Manual            -> Confirmed \cup {Integrity}
      [] OTHER                    -> {}

\* A provider_evidence_hash is present exactly with this evidence source: only the
\* two provider operations set either.
ConfirmedBy(state) ==
    IF state = "CONFIRMED_SUCCEEDED"
    THEN {<<"live", "found_succeeded", "admin_review">>,
          <<"live", "provider_succeeded", "provider_response">>,
          <<"mock", "synthetic_success", "mock_adapter">>}
    ELSE {<<"live", "found_failed_or_cancelled", "admin_review">>,
          <<"live", "provider_failed", "provider_response">>,
          <<"mock", "synthetic_failure", "mock_adapter">>}

Unreviewed(rec) ==
    /\ ~rec.failure /\ ~rec.reviewed
    /\ rec.resolution = None /\ rec.evidence = None

\* _validate_record_invariants, without its timestamp comparisons.
Valid(rec) ==
    /\ rec.state \in Preparing => ~rec.dispatched /\ Unreviewed(rec)
    /\ rec.state \in InFlight  => rec.dispatched /\ Unreviewed(rec)
    /\ rec.state = Manual =>
          /\ rec.mode = "live"
          /\ rec.dispatched
          /\ rec.failure
          /\ rec.resolution = None
          /\ rec.evidence = None
    /\ rec.state \in Confirmed =>
          /\ <<rec.mode, rec.resolution, rec.evidence>> \in ConfirmedBy(rec.state)
          /\ rec.mode = "live" => rec.failure /\ rec.reviewed
          /\ rec.mode = "mock" => ~rec.failure
    /\ rec.state = LegacyMock =>
          /\ rec.mode = "mock"
          /\ rec.resolution = "legacy_mock_no_remote_effect"
          /\ rec.evidence \in {"legacy_migration", "mock_adapter"}
          /\ ~rec.failure
    /\ rec.state = Integrity =>
          /\ ~rec.failure
          /\ rec.resolution = None
          /\ rec.evidence = None

UnresolvedManualChecks == {a \in DOMAIN records : records[a].state = Manual}

JournalIntegrityFault ==
    corrupt \/ \E a \in DOMAIN records : records[a].state = Integrity

(***************************************************************************)
(* Saving.                                                                 *)
(***************************************************************************)
JournalRefuse(r) == r = "refused" /\ UNCHANGED journalVars

Save(candidate, r) ==
    IF journalLoaded /\ ~corrupt
    THEN \/ /\ r = "ok"
            /\ journal' = candidate
            /\ records' = candidate
            /\ UNCHANGED <<journalLoaded, corrupt>>
         \/ r = "fault" /\ UNCHANGED journalVars
         \/ /\ r = "cancelled"
            /\ journal' \in {journal, candidate}
            /\ UNCHANGED <<records, journalLoaded, corrupt>>
    ELSE JournalRefuse(r)

Write(a, updated, r) ==
    IF Valid(updated)
    THEN Save([records EXCEPT ![a] = updated], r)
    ELSE JournalRefuse(r)

Protected(rec) == rec.state \in {Manual, Integrity}

\* Mutant: the oldest record goes, whatever it says.
BoundedByAge(recs) ==
    IF Cardinality(DOMAIN recs) <= MaxRecords
    THEN recs
    ELSE LET oldest == CHOOSE a \in DOMAIN recs : \A b \in DOMAIN recs : a <= b
         IN  [a \in DOMAIN recs \ {oldest} |-> recs[a]]

\* One record too many: the oldest that needs no attention makes room.
Bounded(recs) ==
    IF Cardinality(DOMAIN recs) <= MaxRecords
    THEN recs
    ELSE LET removable == {a \in DOMAIN recs : ~Protected(recs[a])}
             oldest == CHOOSE a \in removable : \A b \in removable : a <= b
         IN  [a \in DOMAIN recs \ {oldest} |-> recs[a]]

FullOfProtected(recs) ==
    Cardinality({a \in DOMAIN recs : Protected(recs[a])}) >= MaxRecords

(***************************************************************************)
(* The operations.                                                         *)
(***************************************************************************)

Draft(mode) ==
    [state |-> "DRAFT", revision |-> 1, mode |-> mode, dispatched |-> FALSE,
     failure |-> FALSE, checkout |-> FALSE, reviewed |-> FALSE,
     resolution |-> None, evidence |-> None]

Create(a, mode, r) ==
    LET candidate == [b \in DOMAIN records \cup {a} |->
                        IF b = a THEN Draft(mode) ELSE records[b]]
    IN  IF a \in DOMAIN records \/ FullOfProtected(records)
        THEN JournalRefuse(r)
        ELSE Save(Bounded(candidate), r)

\* What the callers of async_transition pass with each target state.
Metadata(target) ==
    CASE target = Manual ->
            [failure |-> TRUE, resolution |-> None, evidence |-> None]
      [] target = LegacyMock ->
            [failure |-> FALSE, resolution |-> "legacy_mock_no_remote_effect",
             evidence |-> "mock_adapter"]
      [] target = "CONFIRMED_SUCCEEDED" ->
            [failure |-> FALSE, resolution |-> "synthetic_success",
             evidence |-> "mock_adapter"]
      [] target = "CONFIRMED_FAILED" ->
            [failure |-> FALSE, resolution |-> "synthetic_failure",
             evidence |-> "mock_adapter"]
      [] OTHER ->
            [failure |-> FALSE, resolution |-> None, evidence |-> None]

Transition(a, target, learnsCheckout, r) ==
    IF a \in DOMAIN records /\ target \in Allowed(records[a].state)
    THEN Write(a,
               [records[a] EXCEPT
                  !.state = target,
                  !.revision = @ + 1,
                  !.dispatched = (@ \/ target = "DISPATCHING"),
                  !.failure = Metadata(target).failure,
                  !.resolution = Metadata(target).resolution,
                  !.evidence = Metadata(target).evidence,
                  !.checkout = (@ \/ learnsCheckout)],
               r)
    ELSE JournalRefuse(r)

Outcome(succeeded) == IF succeeded THEN "CONFIRMED_SUCCEEDED" ELSE "CONFIRMED_FAILED"

ByProvider(rec, succeeded) ==
    [rec EXCEPT !.state = Outcome(succeeded),
                !.revision = @ + 1,
                !.reviewed = TRUE,
                !.resolution = IF succeeded THEN "provider_succeeded" ELSE "provider_failed",
                !.evidence = "provider_response"]

\* Mutant: a terminal answer is recorded for a record in any state.
RecordTerminalAnywhere(a, expected, succeeded, checkout, r) ==
    IF a \in DOMAIN records /\ records[a].revision = expected /\ records[a].mode = "live"
    THEN Write(a, [ByProvider(records[a], succeeded) EXCEPT
                     !.failure = TRUE, !.checkout = checkout], r)
    ELSE JournalRefuse(r)

RecordTerminal(a, expected, succeeded, checkout, r) ==
    IF /\ a \in DOMAIN records
       /\ records[a].mode = "live"
       /\ records[a].state = "DISPATCHING"
       /\ records[a].revision = expected
    THEN Write(a, [ByProvider(records[a], succeeded) EXCEPT
                     !.failure = TRUE, !.checkout = checkout], r)
    ELSE JournalRefuse(r)

RecordReconciliation(a, expected, succeeded, r) ==
    IF /\ a \in DOMAIN records
       /\ records[a].mode = "live"
       /\ records[a].state = Manual
       /\ records[a].revision = expected
       /\ records[a].checkout
    THEN Write(a, ByProvider(records[a], succeeded), r)
    ELSE JournalRefuse(r)

IsManual(a, expected) ==
    /\ a \in DOMAIN records
    /\ records[a].state = Manual
    /\ records[a].revision = expected

ReviewUnknown(a, expected, r) ==
    IF IsManual(a, expected)
    THEN Write(a, [records[a] EXCEPT !.reviewed = TRUE, !.revision = @ + 1], r)
    ELSE JournalRefuse(r)

Resolve(a, expected, resolution, r) ==
    IF IsManual(a, expected) /\ resolution \in AdminResolutions
    THEN Write(a, [records[a] EXCEPT
                     !.state = Outcome(resolution = "found_succeeded"),
                     !.revision = @ + 1,
                     !.reviewed = TRUE,
                     !.resolution = resolution,
                     !.evidence = "admin_review"], r)
    ELSE JournalRefuse(r)

(***************************************************************************)
(* Loading after a restart.                                                *)
(***************************************************************************)
\* Mutant: an attempt in flight is resumed as it was.
RecoveredAsIs(rec) == rec

\* Mutant: the recovered record does not say why it needs a check.
RecoveredWithoutReason(rec) ==
    IF rec.state \in InFlight
    THEN [rec EXCEPT !.state = Manual, !.revision = @ + 1]
    ELSE rec

\* An attempt found in flight: a live one needs a manual check, a mock one had no
\* remote effect.
Recovered(rec) ==
    IF rec.state \notin InFlight THEN rec
    ELSE IF rec.mode = "live"
         THEN [rec EXCEPT !.state = Manual, !.failure = TRUE, !.revision = @ + 1]
         ELSE [rec EXCEPT !.state = LegacyMock,
                          !.resolution = "legacy_mock_no_remote_effect",
                          !.evidence = "legacy_migration",
                          !.revision = @ + 1]

Normalized == [a \in DOMAIN journal |-> Recovered(journal[a])]

Loadable ==
    /\ Cardinality(DOMAIN journal) <= MaxRecords
    /\ \A a \in DOMAIN journal : Valid(journal[a]) /\ Valid(Recovered(journal[a]))

NoRecords == [a \in {} |-> Draft("mock")]

\* A load is cancelled only together with the setup that awaits it, and the object
\* is dropped with it; the save of the recovered list may have reached the file.
LoadJournal(r) ==
    \/ /\ r = "ok" /\ Loadable
       /\ journal' = Normalized
       /\ records' = Normalized
       /\ journalLoaded' = TRUE
       /\ UNCHANGED corrupt
    \/ /\ r = "fault"
       /\ corrupt' = TRUE
       /\ journalLoaded' = FALSE
       /\ records' = NoRecords
       /\ UNCHANGED journal
    \/ /\ r = "cancelled"
       /\ journal' \in {journal} \cup (IF Loadable THEN {Normalized} ELSE {})
       /\ UNCHANGED <<records, journalLoaded, corrupt>>

\* The process ends.
ForgetJournal ==
    /\ records' = NoRecords
    /\ journalLoaded' = FALSE
    /\ corrupt' = FALSE
    /\ UNCHANGED journal

(***************************************************************************)
(* The journal under every sequence of calls, crashes and failures.        *)
(***************************************************************************)
JournalResults == {"ok", "refused", "fault", "cancelled"}

Init ==
    /\ journal = NoRecords
    /\ records = NoRecords
    /\ journalLoaded = FALSE
    /\ corrupt = FALSE

Known == DOMAIN records \cup DOMAIN journal

MayWrite(a) == a \in DOMAIN records /\ records[a].revision < MaxRevision

DoCreate ==
    \E a \in 1..MaxAttempt, m \in {"live", "mock"}, r \in JournalResults :
        /\ journalLoaded
        /\ \A b \in Known : b < a
        /\ a = 1 \/ a - 1 \in Known
        /\ Create(a, m, r)

DoTransition ==
    \E a \in 1..MaxAttempt, s \in States, c \in BOOLEAN, r \in JournalResults :
        MayWrite(a) /\ Transition(a, s, c, r)

DoRecordTerminal ==
    \E a \in 1..MaxAttempt, s \in BOOLEAN, c \in BOOLEAN, r \in JournalResults :
        MayWrite(a) /\ RecordTerminal(a, records[a].revision, s, c, r)

DoRecordReconciliation ==
    \E a \in 1..MaxAttempt, s \in BOOLEAN, r \in JournalResults :
        MayWrite(a) /\ RecordReconciliation(a, records[a].revision, s, r)

DoReviewUnknown ==
    \E a \in 1..MaxAttempt, r \in JournalResults :
        MayWrite(a) /\ ReviewUnknown(a, records[a].revision, r)

DoResolve ==
    \E a \in 1..MaxAttempt, x \in AdminResolutions, r \in JournalResults :
        MayWrite(a) /\ Resolve(a, records[a].revision, x, r)

DoLoad == ~journalLoaded /\ ~corrupt /\ \E r \in JournalResults : LoadJournal(r)

Next ==
    \/ DoCreate
    \/ DoTransition
    \/ DoRecordTerminal
    \/ DoRecordReconciliation
    \/ DoReviewUnknown
    \/ DoResolve
    \/ DoLoad
    \/ ForgetJournal

Spec == Init /\ [][Next]_journalVars

(***************************************************************************)
(* Properties.                                                             *)
(***************************************************************************)
IsRecordList(recs) == \A a \in DOMAIN recs : a \in Attempts /\ recs[a] \in Records

TypeOK ==
    /\ IsRecordList(journal)
    /\ IsRecordList(records)
    /\ journalLoaded \in BOOLEAN
    /\ corrupt \in BOOLEAN

\* Whatever was written, whenever the process stopped: the file still fits the
\* schema and the bound, and so does the list a restart makes of it.  Otherwise a
\* crash with an attempt in flight would corrupt the journal for good.
EveryImageLoads == Loadable

\* A record that needs attention is durable as soon as it is published, and neither
\* the bound nor a later or a lost write takes it out of the file or back in time.
ProtectedIsDurable ==
    \A a \in DOMAIN records : Protected(records[a]) =>
        /\ a \in DOMAIN journal
        /\ journal[a].revision >= records[a].revision

\* A live attempt is concluded only after its dispatch was recorded; the record
\* matrix itself does not ask for it.
ConcludedWasDispatched ==
    \A a \in DOMAIN journal :
        journal[a].mode = "live" /\ journal[a].state \in Confirmed => journal[a].dispatched

\* No attempt is in flight when a restart publishes the journal.
RestartLeavesNothingInFlight ==
    [][~journalLoaded /\ journalLoaded' =>
          \A a \in DOMAIN records' : records'[a].state \notin InFlight]_journalVars
=============================================================================
