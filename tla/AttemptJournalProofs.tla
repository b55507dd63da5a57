------------------------ MODULE AttemptJournalProofs ------------------------
(***************************************************************************)
(* Proofs about AttemptJournal.  The invariant speaks of one record at a   *)
(* time, and of the size of both lists: every operation replaces one       *)
(* record by a good one, or adds a draft and lets the bound make room, so  *)
(* every list that is ever saved is good (WritesKeepPromises), whichever   *)
(* of the outcomes of its save follows.                                    *)
(***************************************************************************)
EXTENDS AttemptJournal, FiniteSetTheorems, WellFoundedInduction, TLAPS

GoodRecord(rec) ==
    /\ rec \in Records
    /\ Valid(rec)
    /\ rec.mode = "live" /\ rec.state \in Confirmed => rec.dispatched

GoodList(recs) == \A a \in DOMAIN recs : a \in Attempts /\ GoodRecord(recs[a])

Sized(recs) ==
    /\ IsFiniteSet(DOMAIN recs)
    /\ Cardinality(DOMAIN recs) <= MaxRecords

Inv ==
    /\ GoodList(journal) /\ Sized(journal)
    /\ GoodList(records) /\ Sized(records)
    /\ journalLoaded \in BOOLEAN
    /\ corrupt \in BOOLEAN
    /\ ProtectedIsDurable

\* What a list may be when an operation hands it to the store.
KeepsPromises(c) ==
    /\ GoodList(c)
    /\ Sized(c)
    /\ \A a \in DOMAIN records : Protected(records[a]) =>
          a \in DOMAIN c /\ c[a].revision >= records[a].revision

\* The list reached the file, or memory as well, or neither.
Wrote(c) ==
    /\ journal' \in {journal, c}
    /\ records' = records \/ (records' = c /\ journal' = c)

\* What a step that is neither a load nor the end of the process does.
Writing ==
    /\ UNCHANGED <<journalLoaded, corrupt>>
    /\ \/ UNCHANGED <<journal, records>>
       \/ \E c : KeepsPromises(c) /\ Wrote(c)

(***************************************************************************)
(* Records.                                                                *)
(***************************************************************************)
LEMMA DraftIsGood ==
    ASSUME NEW m \in {"live", "mock"}
    PROVE  GoodRecord(Draft(m)) /\ ~Protected(Draft(m))
<1>1. Draft(m) \in Records
  BY DEF Draft, Records, States, Preparing
<1>2. Draft(m).state = "DRAFT" /\ ~Draft(m).dispatched /\ ~Draft(m).failure
      /\ ~Draft(m).reviewed /\ Draft(m).resolution = None /\ Draft(m).evidence = None
  BY DEF Draft
<1>3. Valid(Draft(m))
  BY <1>2 DEF Valid, Unreviewed, Preparing, InFlight, Manual, Confirmed, LegacyMock, Integrity
<1> QED
  BY <1>1, <1>2, <1>3 DEF GoodRecord, Confirmed, Protected, Manual, Integrity

\* The repair a restart makes of an attempt in flight satisfies the record matrix.
LEMMA RecoveredIsGood ==
    ASSUME NEW rec, GoodRecord(rec)
    PROVE  /\ GoodRecord(Recovered(rec))
           /\ Recovered(rec).revision >= rec.revision
           /\ Recovered(rec).state \notin InFlight
           /\ Recovered(Recovered(rec)) = Recovered(rec)
<1>1. CASE rec.state \notin InFlight
  BY <1>1 DEF Recovered, GoodRecord, Records
<1>2. CASE rec.state \in InFlight
  <2>1. rec \in Records /\ rec.dispatched /\ ~rec.failure
        /\ rec.resolution = None /\ rec.evidence = None
    BY <1>2 DEF GoodRecord, Valid, Unreviewed
  <2>2. CASE rec.mode = "live"
    <3> DEFINE new == [rec EXCEPT !.state = Manual, !.failure = TRUE, !.revision = @ + 1]
    <3>1. Recovered(rec) = new
      BY <1>2, <2>2 DEF Recovered
    <3>2. new \in Records
      <4>1. Manual \in States
        BY DEF States
      <4>2. rec.revision + 1 \in Nat \ {0}
        BY <2>1 DEF Records
      <4> QED
        BY <2>1, <4>1, <4>2 DEF Records
    <3>3. /\ new.state = Manual /\ new.mode = "live" /\ new.dispatched /\ new.failure
          /\ new.resolution = None /\ new.evidence = None
          /\ new.revision = rec.revision + 1
      BY <2>1, <2>2 DEF Records
    <3> HIDE DEF new
    <3>4. Valid(new)
      BY <3>3 DEF Valid, Manual, Preparing, InFlight, Confirmed, LegacyMock, Integrity
    <3>5. new.state \notin InFlight /\ new.state \notin Confirmed
      BY <3>3 DEF Manual, InFlight, Confirmed
    <3>6. new.revision >= rec.revision
      BY <2>1, <3>3 DEF Records
    <3>7. Recovered(new) = new
      BY <3>5 DEF Recovered
    <3> QED
      BY <3>1, <3>2, <3>4, <3>5, <3>6, <3>7 DEF GoodRecord
  <2>3. CASE rec.mode = "mock"
    <3> DEFINE new == [rec EXCEPT !.state = LegacyMock,
                                  !.resolution = "legacy_mock_no_remote_effect",
                                  !.evidence = "legacy_migration",
                                  !.revision = @ + 1]
    <3>1. Recovered(rec) = new
      BY <1>2, <2>3 DEF Recovered
    <3>2. new \in Records
      <4>1. LegacyMock \in States
        BY DEF States, Terminal
      <4>2. rec.revision + 1 \in Nat \ {0}
        BY <2>1 DEF Records
      <4>3. "legacy_mock_no_remote_effect" \in Resolutions \cup {None}
        BY DEF Resolutions
      <4>4. "legacy_migration" \in EvidenceSources \cup {None}
        BY DEF EvidenceSources
      <4> QED
        BY <2>1, <4>1, <4>2, <4>3, <4>4 DEF Records
    <3>3. /\ new.state = LegacyMock /\ new.mode = "mock" /\ ~new.failure
          /\ new.resolution = "legacy_mock_no_remote_effect"
          /\ new.evidence = "legacy_migration"
          /\ new.revision = rec.revision + 1
      BY <2>1, <2>3 DEF Records
    <3> HIDE DEF new
    <3>4. Valid(new)
      BY <3>3 DEF Valid, Manual, Preparing, InFlight, Confirmed, LegacyMock, Integrity
    <3>5. new.state \notin InFlight /\ new.state \notin Confirmed
      BY <3>3 DEF LegacyMock, InFlight, Confirmed
    <3>6. new.revision >= rec.revision
      BY <2>1, <3>3 DEF Records
    <3>7. Recovered(new) = new
      BY <3>5 DEF Recovered
    <3> QED
      BY <3>1, <3>2, <3>4, <3>5, <3>6, <3>7 DEF GoodRecord
  <2> QED
    BY <2>1, <2>2, <2>3 DEF Records
<1> QED
  BY <1>1, <1>2
(***************************************************************************)
(* Lists.                                                                  *)
(***************************************************************************)
\* A set of attempts that is not empty has an oldest one.
LEMMA OldestExists ==
    ASSUME NEW S \in SUBSET Attempts, S # {}
    PROVE  \E a \in S : \A b \in S : a <= b
<1>1. S \subseteq Nat
  BY DEF Attempts
<1>2. PICK x \in S : \A y \in S : ~(<<y, x>> \in OpToRel(<, Nat))
  BY <1>1, NatLessThanWellFounded, WFMin
<1>3. ASSUME NEW b \in S
      PROVE  x <= b
  <2>1. x \in Nat /\ b \in Nat
    BY <1>1
  <2>2. ~(b < x)
    BY <1>2, <2>1 DEF OpToRel
  <2> QED
    BY <2>1, <2>2
<1> QED
  BY <1>3

\* Making room keeps every protected record, and keeps the rest as they were.
LEMMA BoundedMakesRoom ==
    ASSUME NEW recs, DOMAIN recs \subseteq Attempts,
           NEW x \in DOMAIN recs, ~Protected(recs[x]),
           IsFiniteSet(DOMAIN recs), Cardinality(DOMAIN recs) <= MaxRecords + 1
    PROVE  /\ DOMAIN Bounded(recs) \subseteq DOMAIN recs
           /\ \A a \in DOMAIN Bounded(recs) : Bounded(recs)[a] = recs[a]
           /\ \A a \in DOMAIN recs : Protected(recs[a]) => a \in DOMAIN Bounded(recs)
           /\ Sized(Bounded(recs))
<1>1. CASE Cardinality(DOMAIN recs) <= MaxRecords
  BY <1>1 DEF Bounded, Sized
<1>2. CASE ~(Cardinality(DOMAIN recs) <= MaxRecords)
  <2> DEFINE removable == {a \in DOMAIN recs : ~Protected(recs[a])}
             oldest == CHOOSE a \in removable : \A b \in removable : a <= b
             kept == [a \in DOMAIN recs \ {oldest} |-> recs[a]]
  <2>1. Bounded(recs) = kept
    BY <1>2 DEF Bounded
  <2>2. removable \in SUBSET Attempts /\ removable # {}
    OBVIOUS
  <2>3. oldest \in removable
    <3> HIDE DEF removable
    <3> QED
      BY <2>2, OldestExists
  <2>4. oldest \in DOMAIN recs /\ ~Protected(recs[oldest])
    BY <2>3
  <2> HIDE DEF oldest
  <2>5. /\ IsFiniteSet(DOMAIN recs \ {oldest})
        /\ Cardinality(DOMAIN recs \ {oldest}) = Cardinality(DOMAIN recs) - 1
    BY <2>4, FS_RemoveElement
  <2>6. Cardinality(DOMAIN recs) \in Nat /\ MaxRecords \in Nat
    BY FS_CardinalityType, JournalConstants
  <2>7. Cardinality(DOMAIN recs \ {oldest}) <= MaxRecords
    BY <2>5, <2>6
  <2>8. DOMAIN kept = DOMAIN recs \ {oldest} /\ \A a \in DOMAIN kept : kept[a] = recs[a]
    OBVIOUS
  <2> QED
    BY <2>1, <2>4, <2>5, <2>7, <2>8 DEF Sized
<1> QED
  BY <1>1, <1>2

\* A saved list becomes the file, or memory as well, or neither.
LEMMA SaveIsWriting ==
    ASSUME NEW c, KeepsPromises(c), NEW r, Save(c, r)
    PROVE  Writing
  BY DEF Save, JournalRefuse, journalVars, Writing, Wrote

LEMMA RefusedIsWriting ==
    ASSUME NEW r, JournalRefuse(r)
    PROVE  Writing
  BY DEF JournalRefuse, journalVars, Writing

\* One record replaced by a good one with a higher revision.
LEMMA WriteIsWriting ==
    ASSUME Inv, NEW a \in DOMAIN records, NEW new, new \in Records,
           new.mode = "live" /\ new.state \in Confirmed => new.dispatched,
           new.revision = records[a].revision + 1,
           NEW r, Write(a, new, r)
    PROVE  Writing
<1> DEFINE c == [records EXCEPT ![a] = new]
<1>1. CASE ~Valid(new)
  BY <1>1, RefusedIsWriting DEF Write
<1>2. CASE Valid(new)
  <2>1. DOMAIN c = DOMAIN records /\ \A b \in DOMAIN records : b # a => c[b] = records[b]
    OBVIOUS
  <2>2. c[a] = new
    OBVIOUS
  <2>3. GoodRecord(new)
    BY <1>2 DEF GoodRecord
  <2>4. Save(c, r)
    BY <1>2 DEF Write
  <2> HIDE DEF c
  <2>5. GoodList(c) /\ Sized(c)
    BY <2>1, <2>2, <2>3 DEF Inv, GoodList, Sized
  <2>6. \A b \in DOMAIN records : records[b].revision \in Nat
    BY DEF Inv, GoodList, GoodRecord, Records
  <2>7. \A b \in DOMAIN records : b \in DOMAIN c /\ c[b].revision >= records[b].revision
    BY <2>1, <2>2, <2>6
  <2> QED
    BY <2>4, <2>5, <2>7, SaveIsWriting DEF KeepsPromises
<1> QED
  BY <1>1, <1>2
(***************************************************************************)
(* The operations.                                                         *)
(***************************************************************************)
LEMMA CreateIsWriting ==
    ASSUME Inv, NEW a \in Attempts, NEW m \in {"live", "mock"}, NEW r, Create(a, m, r)
    PROVE  Writing
<1> DEFINE c == [b \in DOMAIN records \cup {a} |-> IF b = a THEN Draft(m) ELSE records[b]]
<1>1. CASE a \in DOMAIN records \/ FullOfProtected(records)
  BY <1>1, RefusedIsWriting DEF Create
<1>2. CASE ~(a \in DOMAIN records \/ FullOfProtected(records))
  <2>1. Save(Bounded(c), r)
    BY <1>2 DEF Create
  <2>2. /\ DOMAIN c = DOMAIN records \cup {a}
        /\ a \notin DOMAIN records
        /\ c[a] = Draft(m)
        /\ \A b \in DOMAIN records : c[b] = records[b]
    BY <1>2
  <2> HIDE DEF c
  <2>3. /\ IsFiniteSet(DOMAIN c)
        /\ Cardinality(DOMAIN c) = Cardinality(DOMAIN records) + 1
    BY <2>2, FS_AddElement DEF Inv, Sized
  <2>4. Cardinality(DOMAIN records) \in Nat /\ MaxRecords \in Nat
    BY FS_CardinalityType, JournalConstants DEF Inv, Sized
  <2>5. Cardinality(DOMAIN c) <= MaxRecords + 1
    BY <2>3, <2>4 DEF Inv, Sized
  <2>6. GoodList(c)
    BY <2>2, DraftIsGood DEF Inv, GoodList
  <2>7. DOMAIN c \subseteq Attempts
    BY <2>6 DEF GoodList
  <2>8. /\ DOMAIN Bounded(c) \subseteq DOMAIN c
        /\ \A b \in DOMAIN Bounded(c) : Bounded(c)[b] = c[b]
        /\ \A b \in DOMAIN c : Protected(c[b]) => b \in DOMAIN Bounded(c)
        /\ Sized(Bounded(c))
    BY <2>2, <2>3, <2>5, <2>7, DraftIsGood, BoundedMakesRoom
  <2>9. GoodList(Bounded(c))
    BY <2>6, <2>8 DEF GoodList
  <2>10. \A b \in DOMAIN records : records[b].revision \in Nat
    BY DEF Inv, GoodList, GoodRecord, Records
  <2>11. \A b \in DOMAIN records : Protected(records[b]) =>
            b \in DOMAIN Bounded(c) /\ Bounded(c)[b].revision >= records[b].revision
    BY <2>2, <2>8, <2>10
  <2> QED
    BY <2>1, <2>8, <2>9, <2>11, SaveIsWriting DEF KeepsPromises
<1> QED
  BY <1>1, <1>2

\* The provider's evidence in a record, shared by the two operations that add it.
LEMMA ByProviderIsRecord ==
    ASSUME NEW rec \in Records, NEW s \in BOOLEAN
    PROVE  /\ ByProvider(rec, s) \in Records
           /\ ByProvider(rec, s).revision = rec.revision + 1
           /\ ByProvider(rec, s).dispatched = rec.dispatched
           /\ ByProvider(rec, s).mode = rec.mode
<1>1. Outcome(s) \in States
  BY DEF Outcome, States, Terminal, Confirmed
<1>2. rec.revision + 1 \in Nat \ {0}
  BY DEF Records
<1>3. (IF s THEN "provider_succeeded" ELSE "provider_failed") \in Resolutions \cup {None}
  BY DEF Resolutions
<1>4. "provider_response" \in EvidenceSources \cup {None}
  BY DEF EvidenceSources
<1>5. ByProvider(rec, s) \in Records
  BY <1>1, <1>2, <1>3, <1>4 DEF ByProvider, Records
<1>6. /\ ByProvider(rec, s).revision = rec.revision + 1
      /\ ByProvider(rec, s).dispatched = rec.dispatched
      /\ ByProvider(rec, s).mode = rec.mode
  BY DEF ByProvider, Records
<1> QED
  BY <1>5, <1>6

\* What the invariant says of a record that is on the list.
LEMMA KnownRecord ==
    ASSUME Inv, NEW a \in DOMAIN records
    PROVE  /\ records[a] \in Records
           /\ records[a].state \in InFlight \cup {Manual} => records[a].dispatched
  BY DEF Inv, GoodList, GoodRecord, Valid

LEMMA RecordTerminalIsWriting ==
    ASSUME Inv, NEW a, NEW n, NEW s \in BOOLEAN, NEW k \in BOOLEAN, NEW r,
           RecordTerminal(a, n, s, k, r)
    PROVE  Writing
<1> DEFINE ok == /\ a \in DOMAIN records
                 /\ records[a].mode = "live"
                 /\ records[a].state = "DISPATCHING"
                 /\ records[a].revision = n
           base == ByProvider(records[a], s)
           new == [base EXCEPT !.failure = TRUE, !.checkout = k]
<1>1. CASE ~ok
  BY <1>1, RefusedIsWriting DEF RecordTerminal
<1>2. CASE ok
  <2>1. Write(a, new, r)
    BY <1>2 DEF RecordTerminal
  <2>2. records[a] \in Records /\ records[a].dispatched
    BY <1>2, KnownRecord DEF InFlight
  <2>3. base \in Records /\ base.revision = records[a].revision + 1 /\ base.dispatched
    BY <2>2, ByProviderIsRecord
  <2> HIDE DEF base
  <2>4. new \in Records
    BY <2>3 DEF Records
  <2>5. new.revision = records[a].revision + 1 /\ new.dispatched
    BY <2>3 DEF Records
  <2> HIDE DEF new
  <2> QED
    BY <1>2, <2>1, <2>4, <2>5, WriteIsWriting
<1> QED
  BY <1>1, <1>2

LEMMA RecordReconciliationIsWriting ==
    ASSUME Inv, NEW a, NEW n, NEW s \in BOOLEAN, NEW r, RecordReconciliation(a, n, s, r)
    PROVE  Writing
<1> DEFINE ok == /\ a \in DOMAIN records
                 /\ records[a].mode = "live"
                 /\ records[a].state = Manual
                 /\ records[a].revision = n
                 /\ records[a].checkout
           new == ByProvider(records[a], s)
<1>1. CASE ~ok
  BY <1>1, RefusedIsWriting DEF RecordReconciliation
<1>2. CASE ok
  <2>1. Write(a, new, r)
    BY <1>2 DEF RecordReconciliation
  <2>2. records[a] \in Records /\ records[a].dispatched
    BY <1>2, KnownRecord
  <2>3. new \in Records /\ new.revision = records[a].revision + 1 /\ new.dispatched
    BY <2>2, ByProviderIsRecord
  <2> HIDE DEF new
  <2> QED
    BY <1>2, <2>1, <2>3, WriteIsWriting
<1> QED
  BY <1>1, <1>2

LEMMA ReviewUnknownIsWriting ==
    ASSUME Inv, NEW a, NEW n, NEW r, ReviewUnknown(a, n, r)
    PROVE  Writing
<1> DEFINE new == [records[a] EXCEPT !.reviewed = TRUE, !.revision = @ + 1]
<1>1. CASE ~IsManual(a, n)
  BY <1>1, RefusedIsWriting DEF ReviewUnknown
<1>2. CASE IsManual(a, n)
  <2>1. Write(a, new, r)
    BY <1>2 DEF ReviewUnknown
  <2>2. a \in DOMAIN records /\ records[a] \in Records /\ records[a].dispatched
    BY <1>2, KnownRecord DEF IsManual
  <2>3. records[a].revision + 1 \in Nat \ {0}
    BY <2>2 DEF Records
  <2>4. new \in Records
    BY <2>2, <2>3 DEF Records
  <2>5. new.revision = records[a].revision + 1 /\ new.dispatched
    BY <2>2 DEF Records
  <2> HIDE DEF new
  <2> QED
    BY <2>1, <2>2, <2>4, <2>5, WriteIsWriting
<1> QED
  BY <1>1, <1>2

LEMMA ResolveIsWriting ==
    ASSUME Inv, NEW a, NEW n, NEW x, NEW r, Resolve(a, n, x, r)
    PROVE  Writing
<1> DEFINE ok == IsManual(a, n) /\ x \in AdminResolutions
           new == [records[a] EXCEPT
                     !.state = Outcome(x = "found_succeeded"),
                     !.revision = @ + 1,
                     !.reviewed = TRUE,
                     !.resolution = x,
                     !.evidence = "admin_review"]
<1>1. CASE ~ok
  BY <1>1, RefusedIsWriting DEF Resolve
<1>2. CASE ok
  <2>1. Write(a, new, r)
    BY <1>2 DEF Resolve
  <2>2. a \in DOMAIN records /\ records[a] \in Records /\ records[a].dispatched
    BY <1>2, KnownRecord DEF IsManual
  <2>3. records[a].revision + 1 \in Nat \ {0}
    BY <2>2 DEF Records
  <2>4. Outcome(x = "found_succeeded") \in States
    BY DEF Outcome, States, Terminal, Confirmed
  <2>5. x \in Resolutions \cup {None}
    BY <1>2 DEF Resolutions
  <2>6. "admin_review" \in EvidenceSources \cup {None}
    BY DEF EvidenceSources
  <2>7. new \in Records
    BY ZenonT(60), <2>2, <2>3, <2>4, <2>5, <2>6 DEF Records
  <2>8. new.revision = records[a].revision + 1 /\ new.dispatched
    BY <2>2 DEF Records
  <2> HIDE DEF new
  <2> QED
    BY <2>1, <2>2, <2>7, <2>8, WriteIsWriting
<1> QED
  BY <1>1, <1>2

\* The targets of a transition, and what the matrix asks before a conclusion.
LEMMA AllowedTargets ==
    ASSUME NEW s \in States, NEW t \in Allowed(s)
    PROVE  /\ t \in States
           /\ t \in Confirmed => s \in InFlight \cup {Manual}
<1>1. Allowed(s) \subseteq States
  BY DEF Allowed, States, Preparing, InFlight, Terminal, Confirmed
<1>2. s \notin InFlight \cup {Manual} => Allowed(s) \cap Confirmed = {}
  BY DEF Allowed, States, Preparing, InFlight, Terminal, Confirmed, LegacyMock, Integrity,
         Manual
<1> QED
  BY <1>1, <1>2

LEMMA MetadataTypes ==
    ASSUME NEW t
    PROVE  /\ Metadata(t).failure \in BOOLEAN
           /\ Metadata(t).resolution \in Resolutions \cup {None}
           /\ Metadata(t).evidence \in EvidenceSources \cup {None}
  BY DEF Metadata, Resolutions, EvidenceSources

LEMMA TransitionIsWriting ==
    ASSUME Inv, NEW a, NEW t, NEW k \in BOOLEAN, NEW r, Transition(a, t, k, r)
    PROVE  Writing
<1> DEFINE ok == a \in DOMAIN records /\ t \in Allowed(records[a].state)
           new == [records[a] EXCEPT
                     !.state = t,
                     !.revision = @ + 1,
                     !.dispatched = (@ \/ t = "DISPATCHING"),
                     !.failure = Metadata(t).failure,
                     !.resolution = Metadata(t).resolution,
                     !.evidence = Metadata(t).evidence,
                     !.checkout = (@ \/ k)]
<1>1. CASE ~ok
  BY <1>1, RefusedIsWriting DEF Transition
<1>2. CASE ok
  <2>1. Write(a, new, r)
    BY <1>2 DEF Transition
  <2>2. /\ records[a] \in Records
        /\ records[a].state \in InFlight \cup {Manual} => records[a].dispatched
    BY <1>2, KnownRecord
  <2>3. records[a].revision + 1 \in Nat \ {0}
    BY <2>2 DEF Records
  <2>4. /\ t \in States
        /\ t \in Confirmed => records[a].state \in InFlight \cup {Manual}
    BY <1>2, <2>2, AllowedTargets DEF Records
  <2>5. /\ (records[a].dispatched \/ t = "DISPATCHING") \in BOOLEAN
        /\ (records[a].checkout \/ k) \in BOOLEAN
    OBVIOUS
  <2>6. new \in Records
    BY ZenonT(60), <2>2, <2>3, <2>4, <2>5, MetadataTypes DEF Records
  <2>7. /\ new.revision = records[a].revision + 1
        /\ new.state = t
        /\ records[a].dispatched => new.dispatched
    BY <2>2 DEF Records
  <2> HIDE DEF new
  <2> QED
    BY <1>2, <2>1, <2>2, <2>4, <2>6, <2>7, WriteIsWriting
<1> QED
  BY <1>1, <1>2

(***************************************************************************)
(* The invariant.                                                          *)
(***************************************************************************)
LEMMA NoRecordsAreGood == DOMAIN NoRecords = {} /\ GoodList(NoRecords) /\ Sized(NoRecords)
<1>1. DOMAIN NoRecords = {}
  BY DEF NoRecords
<1>2. IsFiniteSet({}) /\ Cardinality({}) = 0
  BY FS_EmptySet
<1> QED
  BY <1>1, <1>2, JournalConstants DEF GoodList, Sized

LEMMA NormalizedIsGood ==
    ASSUME Inv
    PROVE  /\ GoodList(Normalized)
           /\ Sized(Normalized)
           /\ DOMAIN Normalized = DOMAIN journal
           /\ \A a \in DOMAIN journal : Normalized[a].revision >= journal[a].revision
           /\ \A a \in DOMAIN journal : Normalized[a].state \notin InFlight
<1>1. DOMAIN Normalized = DOMAIN journal
      /\ \A a \in DOMAIN journal : Normalized[a] = Recovered(journal[a])
  BY DEF Normalized
<1>2. \A a \in DOMAIN journal : GoodRecord(journal[a]) /\ a \in Attempts
  BY DEF Inv, GoodList
<1> QED
  BY <1>1, <1>2, RecoveredIsGood DEF Inv, GoodList, Sized

LEMMA WritingKeepsInv ==
    ASSUME Inv, Writing
    PROVE  Inv'
<1>1. UNCHANGED <<journalLoaded, corrupt>>
  BY DEF Writing
<1>2. CASE UNCHANGED <<journal, records>>
  BY <1>1, <1>2 DEF Inv, GoodList, Sized, ProtectedIsDurable
<1>3. ASSUME NEW c, KeepsPromises(c), Wrote(c)
      PROVE  Inv'
  <2>1. journal' = journal \/ journal' = c
    BY <1>3 DEF Wrote
  <2>2. CASE records' = records
    <3>1. GoodList(journal') /\ Sized(journal')
      BY <1>3, <2>1 DEF Inv, KeepsPromises
    <3>2. ProtectedIsDurable'
      BY <1>3, <2>1, <2>2 DEF Inv, KeepsPromises, ProtectedIsDurable
    <3> QED
      BY <1>1, <2>2, <3>1, <3>2 DEF Inv, GoodList, Sized
  <2>3. CASE records' = c /\ journal' = c
    <3>1. GoodList(c) /\ Sized(c)
      BY <1>3 DEF KeepsPromises
    <3>2. \A a \in DOMAIN c : c[a].revision \in Nat
      BY <3>1 DEF GoodList, GoodRecord, Records
    <3>3. ProtectedIsDurable'
      BY <2>3, <3>2 DEF ProtectedIsDurable
    <3> QED
      BY <1>1, <2>3, <3>1, <3>3 DEF Inv, GoodList, Sized
  <2> QED
    BY <1>3, <2>2, <2>3 DEF Wrote
<1> QED
  BY <1>2, <1>3 DEF Writing

LEMMA LoadKeepsInv ==
    ASSUME Inv, NEW r, LoadJournal(r)
    PROVE  Inv'
<1>1. /\ GoodList(Normalized)
      /\ Sized(Normalized)
      /\ DOMAIN Normalized = DOMAIN journal
      /\ \A a \in DOMAIN journal : Normalized[a].revision >= journal[a].revision
  BY NormalizedIsGood
<1>2. \A a \in DOMAIN Normalized : Normalized[a].revision \in Nat
  BY <1>1 DEF GoodList, GoodRecord, Records
<1>3. \A a \in DOMAIN journal : journal[a].revision \in Nat
  BY DEF Inv, GoodList, GoodRecord, Records
<1>4. \A a \in DOMAIN records : records[a].revision \in Nat
  BY DEF Inv, GoodList, GoodRecord, Records
<1>5. CASE journal' = Normalized /\ records' = Normalized /\ journalLoaded' = TRUE
           /\ UNCHANGED corrupt
  <2>1. ProtectedIsDurable'
    BY <1>2, <1>5 DEF ProtectedIsDurable
  <2> QED
    BY <1>1, <1>5, <2>1 DEF Inv, GoodList, Sized
<1>6. CASE records' = NoRecords /\ UNCHANGED journal /\ journalLoaded' = FALSE
           /\ corrupt' = TRUE
  <2>1. ProtectedIsDurable'
    BY <1>6, NoRecordsAreGood DEF ProtectedIsDurable
  <2> QED
    BY <1>6, <2>1, NoRecordsAreGood DEF Inv, GoodList, Sized
<1>7. CASE journal' \in {journal, Normalized} /\ UNCHANGED <<records, journalLoaded, corrupt>>
  <2>1. /\ DOMAIN journal' = DOMAIN journal
        /\ \A a \in DOMAIN journal :
              journal'[a].revision \in Nat /\ journal'[a].revision >= journal[a].revision
    BY <1>1, <1>2, <1>3, <1>7
  <2>2. ProtectedIsDurable'
    BY <1>3, <1>4, <1>7, <2>1 DEF Inv, ProtectedIsDurable
  <2> QED
    BY <1>1, <1>7, <2>2 DEF Inv, GoodList, Sized
<1> QED
  BY <1>5, <1>6, <1>7 DEF LoadJournal

LEMMA ForgetKeepsInv ==
    ASSUME Inv, ForgetJournal
    PROVE  Inv'
<1>1. ProtectedIsDurable'
  BY NoRecordsAreGood DEF ForgetJournal, ProtectedIsDurable
<1> QED
  BY <1>1, NoRecordsAreGood DEF ForgetJournal, Inv, GoodList, Sized

\* Every call of an operation but the load hands a good list to the store, or none.
LEMMA WritesKeepPromises ==
    ASSUME Inv, \/ DoCreate \/ DoTransition \/ DoRecordTerminal
                \/ DoRecordReconciliation \/ DoReviewUnknown \/ DoResolve
    PROVE  Writing
<1>1. CASE DoCreate
  <2>1. 1..MaxAttempt \subseteq Attempts
    BY DEF Attempts
  <2> QED
    BY <1>1, <2>1, CreateIsWriting DEF DoCreate
<1>2. CASE DoTransition
  BY <1>2, TransitionIsWriting DEF DoTransition
<1>3. CASE DoRecordTerminal
  BY <1>3, RecordTerminalIsWriting DEF DoRecordTerminal
<1>4. CASE DoRecordReconciliation
  BY <1>4, RecordReconciliationIsWriting DEF DoRecordReconciliation
<1>5. CASE DoReviewUnknown
  BY <1>5, ReviewUnknownIsWriting DEF DoReviewUnknown
<1>6. CASE DoResolve
  BY <1>6, ResolveIsWriting DEF DoResolve
<1> QED
  BY <1>1, <1>2, <1>3, <1>4, <1>5, <1>6

LEMMA InitEstablishesInv ==
    ASSUME Init
    PROVE  Inv
  BY NoRecordsAreGood DEF Init, Inv, ProtectedIsDurable

LEMMA NextKeepsInv ==
    ASSUME Inv, [Next]_journalVars
    PROVE  Inv'
<1>1. CASE \/ DoCreate \/ DoTransition \/ DoRecordTerminal
           \/ DoRecordReconciliation \/ DoReviewUnknown \/ DoResolve
  BY <1>1, WritesKeepPromises, WritingKeepsInv
<1>2. CASE DoLoad
  BY <1>2, LoadKeepsInv DEF DoLoad
<1>3. CASE ForgetJournal
  BY <1>3, ForgetKeepsInv
<1>4. CASE UNCHANGED journalVars
  BY <1>4 DEF journalVars, Inv, GoodList, Sized, ProtectedIsDurable
<1> QED
  BY <1>1, <1>2, <1>3, <1>4 DEF Next

(***************************************************************************)
(* The theorems.                                                           *)
(***************************************************************************)
\* In every reachable state both lists hold good records only, within the bound.
THEOREM JournalInvariant == Spec => []Inv
<1>1. Init => Inv
  BY InitEstablishesInv
<1>2. Inv /\ [Next]_journalVars => Inv'
  BY NextKeepsInv
<1> QED
  BY <1>1, <1>2, PTL DEF Spec

\* Both lists are lists of records of the schema (AttemptRecord.from_dict).
THEOREM TypeCorrect == Spec => []TypeOK
<1>1. Inv => TypeOK
  BY DEF Inv, TypeOK, GoodList, GoodRecord, IsRecordList
<1> QED
  BY <1>1, JournalInvariant, PTL

\* The file always loads, and so does what a restart makes of it: no crash, lost
\* write or cancellation can leave a journal that async_load calls corrupt.
THEOREM ImagesLoad == Spec => []EveryImageLoads
<1>1. Inv => EveryImageLoads
  <2> SUFFICES ASSUME Inv PROVE EveryImageLoads
    OBVIOUS
  <2>1. \A a \in DOMAIN journal : Valid(journal[a])
    BY DEF Inv, GoodList, GoodRecord
  <2>2. \A a \in DOMAIN journal : Valid(Recovered(journal[a]))
    BY RecoveredIsGood DEF Inv, GoodList, GoodRecord
  <2> QED
    BY <2>1, <2>2 DEF EveryImageLoads, Loadable, Inv, Sized
<1> QED
  BY <1>1, JournalInvariant, PTL

\* A record that needs attention stays in the file: neither the bound of
\* async_create nor a write that is lost or repeated removes it.
THEOREM ProtectedStayDurable == Spec => []ProtectedIsDurable
<1>1. Inv => ProtectedIsDurable
  BY DEF Inv
<1> QED
  BY <1>1, JournalInvariant, PTL

\* A live attempt is concluded only after its dispatch was recorded.
THEOREM ConclusionsWereDispatched == Spec => []ConcludedWasDispatched
<1>1. Inv => ConcludedWasDispatched
  BY DEF Inv, GoodList, GoodRecord, ConcludedWasDispatched
<1> QED
  BY <1>1, JournalInvariant, PTL

\* A restart publishes no attempt in flight: async_load concludes or blocks each.
THEOREM RestartsRecover == Spec => RestartLeavesNothingInFlight
<1>1. Inv /\ [Next]_journalVars =>
        [~journalLoaded /\ journalLoaded' =>
            \A a \in DOMAIN records' : records'[a].state \notin InFlight]_journalVars
  <2> SUFFICES ASSUME Inv, Next, ~journalLoaded, journalLoaded'
               PROVE  \A a \in DOMAIN records' : records'[a].state \notin InFlight
    OBVIOUS
  <2>1. CASE \/ DoCreate \/ DoTransition \/ DoRecordTerminal
             \/ DoRecordReconciliation \/ DoReviewUnknown \/ DoResolve
    BY <2>1, WritesKeepPromises DEF Writing
  <2>2. CASE DoLoad
    <3>1. records' = Normalized
      BY <2>2 DEF DoLoad, LoadJournal
    <3> QED
      BY <3>1, NormalizedIsGood
  <2>3. CASE ForgetJournal
    BY <2>3 DEF ForgetJournal
  <2> QED
    BY <2>1, <2>2, <2>3 DEF Next
<1> QED
  BY <1>1, JournalInvariant, PTL DEF Spec, RestartLeavesNothingInFlight
=============================================================================
