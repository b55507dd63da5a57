------------------------ MODULE OrderingManagerSafety ------------------------
(***************************************************************************)
(* Proofs about OrderingManager, continued: its refinement of the ledger,  *)
(* the faults that outlive its process, and what LegacyRepair keeps of the *)
(* account an earlier release left.                                        *)
(***************************************************************************)
EXTENDS OrderingManagerProofs, LegacyRepair

(***************************************************************************)
(* OrderingManager implements the ledger: an attempt is sent only when the *)
(* conclusion of every earlier one is durable, and a manager at rest       *)
(* accepts no checkout while one is not.                                   *)
(*                                                                         *)
(* Files says that both copies of the journal still show every attempt     *)
(* that was sent, Watch that a manager without a fault has the durable     *)
(* latch on what needs attention; Calm, Focus, Unused and Answered follow  *)
(* the one attempt from its checkout to the end of its recovery.  Aloft    *)
(* and Room are for the bounded journal: an attempt that was sent, whose   *)
(* record could not be marked, is unprotected from the markers of later    *)
(* faults; fewer of them can follow in one life of the process than the    *)
(* journal has records.                                                    *)
(***************************************************************************)

\* The handler of a rejected answer lets what its own call raises escape, and those
\* that keep a checkout reference do not catch a cancellation: where these calls are
\* disturbed the account stays open, which MCOrderingAmbiguity shows.
Undisturbed ==
    /\ "rejected" \in FaultFree
    /\ {"rejected", "ambiguous", "learn"} \subseteq CancelFree

(***************************************************************************)
(* The inductive invariant.                                                *)
(***************************************************************************)
\* What a manual check would have to look at.
Attention == Unsettled \cup Journal!UnresolvedManualChecks

OpenIn(list, a) ==
    /\ a \in DOMAIN list
    /\ list[a].mode = "live" /\ list[a].dispatched
    /\ list[a].state \in Journal!InFlight \cup {Journal!Manual}

\* A list has not lost track of the attempts that were sent: those without a conclusion
\* are open in it or there is a fault, none is younger than all its records, and what it
\* calls concluded is.
Holds(list, sent, known, latched) ==
    /\ latched \/ HasFault(list) \/ \A a \in sent \ known : OpenIn(list, a)
    /\ \A a \in sent \cup known : \E b \in DOMAIN list : a <= b
    /\ Concluded(list) \subseteq known

Files ==
    /\ Holds(journal, posted, settled, disk.integrity)
    /\ Readable => Holds(records, posted, settled, disk.integrity)

\* A running manager without a fault has named what needs attention, or is at it.
Watch ==
    (up = "up" \/ pc = "finish") /\ pc # "unload" /\ ~IntegrityFault =>
        \A b \in Attention : Names(b) \/ (pc \in Sending /\ b = ctx.attempt)

\* Nothing needs attention before a POST and after its conclusion.
Quiet == Preparing \cup {"unsent", "finalBump", "rejectedBump", "persistence"}
Calm == pc \in Quiet \/ (pc \in Marking /\ ctx.then = "persistence") => Attention = {}

\* From the POST to the end of its recovery nothing else does.
Focus == pc \in Sending => Attention \subseteq {ctx.attempt}

\* The attempt of a checkout has never been used.
Unused == pc \in Preparing \cup {"unsent"} =>
            ctx.attempt \notin posted \cup settled /\ ~securityFault

\* The record that the answer to a POST is written to.
Answered ==
    /\ pc \in {"reply", "rejected"} =>
          /\ Readable
          /\ ctx.attempt \in DOMAIN records
          /\ records[ctx.attempt].mode = "live"
          /\ records[ctx.attempt].state = "DISPATCHING"
    /\ pc = "recoverLatch" /\ ctx.saved =>
          \/ ctx.attempt \notin DOMAIN records
          \/ records[ctx.attempt].state \notin Journal!InFlight

\* Attempts that were sent and have a record that nobody protects from being dropped.
Flying == {a \in Unsettled \cap DOMAIN records : records[a].state \in Journal!InFlight}

\* They are left only by a recovery that shut the manager down.
Aloft ==
    Flying # {} =>
        /\ pc \in Sending \cup Forcing \cup Marking \cup {"idle", "again", "disable", "unload"}
        /\ pc \in Sending \/ securityFault
        /\ pc \in Marking => ctx.then \in {"idle", "unload"}
        /\ pc \in Forcing =>
              IF ctx.attempt = 0 THEN ctx.then = "idle" ELSE Flying \subseteq {ctx.attempt}

\* How many records a manager that was shut down may still add: the marker of the call
\* in progress, and one for every reload, which takes a consent that is withdrawn.
Bit(b) == IF b THEN 1 ELSE 0
MarkerDue ==
    \/ pc \in Sending \cup {"again", "markCreate", "disable"}
    \/ pc \in Forcing /\ (ctx.then = "again" \/ ctx.attempt = 0)
Slots == Bit(reloading) + Bit(gate.ordering) + Bit(gate.checkout)
Newer(a) == {b \in DOMAIN records : b > a}

Room ==
    \/ HasFault(records)
    \/ \A a \in Flying :
          /\ Journal!UnresolvedManualChecks = {}
          /\ Cardinality(Newer(a)) + Bit(MarkerDue) + Slots <= 3

Sound == Files /\ Watch /\ Calm /\ Focus /\ Unused /\ Answered /\ Aloft /\ Room

(***************************************************************************)
(* What a step may send and conclude.                                      *)
(***************************************************************************)
\* The await each action goes on from.
LEMMA Guards ==
    /\ CreateAttempt => pc = "create"
    /\ AssertAuthority => pc = "assert"
    /\ RecordUnsent => pc = "unsent"
    /\ FailLocally => pc = "localFail"
    /\ Submit => pc = "submit"
    /\ Reply => pc = "reply"
    /\ RecordAnswer => pc = "terminal"
    /\ BumpAfterAnswer => pc = "finalBump"
    /\ RecordRejection => pc = "rejected"
    /\ BumpAfterRejection => pc = "rejectedBump"
    /\ LearnFromAmbiguous => pc = "ambiguous"
    /\ LearnFromAnswer => pc = "learn"
    /\ PersistenceFault => pc = "persistence"
    /\ RecoverRecord => pc = "recover"
    /\ RecoverLatch => pc = "recoverLatch"
    /\ ForceAgain => pc = "again"
    /\ ForceLatch => pc = "force"
    /\ MarkAttempt => pc = "markAttempt"
    /\ MarkCreate => pc = "markCreate"
    /\ MarkFault => pc = "markFault"
    /\ DisableBump => pc = "disable"
    /\ InspectionAnswer => pc = "inspect"
    /\ Reconcile => pc = "reconcile"
    /\ InspectionBind => pc = "inspectBind"
    /\ InspectionBump => pc = "inspectBump"
    /\ InspectionClear => pc = "inspectClear"
    /\ InspectionFault => pc = "inspectFault"
    /\ ClearAgain => pc = "clearAgain"
    /\ Review => pc = "review"
    /\ ReviewBind => pc = "reviewBind"
    /\ ResolveBump => pc = "resolveBump"
    /\ ResolveRecord => pc = "resolve"
    /\ ResolveBind => pc = "resolveBind"
    /\ ResolveClear => pc = "clear"
    /\ LoadState => pc = "loadState"
    /\ LoadStateAgain => pc = "loadStateAgain"
    /\ LoadPreparations => pc = "preparations"
    /\ LoadAttempts => pc = "loadJournal"
    /\ CheckSources => pc = "sources"
    /\ CheckUnresolved => pc = "unresolved"
    /\ StartLatch => pc = "startLatch"
    /\ Finish => pc = "finish"
    /\ Unload => pc = "unload"
    /\ BeginCheckout => pc = "idle"
    /\ Disable => pc = "idle"
    /\ BeginInspection => pc = "idle"
    /\ PrepareResolution => pc = "idle"
    /\ LoseChallenge => pc = "idle"
    /\ BeginResolution => pc = "idle"
    /\ BeginReload => pc = "idle"
    /\ AdvanceAttempt => pc \in {"quoted", "reserved", "dispatching"}
    /\ Start => up = "down"
    /\ PreparationWrites => pc \notin CheckoutSteps
<1>1. /\ CreateAttempt => pc = "create"
      /\ AdvanceAttempt => pc \in {"quoted", "reserved", "dispatching"}
      /\ AssertAuthority => pc = "assert"
      /\ RecordUnsent => pc = "unsent"
      /\ FailLocally => pc = "localFail"
      /\ Submit => pc = "submit"
      /\ Reply => pc = "reply"
      /\ RecordAnswer => pc = "terminal"
      /\ BumpAfterAnswer => pc = "finalBump"
      /\ RecordRejection => pc = "rejected"
      /\ BumpAfterRejection => pc = "rejectedBump"
      /\ LearnFromAmbiguous => pc = "ambiguous"
      /\ LearnFromAnswer => pc = "learn"
      /\ PersistenceFault => pc = "persistence"
      /\ RecoverRecord => pc = "recover"
      /\ RecoverLatch => pc = "recoverLatch"
      /\ ForceAgain => pc = "again"
  BY
     DEF CreateAttempt, AdvanceAttempt, AssertAuthority, RecordUnsent, FailLocally,
         Submit, Reply, RecordAnswer, BumpAfterAnswer, RecordRejection,
         BumpAfterRejection, LearnFromAmbiguous, LearnFromAnswer, PersistenceFault,
         RecoverRecord, RecoverLatch, ForceAgain
<1>2. /\ ForceLatch => pc = "force"
      /\ MarkAttempt => pc = "markAttempt"
      /\ MarkCreate => pc = "markCreate"
      /\ MarkFault => pc = "markFault"
  BY DEF ForceLatch, MarkAttempt, MarkCreate, MarkFault
<1>3. /\ DisableBump => pc = "disable"
      /\ InspectionAnswer => pc = "inspect"
      /\ Reconcile => pc = "reconcile"
      /\ InspectionBind => pc = "inspectBind"
      /\ InspectionBump => pc = "inspectBump"
      /\ InspectionClear => pc = "inspectClear"
      /\ InspectionFault => pc = "inspectFault"
      /\ ClearAgain => pc = "clearAgain"
      /\ Review => pc = "review"
      /\ ReviewBind => pc = "reviewBind"
      /\ ResolveBump => pc = "resolveBump"
      /\ ResolveRecord => pc = "resolve"
      /\ ResolveBind => pc = "resolveBind"
      /\ ResolveClear => pc = "clear"
  BY
     DEF DisableBump, InspectionAnswer, Reconcile, InspectionBind, InspectionBump,
         InspectionClear, InspectionFault, ClearAgain, Review, ReviewBind, ResolveBump,
         ResolveRecord, ResolveBind, ResolveClear
<1>4. /\ LoadState => pc = "loadState"
      /\ LoadStateAgain => pc = "loadStateAgain"
      /\ LoadPreparations => pc = "preparations"
      /\ LoadAttempts => pc = "loadJournal"
      /\ CheckSources => pc = "sources"
      /\ CheckUnresolved => pc = "unresolved"
      /\ StartLatch => pc = "startLatch"
      /\ Finish => pc = "finish"
      /\ Unload => pc = "unload"
  BY
     DEF LoadState, LoadStateAgain, LoadPreparations, LoadAttempts, CheckSources,
         CheckUnresolved, StartLatch, Finish, Unload
<1>5. /\ BeginCheckout => pc = "idle"
      /\ Disable => pc = "idle"
      /\ BeginInspection => pc = "idle"
      /\ PrepareResolution => pc = "idle"
      /\ LoseChallenge => pc = "idle"
      /\ BeginResolution => pc = "idle"
      /\ BeginReload => pc = "idle"
      /\ Start => up = "down"
      /\ PreparationWrites => pc \notin CheckoutSteps
  BY
     DEF BeginCheckout, Disable, BeginInspection, PrepareResolution, LoseChallenge,
         BeginResolution, BeginReload, Start, PreparationWrites
<1> QED
  BY SMTT(60), <1>1, <1>2, <1>3, <1>4, <1>5

\* The conclusions of a list are the conclusions of the calls that made it.
Settling == {"localFail", "terminal", "rejected", "reconcile", "resolve"}

\* What else a step may conclude, and what it may send.
LEMMA ReplacedConcludes ==
    ASSUME NEW c, NEW a, NEW s, Replaces(c, a, s)
    PROVE  Concluded(c) \subseteq
              Concluded(records) \cup (IF s \in Journal!Confirmed THEN {a} ELSE {})
  BY DEF Replaces, Concluded

\* A draft concludes nothing,
LEMMA AddedConcludes ==
    ASSUME NEW c, NEW a, NEW m, Adds(c, a, m)
    PROVE  Concluded(c) \subseteq Concluded(records)
<1>1. c[a].state = "DRAFT" /\ "DRAFT" \notin Journal!Confirmed
  BY DEF Adds, Journal!Draft, Journal!Confirmed
<1> QED
  BY <1>1 DEF Adds, Concluded

\* nor does what a restart makes of the file.
LEMMA LoadedConcludes ==
    ASSUME NEW c, Recovers(c)
    PROVE  Concluded(c) \subseteq Concluded(journal)
  BY DEF Recovers, Concluded, Journal!Confirmed, Journal!InFlight, Journal!Manual,
         Journal!LegacyMock

\* Conclusions only grow, by that of the call in progress.
LEMMA SettledGrows ==
    ASSUME Types, Control, Files, Next
    PROVE  /\ settled \subseteq settled'
           /\ settled' \subseteq settled \cup (IF pc \in Settling THEN {ctx.attempt} ELSE {})
           /\ Concluded(journal)' \subseteq settled'
<1>1. settled' = settled \cup Concluded(journal')
  BY DEF Next, Settle
<1>2. Concluded(journal) \subseteq settled /\ (Readable => Concluded(records) \subseteq settled)
  BY DEF Files, Holds
<1>3. CASE UNCHANGED journalVars \/ Unload \/ Crash
  <2>1. journal' = journal
    BY <1>3, EndOfProcess DEF journalVars
  <2> QED
    BY <1>1, <1>2, <2>1
<1>4. CASE Sets
  <2>1. PICK s, r : Due(s) /\ Moves(Subject, s, r)
    BY <1>4 DEF Sets
  <2>2. CASE journal' = journal
    BY <1>1, <1>2, <2>2
  <2>3. CASE journal' # journal
    <3>1. PICK c : Replaces(c, Subject, s) /\ Saves(c, r)
      BY <2>1, <2>3 DEF Moves, JournalStill
    <3>2. journal' = c /\ Readable
      BY <2>1, <2>3, <3>1 DEF Saves, Moves, JournalStill
    <3>3. s \in Journal!Confirmed => pc \in Settling /\ Subject = ctx.attempt
      BY <2>1, StateNames
         DEF Due, Settling, Subject, Target, Journal!Confirmed, Journal!Manual,
             Journal!Integrity
    <3> QED
      BY <1>1, <1>2, <3>1, <3>2, <3>3, ReplacedConcludes
  <2> QED
    BY <2>2, <2>3
<1>5. CASE Drafts
  <2>1. PICK a, m, r : Creates(a, m, r)
    BY <1>5 DEF Drafts
  <2>2. CASE journal' = journal
    BY <1>1, <1>2, <2>2
  <2>3. CASE journal' # journal
    <3>1. PICK c : Adds(c, a, m) /\ Saves(c, r)
      BY <2>1, <2>3 DEF Creates, JournalStill
    <3>2. journal' = c /\ Readable
      BY <2>1, <2>3, <3>1 DEF Saves, Creates, JournalStill
    <3> QED
      BY <1>1, <1>2, <3>1, <3>2, AddedConcludes
  <2> QED
    BY <2>2, <2>3
<1>6. CASE LoadAttempts
  <2>1. PICK r : Journal!LoadJournal(r)
    BY <1>6 DEF LoadAttempts
  <2>2. Loads(r)
    BY <2>1, LoadEffect DEF Types
  <2>3. journal' = journal \/ Recovers(journal')
    BY <2>2 DEF Loads
  <2> QED
    BY <1>1, <1>2, <2>3, LoadedConcludes
<1> QED
  BY <1>3, <1>4, <1>5, <1>6, JournalCalls

\* A POST leaves at its own step, where it leaves everything else alone, or with a crash
\* there.
LEMMA PostedGrows ==
    ASSUME Types, Control, Next
    PROVE  \/ posted' = posted
           \/ /\ pc = "submit" /\ posted' = posted \cup {ctx.attempt}
              /\ \/ Crash
                 \/ /\ Submit
                    /\ UNCHANGED <<stateVars, journalVars, flagVars, gate, reloading>>
                    /\ pc' = "reply" /\ ctx'.attempt = ctx.attempt
<1>1. CASE Submit
  <2>1. ctx \in Contexts
    BY DEF Types, Typed
  <2> QED
    BY <1>1, <2>1 DEF Submit, Goto, KeepFlags, restVars, environmentVars, Contexts
<1>2. CASE Crash
  BY SMTT(60), <1>2 DEF Crash
<1>3. CASE ~Submit /\ ~Crash
  BY ZenonT(60), <1>3
     DEF Next, Progress, Checkout, Faulting, Administration, Starting, Requested,
         Environment, CreateAttempt, AdvanceAttempt, AssertAuthority, RecordUnsent,
         FailLocally, Reply, RecordAnswer, BumpAfterAnswer, RecordRejection,
         BumpAfterRejection, LearnFromAmbiguous, LearnFromAnswer, PersistenceFault,
         RecoverRecord, RecoverLatch, ForceAgain, ForceLatch, MarkAttempt, MarkCreate,
         MarkFault, DisableBump, InspectionAnswer, Reconcile, InspectionBind,
         InspectionBump, InspectionClear, InspectionFault, ClearAgain, Review,
         ReviewBind, ResolveBump, ResolveRecord, ResolveBind, ResolveClear, LoadState,
         LoadStateAgain, LoadPreparations, LoadAttempts, CheckSources, CheckUnresolved,
         StartLatch, Finish, Unload, BeginCheckout, Disable, BeginInspection,
         PrepareResolution, LoseChallenge, BeginResolution, Withdraw, PreparationWrites,
         BeginReload, Start, restVars, environmentVars
<1> QED
  BY <1>1, <1>2, <1>3

\* Only these steps give anything else to attend to.
Raising == {"submit", "unsent", "ambiguous", "learn", "recover"}

\* Apart from a load, what needs attention grows by the attempt of the call in progress.
LEMMA AttentionGrows ==
    ASSUME Types, Control, Files, Next
    PROVE  \/ LoadAttempts
           \/ Attention' \subseteq Attention \cup (IF pc \in Raising THEN {ctx.attempt} ELSE {})
<1>1. Unsettled' \subseteq Unsettled \cup (IF pc \in Raising THEN {ctx.attempt} ELSE {})
  BY SettledGrows, PostedGrows DEF Unsettled, Raising
<1>2. LoadAttempts \/ Journal!UnresolvedManualChecks' \subseteq
         Journal!UnresolvedManualChecks \cup (IF pc \in Raising THEN {ctx.attempt} ELSE {})
  BY JournalCalls, EndOfProcess, RecordsChange DEF Journal!UnresolvedManualChecks, Raising
<1> QED
  BY <1>1, <1>2 DEF Attention

(***************************************************************************)
(* The two lists keep track of what was sent.                              *)
(***************************************************************************)
\* A list holds on when nothing is sent and it has what is newly concluded.
LEMMA HoldsOn ==
    ASSUME NEW f, DOMAIN f \subseteq Nat,
           NEW sent, NEW known, NEW latched, Holds(f, sent, known, latched),
           NEW later, NEW still, known \subseteq later, later \ known \subseteq DOMAIN f,
           latched => still
    PROVE  Holds(f, sent, later, still)
<1>1. \A a \in DOMAIN f : a <= a
  OBVIOUS
<1> QED
  BY <1>1 DEF Holds

\* A list in which an attempt went on holds all that the one before it did.
LEMMA HoldsReplaced ==
    ASSUME JournalOK, Holds(records, posted, settled, disk.integrity),
           NEW c, NEW a, NEW s, Replaces(c, a, s), s # Journal!LegacyMock,
           NEW known, known = settled \cup Concluded(c),
           NEW latched, disk.integrity => latched
    PROVE  Holds(c, posted, known, latched)
<1>1. records[a].state \notin Journal!Terminal
  BY AllowedFacts DEF Replaces
<1>2. HasFault(records) => HasFault(c)
  BY <1>1, StateNames DEF HasFault, Replaces
<1>3. ASSUME NEW b \in posted \ known, OpenIn(records, b), ~HasFault(c)
      PROVE  OpenIn(c, b)
  <2>1. CASE b # a
    BY <1>3, <2>1 DEF OpenIn, Replaces
  <2>2. CASE b = a
    <3>1. \/ s = "VERIFYING" \/ s = Journal!Manual \/ s = Journal!Integrity
          \/ s \in Journal!Confirmed
      BY <1>3, <2>2, AllowedFacts DEF OpenIn, Replaces, Journal!Terminal
    <3>2. s # Journal!Integrity
      BY <1>3 DEF HasFault, Replaces
    <3>3. s \notin Journal!Confirmed
      BY <1>3, <2>2 DEF Concluded, Replaces
    <3>4. "VERIFYING" \in Journal!InFlight
      BY DEF Journal!InFlight
    <3> QED
      BY <1>3, <2>2, <3>1, <3>2, <3>3, <3>4 DEF OpenIn, Replaces
  <2> QED
    BY <2>1, <2>2
<1>4. \A b \in posted \cup known : \E d \in DOMAIN c : b <= d
  <2>1. DOMAIN c = DOMAIN records /\ DOMAIN c \subseteq Nat
    BY ListFacts DEF Replaces
  <2>2. Concluded(c) \subseteq DOMAIN c /\ \A d \in DOMAIN c : d <= d
    BY <2>1 DEF Concluded
  <2> QED
    BY <2>1, <2>2 DEF Holds
<1> QED
  BY <1>2, <1>3, <1>4 DEF Holds

\* So does one with a draft, if what the draft pushes out is not needed.
LEMMA HoldsAdded ==
    ASSUME JournalOK, Holds(records, posted, settled, disk.integrity),
           NEW c, NEW a \in Nat, NEW m, Adds(c, a, m), \A b \in DOMAIN records : b < a,
           \/ HasFault(records)
           \/ \A b \in Unsettled : OpenIn(records, b) => b \in DOMAIN c,
           NEW latched, disk.integrity => latched, posted \cup settled \subseteq Nat
    PROVE  Holds(c, posted, settled, latched)
<1>1. HasFault(records) => HasFault(c)
  BY DEF HasFault, Adds, Journal!Protected
<1>2. \A b \in posted \ settled : OpenIn(records, b) /\ b \in DOMAIN c => OpenIn(c, b)
  BY DEF OpenIn, Adds
<1>3. \A b \in posted \cup settled : \E d \in DOMAIN c : b <= d
  <2> SUFFICES ASSUME NEW b \in posted \cup settled
               PROVE  \E d \in DOMAIN c : b <= d
    OBVIOUS
  <2>1. PICK d \in DOMAIN records : b <= d
    BY DEF Holds
  <2>2. d \in Nat /\ d < a
    BY ListFacts
  <2>3. b <= a
    BY <2>1, <2>2
  <2>4. a \in DOMAIN c
    BY DEF Adds
  <2> QED
    BY <2>1, <2>2, <2>3, <2>4
<1>4. Concluded(c) \subseteq settled
  BY AddedConcludes DEF Holds
<1> QED
  BY <1>1, <1>2, <1>3, <1>4 DEF Holds, Unsettled

\* So does the list that a restart makes of the file.
LEMMA HoldsLoaded ==
    ASSUME JournalOK, Holds(journal, posted, settled, disk.integrity),
           NEW c, Recovers(c), NEW latched, disk.integrity => latched
    PROVE  Holds(c, posted, settled, latched)
<1>1. HasFault(journal) => HasFault(c)
  BY StateNames DEF HasFault, Recovers
<1>2. \A b \in posted \ settled : OpenIn(journal, b) => OpenIn(c, b)
  BY DEF OpenIn, Recovers
<1>3. Concluded(c) \subseteq settled
  BY LoadedConcludes DEF Holds
<1> QED
  BY <1>1, <1>2, <1>3 DEF Holds, Recovers

\* A record that flies is not pushed out: with the markers the call in progress and the
\* remaining reloads may add the list has at most three others.
LEMMA RoomKeepsFlying ==
    ASSUME Types, Room, MarkerDue, NEW c, NEW a, NEW m, Adds(c, a, m), NEW b \in Unsettled,
           OpenIn(records, b), ~HasFault(records)
    PROVE  b \in DOMAIN c
<1> SUFFICES ASSUME b \notin DOMAIN c
             PROVE  FALSE
  OBVIOUS
<1>1. /\ b \in DOMAIN records
      /\ ~Journal!Protected(records[b])
      /\ \A d \in DOMAIN records : ~Journal!Protected(records[d]) => b <= d
      /\ Cardinality(DOMAIN records) = MaxRecords
  BY DEF OpenIn, Adds
<1>2. b \in Flying
  BY <1>1 DEF OpenIn, Flying, Journal!Protected
<1>3. /\ Journal!UnresolvedManualChecks = {}
      /\ Cardinality(Newer(b)) + Bit(MarkerDue) + Slots <= 3
  BY <1>2 DEF Room
<1>4. \A d \in DOMAIN records : ~Journal!Protected(records[d])
  BY <1>3 DEF Journal!Protected, Journal!UnresolvedManualChecks, HasFault
<1>5. DOMAIN records \subseteq Nat /\ IsFiniteSet(DOMAIN records)
  BY ListFacts DEF Types
<1>6. DOMAIN records \subseteq Newer(b) \cup {b}
  BY <1>1, <1>4, <1>5 DEF Newer
<1>7. IsFiniteSet(Newer(b)) /\ b \notin Newer(b)
  BY <1>1, <1>5, FS_Subset DEF Newer
<1>8. /\ IsFiniteSet(Newer(b) \cup {b})
      /\ Cardinality(Newer(b) \cup {b}) = Cardinality(Newer(b)) + 1
  BY <1>7, FS_AddElement
<1>9. Cardinality(DOMAIN records) <= Cardinality(Newer(b)) + 1
  BY <1>6, <1>8, FS_Subset
<1>10. Cardinality(Newer(b)) \in Nat /\ Bit(MarkerDue) = 1 /\ Slots \in Nat
  <2>1. Cardinality(Newer(b)) \in Nat
    BY <1>7, FS_CardinalityType
  <2>2. \A x : Bit(x) \in {0, 1}
    BY DEF Bit
  <2> QED
    BY <2>1, <2>2 DEF Slots, Bit
<1>11. MaxRecords <= Cardinality(Newer(b)) + 1 /\ MaxRecords \in Nat /\ MaxRecords >= 4
  BY <1>1, <1>9, Constants
<1>12. Cardinality(Newer(b)) + 1 + Slots <= 3
  BY <1>3, <1>10
<1> QED
  BY <1>10, <1>11, <1>12

\* The files after a step.
FilesNext ==
    /\ Holds(journal', posted', settled', disk'.integrity)
    /\ Readable' => Holds(records', posted', settled', disk'.integrity)

\* When the POST leaves, its record is open on file and in memory.
LEMMA FilesAtPost ==
    ASSUME Types, Control, Recorded, Files, Next, pc = "submit", posted' # posted
    PROVE  FilesNext
<1>1. /\ posted' = posted \cup {ctx.attempt}
      /\ Crash \/ (Submit /\ UNCHANGED stateVars /\ UNCHANGED journalVars)
  BY PostedGrows
<1>2. /\ journal = records /\ ctx.attempt \in DOMAIN journal
      /\ OpenIn(journal, ctx.attempt)
  BY StateNames
     DEF Control, Drafting, Recorded, Drafted, Preparing, OpenIn
<1>3. settled' = settled
  BY SettledGrows DEF Settling
<1>4. ctx.attempt <= ctx.attempt
  BY <1>2, ListFacts DEF Types
<1>5. Holds(journal, posted', settled', disk.integrity)
  BY <1>1, <1>2, <1>3, <1>4 DEF Files, Holds
<1>6. CASE Crash
  BY <1>5, <1>6, EndOfProcess DEF FilesNext, Readable
<1>7. CASE UNCHANGED stateVars /\ UNCHANGED journalVars
  BY <1>2, <1>5, <1>7 DEF FilesNext, Readable, stateVars, journalVars
<1> QED
  BY <1>1, <1>6, <1>7

\* Every step keeps track of what was sent, in the file and in memory.
LEMMA FilesKept ==
    ASSUME Types, Control, Types', Recorded, Files, Calm, Room, Next
    PROVE  FilesNext
<1>0. /\ posted' = posted \/ (pc = "submit" /\ posted' # posted)
      /\ disk.integrity => disk'.integrity
      /\ settled \subseteq settled' /\ settled' = settled \cup Concluded(journal')
      /\ posted \cup settled \subseteq Nat
      /\ DOMAIN records \subseteq Nat /\ DOMAIN journal \subseteq Nat
  <2>1. disk.integrity => disk'.integrity
    BY StateCalls, EndOfProcess, LoadStateEffect
       DEF StateKeeps, LoadState, LoadStateAgain, Types
  <2> QED
    BY <2>1, PostedGrows, SettledGrows, ListFacts DEF Types, Typed, Next, Settle
<1>1. CASE posted' # posted
  BY <1>0, <1>1, FilesAtPost
<1>2. CASE posted' = posted /\ (UNCHANGED journalVars \/ Unload \/ Crash)
  <2>1. journal' = journal /\ (Readable' => records' = records /\ Readable)
    BY <1>2, EndOfProcess DEF journalVars, Readable
  <2>2. settled' = settled
    BY <1>0, <2>1 DEF Files, Holds
  <2> QED
    BY <1>0, <1>2, <2>1, <2>2 DEF FilesNext, Files, Holds
<1>3. CASE posted' = posted /\ Sets
  <2>1. PICK s, r : Due(s) /\ Moves(Subject, s, r)
    BY <1>3 DEF Sets
  <2>2. Readable' = Readable
    BY <2>1 DEF Moves, JournalKeeps, Readable
  <2>3. CASE JournalStill
    <3>1. settled' = settled
      BY <1>0, <2>3 DEF Files, Holds, JournalStill
    <3> QED
      BY <1>0, <1>3, <2>2, <2>3, <3>1 DEF FilesNext, Files, Holds, JournalStill
  <2>4. CASE ~JournalStill
    <3>1. PICK c : Replaces(c, Subject, s) /\ Saves(c, r)
      BY <2>1, <2>4 DEF Moves
    <3>2. Readable /\ journal' = c /\ records' \in {c, records}
      BY <2>1, <2>4, <3>1 DEF Moves, Saves
    <3>3. s # Journal!LegacyMock
      BY <2>1
         DEF Due, Target, Journal!LegacyMock, Journal!Manual, Journal!Confirmed,
             Journal!Integrity
    <3>4. settled' = settled \cup Concluded(c)
      BY <1>0, <3>2
    <3>5. Holds(c, posted, settled', disk'.integrity)
      BY <1>0, <3>1, <3>2, <3>3, <3>4, HoldsReplaced DEF Files, Types
    <3>6. settled' \ settled \subseteq DOMAIN records
      BY <3>1, <3>4 DEF Concluded, Replaces
    <3>7. Holds(records, posted, settled', disk'.integrity)
      BY <1>0, <3>2, <3>6, HoldsOn DEF Files
    <3> QED
      BY <1>3, <3>2, <3>5, <3>7 DEF FilesNext
  <2> QED
    BY <2>3, <2>4
<1>4. CASE posted' = posted /\ Drafts
  <2>1. PICK a, m, r : /\ Creates(a, m, r) /\ a = NewAttempt
                       /\ pc \in {"create", "markCreate"}
    BY <1>4 DEF Drafts, Control, Drafting
  <2>2. Readable' = Readable
    BY <2>1 DEF Creates, JournalKeeps, Readable
  <2>3. CASE JournalStill
    <3>1. settled' = settled
      BY <1>0, <2>3 DEF Files, Holds, JournalStill
    <3> QED
      BY <1>0, <1>4, <2>2, <2>3, <3>1 DEF FilesNext, Files, Holds, JournalStill
  <2>4. CASE ~JournalStill
    <3>1. PICK c : Adds(c, a, m) /\ Saves(c, r)
      BY <2>1, <2>4 DEF Creates
    <3>2. Readable /\ journal' = c /\ records' \in {c, records}
      BY <2>1, <2>4, <3>1 DEF Creates, Saves
    <3>3. a \in Nat /\ \A b \in DOMAIN records : b < a
      BY <2>1, NewAttemptIsNew DEF Types, Typed, Seen
    <3>4. \/ HasFault(records)
          \/ \A b \in Unsettled : OpenIn(records, b) => b \in DOMAIN c
      <4>1. CASE pc = "create"
        BY <4>1 DEF Calm, Quiet, Preparing, Attention
      <4>2. CASE pc = "markCreate"
        BY <3>1, <4>2, RoomKeepsFlying DEF MarkerDue
      <4> QED
        BY <2>1, <4>1, <4>2
    <3>5. Holds(c, posted, settled, disk'.integrity)
      BY <1>0, <3>1, <3>2, <3>3, <3>4, HoldsAdded DEF Files, Types
    <3>6. settled' = settled
      BY <1>0, <3>2, <3>5 DEF Holds
    <3>7. Holds(records, posted, settled', disk'.integrity)
      BY <1>0, <3>2, <3>6, HoldsOn DEF Files
    <3> QED
      BY <1>4, <3>2, <3>5, <3>6, <3>7 DEF FilesNext
  <2> QED
    BY <2>3, <2>4
<1>5. CASE posted' = posted /\ LoadAttempts
  <2>1. PICK r : Journal!LoadJournal(r)
    BY <1>5 DEF LoadAttempts
  <2>2. Loads(r)
    BY <2>1, LoadEffect DEF Types
  <2>3. journal' = journal \/ Recovers(journal')
    BY <2>2 DEF Loads
  <2>4. Holds(journal', posted, settled, disk'.integrity)
    <3>1. CASE journal' = journal
      BY <1>0, <3>1, HoldsOn DEF Files
    <3>2. CASE Recovers(journal')
      <4>1. PICK c : c = journal' /\ Recovers(c)
        BY <3>2
      <4> QED
        BY <1>0, <4>1, HoldsLoaded DEF Files, Types
    <3> QED
      BY <2>3, <3>1, <3>2
  <2>5. settled' = settled
    BY <1>0, <2>4 DEF Holds
  <2>6. Readable' => \/ records' = journal'
                     \/ records' = records /\ Readable
    BY <2>2 DEF Loads, Readable
  <2>7. Readable => Holds(records, posted, settled, disk'.integrity)
    BY <1>0, HoldsOn DEF Files
  <2> QED
    BY <1>5, <2>4, <2>5, <2>6, <2>7 DEF FilesNext
<1> QED
  BY <1>0, <1>1, <1>2, <1>3, <1>4, <1>5, JournalCalls

\* That is the invariant after the step.
LEMMA FilesPrimed == FilesNext => Files'
  BY DEF FilesNext, Files, Holds, HasFault, OpenIn, Concluded

(***************************************************************************)
(* From the POST to the end of its recovery.                               *)
(***************************************************************************)
\* The steps from the POST to the end of its recovery.
LEMMA AtSending ==
    ASSUME Control, Next, pc \in Sending
    PROVE  \/ Reply \/ RecordAnswer \/ RecordRejection
           \/ LearnFromAmbiguous \/ LearnFromAnswer
           \/ RecoverRecord \/ RecoverLatch
           \/ Crash \/ Withdraw
<1>1. pc \in CheckoutSteps /\ up = "up"
  BY DEF Sending, CheckoutSteps, Control, Placed
<1>2. ~Start /\ ~PreparationWrites
  BY <1>1, Guards
<1>3. ~Requested /\ ~BeginReload /\ ~Faulting /\ ~Administration /\ ~Starting
  BY Where DEF Sending, Forcing, Marking, AdminSteps, StartSteps
<1>4. Checkout => \/ Reply \/ RecordAnswer \/ RecordRejection
                 \/ LearnFromAmbiguous \/ LearnFromAnswer
                 \/ RecoverRecord \/ RecoverLatch
  BY Guards DEF Checkout, Sending
<1> QED
  BY <1>2, <1>3, <1>4 DEF Next, Progress, Environment

\* The recovery goes on with the attempt it was called for.
LEMMA RecoverSends ==
    ASSUME JournalOK', NEW a, NEW t, Recover(a, t)
    PROVE  /\ ctx'.attempt = a
           /\ \/ pc' \in Sending /\ Answered'
              \/ pc' = "force" /\ securityFault'
<1>1. /\ ctx'.attempt = a
      /\ \/ pc' = "force" /\ securityFault'
         \/ pc' = "recover"
         \/ pc' = "recoverLatch" /\ records'[a].state = Journal!Manual
  BY RecoverGoes
<1> QED
  BY <1>1, StateNames DEF Answered, Sending

\* The call stays with its attempt, reaches the durable conclusion of it, names it in
\* both images of the safety state, or shuts the manager down for it.
LEMMA SendingGoes ==
    ASSUME Undisturbed, Types, Types', Control, Files, Answered, Next,
           pc \in Sending, ~Withdraw, ~Crash
    PROVE  \/ pc' \in Sending /\ ctx'.attempt = ctx.attempt /\ Answered'
           \/ pc' = "force" /\ securityFault' /\ ctx'.attempt = ctx.attempt
           \/ /\ pc' \in {"finalBump", "rejectedBump"} /\ ctx.attempt \in Concluded(journal')
              /\ securityFault' = securityFault /\ records' = journal'
           \/ /\ pc = "recoverLatch" /\ ctx.saved /\ UNCHANGED journalVars
              /\ pc' \in {"idle", "again"} /\ NamedNext(ctx.attempt)
<1> USE DEF Types
<1>0. ctx \in Contexts
  BY DEF Typed
<1>1. CASE Reply
  <2>1. CASE Recover(ctx.attempt, "idle")
    BY <2>1, RecoverSends
  <2>2. CASE ~Recover(ctx.attempt, "idle")
    <3>1. /\ pc = "reply" /\ UNCHANGED journalVars
          /\ pc' \in {"terminal", "rejected", "ambiguous"}
          /\ \/ ctx' = ctx
             \/ \E s : ctx' = [ctx EXCEPT !.succeeded = s, !.learned = TRUE]
             \/ ctx' = [ctx EXCEPT !.learned = TRUE]
      BY <1>1, <2>2 DEF Reply, Goto, Continue
    <3>2. ctx'.attempt = ctx.attempt
      BY <1>0, <3>1 DEF Contexts
    <3>3. Answered'
      BY <3>1, <3>2 DEF Answered, Readable, journalVars
    <3> QED
      BY ZenonT(60), <3>1, <3>2, <3>3 DEF Sending
  <2> QED
    BY <2>1, <2>2
<1>2. CASE RecordAnswer
  <2>1. PICK r : /\ Journal!RecordTerminal(ctx.attempt, ctx.revision, ctx.succeeded, TRUE, r)
                 /\ CASE r = "ok"         -> Goto("finalBump", ctx) /\ ClearChallenge
                      [] r \in Raised    -> /\ Goto("learn", [ctx EXCEPT !.then = "again"])
                                            /\ KeepFlags
                      [] r = "cancelled" -> Continue("learn")
    BY <1>2 DEF RecordAnswer
  <2>2. r \in Ends
    BY <2>1, JournalEnds
  <2>3. CASE r # "ok"
    <3>1. r \in Raised \/ r = "cancelled"
      BY <2>2, <2>3 DEF Ends, Raised
    <3>2. pc' = "learn" /\ (ctx' = ctx \/ ctx' = [ctx EXCEPT !.then = "again"])
      BY <2>1, <2>3, <3>1 DEF Goto, Continue, Raised
    <3>3. ctx'.attempt = ctx.attempt
      BY <1>0, <3>2 DEF Contexts
    <3> QED
      BY <3>2, <3>3 DEF Sending, Answered
  <2>4. CASE r = "ok"
    <3>1. Moves(ctx.attempt, Journal!Outcome(ctx.succeeded), "ok")
      BY ZenonT(60), <1>0, <2>1, <2>4, RecordTerminalEffect DEF Contexts
    <3>2. PICK c : Replaces(c, ctx.attempt, Journal!Outcome(ctx.succeeded)) /\ Saves(c, "ok")
      BY <3>1 DEF Moves
    <3>3. ctx.attempt \in Concluded(journal') /\ records' = journal'
      BY <3>2, OutcomeFacts DEF Replaces, Saves, Concluded
    <3>4. pc' = "finalBump" /\ securityFault' = securityFault
      BY <2>1, <2>4 DEF Goto, ClearChallenge, Raised
    <3> QED
      BY <3>3, <3>4
  <2> QED
    BY <2>3, <2>4
<1>3. CASE RecordRejection
  <2>1. PICK r \in Results :
           /\ Journal!RecordTerminal(ctx.attempt, records[ctx.attempt].revision,
                                     FALSE, FALSE, r)
           /\ IF r = "ok" THEN Goto("rejectedBump", ctx) /\ ClearChallenge ELSE Done
    BY <1>3 DEF RecordRejection
  <2>2. pc = "rejected"
    BY <1>3 DEF RecordRejection
  <2>3. r \in {"ok", "refused"}
    BY <2>2 DEF Results, Undisturbed
  <2>4. r # "refused" /\ Moves(ctx.attempt, Journal!Outcome(FALSE), r)
    BY <2>1, <2>2, RecordTerminalEffect DEF Answered
  <2>5. PICK c : Replaces(c, ctx.attempt, Journal!Outcome(FALSE)) /\ Saves(c, "ok")
    BY <2>3, <2>4 DEF Moves
  <2>6. ctx.attempt \in Concluded(journal') /\ records' = journal'
    BY <2>5, OutcomeFacts DEF Replaces, Saves, Concluded
  <2>7. pc' = "rejectedBump" /\ securityFault' = securityFault
    BY <2>1, <2>3, <2>4 DEF Goto, ClearChallenge
  <2> QED
    BY <2>6, <2>7
<1>4. CASE LearnFromAmbiguous \/ LearnFromAnswer
  <2>1. pc \in {"ambiguous", "learn"}
    BY <1>4 DEF LearnFromAmbiguous, LearnFromAnswer
  <2>2. "cancelled" \notin Results
    BY <2>1 DEF Results, Undisturbed
  <2>3. \E t : Recover(ctx.attempt, t)
    BY <1>4, <2>2 DEF LearnFromAmbiguous, LearnFromAnswer
  <2> QED
    BY <2>3, RecoverSends
<1>5. CASE RecoverRecord
  <2>1. PICK r : /\ Journal!Transition(ctx.attempt, Journal!Manual, FALSE, r)
                 /\ Goto("recoverLatch", [ctx EXCEPT !.saved = (r = "ok")])
    BY <1>5 DEF RecoverRecord
  <2>2. Moves(ctx.attempt, Journal!Manual, r)
    BY <2>1, TransitionEffect
  <2>3. r = "ok" => records'[ctx.attempt].state = Journal!Manual
    BY <2>2 DEF Moves, Replaces, Saves
  <2>4. /\ pc' = "recoverLatch" /\ ctx'.attempt = ctx.attempt
        /\ ctx'.saved => r = "ok"
    BY ZenonT(60), <1>0, <2>1, ContextFields DEF Goto
  <2>5. Answered'
    BY <2>3, <2>4, StateNames DEF Answered
  <2> QED
    BY <2>4, <2>5 DEF Sending
<1>6. CASE RecoverLatch
  <2>1. PICK r : /\ State!LatchManualCheck(ctx.attempt, ctx.revision, r)
                 /\ IF r = "ok" /\ ctx.saved
                    THEN IF securityFault \/ snap'.integrity THEN Return ELSE Done
                    ELSE ForceFault(ctx.attempt, ctx.then)
    BY <1>6 DEF RecoverLatch
  <2>2. pc = "recoverLatch" /\ UNCHANGED journalVars
    BY <1>6 DEF RecoverLatch
  <2>3. CASE r = "ok" /\ ctx.saved
    <3>1. ctx.attempt \in Nat /\ ctx.revision \in Nat \ {0} /\ ctx.then \in {"idle", "again"}
      BY <1>0, <2>2 DEF Contexts, Control, Located, Returning, CheckoutSteps
    <3>2. NamedNext(ctx.attempt)
      BY <2>1, <2>3, <3>1, LatchManualCheckEffect DEF Names, NamedNext
    <3>3. pc' \in {"idle", "again"}
      BY <2>1, <2>3, <3>1 DEF Return, Done, Goto
    <3> QED
      BY <2>2, <2>3, <3>2, <3>3
  <2>4. CASE ~(r = "ok" /\ ctx.saved)
    <3>1. ForceFault(ctx.attempt, ctx.then)
      BY <2>1, <2>4
    <3> QED
      BY <3>1 DEF ForceFault, ShutDown, Goto, NoContext
  <2> QED
    BY <2>3, <2>4
<1> QED
  BY <1>1, <1>2, <1>3, <1>4, <1>5, <1>6, AtSending

\* The awaits that follow a POST, and the step to none of them.
Aftermath == Sending \cup {"finalBump", "rejectedBump", "persistence"}
Elsewhere == pc' \notin Aftermath /\ (pc' \in Marking => ctx'.then # "persistence")

\* However a method continues elsewhere, it is not at the aftermath of a POST.
LEMMA HelpersElsewhere ==
    ASSUME Types
    PROVE  /\ \A s \in Steps \ (Aftermath \cup Marking) : \A c : Goto(s, c) => Elsewhere
           /\ \A s \in Steps \ (Aftermath \cup Marking) :
                 Continue(s) \/ CheckedThen(s) => Elsewhere
           /\ Done \/ Abort => Elsewhere
           /\ ctx.then # "persistence" /\ (Return \/ WriteMarker \/ MarkerCancelled) =>
                 Elsewhere
           /\ \A a, t : ForceFault(a, t) => Elsewhere
           /\ \A t : t # "persistence" /\ MarkBumpFault(t) => Elsewhere
<1> USE DEF Elsewhere, Aftermath, Sending, Marking, Goto
<1>1. \A s \in Steps \ (Aftermath \cup Marking) : \A c : Goto(s, c) => Elsewhere
  OBVIOUS
<1>2. Done \/ Abort => Elsewhere
  BY DEF Done, Abort
<1>3. \A s \in Steps \ (Aftermath \cup Marking) : Continue(s) \/ CheckedThen(s) => Elsewhere
  <2>1. \A s \in Steps \ (Aftermath \cup Marking) : Continue(s) => Elsewhere
    BY DEF Continue
  <2>2. Continue("localFail") => Elsewhere
    BY DEF Continue
  <2> HIDE DEF Elsewhere, Aftermath, Sending, Marking, Goto
  <2> QED
    BY <1>2, <2>1, <2>2 DEF CheckedThen
<1>4. ctx.then # "persistence" /\ Return => Elsewhere
  BY DEF Return, Types, Typed, Contexts, Thens
<1>5. \A a, t : ForceFault(a, t) => Elsewhere
  BY DEF ForceFault
<1>6. \A t : t # "persistence" /\ MarkBumpFault(t) => Elsewhere
  <2>1. \A t : [ctx EXCEPT !.then = t].then = t
    BY DEF Types, Typed, Contexts
  <2> QED
    BY <2>1 DEF MarkBumpFault
<1>7. ctx.then # "persistence" /\ WriteMarker => Elsewhere
  <2>1. /\ ctx.then # "persistence" /\ Continue("markCreate") => Elsewhere
        /\ Continue("markAttempt") => Elsewhere
    BY DEF Continue
  <2> HIDE DEF Elsewhere, Aftermath, Sending, Marking, Goto
  <2> QED
    BY <1>4, <2>1 DEF WriteMarker
<1>8. ctx.then # "persistence" /\ MarkerCancelled => Elsewhere
  <2>1. ctx.forced \in BOOLEAN
    BY DEF Types, Typed, Contexts
  <2> HIDE DEF Elsewhere, Aftermath, Sending, Marking, Goto
  <2> QED
    BY <1>2, <1>4, <2>1 DEF MarkerCancelled
<1> QED
  BY <1>1, <1>2, <1>3, <1>4, <1>5, <1>6, <1>7, <1>8

\* Only these steps lead there.
LEMMA AftermathReached ==
    ASSUME Types, Control, Next, pc \notin Sending
    PROVE  \/ Elsewhere
           \/ Submit \/ BumpAfterAnswer \/ PersistenceFault
           \/ (MarkCreate \/ MarkFault) /\ ctx.then = "persistence"
           \/ Withdraw \/ PreparationWrites
<1>1. /\ \A s \in Steps \ (Aftermath \cup Marking) : \A c : Goto(s, c) => Elsewhere
      /\ \A s \in Steps \ (Aftermath \cup Marking) :
            Continue(s) \/ CheckedThen(s) => Elsewhere
      /\ Done \/ Abort => Elsewhere
      /\ ctx.then # "persistence" /\ (Return \/ WriteMarker \/ MarkerCancelled) => Elsewhere
      /\ \A a, t : ForceFault(a, t) => Elsewhere
      /\ \A t : t # "persistence" /\ MarkBumpFault(t) => Elsewhere
  BY HelpersElsewhere
<1>2. {"create", "quoted", "reserved", "dispatching", "assert", "submit", "unsent",
       "localFail", "again", "force", "markAttempt", "inspectFault", "disable",
       "inspect", "reconcile", "inspectBind", "inspectBump", "inspectClear",
       "review", "reviewBind", "resolveBump", "resolve", "resolveBind", "clear",
       "clearAgain", "loadState", "loadStateAgain", "preparations", "loadJournal",
       "sources", "unresolved", "startLatch", "finish", "unload", "idle"}
        \subseteq Steps \ (Aftermath \cup Marking)
  BY DEF Steps, CheckoutSteps, FaultSteps, AdminSteps, StartSteps, Aftermath, Sending,
         Marking
<1>3. pc = "quoted" \/ pc = "reserved" => Following[pc] \in {"reserved", "dispatching"}
  BY DEF Following
<1>4. pc \in Forcing \cup {"disable"} => ctx.then # "persistence"
  BY DEF Control, Returning, Placed, Forcing, Rejoining, Types, Typed
<1> USE <1>1, <1>2
<1>5. CreateAttempt => Elsewhere
  BY JournalEnds DEF CreateAttempt, Ends, Raised
<1>6. AdvanceAttempt => Elsewhere
  BY JournalEnds, <1>3 DEF AdvanceAttempt, Ends, Raised
<1>7. AssertAuthority => Elsewhere
  BY StateEnds DEF AssertAuthority, Ends, Raised
<1>8. RecordUnsent => Elsewhere
  BY JournalEnds DEF RecordUnsent, Ends, Raised
<1>9. FailLocally => Elsewhere
  BY JournalEnds DEF FailLocally, Ends, Raised
<1>10. BumpAfterRejection => Elsewhere
  BY StateEnds DEF BumpAfterRejection, Ends, Raised
<1>11. ForceAgain => Elsewhere
  BY StateEnds DEF ForceAgain, Ends, Raised
<1>12. ForceLatch => Elsewhere
  BY StateEnds, <1>4 DEF ForceLatch, Ends, Raised, Forcing
<1>13. MarkAttempt => Elsewhere
  BY JournalEnds, <1>4 DEF MarkAttempt, Ends, Raised, Forcing
<1>14. MarkCreate /\ ctx.then # "persistence" => Elsewhere
  <2>1. ctx.then # "persistence" /\ Goto("markFault", [ctx EXCEPT !.marker = NewAttempt])
           => Elsewhere
    BY DEF Types, Typed, Contexts, Goto, Elsewhere, Aftermath, Sending, Marking
  <2> QED
    BY <2>1, JournalEnds DEF MarkCreate, Ends, Raised
<1>15. MarkFault /\ ctx.then # "persistence" => Elsewhere
  BY JournalEnds DEF MarkFault, Ends, Raised
<1>16. DisableBump => Elsewhere
  BY StateEnds, <1>4 DEF DisableBump, Ends, Raised, Forcing
<1>17. InspectionAnswer => Elsewhere
  BY StateEnds DEF InspectionAnswer, Ends, Raised
<1>18. Reconcile => Elsewhere
  BY JournalEnds DEF Reconcile, Ends, Raised
<1>19. InspectionBind => Elsewhere
  BY StateEnds DEF InspectionBind, Ends, Raised
<1>20. InspectionBump => Elsewhere
  BY StateEnds DEF InspectionBump, Ends, Raised
<1>21. InspectionClear => Elsewhere
  BY StateEnds DEF InspectionClear, Ends, Raised
<1>22. InspectionFault => Elsewhere
  BY StateEnds DEF InspectionFault, Ends, Raised
<1>23. ClearAgain => Elsewhere
  BY StateEnds DEF ClearAgain, Ends, Raised
<1>24. Review => Elsewhere
  BY JournalEnds DEF Review, Ends, Raised
<1>25. ReviewBind => Elsewhere
  BY StateEnds DEF ReviewBind, Ends, Raised
<1>26. ResolveBump => Elsewhere
  BY StateEnds DEF ResolveBump, Ends, Raised
<1>27. ResolveRecord => Elsewhere
  BY JournalEnds DEF ResolveRecord, Ends, Raised
<1>28. ResolveBind => Elsewhere
  BY StateEnds DEF ResolveBind, Ends, Raised
<1>29. ResolveClear => Elsewhere
  BY StateEnds DEF ResolveClear, Ends, Raised
<1>30. LoadState => Elsewhere
  BY StateEnds DEF LoadState, Ends, Raised
<1>31. LoadStateAgain => Elsewhere
  BY StateEnds DEF LoadStateAgain, Ends, Raised
<1>32. LoadPreparations => Elsewhere
  BY StateEnds DEF LoadPreparations, Ends, Raised
<1>33. LoadAttempts => Elsewhere
  BY JournalEnds DEF LoadAttempts, Ends, Raised
<1>34. CheckSources => Elsewhere
  BY StateEnds DEF CheckSources, Ends, Raised
<1>35. CheckUnresolved => Elsewhere
  BY StateEnds DEF CheckUnresolved, Ends, Raised
<1>36. StartLatch => Elsewhere
  BY StateEnds DEF StartLatch, Ends, Raised
<1>37. Finish => Elsewhere
  <2>1. Goto("markCreate", [NoContext EXCEPT !.then = "finish", !.saved = TRUE]) => Elsewhere
    BY DEF Goto, NoContext, Elsewhere, Aftermath, Sending, Marking
  <2> QED
    BY <2>1 DEF Finish
<1>38. Unload => Elsewhere
  BY StateEnds DEF Unload, Lose
<1>39. BeginCheckout => Elsewhere
  BY StateEnds DEF BeginCheckout, Ends, Raised
<1>40. Disable => Elsewhere
  BY StateEnds DEF Disable, Ends, Raised
<1>41. BeginInspection => Elsewhere
  BY StateEnds DEF BeginInspection, Ends, Raised
<1>42. PrepareResolution => Elsewhere
  BY DEF PrepareResolution, Elsewhere, Aftermath, Sending, Marking
<1>43. LoseChallenge => Elsewhere
  BY DEF LoseChallenge, Elsewhere, Aftermath, Sending, Marking
<1>44. BeginResolution => Elsewhere
  BY StateEnds
     DEF BeginResolution, Ends, Raised, Goto, Elsewhere, Aftermath, Sending, Marking
<1>45. Crash => Elsewhere
  BY StateEnds DEF Crash, Lose
<1>46. BeginReload => Elsewhere
  BY StateEnds DEF BeginReload, Ends, Raised
<1>47. Start => Elsewhere
  BY StateEnds DEF Start, Ends, Raised
<1>48. Checkout => Elsewhere \/ Submit \/ BumpAfterAnswer \/ PersistenceFault
  BY Guards, <1>5, <1>6, <1>7, <1>8, <1>9, <1>10, <1>11
     DEF Checkout, Sending
<1>49. Faulting => Elsewhere \/ ((MarkCreate \/ MarkFault) /\ ctx.then = "persistence")
  BY <1>12, <1>13, <1>14, <1>15
     DEF Faulting
<1>50. Administration => Elsewhere
  BY <1>16, <1>17, <1>18, <1>19, <1>20, <1>21, <1>22, <1>23, <1>24, <1>25, <1>26, <1>27,
     <1>28, <1>29
     DEF Administration
<1>51. Starting => Elsewhere
  BY <1>30, <1>31, <1>32, <1>33, <1>34, <1>35, <1>36, <1>37, <1>38
     DEF Starting
<1>52. Requested => Elsewhere
  BY <1>39, <1>40, <1>41, <1>42, <1>43, <1>44
     DEF Requested
<1>53. Environment => Elsewhere \/ Withdraw \/ PreparationWrites
  BY <1>45
     DEF Environment
<1> QED
  BY <1>48, <1>49, <1>50, <1>51, <1>52, <1>53, <1>46, <1>47
     DEF Next, Progress

\* A call that begins to wait for its answer, or is recovered, keeps its attempt.
LEMMA SendsOn ==
    ASSUME Types, Types', Control, Recorded, FaultsKnown, Unused, Next,
           pc \notin Sending, pc' \in Sending
    PROVE  /\ \/ pc \in {"submit", "finalBump", "persistence"}
              \/ pc \in Marking /\ ctx.then = "persistence"
           /\ ctx'.attempt = ctx.attempt /\ Answered'
<1> USE DEF Types
<1>0. ctx \in Contexts
  BY DEF Typed
<1>1. CASE Submit
  <2>1. CASE Recover(ctx.attempt, "idle")
    BY <1>1, <2>1, RecoverSends DEF Submit, Sending
  <2>2. CASE ~Recover(ctx.attempt, "idle")
    <3>1. /\ pc = "submit" /\ pc' = "reply" /\ ctx'.attempt = ctx.attempt
          /\ UNCHANGED journalVars
      BY <1>0, <1>1, <2>2 DEF Submit, Goto, Contexts
    <3>2. Readable /\ ctx.attempt \in DOMAIN records
          /\ records[ctx.attempt].mode = "live" /\ records[ctx.attempt].state = "DISPATCHING"
      BY <3>1 DEF Recorded, Control, Drafting, Drafted, Preparing, Unused, FaultsKnown,
                  JournalRead, Placed, CheckoutSteps, Unread
    <3> QED
      BY <3>1, <3>2 DEF Answered, Readable, journalVars
  <2> QED
    BY <2>1, <2>2
<1>2. CASE BumpAfterAnswer
  <2>1. pc = "finalBump" /\ Recover(ctx.attempt, "idle")
    BY <1>2, StateEnds DEF BumpAfterAnswer, Ends, Raised, Done, MarkBumpFault, Goto, Sending
  <2> QED
    BY <2>1, RecoverSends DEF Sending
<1>3. CASE PersistenceFault
  BY <1>3, RecoverSends DEF PersistenceFault, Sending
<1>4. CASE (MarkCreate \/ MarkFault) /\ ctx.then = "persistence"
  <2>1. Return => pc' = "persistence"
    BY <1>4 DEF Return, Goto
  <2>2. MarkerCancelled => pc' = "persistence" \/ Recover(ctx.attempt, "idle")
    <3>1. ctx.forced \in BOOLEAN
      BY <1>0 DEF Contexts
    <3> QED
      BY <1>4, <2>1, <3>1 DEF MarkerCancelled
  <2>3. \/ pc' = "markFault" \/ pc' = "persistence" \/ Recover(ctx.attempt, "idle")
    BY <1>4, <2>1, <2>2, JournalEnds DEF MarkCreate, MarkFault, Ends, Raised, Goto
  <2>4. Recover(ctx.attempt, "idle")
    BY <2>3 DEF Sending
  <2> QED
    BY <1>4, <2>4, Guards, RecoverSends DEF Sending, Marking
<1>5. CASE Withdraw \/ PreparationWrites
  BY <1>5 DEF Withdraw, PreparationWrites, controlVars
<1> QED
  BY <1>1, <1>2, <1>3, <1>4, <1>5, AftermathReached DEF Elsewhere, Aftermath

(***************************************************************************)
(* One attempt at a time.                                                  *)
(***************************************************************************)
\* What happens beside the call in progress is nothing to it.
LEMMA BesideTheCall ==
    ASSUME Files, Next, Withdraw \/ PreparationWrites
    PROVE  /\ Attention' = Attention /\ posted' = posted /\ settled' = settled
           /\ UNCHANGED <<journalVars, controlVars>>
<1>1. UNCHANGED <<journalVars, controlVars>> /\ posted' = posted
  BY DEF Withdraw, PreparationWrites, restVars, environmentVars
<1>2. settled' = settled
  BY <1>1 DEF Next, Settle, Files, Holds, journalVars
<1> QED
  BY <1>1, <1>2
     DEF Attention, Unsettled, Journal!UnresolvedManualChecks, journalVars

\* The steps that prepare a POST.
LEMMA PreparesOn ==
    ASSUME Types, Control, CreateAttempt \/ AdvanceAttempt \/ AssertAuthority, ~Away
    PROVE  /\ ctx' = ctx /\ securityFault' = securityFault
           /\ pc \in Preparing \ {"submit", "localFail"}
<1>1. /\ Continue("quoted") \/ Continue("localFail") \/ Continue("unsent") =>
            ctx' = ctx /\ securityFault' = securityFault
      /\ \A s : Continue(s) => ctx' = ctx /\ securityFault' = securityFault
      /\ Done => Away
      /\ \A a, t : ForceFault(a, t) => Away
  BY DEF Continue, Goto, KeepFlags, flagVars, Done, ForceFault, Away, Preparing
<1>2. \A s : CheckedThen(s) => Away \/ (ctx' = ctx /\ securityFault' = securityFault)
  BY <1>1 DEF CheckedThen
<1>3. pc \in Preparing \ {"submit", "localFail"}
  BY Guards DEF Preparing
<1> QED
  BY <1>1, <1>2, <1>3, JournalEnds, StateEnds
     DEF CreateAttempt, AdvanceAttempt, AssertAuthority, Ends, Raised

\* A checkout begins when nothing needs attention, and with a new attempt.
LEMMA BeginsCalm ==
    ASSUME Types, Files, Watch, BeginCheckout
    PROVE  /\ Attention = {} /\ ctx'.attempt \notin posted \cup settled
           /\ ~securityFault' /\ pc = "idle" /\ pc' = "create"
<1>1. /\ up = "up" /\ pc = "idle" /\ ~IntegrityFault /\ ~ManualCheckRequired
      /\ ctx' = [NoContext EXCEPT !.attempt = NewAttempt, !.generation = snap.generation]
      /\ securityFault' = securityFault /\ pc' = "create"
  BY DEF BeginCheckout, Guard, Goto, KeepFlags, flagVars
<1>2. \A b \in Attention : Names(b)
  BY <1>1 DEF Watch, Sending
<1>3. Attention = {}
  BY <1>1, <1>2 DEF ManualCheckRequired, Names
<1>4. ctx'.attempt = NewAttempt
  BY <1>1 DEF NoContext
<1>5. ASSUME NewAttempt \in posted \cup settled
      PROVE  FALSE
  <2>1. PICK b \in DOMAIN journal : NewAttempt <= b
    BY <1>5 DEF Files, Holds
  <2>2. b < NewAttempt /\ b \in Nat /\ NewAttempt \in Nat
    BY NewAttemptIsNew, ListFacts DEF Types, Typed, Seen
  <2> QED
    BY <2>1, <2>2
<1> QED
  BY <1>1, <1>3, <1>4, <1>5 DEF IntegrityFault

\* The attempt of a checkout stays unused until its POST.
LEMMA UnusedKept ==
    ASSUME Types, Control, Files, Watch, Unused, Next
    PROVE  Unused'
<1> SUFFICES ASSUME pc' \in Preparing \cup {"unsent"}
             PROVE  ctx'.attempt \notin posted' \cup settled' /\ ~securityFault'
  BY DEF Unused, Preparing
<1>1. ~Away
  BY DEF Away
<1>2. CASE BeginCheckout
  <2>1. posted' = posted /\ settled' = settled
    BY <1>2, BeginsCalm, PostedGrows, SettledGrows DEF Settling
  <2> QED
    BY <1>2, <2>1, BeginsCalm
<1>3. CASE CreateAttempt \/ AdvanceAttempt \/ AssertAuthority
  <2>1. ctx' = ctx /\ securityFault' = securityFault /\ pc \in Preparing \ {"submit", "localFail"}
    BY <1>1, <1>3, PreparesOn
  <2>2. posted' = posted /\ settled' = settled
    BY <2>1, PostedGrows, SettledGrows DEF Settling, Preparing
  <2> QED
    BY <2>1, <2>2 DEF Unused
<1>4. CASE Withdraw
  <2>1. pc' = pc /\ ctx' = ctx /\ securityFault' = securityFault
        /\ posted' = posted /\ settled' = settled
    BY <1>4, BesideTheCall DEF controlVars, flagVars
  <2> QED
    BY <2>1 DEF Unused
<1> QED
  BY <1>1, <1>2, <1>3, <1>4, LeavesDrafts

\* From the POST to the end of its recovery nothing else needs attention.
LEMMA FocusKept ==
    ASSUME Undisturbed, Types, Types', Control, Recorded, FaultsKnown, Files,
           Calm, Focus, Unused, Answered, Next
    PROVE  Focus'
<1> SUFFICES ASSUME pc' \in Sending
             PROVE  Attention' \subseteq {ctx'.attempt}
  BY DEF Focus, Sending
<1>1. CASE Withdraw \/ PreparationWrites
  BY <1>1, BesideTheCall DEF Focus, controlVars
<1>2. CASE pc \in Sending /\ ~(Withdraw \/ PreparationWrites)
  <2>1. ctx'.attempt = ctx.attempt
    BY <1>2, SendingGoes, EndOfProcess DEF Sending
  <2>2. ~LoadAttempts
    BY <1>2, Guards DEF Sending
  <2> QED
    BY <1>2, <2>1, <2>2, AttentionGrows DEF Focus
<1>3. CASE pc \notin Sending /\ ~(Withdraw \/ PreparationWrites)
  <2>1. ctx'.attempt = ctx.attempt /\ Attention = {}
    BY <1>3, SendsOn DEF Calm, Quiet, Preparing
  <2>2. ~LoadAttempts
    BY <1>3, SendsOn, Guards DEF Marking
  <2> QED
    BY <2>1, <2>2, AttentionGrows
<1> QED
  BY <1>1, <1>2, <1>3

\* The record that waits for the answer to a POST is there to take it.
LEMMA AnsweredKept ==
    ASSUME Undisturbed, Types, Types', Control, Recorded, FaultsKnown, Files,
           Unused, Answered, Next
    PROVE  Answered'
<1>1. CASE Withdraw \/ PreparationWrites
  BY <1>1, BesideTheCall DEF Answered, controlVars, journalVars, Readable
<1>2. CASE pc' \notin Sending
  BY <1>2 DEF Answered, Sending
<1>3. CASE pc \in Sending /\ pc' \in Sending /\ ~(Withdraw \/ PreparationWrites)
  BY <1>3, SendingGoes, EndOfProcess DEF Sending
<1>4. CASE pc \notin Sending /\ pc' \in Sending
  BY <1>4, SendsOn
<1> QED
  BY <1>1, <1>2, <1>3, <1>4

\* A checkout begins, and ends well, with nothing that needs attention.
LEMMA CalmKept ==
    ASSUME Undisturbed, Types, Types', Control, Files, Watch,
           Calm, Focus, Answered, Next
    PROVE  Calm'
<1> SUFFICES ASSUME \/ pc' \in Quiet
                    \/ pc' \in Marking /\ ctx'.then = "persistence"
             PROVE  Attention' = {}
  BY DEF Calm, Quiet, Preparing, Marking
<1>0. ~Away \/ ~Elsewhere
  BY DEF Away, Elsewhere, Aftermath, Quiet
<1>1. CASE Withdraw \/ PreparationWrites
  BY <1>1, BesideTheCall DEF Calm, controlVars
<1>2. CASE pc \in Sending /\ ~(Withdraw \/ PreparationWrites)
  <2>1. /\ ctx.attempt \in Concluded(journal') /\ records' = journal'
        /\ pc \notin {"submit", "unsent"}
    BY <1>2, SendingGoes, EndOfProcess DEF Sending, Quiet, Preparing, Marking
  <2>2. ctx.attempt \in settled'
    BY <2>1 DEF Next, Settle
  <2>3. ctx.attempt \notin Attention'
    BY <2>1, <2>2, StateNames
       DEF Attention, Unsettled, Journal!UnresolvedManualChecks, Concluded
  <2>4. Attention' \subseteq {ctx.attempt}
    BY <1>2, AttentionGrows, Guards DEF Focus, Sending
  <2> QED
    BY <2>3, <2>4
<1>3. CASE pc \notin Sending /\ ~(Withdraw \/ PreparationWrites)
  <2>1. CASE BeginCheckout
    BY <2>1, BeginsCalm, AttentionGrows, Guards DEF Raising
  <2>2. CASE (CreateAttempt \/ AdvanceAttempt \/ AssertAuthority) /\ ~Away
    <3>1. pc \in Preparing \ {"submit", "localFail"}
      BY <2>2, PreparesOn
    <3> QED
      BY <3>1, AttentionGrows, Guards DEF Calm, Quiet, Preparing, Raising
  <2>3. CASE ~Elsewhere
    <3>1. CASE Submit
      <4>1. pc' \in Sending \cup {"force"}
        BY <3>1, RecoverGoes DEF Submit, Goto, Sending, Types
      <4> QED
        BY <4>1 DEF Sending, Quiet, Preparing, Marking
    <3>2. CASE BumpAfterAnswer \/ PersistenceFault
      BY <3>2, AttentionGrows, Guards DEF Calm, Quiet, Raising
    <3>3. CASE (MarkCreate \/ MarkFault) /\ ctx.then = "persistence"
      BY <3>3, AttentionGrows, Guards DEF Calm, Marking, Raising
    <3> QED
      BY <1>3, <2>3, <3>1, <3>2, <3>3, AftermathReached
  <2> QED
    BY <1>0, <1>3, <2>1, <2>2, <2>3, LeavesDrafts
<1> QED
  BY <1>1, <1>2, <1>3

(***************************************************************************)
(* A manager without a fault has named what needs attention.               *)
(***************************************************************************)
\* When start-up has checked its sources and knows of no fault, all that needs
\* attention is a record to be checked.
LEMMA OpenAtStart ==
    ASSUME Types, Control, FaultsKnown, StartUp, Files,
           pc \in {"unresolved", "startLatch"}, ~IntegrityFault
    PROVE  Attention = Journal!UnresolvedManualChecks
<1>1. up = "starting" /\ JournalRead /\ StateRead /\ ~securityFault
  BY DEF Control, Placed, StartSteps, JournalRead, StateRead, Unread, IntegrityFault
<1>2. Readable /\ ~HasFault(records) /\ ~disk.integrity
  BY <1>1 DEF FaultsKnown, SourceChecks, RepairSteps
<1>3. ASSUME NEW b \in Unsettled
      PROVE  b \in Journal!UnresolvedManualChecks
  <2>1. OpenIn(records, b)
    BY <1>2, <1>3 DEF Files, Holds, Unsettled
  <2>2. records[b].state \notin Journal!InFlight
    BY <1>1, <2>1 DEF StartUp, OpenIn
  <2> QED
    BY <2>1, <2>2 DEF OpenIn, Journal!UnresolvedManualChecks
<1> QED
  BY <1>3 DEF Attention

\* When start-up ends without a fault, what needs attention is named.
LEMMA StartsNamed ==
    ASSUME Types, Control, Types', FaultsKnown, StartUp, Files, Watch, Next,
           CheckUnresolved \/ StartLatch \/ Finish,
           up' = "up" \/ pc' = "finish", ~IntegrityFault'
    PROVE  \A b \in Attention' : Names(b)'
<1> USE DEF Types
<1>0. /\ Attention' \subseteq Attention
      /\ pc \in {"unresolved", "startLatch", "finish"} /\ up = "starting"
  BY AttentionGrows, Guards DEF Raising, Control, Placed, StartSteps
<1>1. CASE CheckUnresolved
  <2> DEFINE U == Journal!UnresolvedManualChecks
  <2>1. pc = "unresolved" /\ UNCHANGED stateVars
    BY <1>1 DEF CheckUnresolved
  <2>2. /\ pc' \in {"force", "startLatch", "finish"} /\ (pc' = "force" => securityFault')
        /\ (securityFault => securityFault') /\ up' = up
    BY <1>1, UnresolvedChecked
  <2>3. pc' = "finish" /\ ~securityFault'
    BY <1>0, <2>2 DEF IntegrityFault
  <2>4. ~IntegrityFault
    BY <2>1, <2>2, <2>3 DEF IntegrityFault, State!IntegrityFault, stateVars
  <2>5. Attention = U
    BY <2>1, <2>4, OpenAtStart
  <2>6. CASE U = {}
    BY <1>0, <2>5, <2>6
  <2>7. CASE U # {}
    <3> DEFINE a == CHOOSE b \in U : TRUE
    <3>1. a \in U
      BY <2>7
    <3>2. \A t, d : ForceFault(t, d) => securityFault'
      BY DEF ForceFault, ShutDown
    <3>3. ~(Cardinality(U) > 1)
      BY <1>1, <2>3, <3>2 DEF CheckUnresolved
    <3>4. U = {a}
      BY <3>1, <3>3, OneUnresolved
    <3>5. IF snap.manual = None
          THEN Goto("startLatch", [NoContext EXCEPT !.attempt = a,
                                                    !.revision = records[a].revision])
          ELSE IF BindingMatches(a) THEN TRUE ELSE ForceFault(a, "finish")
      BY <1>1, <2>3, <2>7, <3>2, <3>3, <2>4 DEF CheckUnresolved, IntegrityFault
    <3> HIDE DEF a, U
    <3>6. snap.manual # None /\ snap.manual.attempt = a
      BY <2>3, <3>2, <3>5 DEF Goto, BindingMatches
    <3>7. Names(a)
      BY <2>1, <2>4, <3>6 DEF StartUp
    <3> QED
      BY <1>0, <2>1, <2>5, <3>4, <3>7 DEF Names, stateVars
  <2> QED
    BY <2>6, <2>7
<1>2. CASE StartLatch
  <2>1. pc = "startLatch" /\ pc' = "finish" /\ NamedNext(ctx.attempt)
    BY <1>0, <1>2, LatchedAtStart, Guards DEF IntegrityFault
  <2>2. Journal!UnresolvedManualChecks = {ctx.attempt}
    BY <2>1 DEF StartUp
  <2>3. ~IntegrityFault
    <3>1. StateKeeps
      BY <1>2, LatchManualCheckEffect DEF StartLatch, Control, Located, Typed, Contexts
    <3>2. PICK r : CASE r = "ok"         -> Goto("finish", NoContext) /\ KeepFlags
                     [] r \in Raised    -> ForceFault(ctx.attempt, "finish")
                     [] r = "cancelled" -> Abort
      BY <1>2 DEF StartLatch
    <3>3. ~securityFault
      BY <2>1 DEF StartUp
    <3> QED
      BY <3>1, <3>3 DEF StateKeeps, IntegrityFault, State!IntegrityFault
  <2>4. Attention = {ctx.attempt}
    BY <2>1, <2>2, <2>3, OpenAtStart
  <2> QED
    BY <1>0, <2>1, <2>4 DEF Names, NamedNext
<1>3. CASE Finish
  <2>1. pc = "finish" /\ UNCHANGED stateVars
    BY <1>3 DEF Finish
  <2>2. securityFault => securityFault'
    BY <1>3 DEF Finish, ShutDown
  <2>3. ~IntegrityFault
    BY <2>1, <2>2 DEF IntegrityFault, State!IntegrityFault, stateVars
  <2>4. \A b \in Attention : Names(b)
    BY <2>1, <2>3 DEF Watch, Sending
  <2> QED
    BY <1>0, <2>1, <2>4 DEF Names, stateVars
<1> QED
  BY <1>1, <1>2, <1>3

\* A call of a running manager loses no name that it needs.
LEMMA NamesKept ==
    ASSUME Types, Types', Control, Conclusive, Files, Watch, Next,
           up = "up", up' = "up", pc # "unload", pc \notin Sending,
           ~IntegrityFault, ~IntegrityFault', Attention' \subseteq Attention
    PROVE  \A b \in Attention' : Names(b)'
<1> USE DEF Types
<1>1. \A b \in Attention : Names(b)
  BY DEF Watch
<1>2. ~LoadState /\ ~LoadStateAgain /\ ~StartLatch /\ ~Unload /\ ~Crash /\ ~RecoverLatch
  BY Guards, EndOfProcess DEF Control, Placed, StartSteps, Sending
<1>3. CASE StateStep
  BY <1>1, <1>3 DEF StateStep
<1>4. CASE InspectionClear \/ ClearAgain \/ ResolveClear
  <2>1. pc \in Concluding /\ pc \in AdminSteps \ {"disable"}
    BY <1>4, Guards DEF Concluding, AdminSteps
  <2>2. ctx.attempt \in Nat /\ ctx.revision \in Nat \ {0} /\ ctx.resolution \in State!Resolutions
    BY <1>4, <2>1, Guards DEF Control, Located, Typed, Contexts
  <2>3. \/ \A b : Names(b) => Names(b)'
        \/ Names(ctx.attempt)
    BY <1>4, <2>2, ClearManualCheckEffect DEF InspectionClear, ClearAgain, ResolveClear
  <2>4. CASE \A b : Names(b) => Names(b)'
    BY <1>1, <2>4
  <2>5. CASE Names(ctx.attempt)
    <3>1. /\ ctx.attempt \in DOMAIN records
          /\ records[ctx.attempt].state \in Journal!Confirmed
          /\ ctx.attempt \in Concluded(journal)
      BY <2>1 DEF Conclusive, Concluded, IntegrityFault
    <3>2. ctx.attempt \notin Attention
      BY <3>1, StateNames
         DEF Attention, Unsettled, Files, Holds, Journal!UnresolvedManualChecks
    <3>3. \A b \in Attention : b = ctx.attempt
      BY <1>1, <2>5 DEF Names
    <3> QED
      BY <3>2, <3>3
  <2> QED
    BY <2>3, <2>4, <2>5
<1> QED
  BY <1>2, <1>3, <1>4, StateCalls

\* A dispatch that was not sent is put on file in memory, too, or there is a fault.
LEMMA UnsentIsCalm ==
    ASSUME Types, Types', Control, Files, Calm, Next, RecordUnsent, ~securityFault'
    PROVE  Attention' = {}
<1>1. PICK r : /\ Journal!Transition(ctx.attempt, Journal!Manual, FALSE, r)
               /\ IF r = "cancelled" THEN Done ELSE ForceFault(0, "idle")
  BY DEF RecordUnsent
<1>2. r = "cancelled"
  BY <1>1 DEF ForceFault, ShutDown
<1>3. records' = records
  BY <1>1, <1>2, TransitionEffect DEF Moves, JournalStill, Saves, Types
<1>4. Unsettled' \subseteq Unsettled
  BY PostedGrows, SettledGrows, Guards DEF Unsettled
<1>5. Attention = {}
  BY Guards DEF Calm, Quiet
<1> QED
  BY <1>3, <1>4, <1>5 DEF Attention, Journal!UnresolvedManualChecks

\* Start-up does not end while it still reads.
LEMMA ReadingGoesOn ==
    ASSUME Types, Control,
           LoadState \/ LoadStateAgain \/ LoadPreparations \/ LoadAttempts \/ CheckSources
    PROVE  up' = "starting" /\ pc' # "finish"
<1>1. up = "starting"
  BY Guards DEF Control, Placed, StartSteps
<1>2. /\ \A s : Continue(s) => pc' = s /\ up' = up
      /\ Abort => pc' = "unload" /\ up' = up
      /\ \A a, t : ForceFault(a, t) => pc' = "force" /\ up' = up
  BY DEF Continue, Goto, KeepFlags, flagVars, Abort, ForceFault, ShutDown
<1>3. CASE LoadState
  <2>1. PICK r : /\ State!Load(r)
                 /\ CASE r = "ok"         -> Continue("preparations")
                      [] r \in Raised    -> Continue("loadStateAgain")
                      [] r = "cancelled" -> Abort
    BY <1>3 DEF LoadState
  <2>2. Continue("preparations") \/ Continue("loadStateAgain") \/ Abort
    BY <2>1, StateEnds DEF Ends, Raised
  <2> QED
    BY <1>1, <1>2, <2>2
<1>4. CASE LoadStateAgain
  BY <1>1, <1>2, <1>4, StateEnds DEF LoadStateAgain, Goto, ReadFlags, Ends, Raised
<1>5. CASE LoadPreparations
  BY <1>1, <1>5 DEF LoadPreparations, Goto, ReadFlags
<1>6. CASE LoadAttempts
  <2>1. PICK r : /\ Journal!LoadJournal(r)
                 /\ CASE r = "ok"         -> Continue("sources")
                      [] r \in Raised    -> ForceFault(0, "sources")
                      [] r = "cancelled" -> Abort
    BY <1>6 DEF LoadAttempts
  <2>2. Continue("sources") \/ ForceFault(0, "sources") \/ Abort
    BY <2>1, JournalEnds DEF Ends, Raised
  <2> QED
    BY <1>1, <1>2, <2>2
<1>7. CASE CheckSources
  BY <1>1, <1>2, <1>7 DEF CheckSources
<1> QED
  BY <1>3, <1>4, <1>5, <1>6, <1>7

\* An await that nothing but its own action, the end of the process and what runs beside
\* the call can leave.
LEMMA OnlyStep ==
    ASSUME Control, Next, ~Crash, ~Withdraw, ~PreparationWrites
    PROVE  /\ pc = "submit" => Submit
           /\ pc = "unsent" => RecordUnsent
           /\ pc = "unload" => Unload
<1>1. pc \in {"submit", "unsent", "unload"} => ~Start /\ ~Requested /\ ~BeginReload /\ ~Faulting
                                              /\ ~Administration
  BY Where DEF Control, Placed, Forcing, Marking, AdminSteps
<1>2. pc \in {"submit", "unsent"} => ~Starting
  BY Where DEF StartSteps
<1>3. pc = "unload" => ~Checkout
  BY Where DEF CheckoutSteps
<1>4. Checkout => (pc = "submit" => Submit) /\ (pc = "unsent" => RecordUnsent)
  BY Guards DEF Checkout
<1>5. Starting => (pc = "unload" => Unload)
  BY Guards DEF Starting
<1> QED
  BY <1>1, <1>2, <1>3, <1>4, <1>5 DEF Next, Progress, Environment

\* A manager without a fault keeps naming what needs attention.
LEMMA WatchKept ==
    ASSUME Undisturbed, Types, Types', Control, FaultsKnown, StartUp, Conclusive,
           Files, Watch, Calm, Focus, Answered, Next, Calm', Focus'
    PROVE  Watch'
<1> USE DEF Types
<1> SUFFICES ASSUME up' = "up" \/ pc' = "finish", pc' # "unload", ~IntegrityFault',
                    NEW b \in Attention'
             PROVE  Names(b)' \/ (pc' \in Sending /\ b = ctx'.attempt)
  BY DEF Watch, Sending
<1>1. CASE pc' \in Sending
  BY <1>1 DEF Focus, Sending
<1>2. CASE CheckUnresolved \/ StartLatch \/ Finish
  BY <1>2, StartsNamed
<1>3. CASE Withdraw \/ PreparationWrites
  <2>1. /\ Attention' = Attention /\ UNCHANGED controlVars
        /\ StateKeeps /\ \A a : Names(a) => Names(a)'
    BY <1>3, BesideTheCall, PreparationEffect, StateStays
       DEF Withdraw, PreparationWrites, StateStep
  <2>2. ~IntegrityFault /\ pc' = pc /\ up' = up /\ ctx' = ctx
    BY <2>1 DEF IntegrityFault, State!IntegrityFault, StateKeeps, controlVars, flagVars
  <2> QED
    BY <2>1, <2>2 DEF Watch
<1>4. CASE /\ ~(CheckUnresolved \/ StartLatch \/ Finish) /\ ~(Withdraw \/ PreparationWrites)
           /\ pc' \notin Sending
  <2>1. /\ up = "up" /\ up' = "up" /\ (securityFault => securityFault')
        /\ ~Crash /\ ~Unload /\ ~LoadState /\ ~LoadStateAgain /\ ~LoadAttempts
    <3>1. ~Crash /\ ~Unload /\ ~Start
      BY EndOfProcess DEF Start, Goto
    <3>2. ~LoadState /\ ~LoadStateAgain /\ ~LoadPreparations /\ ~LoadAttempts /\ ~CheckSources
      BY ReadingGoesOn
    <3>3. CASE Steady /\ up # "down"
      BY <3>1, <3>2, <3>3 DEF Steady, IntegrityFault, Typed
    <3>4. CASE LoseChallenge
      BY <3>1, <3>2, <3>4 DEF LoseChallenge
    <3> QED
      BY <1>4, <3>1, <3>2, <3>3, <3>4, MostAreSteady
  <2>2. StateKeeps
    BY <2>1, StateCalls DEF StateStep
  <2>3. ~IntegrityFault
    BY <2>1, <2>2 DEF IntegrityFault, State!IntegrityFault, StateKeeps
  <2>4. CASE pc \in Sending
    <3>1. \/ pc' \in {"finalBump", "rejectedBump"}
          \/ NamedNext(ctx.attempt) /\ pc = "recoverLatch"
      BY <1>4, <2>1, <2>4, SendingGoes DEF IntegrityFault
    <3>2. CASE pc' \in {"finalBump", "rejectedBump"}
      BY <3>2 DEF Calm, Quiet
    <3>3. CASE NamedNext(ctx.attempt) /\ pc = "recoverLatch"
      <4>1. Attention' \subseteq {ctx.attempt}
        BY <2>1, <2>4, <3>3, AttentionGrows DEF Focus
      <4> QED
        BY <3>3, <4>1 DEF NamedNext, Names
    <3> QED
      BY <3>1, <3>2, <3>3
  <2>5. CASE pc = "submit"
    <3>1. Submit
      BY <1>4, <2>1, <2>5, OnlyStep
    <3>2. pc' \in Sending \/ securityFault'
      BY <3>1, RecoverGoes DEF Submit, Goto, Sending
    <3> QED
      BY <1>4, <3>2 DEF IntegrityFault
  <2>6. CASE pc = "unsent"
    <3>1. RecordUnsent
      BY <1>4, <2>1, <2>6, OnlyStep
    <3> QED
      BY <3>1, UnsentIsCalm DEF IntegrityFault
  <2>7. CASE pc \notin Sending \cup {"submit", "unsent"}
    <3>1. Attention' \subseteq Attention
      BY <2>1, <2>7, AttentionGrows DEF Raising, Sending
    <3>2. pc # "unload"
      BY <1>4, <2>1, OnlyStep
    <3> QED
      BY <2>1, <2>3, <2>7, <3>1, <3>2, NamesKept
  <2> QED
    BY <2>4, <2>5, <2>6, <2>7
<1> QED
  BY <1>1, <1>2, <1>3, <1>4

(***************************************************************************)
(* What a manager that was shut down may still do to a sent attempt.       *)
(***************************************************************************)
\* No other attempt begins to fly while one does.
LEMMA FlyingGrows ==
    ASSUME Types, Types', Control, StartUp, StartUp', Files, Calm, Next
    PROVE  /\ Flying' \subseteq Flying \cup (IF pc = "submit" THEN {ctx.attempt} ELSE {})
           /\ pc = "submit" => Flying = {}
           /\ Flying' # {} => up' = "up" /\ ~Crash /\ ~Unload
           /\ Flying \subseteq Attention
<1>1. ASSUME Flying' # {}
      PROVE  up' = "up" /\ ~Crash /\ ~Unload
  <2>1. PICK a : a \in DOMAIN records' /\ records'[a].state \in Journal!InFlight
    BY <1>1 DEF Flying, Journal!InFlight
  <2>2. up' \in {"down", "starting", "up"}
    BY DEF Types, Typed
  <2>3. up' # "down"
    BY <2>1 DEF StartUp
  <2>4. up' # "starting"
    BY <2>1 DEF StartUp, Journal!InFlight
  <2> QED
    BY <2>2, <2>3, <2>4 DEF Crash, Unload, Lose
<1>2. Flying \subseteq Attention
  BY DEF Flying, Attention
<1>3. pc \in {"submit", "dispatching"} => Attention = {}
  BY DEF Calm, Quiet, Preparing
<1>4. Unsettled' \subseteq Unsettled \cup (IF pc = "submit" THEN {ctx.attempt} ELSE {})
  BY PostedGrows, SettledGrows DEF Unsettled
<1>5. ASSUME NEW a \in Flying', pc # "submit"
      PROVE  a \in Flying
  <2>1. up' = "up" /\ ~Crash /\ ~Unload
    BY <1>1, <1>5
  <2>2. ~LoadAttempts
    BY <2>1, ReadingGoesOn
  <2>3. a \in Unsettled /\ a \in DOMAIN records' /\ records'[a].state \in Journal!InFlight
    BY <1>4, <1>5 DEF Flying, Journal!InFlight
  <2>4. pc # "dispatching"
    BY <1>3, <2>3 DEF Attention
  <2>5. a \in DOMAIN records /\ records[a].state \in Journal!InFlight
    BY <2>1, <2>2, <2>3, <2>4, JournalCalls, RecordsChange
  <2> QED
    BY <2>3, <2>5 DEF Flying
<1>6. ASSUME NEW a \in Flying', pc = "submit"
      PROVE  a = ctx.attempt
  BY <1>3, <1>4, <1>6 DEF Flying, Attention
<1> QED
  BY <1>1, <1>2, <1>3, <1>5, <1>6

\* With a fault, a manager at rest does nothing but reload.
LEMMA AloftGoes ==
    ASSUME Types, Control, Aloft, Flying # {}, Next, up = "up", pc \notin Sending,
           ~Crash, ~Unload, ~Withdraw, ~PreparationWrites
    PROVE  \/ ForceLatch \/ MarkAttempt \/ MarkCreate \/ MarkFault
           \/ ForceAgain \/ DisableBump \/ BeginReload
           \/ LoseChallenge /\ pc = "idle"
<1>1. /\ pc \in Forcing \cup Marking \cup {"idle", "again", "disable", "unload"}
      /\ securityFault /\ IntegrityFault /\ ~enabledFlag
  BY DEF Aloft, Control, Placed, IntegrityFault
<1>2. ~BeginCheckout /\ ~Disable /\ ~BeginInspection /\ ~PrepareResolution /\ ~BeginResolution
  BY <1>1
     DEF BeginCheckout, Guard, Disable, BeginInspection, PrepareResolution, BeginResolution
<1>3. Checkout => ForceAgain
  BY <1>1, Guards DEF Checkout, Forcing, Marking
<1>4. Administration => DisableBump
  BY <1>1, Guards DEF Administration, Forcing, Marking
<1>5. Starting => Unload
  BY <1>1, Guards DEF Starting, Forcing, Marking
<1>6. Requested => LoseChallenge
  BY <1>2 DEF Requested
<1> QED
  BY <1>3, <1>4, <1>5, <1>6, Guards DEF Next, Progress, Faulting, Environment

\* Where the latch of a fault goes on while an attempt flies,
LEMMA AfterForcing ==
    ASSUME Types, Control, Aloft, Flying # {}, up = "up", ForceLatch \/ MarkAttempt
    PROVE  /\ securityFault'
           /\ \/ pc' = "idle"
              \/ pc' = "again" /\ ctx.then = "again"
              \/ pc' = "markCreate" /\ ctx' = ctx /\ ctx.then = "idle" /\ ctx.attempt = 0
              \/ pc' = "markAttempt" /\ ctx' = ctx
<1>1. /\ pc \in Forcing /\ securityFault /\ ctx.then \in {"idle", "again"}
      /\ IF ctx.attempt = 0 THEN ctx.then = "idle" ELSE Flying \subseteq {ctx.attempt}
  BY Guards DEF Forcing, Aloft, Sending, Control, Returning
<1>2. Return => securityFault' /\ pc' = ctx.then
  BY <1>1 DEF Return, Goto, KeepFlags, flagVars
<1>3. \A s : Continue(s) => securityFault' /\ pc' = s /\ ctx' = ctx
  BY <1>1 DEF Continue, Goto, KeepFlags, flagVars
<1>4. ctx.attempt # 0 =>
         /\ ctx.attempt \in DOMAIN records
         /\ records[ctx.attempt].state \notin Journal!Terminal \cup {Journal!Integrity}
  BY <1>1, StateNames DEF Flying
<1>5. \/ Return
      \/ ctx.attempt = 0 /\ Continue("markCreate")
      \/ Continue("markAttempt")
  BY <1>4 DEF ForceLatch, MarkAttempt, WriteMarker
<1> QED
  BY <1>1, <1>2, <1>3, <1>5

\* where its marker does,
LEMMA AfterMarking ==
    ASSUME Types, Control, Aloft, Flying # {}, up = "up", MarkCreate \/ MarkFault
    PROVE  /\ securityFault'
           /\ \/ pc' \in {"idle", "unload"}
              \/ pc' = "markFault" /\ ctx'.then = ctx.then
<1>0. ctx.then \in {"idle", "unload"} /\ ctx.forced \in BOOLEAN /\ securityFault
  BY Guards DEF Marking, Aloft, Sending, Types, Typed, Contexts
<1>1. Return => securityFault' /\ pc' \in {"idle", "unload"}
  BY <1>0 DEF Return, Goto, KeepFlags, flagVars
<1>2. MarkerCancelled => Return \/ Done
  BY <1>0 DEF MarkerCancelled
<1>3. Done => securityFault' /\ pc' = "idle"
  BY <1>0 DEF Done, Goto, KeepFlags, flagVars
<1>4. \A n : Goto("markFault", [ctx EXCEPT !.marker = n]) /\ KeepFlags =>
         securityFault' /\ pc' = "markFault" /\ ctx'.then = ctx.then
  BY <1>0 DEF Goto, KeepFlags, flagVars, Types, Typed, Contexts
<1>5. MarkCreate => \/ Return \/ MarkerCancelled
                   \/ \E n : Goto("markFault", [ctx EXCEPT !.marker = n]) /\ KeepFlags
  BY JournalEnds DEF MarkCreate, Ends, Raised
<1>6. MarkFault => Return \/ MarkerCancelled
  BY DEF MarkFault
<1> QED
  BY <1>1, <1>2, <1>3, <1>4, <1>5, <1>6

\* and where a reload and the second fault of a recovery do.
LEMMA AfterDisabling ==
    ASSUME Types, Control, Aloft, Flying # {}, up = "up", DisableBump \/ BeginReload \/ ForceAgain
    PROVE  /\ securityFault'
           /\ \/ pc' \in {"idle", "unload"} /\ pc = "disable"
              \/ pc' = "markCreate" /\ ctx'.then \in {"idle", "unload"} /\ pc = "disable"
              \/ pc' = "disable" /\ BeginReload
              \/ pc' = "force" /\ ctx'.attempt = 0 /\ ctx'.then = "idle" /\ pc = "again"
<1>1. securityFault /\ (pc = "disable" => ctx.then \in {"idle", "unload"})
  BY Guards DEF Aloft, Sending, Control, Returning
<1>2. CASE BeginReload
  BY <1>1, <1>2 DEF BeginReload, Goto
<1>3. CASE ForceAgain
  BY <1>3 DEF ForceAgain, ForceFault, ShutDown, Goto, NoContext
<1>4. CASE DisableBump
  <2>1. Return \/ MarkBumpFault(ctx.then) \/ Done
    BY <1>4, StateEnds DEF DisableBump, Ends, Raised
  <2>2. pc = "disable"
    BY <1>4, Guards
  <2>3. Return => securityFault' /\ pc' \in {"idle", "unload"}
    BY <1>1, <2>2 DEF Return, Goto, KeepFlags, flagVars
  <2>4. Done => securityFault' /\ pc' = "idle"
    BY <1>1 DEF Done, Goto, KeepFlags, flagVars
  <2>5. MarkBumpFault(ctx.then) => securityFault' /\ pc' = "markCreate" /\ ctx'.then = ctx.then
    BY DEF MarkBumpFault, ShutDown, Goto, Types, Typed, Contexts
  <2> QED
    BY <1>1, <2>1, <2>2, <2>3, <2>4, <2>5
<1> QED
  BY <1>2, <1>3, <1>4

\* An attempt that flies is left only by a recovery that shut the manager down.
LEMMA AloftKept ==
    ASSUME Undisturbed, Types, Types', Control, Control', StartUp, StartUp', Files, Calm, Focus,
           Answered, Aloft, Next
    PROVE  Aloft'
<1> SUFFICES ASSUME Flying' # {}
             PROVE  /\ pc' \in Sending \cup Forcing \cup Marking
                               \cup {"idle", "again", "disable", "unload"}
                    /\ pc' \in Sending \/ securityFault'
                    /\ pc' \in Marking => ctx'.then \in {"idle", "unload"}
                    /\ pc' \in Forcing =>
                          IF ctx'.attempt = 0 THEN ctx'.then = "idle"
                          ELSE Flying' \subseteq {ctx'.attempt}
  BY DEF Aloft, Sending, Forcing, Marking
<1> USE DEF Sending, Forcing, Marking
<1>1. up' = "up" /\ ~Crash /\ ~Unload
  BY FlyingGrows
<1>2. CASE Withdraw \/ PreparationWrites
  <2>1. pc' = pc /\ ctx' = ctx /\ securityFault' = securityFault
        /\ posted' = posted /\ settled' = settled /\ records' = records
    BY <1>2, BesideTheCall DEF controlVars, flagVars, journalVars
  <2>2. Flying' = Flying
    BY <2>1 DEF Flying, Unsettled
  <2> QED
    BY <2>1, <2>2 DEF Aloft
<1>3. CASE pc = "submit" /\ ~Withdraw
  <2>1. ~PreparationWrites
    BY <1>3, Guards DEF CheckoutSteps
  <2>2. Submit
    BY <1>1, <1>3, <2>1, OnlyStep
  <2>3. posted' # posted
    <3>1. Unsettled = {}
      BY <1>3 DEF Calm, Quiet, Preparing, Attention
    <3>2. Unsettled' # {}
      BY DEF Flying
    <3> QED
      BY <1>3, <3>1, <3>2, SettledGrows DEF Unsettled, Settling
  <2> QED
    BY <1>1, <2>3, PostedGrows
<1>4. CASE pc # "submit" /\ pc \notin Sending /\ ~Withdraw /\ ~PreparationWrites
  <2>1. Flying' \subseteq Flying /\ Flying # {}
    BY <1>4, FlyingGrows
  <2>2. up = "up"
    BY <1>1, <1>4, <2>1 DEF StartUp, Flying, Types, Typed
  <2>3. \/ ForceLatch \/ MarkAttempt \/ MarkCreate \/ MarkFault
        \/ ForceAgain \/ DisableBump \/ BeginReload
        \/ LoseChallenge /\ pc = "idle"
    BY <1>1, <1>4, <2>1, <2>2, AloftGoes
  <2>4. CASE ForceLatch \/ MarkAttempt
    BY <2>1, <2>2, <2>4, AfterForcing, Guards DEF Aloft
  <2>5. CASE MarkCreate \/ MarkFault
    BY <2>1, <2>2, <2>5, AfterMarking, Guards DEF Aloft
  <2>6. CASE ForceAgain \/ DisableBump \/ BeginReload
    BY <2>1, <2>2, <2>6, AfterDisabling
  <2>7. CASE LoseChallenge /\ pc = "idle"
    BY <2>1, <2>7 DEF LoseChallenge, Aloft
  <2> QED
    BY <2>3, <2>4, <2>5, <2>6, <2>7
<1>5. CASE pc \in Sending /\ ~Withdraw /\ ~PreparationWrites
  <2>1. Flying' \subseteq Flying /\ Flying \subseteq {ctx.attempt} /\ Flying # {}
    BY <1>5, FlyingGrows DEF Focus
  <2>2. ctx.attempt \in Flying' /\ ctx.attempt \in Flying
    BY <2>1
  <2>3. ctx.attempt \notin settled'
    BY <2>2 DEF Flying, Unsettled
  <2>4. ctx.attempt # 0
    BY <1>5 DEF Control, Located, CheckoutSteps
  <2>5. ~(pc = "recoverLatch" /\ ctx.saved)
    BY <2>2 DEF Answered, Flying
  <2>6. ~(ctx.attempt \in Concluded(journal'))
    BY <2>3 DEF Next, Settle
  <2>7. \/ pc' \in Sending
        \/ pc' = "force" /\ securityFault' /\ ctx'.attempt = ctx.attempt
    BY <1>1, <1>5, <2>5, <2>6, SendingGoes
  <2> QED
    BY <2>1, <2>4, <2>7
<1> QED
  BY <1>2, <1>3, <1>4, <1>5

(***************************************************************************)
(* The records that may still be added.                                    *)
(***************************************************************************)
\* A fault in the list stays in it.
LEMMA FaultStays ==
    ASSUME JournalOK, HasFault(records), UNCHANGED journalVars \/ Sets \/ Drafts
    PROVE  HasFault(records)'
<1>1. CASE UNCHANGED journalVars
  BY <1>1 DEF HasFault, journalVars
<1>2. CASE Sets
  <2>1. PICK s, r : Due(s) /\ Moves(Subject, s, r)
    BY <1>2 DEF Sets
  <2>2. CASE records' = records
    BY <2>2 DEF HasFault
  <2>3. CASE records' # records
    <3>1. PICK c : Replaces(c, Subject, s) /\ Saves(c, r)
      BY <2>1, <2>3 DEF Moves, JournalStill
    <3>2. records' = c /\ records[Subject].state \notin Journal!Terminal
      BY <2>3, <3>1, AllowedFacts DEF Saves, Replaces
    <3> QED
      BY <3>1, <3>2, StateNames DEF HasFault, Replaces
  <2> QED
    BY <2>2, <2>3
<1>3. CASE Drafts
  <2>1. PICK a, m, r : Creates(a, m, r)
    BY <1>3 DEF Drafts
  <2>2. CASE records' = records
    BY <2>2 DEF HasFault
  <2>3. CASE records' # records
    <3>1. PICK c : Adds(c, a, m) /\ Saves(c, r)
      BY <2>1, <2>3 DEF Creates, JournalStill
    <3>2. records' = c
      BY <2>3, <3>1 DEF Saves
    <3> QED
      BY <3>1, <3>2 DEF HasFault, Adds, Journal!Protected
  <2> QED
    BY <2>2, <2>3
<1> QED
  BY <1>1, <1>2, <1>3

\* Only a marker of a fault can be added after the records that fly.
LEMMA NewerGrows ==
    ASSUME Types, Calm, Flying # {}, UNCHANGED journalVars \/ Sets \/ Drafts, NEW a
    PROVE  \/ Newer(a)' \subseteq Newer(a)
           \/ pc = "markCreate"
              /\ Newer(a)' \subseteq Newer(a) \cup {NewAttempt}
<1>1. CASE UNCHANGED journalVars
  BY <1>1 DEF Newer, journalVars
<1>2. CASE Sets
  <2>1. PICK s, r : Moves(Subject, s, r)
    BY <1>2 DEF Sets
  <2>2. DOMAIN records' = DOMAIN records
    BY <2>1 DEF Moves, JournalStill, Replaces, Saves
  <2> QED
    BY <2>2 DEF Newer
<1>3. CASE Drafts
  <2>1. pc # "create"
    BY DEF Calm, Quiet, Preparing, Flying, Attention
  <2>2. PICK r : pc = "markCreate" /\ Creates(NewAttempt, "mock", r)
    BY <1>3, <2>1 DEF Drafts
  <2>3. DOMAIN records' \subseteq DOMAIN records \cup {NewAttempt}
    BY <2>2 DEF Creates, JournalStill, Adds, Saves
  <2> QED
    BY <2>2, <2>3 DEF Newer
<1> QED
  BY <1>1, <1>2, <1>3

\* Two consents can be withdrawn, and a reload is due for one that was.
LEMMA SlotsBounded ==
    ASSUME Types, Control
    PROVE  Slots \in 0..2
<1>1. /\ reloading \in BOOLEAN /\ gate.ordering \in BOOLEAN /\ gate.checkout \in BOOLEAN
      /\ reloading => ~gate.ordering \/ ~gate.checkout
  BY DEF Types, Typed, Control, Placed, CheckoutGate
<1>2. \A x : Bit(x) \in {0, 1} /\ (~x => Bit(x) = 0)
  BY DEF Bit
<1>3. CASE ~reloading
  <2>1. Bit(reloading) = 0 /\ Bit(gate.ordering) \in {0, 1} /\ Bit(gate.checkout) \in {0, 1}
    BY <1>2, <1>3
  <2> QED
    BY <2>1 DEF Slots
<1>4. CASE ~gate.ordering
  <2>1. Bit(gate.ordering) = 0 /\ Bit(reloading) \in {0, 1} /\ Bit(gate.checkout) \in {0, 1}
    BY <1>2, <1>4
  <2> QED
    BY <2>1 DEF Slots
<1>5. CASE ~gate.checkout
  <2>1. Bit(gate.checkout) = 0 /\ Bit(reloading) \in {0, 1} /\ Bit(gate.ordering) \in {0, 1}
    BY <1>2, <1>5
  <2> QED
    BY <2>1 DEF Slots
<1> QED
  BY <1>1, <1>3, <1>4, <1>5

\* The call in progress changes neither consents nor reloads.
LEMMA GateStays ==
    ASSUME \/ Reply \/ RecordAnswer \/ RecordRejection \/ LearnFromAmbiguous \/ LearnFromAnswer
           \/ RecoverRecord \/ RecoverLatch \/ ForceLatch \/ MarkAttempt \/ MarkCreate
           \/ MarkFault \/ ForceAgain \/ DisableBump \/ LoseChallenge \/ Submit
           \/ PreparationWrites
    PROVE  Slots' = Slots
<1>1. gate' = gate /\ reloading' = reloading
  BY DEF Reply, RecordAnswer, RecordRejection, LearnFromAmbiguous, LearnFromAnswer,
         RecoverRecord, RecoverLatch, ForceLatch, MarkAttempt, MarkCreate, MarkFault,
         ForceAgain, DisableBump, LoseChallenge, Submit, PreparationWrites,
         restVars, environmentVars
<1> QED
  BY SMTT(60), <1>1 DEF Slots, Bit

\* A withdrawn consent gives way to the reload it takes.
LEMMA WithdrawnGate ==
    ASSUME Types, Withdraw
    PROVE  Slots' = Slots
<1>1. /\ ~reloading /\ reloading' = TRUE
      /\ gate.ordering \in BOOLEAN /\ gate.checkout \in BOOLEAN
      /\ \/ gate.ordering /\ ~gate'.ordering /\ gate'.checkout = gate.checkout
         \/ gate.checkout /\ ~gate'.checkout /\ gate'.ordering = gate.ordering
  <2>1. gate \in [ordering : BOOLEAN, checkout : BOOLEAN]
    BY DEF Types, Typed
  <2>2. CASE gate' = [gate EXCEPT !.ordering = FALSE]
    BY <2>1, <2>2 DEF Withdraw
  <2>3. CASE gate' = [gate EXCEPT !.checkout = FALSE]
    BY <2>1, <2>3 DEF Withdraw
  <2> QED
    BY <2>1, <2>2, <2>3 DEF Withdraw
<1>2. Bit(reloading) = 0 /\ Bit(reloading)' = 1
  BY <1>1 DEF Bit
<1>3. CASE gate.ordering /\ ~gate'.ordering /\ gate'.checkout = gate.checkout
  <2>1. Bit(gate.ordering) = 1 /\ Bit(gate.ordering)' = 0
        /\ Bit(gate.checkout)' = Bit(gate.checkout) /\ Bit(gate.checkout) \in {0, 1}
    BY <1>3 DEF Bit
  <2> QED
    BY <1>2, <2>1 DEF Slots
<1>4. CASE gate.checkout /\ ~gate'.checkout /\ gate'.ordering = gate.ordering
  <2>1. Bit(gate.checkout) = 1 /\ Bit(gate.checkout)' = 0
        /\ Bit(gate.ordering)' = Bit(gate.ordering) /\ Bit(gate.ordering) \in {0, 1}
    BY <1>4 DEF Bit
  <2> QED
    BY <1>2, <2>1 DEF Slots
<1> QED
  BY <1>1, <1>3, <1>4

\* No step makes more markers due than it takes from what is left; the one that adds a
\* marker has then no other due.
LEMMA MarkersDue ==
    ASSUME Types, Control, Aloft, Flying # {}, Next, up = "up", pc # "submit", ~Crash, ~Unload
    PROVE  /\ Bit(MarkerDue)' + Slots' <= Bit(MarkerDue) + Slots
           /\ pc = "markCreate" /\ ~Withdraw /\ ~PreparationWrites =>
                 Bit(MarkerDue)' = 0 /\ Bit(MarkerDue) = 1 /\ Slots' = Slots
<1> USE DEF Sending, Forcing, Marking
<1>0. /\ Slots \in 0..2
      /\ Bit(MarkerDue) \in {0, 1} /\ Bit(MarkerDue)' \in {0, 1}
      /\ (MarkerDue => Bit(MarkerDue) = 1) /\ (~MarkerDue => Bit(MarkerDue) = 0)
      /\ (MarkerDue' => Bit(MarkerDue)' = 1) /\ (~MarkerDue' => Bit(MarkerDue)' = 0)
  BY SlotsBounded DEF Bit
<1>1. CASE Withdraw \/ PreparationWrites
  <2>1. Slots' = Slots /\ UNCHANGED controlVars
    BY <1>1, WithdrawnGate, GateStays DEF Withdraw, PreparationWrites
  <2>2. Bit(MarkerDue)' = Bit(MarkerDue)
    BY <2>1 DEF MarkerDue, Bit, controlVars
  <2> QED
    BY <1>0, <1>1, <2>1, <2>2
<1>2. CASE ~Withdraw /\ ~PreparationWrites /\ MarkerDue /\ Slots' = Slots
           /\ pc # "markCreate"
  <2>1. Bit(MarkerDue) = 1 /\ Bit(MarkerDue)' \in {0, 1} /\ Slots' = Slots /\ Slots \in 0..2
    BY <1>0, <1>2
  <2>2. Bit(MarkerDue)' + Slots' <= Bit(MarkerDue) + Slots
    BY <2>1
  <2> QED
    BY <1>2, <2>2
<1>3. CASE ~Withdraw /\ ~PreparationWrites /\ ~MarkerDue' /\ Slots' = Slots
           /\ pc # "markCreate"
  BY <1>0, <1>3
<1>4. CASE ~Withdraw /\ ~PreparationWrites /\ MarkerDue /\ ~MarkerDue' /\ Slots' = Slots
  <2>1. Bit(MarkerDue) = 1 /\ Bit(MarkerDue)' = 0 /\ Slots' = Slots /\ Slots \in 0..2
    BY <1>0, <1>4
  <2>2. Bit(MarkerDue)' + Slots' <= Bit(MarkerDue) + Slots
    BY <2>1
  <2> QED
    BY <2>1, <2>2
<1>5. CASE pc \in Sending /\ ~Withdraw /\ ~PreparationWrites
  <2>1. Slots' = Slots
    BY <1>5, AtSending, GateStays
  <2> QED
    BY <1>2, <1>5, <2>1 DEF MarkerDue
<1>6. CASE ForceLatch \/ MarkAttempt
  <2>1. Slots' = Slots /\ pc \in {"force", "markAttempt"}
    BY <1>6, Guards, GateStays
  <2>2. MarkerDue' => MarkerDue
    BY <1>6, <2>1, AfterForcing DEF MarkerDue
  <2> QED
    BY <1>1, <1>2, <1>3, <2>1, <2>2
<1>7. CASE MarkCreate \/ MarkFault
  <2>1. Slots' = Slots /\ pc \in {"markCreate", "markFault"}
    BY <1>7, Guards, GateStays
  <2>2. ~MarkerDue'
    BY <1>7, AfterMarking DEF MarkerDue
  <2>3. pc = "markCreate" => MarkerDue
    BY DEF MarkerDue
  <2> QED
    BY <1>1, <1>3, <1>4, <2>1, <2>2, <2>3
<1>8. CASE ForceAgain \/ DisableBump
  <2>1. Slots' = Slots /\ pc \in {"again", "disable"}
    BY <1>8, Guards, GateStays
  <2> QED
    BY <1>1, <1>2, <2>1 DEF MarkerDue
<1>9. CASE BeginReload
  <2>1. reloading = TRUE /\ reloading' = FALSE /\ gate' = gate /\ pc = "idle"
    BY <1>9 DEF BeginReload, Types, Typed
  <2>2. Bit(reloading) = 1 /\ Bit(reloading)' = 0 /\ Bit(MarkerDue) = 0
        /\ Bit(gate.ordering)' = Bit(gate.ordering) /\ Bit(gate.checkout)' = Bit(gate.checkout)
    BY <2>1 DEF Bit, MarkerDue
  <2>3. Bit(gate.ordering) \in {0, 1} /\ Bit(gate.checkout) \in {0, 1}
    BY DEF Bit
  <2>4. Slots' = Slots - 1
    BY <2>2, <2>3 DEF Slots
  <2> QED
    BY <1>0, <2>1, <2>2, <2>4
<1>10. CASE LoseChallenge /\ pc = "idle"
  <2>1. Slots' = Slots /\ ~MarkerDue'
    BY <1>10, GateStays DEF LoseChallenge, MarkerDue
  <2> QED
    BY <1>1, <1>3, <1>10, <2>1
<1> QED
  BY <1>1, <1>5, <1>6, <1>7, <1>8, <1>9, <1>10, AloftGoes

\* The markers that are added, and those that are due, leave room for what flies.
LEMMA RoomKept ==
    ASSUME Undisturbed, Types, Types', Control, Control', Recorded, StartUp, StartUp', Files,
           Calm, Focus, Aloft, Room, Next
    PROVE  Room'
<1> SUFFICES ASSUME ~HasFault(records)', NEW a \in Flying'
             PROVE  /\ Journal!UnresolvedManualChecks' = {}
                    /\ Cardinality(Newer(a)') + Bit(MarkerDue)' + Slots' <= 3
  BY DEF Room
<1>1. /\ up' = "up" /\ ~Crash /\ ~Unload
      /\ pc # "submit" => Flying' \subseteq Flying
      /\ pc = "submit" => Flying = {}
  BY FlyingGrows
<1>2. CASE pc = "submit"
  <2>1. Attention = {}
    BY <1>2 DEF Calm, Quiet, Preparing
  <2>2. posted' # posted
    BY <2>1, <1>2, SettledGrows DEF Flying, Unsettled, Attention, Settling
  <2>3. /\ posted' = posted \cup {ctx.attempt}
        /\ Submit /\ records' = records
    BY <1>1, <2>2, PostedGrows DEF journalVars
  <2>4. a = ctx.attempt
    BY <2>1, <2>3, <1>2, SettledGrows DEF Flying, Unsettled, Attention, Settling
  <2>5. Newer(a)' = {}
    <3>1. \A b \in DOMAIN records : b <= a
      BY <1>2, <2>4 DEF Recorded, Drafted, Preparing
    <3>2. DOMAIN records \subseteq Nat /\ a \in DOMAIN records
      BY <2>3, ListFacts DEF Types, Flying
    <3> QED
      BY <2>3, <3>1, <3>2 DEF Newer
  <2>6. Slots' = Slots /\ Slots \in 0..2
    BY <2>3, GateStays, SlotsBounded
  <2>7. Bit(MarkerDue)' \in {0, 1} /\ Cardinality(Newer(a)') = 0
    BY <2>5, FS_EmptySet DEF Bit
  <2>8. Journal!UnresolvedManualChecks' = {}
    BY <2>1, <2>3 DEF Attention, Journal!UnresolvedManualChecks
  <2> QED
    BY <2>6, <2>7, <2>8
<1>3. CASE pc # "submit"
  <2>1. a \in Flying /\ Flying # {}
    BY <1>1, <1>3
  <2>2. up = "up" /\ ~LoadAttempts
    <3>1. up # "down" /\ up # "starting"
      BY <2>1 DEF StartUp, Flying
    <3> QED
      BY <1>1, <3>1, ReadingGoesOn DEF Types, Typed
  <2>3. UNCHANGED journalVars \/ Sets \/ Drafts
    BY <1>1, <2>2, JournalCalls
  <2>4. ~HasFault(records)
    BY <2>3, FaultStays DEF Types
  <2>5. /\ Journal!UnresolvedManualChecks = {}
        /\ Cardinality(Newer(a)) + Bit(MarkerDue) + Slots <= 3
    BY <2>1, <2>4 DEF Room
  <2>6. Journal!UnresolvedManualChecks' = {}
    <3> SUFFICES ASSUME NEW b \in DOMAIN records', records'[b].state = Journal!Manual
                 PROVE  FALSE
      BY DEF Journal!UnresolvedManualChecks
    <3>1. b = ctx.attempt /\ pc \in {"unsent", "ambiguous", "learn", "recover"}
      BY <2>3, <2>5, RecordsChange DEF Journal!UnresolvedManualChecks
    <3>2. pc # "unsent"
      BY <2>1 DEF Calm, Quiet, Flying, Attention
    <3>3. a = ctx.attempt
      BY <2>1, <3>1, <3>2 DEF Focus, Sending, Flying, Attention
    <3> QED
      BY <3>1, <3>3, StateNames DEF Flying
  <2>7. /\ Bit(MarkerDue)' + Slots' <= Bit(MarkerDue) + Slots
        /\ pc = "markCreate" /\ ~Withdraw /\ ~PreparationWrites =>
              Bit(MarkerDue)' = 0 /\ Bit(MarkerDue) = 1 /\ Slots' = Slots
    BY <1>1, <1>3, <2>1, <2>2, MarkersDue
  <2>8. /\ Slots \in Nat /\ Slots' \in Nat
        /\ Bit(MarkerDue) \in {0, 1} /\ Bit(MarkerDue)' \in {0, 1}
    <3>1. Slots \in 0..2 /\ \A x : Bit(x) \in {0, 1}
      BY SlotsBounded DEF Bit
    <3>2. Slots' \in Nat
      BY DEF Slots, Bit
    <3> QED
      BY <3>1, <3>2 DEF Bit
  <2>9. IsFiniteSet(Newer(a)) /\ Cardinality(Newer(a)) \in Nat
    <3>1. IsFiniteSet(Newer(a))
      BY ListFacts, FS_Subset DEF Newer, Types
    <3> QED
      BY <3>1, FS_CardinalityType
  <2>10. CASE Newer(a)' \subseteq Newer(a)
    <3>1. Cardinality(Newer(a)') <= Cardinality(Newer(a)) /\ Cardinality(Newer(a)') \in Nat
      <4>1. IsFiniteSet(Newer(a)') /\ Cardinality(Newer(a)') <= Cardinality(Newer(a))
        BY <2>9, <2>10, FS_Subset
      <4> QED
        BY <4>1, FS_CardinalityType
    <3> QED
      BY <2>5, <2>6, <2>7, <2>8, <2>9, <3>1
  <2>11. CASE ~(Newer(a)' \subseteq Newer(a))
    <3>1. pc = "markCreate" /\ Newer(a)' \subseteq Newer(a) \cup {NewAttempt}
      BY <2>1, <2>3, <2>11, NewerGrows
    <3>2. ~Withdraw /\ ~PreparationWrites
      <4>1. Withdraw \/ PreparationWrites => records' = records
        BY BesideTheCall DEF journalVars
      <4> QED
        BY <2>11, <4>1 DEF Newer
    <3>3. Cardinality(Newer(a)') <= Cardinality(Newer(a)) + 1 /\ Cardinality(Newer(a)') \in Nat
      <4>1. /\ IsFiniteSet(Newer(a) \cup {NewAttempt})
            /\ Cardinality(Newer(a) \cup {NewAttempt}) \in
                  {Cardinality(Newer(a)), Cardinality(Newer(a)) + 1}
        BY <2>9, FS_AddElement
      <4>2. /\ IsFiniteSet(Newer(a)')
            /\ Cardinality(Newer(a)') <= Cardinality(Newer(a) \cup {NewAttempt})
        BY <3>1, <4>1, FS_Subset
      <4>3. Cardinality(Newer(a)') \in Nat
        BY <4>2, FS_CardinalityType
      <4> QED
        BY <2>9, <4>1, <4>2, <4>3
    <3>4. Bit(MarkerDue)' = 0 /\ Bit(MarkerDue) = 1 /\ Slots' = Slots
      BY <2>7, <3>1, <3>2
    <3> QED
      BY <2>5, <2>6, <2>8, <2>9, <3>3, <3>4
  <2> QED
    BY <2>10, <2>11
<1> QED
  BY <1>2, <1>3

(***************************************************************************)
(* The theorems.                                                           *)
(***************************************************************************)
\* The initial states are sound,
LEMMA SoundInit == Init => Sound
<1> SUFFICES ASSUME Init
             PROVE  Sound
  OBVIOUS
<1>1. /\ DOMAIN records = {} /\ DOMAIN journal = {} /\ ~journalLoaded
      /\ posted = {} /\ settled = {} /\ up = "down" /\ pc = "idle"
  BY DEF Init, Journal!Init, Journal!NoRecords, AtRest
<1>2. Concluded(journal) = {} /\ Flying = {}
  BY <1>1 DEF Concluded, Flying
<1>3. Files
  BY <1>1, <1>2 DEF Files, Holds, Readable
<1>4. Watch /\ Calm /\ Focus /\ Unused /\ Answered
  BY <1>1
     DEF Watch, Calm, Quiet, Preparing, Focus, Sending, Marking, Unused, Answered
<1>5. Aloft /\ Room
  BY <1>2 DEF Aloft, Room
<1> QED
  BY <1>3, <1>4, <1>5 DEF Sound

\* nothing changes when nothing does,
LEMMA SoundStutter == Sound /\ UNCHANGED vars => Sound'
<1> SUFFICES ASSUME Sound, UNCHANGED vars
             PROVE  Sound'
  OBVIOUS
<1> USE DEF vars, stateVars, journalVars, controlVars, flagVars, restVars, environmentVars
<1>1. Attention' = Attention
  BY DEF Attention, Unsettled, Journal!UnresolvedManualChecks
<1>2. Flying' = Flying /\ \A a : Newer(a)' = Newer(a)
  BY DEF Flying, Unsettled, Newer
<1>3. MarkerDue' = MarkerDue /\ Slots' = Slots
  BY DEF MarkerDue, Slots, Bit
<1>4. Files'
  BY DEF Sound, Files, Holds, HasFault, OpenIn, Concluded, Readable
<1>5. Watch' /\ Calm' /\ Focus'
  BY <1>1
     DEF Sound, Watch, Calm, Focus, IntegrityFault, State!IntegrityFault, Names
<1>6. Unused' /\ Answered'
  BY DEF Sound, Unused, Answered, Readable
<1>7. Aloft'
  BY <1>2 DEF Sound, Aloft
<1>8. Room'
  BY <1>2, <1>3
     DEF Sound, Room, HasFault, Journal!UnresolvedManualChecks, Bit
<1> QED
  BY <1>4, <1>5, <1>6, <1>7, <1>8 DEF Sound

\* and every step of a secure manager keeps it.
LEMMA SoundKept ==
    ASSUME Undisturbed
    PROVE  Secure /\ Sound /\ [Next]_vars => Sound'
<1>1. ASSUME Secure, Sound, Next
      PROVE  Sound'
  <2>1. Types /\ Control /\ Recorded /\ FaultsKnown /\ StartUp /\ Conclusive
    BY <1>1 DEF Secure, Before
  <2>2. Types' /\ Control' /\ StartUp'
    BY <1>1, SecureKept DEF Secure, Before
  <2>3. Files /\ Watch /\ Calm /\ Focus /\ Unused /\ Answered /\ Aloft /\ Room
    BY <1>1 DEF Sound
  <2>4. Files'
    BY <1>1, <2>1, <2>2, <2>3, FilesKept, FilesPrimed
  <2>5. Calm' /\ Focus' /\ Unused' /\ Answered'
    BY <1>1, <2>1, <2>2, <2>3, CalmKept, FocusKept, UnusedKept, AnsweredKept
  <2>6. Watch'
    BY <1>1, <2>1, <2>2, <2>3, <2>5, WatchKept
  <2>7. Aloft' /\ Room'
    BY <1>1, <2>1, <2>2, <2>3, AloftKept, RoomKept
  <2> QED
    BY <2>4, <2>5, <2>6, <2>7 DEF Sound
<1> QED
  BY <1>1, SoundStutter

\* So every state of a manager whose handlers are not disturbed is sound.
LEMMA SoundHolds ==
    ASSUME Undisturbed
    PROVE  Spec => [](Secure /\ Sound)
<1>1. Init => Secure /\ Sound
  BY SecureInit, SoundInit
<1>2. Secure /\ Sound /\ [Next]_vars => (Secure /\ Sound)'
  BY SecureKept, SoundKept
<1> QED
  BY <1>1, <1>2, PTL DEF Spec

\* A sound manager does not forget what it sent.
LEMMA SoundBlocks == Sound => UnsettledBlocks
<1> SUFFICES ASSUME Sound
             PROVE  UnsettledBlocks
  OBVIOUS
<1>1. \A a \in Unsettled :
         (a \in DOMAIN journal /\ journal[a].dispatched) \/ DurablyFaulted
  BY DEF Sound, Files, Holds, Unsettled, OpenIn, DurablyFaulted, HasFault
<1>2. ASSUME Idle, Unsettled # {}
      PROVE  ~Enabled
  <2>1. CASE IntegrityFault
    BY <2>1 DEF IntegrityFault, Enabled, State!SafetyFault
  <2>2. CASE ~IntegrityFault
    <3>1. PICK b \in Attention : Names(b)
      BY <1>2, <2>2 DEF Sound, Watch, Idle, Attention, Sending
    <3> QED
      BY <3>1 DEF Names, Enabled, State!SafetyFault
  <2> QED
    BY <2>1, <2>2
<1> QED
  BY <1>1, <1>2 DEF UnsettledBlocks

\* Whatever ended the method that sent it, a manager at rest accepts no checkout while
\* the outcome of an attempt is unknown, and the attempt, or a fault, is on file.
THEOREM UnsettledAttemptsBlock ==
    ASSUME Undisturbed
    PROVE  Spec => []UnsettledBlocks
BY SoundBlocks, SoundHolds, PTL

\* A step of a sound manager is one of the ledger, or none.
LEMMA LedgerStep ==
    ASSUME Secure, Sound, Next
    PROVE  [Ledger!Next]_(Ledger!vars)
<1>1. /\ Types /\ Control /\ posted \subseteq 1..MaxAttempts
      /\ Files /\ Calm /\ Unused
  BY DEF Secure, Before, Types, Typed, Sound
<1>2. CASE posted' # posted
  <2>1. pc = "submit" /\ posted' = posted \cup {ctx.attempt} /\ settled' = settled
    BY <1>1, <1>2, PostedGrows, SettledGrows DEF Settling
  <2>2. ctx.attempt \in 1..MaxAttempts
    BY <1>1, <2>1 DEF Control, Located, CheckoutSteps
  <2>3. ctx.attempt \notin posted \cup settled /\ Unsettled = {}
    BY <1>1, <2>1 DEF Unused, Calm, Quiet, Preparing, Attention
  <2>4. Ledger!Send(ctx.attempt)
    BY <2>1, <2>3 DEF Ledger!Send, Unsettled
  <2> QED
    BY <2>2, <2>4 DEF Ledger!Next
<1>3. CASE posted' = posted
  <2>1. settled \subseteq settled' /\ settled' \subseteq settled \cup {ctx.attempt}
    BY <1>1, SettledGrows
  <2>2. CASE settled' \cap posted = settled \cap posted
    BY <1>3, <2>2 DEF Ledger!vars
  <2>3. CASE settled' \cap posted # settled \cap posted
    <3>1. ctx.attempt \in posted /\ ctx.attempt \in settled' /\ ctx.attempt \notin settled
      BY <2>1, <2>3
    <3>2. Ledger!Conclude(ctx.attempt) /\ ctx.attempt \in 1..MaxAttempts
      BY <1>1, <1>3, <2>1, <3>1 DEF Ledger!Conclude
    <3> QED
      BY <3>2 DEF Ledger!Next
  <2> QED
    BY <2>2, <2>3
<1> QED
  BY <1>2, <1>3

\* The manager implements the ledger: a POST leaves only when the outcome of every
\* earlier one is durable, and an outcome is concluded at most once and for good.
THEOREM ManagerImplementsLedger ==
    ASSUME Undisturbed
    PROVE  Spec => ImplementsLedger
<1>1. Init => Ledger!Init
  BY DEF Init, AtRest, Ledger!Init
<1>2. UNCHANGED vars => UNCHANGED Ledger!vars
  BY DEF vars, restVars, environmentVars, Ledger!vars
<1>3. Secure /\ Sound /\ [Next]_vars => [Ledger!Next]_(Ledger!vars)
  BY <1>2, LedgerStep
<1> QED
  BY <1>1, <1>3, SoundHolds, PTL DEF Spec, ImplementsLedger, Ledger!Spec

\* A request leaves only while no outcome is open, and a conclusion closes one for good.
LEMMA OneOutcomeIsOpen == Ledger!Spec => []Ledger!AtMostOneOpen
<1>1. Ledger!Init => Ledger!AtMostOneOpen
  BY DEF Ledger!Init, Ledger!AtMostOneOpen
<1>2. Ledger!AtMostOneOpen /\ [Ledger!Next]_(Ledger!vars) => Ledger!AtMostOneOpen'
  BY DEF Ledger!AtMostOneOpen, Ledger!Next, Ledger!Send, Ledger!Conclude, Ledger!vars
<1> QED
  BY <1>1, <1>2, PTL DEF Ledger!Spec

\* So there is never more than one payment whose outcome is unknown.
THEOREM OnePaymentIsOpen ==
    ASSUME Undisturbed
    PROVE  Spec => []Ledger!AtMostOneOpen
BY ManagerImplementsLedger, OneOutcomeIsOpen, PTL DEF ImplementsLedger

(***************************************************************************)
(* A fault that closes a manager outlives its process, where the journal   *)
(* can be written for a marker: the latch or the marker is on file, or the *)
(* next start finds by itself what this one found.                         *)
(*                                                                         *)
(* Closed says why a closed manager may come to rest, Marked that the      *)
(* marker it is about to write has a record; Lasting that the next start   *)
(* finds the fault.  Echo carries what memory shows over to the file, Lone *)
(* keeps a second open checkout out of an open manager's journal, OnHand   *)
(* keeps the record of a method in progress in it, ReadIn and Uncorrupt    *)
(* follow start-up up to its checks.                                       *)
(***************************************************************************)

\* The journal can be written where it keeps a marker, and a latch that the preparations
\* set during start-up is saved.
MarkersWritten ==
    /\ {"markAttempt", "markCreate", "markFault", "preparations"} \subseteq FaultFree
    /\ {"markAttempt", "markCreate", "markFault"} \subseteq CancelFree

\* Two checkouts of one list are to be checked.
Twice(list) ==
    \E a, b \in DOMAIN list :
        a # b /\ list[a].state = Journal!Manual /\ list[b].state = Journal!Manual

\* A list that shuts every manager down that reads it.
Grave(list) == HasFault(list) \/ Twice(list)

\* Memory and file have a latch for an attempt that the journal does not hold.
Astray ==
    /\ snap.manual # None /\ Names(snap.manual.attempt)
    /\ snap.manual.attempt \notin DOMAIN journal

\* Where a manager that start-up closed for such a latch can be without a marker.
Resting == pc \in {"finish", "idle", "disable"} \/ (pc = "force" /\ ctx.then = "finish")

\* The next start finds the fault again.
Lasting == disk.integrity \/ Grave(records) \/ (Astray /\ Resting)

\* Past the checks of start-up, an open manager has at most one checkout to be checked.
Lone == pc \notin SourceChecks \cup {"unresolved"} /\ ~securityFault => ~Twice(records)

\* What is grave in memory is grave on file.
Echo == Readable /\ Grave(records) => Grave(journal)

\* Methods that work on a record of the journal.
Hand == Sending \cup {"finalBump"} \cup (AdminSteps \ {"disable"})
OnHand == pc \in Hand => ctx.attempt \in DOMAIN records

\* What start-up knows before it looks for unresolved checkouts.
ReadIn ==
    /\ pc = "preparations" => loaded /\ ~storageFault
    /\ pc = "loadJournal" /\ loaded /\ securityFault => disk.integrity
    /\ pc \in {"loadJournal", "unresolved"} \cup SourceChecks /\ ~securityFault =>
          ~IntegrityFault
    /\ pc \in {"unresolved"} \cup SourceChecks /\ ~securityFault =>
          DOMAIN journal = DOMAIN records

\* A marker that is about to be written has a record to be written on.
Marked ==
    Readable /\ loaded =>
        /\ pc = "markAttempt" =>
              /\ ctx.attempt \in DOMAIN records
              /\ records[ctx.attempt].state \notin Journal!Terminal
        /\ pc = "markFault" =>
              /\ ctx.marker \in DOMAIN records
              /\ records[ctx.marker].state = "DRAFT"
        /\ pc = "force" /\ ctx.attempt # 0 /\ ctx.attempt \notin DOMAIN records => Lasting

\* A manager that read both files is closed for a fault that lasts, or about to mark it.
Closed ==
    JournalRead /\ loaded /\ Readable /\ securityFault =>
        Lasting \/ pc \in Forcing \cup Marking

Uncorrupt == journalLoaded => ~corrupt

Outliving == Lone /\ Echo /\ OnHand /\ ReadIn /\ Marked /\ Closed /\ Uncorrupt

\* A call of the journal takes what is grave out of no list, memory's or the file's.
LEMMA ReplacedGrave ==
    ASSUME Grave(records), NEW c, NEW s, Due(s), Replaces(c, Subject, s),
           Twice(records) => pc \notin Settling
    PROVE  Grave(c)
<1>1. records[Subject].state \notin Journal!Terminal
  BY AllowedFacts DEF Replaces
<1>2. CASE HasFault(records)
  BY <1>1, <1>2, StateNames DEF HasFault, Grave, Replaces
<1>3. CASE Twice(records) /\ s = Journal!Integrity
  BY <1>3 DEF HasFault, Grave, Replaces
<1>4. CASE Twice(records) /\ s # Journal!Integrity
  <2>1. s \notin Journal!Confirmed
    BY <1>4, StateNames DEF Due, Settling, Target
  <2>2. records[Subject].state = Journal!Manual => s = Journal!Manual
    BY <1>4, <2>1, AllowedFacts DEF Replaces
  <2>3. ASSUME NEW a \in DOMAIN records, records[a].state = Journal!Manual
        PROVE  a \in DOMAIN c /\ c[a].state = Journal!Manual
    BY <2>2, <2>3 DEF Replaces
  <2>4. PICK a \in DOMAIN records, b \in DOMAIN records :
           a # b /\ records[a].state = Journal!Manual /\ records[b].state = Journal!Manual
    BY <1>4 DEF Twice
  <2>5. Twice(c)
    BY <2>3, <2>4 DEF Twice
  <2> QED
    BY <2>5 DEF Grave
<1> QED
  BY <1>2, <1>3, <1>4 DEF Grave

\* A record that is added pushes out none that keeps the list grave.
LEMMA AddedGrave ==
    ASSUME Grave(records), NEW c, NEW a, NEW m, Adds(c, a, m)
    PROVE  Grave(c)
<1>1. ASSUME NEW b \in DOMAIN records, Journal!Protected(records[b])
      PROVE  b \in DOMAIN c /\ c[b] = records[b]
  BY <1>1 DEF Adds
<1>2. ASSUME NEW b \in DOMAIN records,
             records[b].state = Journal!Manual \/ records[b].state = Journal!Integrity
      PROVE  b \in DOMAIN c /\ c[b] = records[b]
  BY <1>1, <1>2 DEF Journal!Protected
<1>3. CASE HasFault(records)
  BY <1>2, <1>3 DEF HasFault, Grave
<1>4. CASE Twice(records)
  BY <1>2, <1>4 DEF Twice, Grave
<1> QED
  BY <1>3, <1>4 DEF Grave

\* Where a record is concluded, no other is to be checked.
LEMMA SettledAlone ==
    ASSUME Types, Control, Lone, Calm, Focus, pc \in Settling
    PROVE  ~Twice(records)
<1>1. CASE pc = "localFail"
  BY <1>1 DEF Calm, Quiet, Preparing, Attention, Journal!UnresolvedManualChecks, Twice
<1>2. CASE pc \in {"terminal", "rejected"}
  BY <1>2 DEF Focus, Sending, Attention, Journal!UnresolvedManualChecks, Twice
<1>3. CASE pc \in {"reconcile", "resolve"}
  BY <1>3 DEF Lone, Control, Placed, AdminSteps, SourceChecks, RepairSteps
<1> QED
  BY <1>1, <1>2, <1>3 DEF Settling

\* So a grave list stays grave, in memory and on file.
LEMMA GraveStays ==
    ASSUME Types, Control, Lone, Calm, Focus, Grave(records),
           UNCHANGED journalVars \/ Sets \/ Drafts
    PROVE  Grave(records') /\ (Grave(journal) => Grave(journal'))
<1>0. Twice(records) => pc \notin Settling
  BY SettledAlone
<1>1. CASE UNCHANGED journalVars
  BY <1>1 DEF journalVars
<1>2. CASE Sets
  <2>1. PICK s, r : Due(s) /\ Moves(Subject, s, r)
    BY <1>2 DEF Sets
  <2>2. CASE JournalStill
    BY <2>2 DEF JournalStill
  <2>3. CASE ~JournalStill
    <3>1. PICK c : Replaces(c, Subject, s) /\ Saves(c, r)
      BY <2>1, <2>3 DEF Moves
    <3>2. Grave(c)
      BY <1>0, <2>1, <3>1, ReplacedGrave
    <3> QED
      BY <3>1, <3>2 DEF Saves
  <2> QED
    BY <2>2, <2>3
<1>3. CASE Drafts
  <2>1. PICK a, m, r : Creates(a, m, r)
    BY <1>3 DEF Drafts
  <2>2. CASE JournalStill
    BY <2>2 DEF JournalStill
  <2>3. CASE ~JournalStill
    <3>1. PICK c : Adds(c, a, m) /\ Saves(c, r)
      BY <2>1, <2>3 DEF Creates
    <3>2. Grave(c)
      BY <3>1, AddedGrave
    <3> QED
      BY <3>1, <3>2 DEF Saves
  <2> QED
    BY <2>2, <2>3
<1> QED
  BY <1>1, <1>2, <1>3

\* and what is grave in memory is grave on file, after every step.
LEMMA EchoKept ==
    ASSUME Types, Control, StartUp, Lone, Calm, Focus, Echo, Next
    PROVE  Echo'
<1>1. CASE LoadAttempts
  <2>1. PICK r : Loads(r)
    BY <1>1, LoadEffect DEF Types, LoadAttempts
  <2>2. DOMAIN records = {}
    BY <1>1 DEF LoadAttempts, StartUp, Unread
  <2>3. ~Grave(records)
    BY <2>2 DEF Grave, HasFault, Twice
  <2> QED
    BY <2>1, <2>3 DEF Loads, Echo, Readable
<1>2. CASE Unload \/ Crash
  BY <1>2, EndOfProcess DEF Echo, Readable
<1>3. CASE UNCHANGED journalVars \/ Sets \/ Drafts
  <2>1. Readable' = Readable
    BY <1>3, RecordsChange DEF Readable
  <2>2. CASE Grave(records)
    BY <1>3, <2>1, <2>2, GraveStays DEF Echo
  <2>3. CASE ~Grave(records) /\ UNCHANGED journalVars
    BY <2>3 DEF Echo, journalVars
  <2>4. CASE ~Grave(records) /\ records' = records
    BY <2>4 DEF Echo
  <2>5. CASE records' = journal'
    BY <2>5 DEF Echo
  <2>6. UNCHANGED journalVars \/ records' = records \/ records' = journal'
    BY <1>3 DEF Sets, Drafts, Moves, Creates, Saves, JournalStill
  <2> QED
    BY <2>2, <2>3, <2>4, <2>5, <2>6
<1> QED
  BY <1>1, <1>2, <1>3, JournalCalls

\* A journal that was loaded is not corrupt.
LEMMA UncorruptKept ==
    ASSUME Types, Control, StartUp, Uncorrupt, Next
    PROVE  Uncorrupt'
<1>1. CASE LoadAttempts
  <2>1. PICK r : Loads(r)
    BY <1>1, LoadEffect DEF Types, LoadAttempts
  <2>2. ~corrupt
    BY <1>1 DEF LoadAttempts, StartUp, Unread
  <2> QED
    BY <2>1, <2>2 DEF Loads, Uncorrupt
<1>2. CASE Unload \/ Crash
  BY <1>2, EndOfProcess DEF Uncorrupt
<1>3. CASE UNCHANGED journalVars \/ Sets \/ Drafts
  BY <1>3, RecordsChange DEF Uncorrupt
<1> QED
  BY <1>1, <1>2, <1>3, JournalCalls

\* A call that loads the safety file, or that a preparation makes during start-up.
LEMMA LoadStateReads ==
    ASSUME NEW r, State!Load(r)
    PROVE  /\ r = "ok" => loaded' = TRUE /\ storageFault' = FALSE
           /\ r = "fault" => loaded' = FALSE
           /\ r \in {"ok", "fault", "cancelled"}
BY DEF State!Load, State!CancelRead

\* A preparation that latches while the manager starts leaves the state readable.
LEMMA LatchesAtStart ==
    ASSUME StateOK, loaded, ~storageFault, PreparationLatches(FALSE)
    PROVE  StateOK' /\ loaded' = loaded /\ ~storageFault'
<1>1. StateStep
  BY PreparationEffect
<1>2. ASSUME NEW x, State!LatchPreparationReconciliation(0, 1, x, "ok")
      PROVE  ~storageFault'
  BY <1>2
     DEF State!LatchPreparationReconciliation, State!ReadRaises, State!CancelRead,
         State!RefuseForever, State!Persist
<1>3. ASSUME State!LatchFault("ok")
      PROVE  ~storageFault'
  BY <1>3
     DEF State!LatchFault, State!Bump, State!ReadFails, State!CancelRead,
         State!RefuseForever, State!Persist
<1> QED
  BY <1>1, <1>2, <1>3 DEF PreparationLatches, StateStep, StateKeeps

\* What start-up has read stays true up to its checks.
LEMMA ReadInKept ==
    ASSUME MarkersWritten, Types, Types', Control, StartUp, ReadIn, Next
    PROVE  ReadIn'
<1>0. /\ loaded /\ snap.integrity => disk.integrity
      /\ (loaded /\ snap.integrity => disk.integrity)'
  BY DEF Types, StateOK, SP!Inv, SP!MemoryNeverAhead
<1>1. CASE Steady /\ pc \notin StartSteps /\ up # "down"
  BY <1>1 DEF Steady, ReadIn, Unread
<1>2. CASE LoseChallenge \/ Unload \/ Crash \/ Start
  <2>1. pc' \in {"idle", "loadState"}
    BY <1>2 DEF LoseChallenge, Unload, Crash, Lose, Start, Goto
  <2> QED
    BY <2>1 DEF ReadIn, SourceChecks, RepairSteps
<1>3. CASE Withdraw \/ PreparationWrites
  <2>1. pc' = pc /\ up = "up"
    BY <1>3 DEF Withdraw, PreparationWrites, controlVars
  <2>2. pc \notin StartSteps \ {"unload"}
    BY <2>1 DEF Control, Placed
  <2> QED
    BY <2>1, <2>2 DEF ReadIn, SourceChecks, RepairSteps, StartSteps
<1>4. CASE LoadState
  <2>1. PICK r : /\ State!Load(r)
                 /\ CASE r = "ok"         -> Continue("preparations")
                      [] r \in Raised    -> Continue("loadStateAgain")
                      [] r = "cancelled" -> Abort
    BY <1>4 DEF LoadState
  <2>2. r \in {"ok", "fault", "cancelled"}
    BY <2>1, LoadStateReads
  <2>3. CASE r = "ok"
    <3>1. pc' = "preparations"
      BY <2>1, <2>3 DEF Continue, Goto, Raised
    <3> QED
      BY <2>1, <2>3, <3>1, LoadStateReads DEF ReadIn, SourceChecks, RepairSteps
  <2>4. CASE r # "ok"
    <3>1. pc' \in {"loadStateAgain", "unload"}
      BY <2>1, <2>2, <2>4 DEF Continue, Abort, Goto, Raised
    <3> QED
      BY <3>1 DEF ReadIn, SourceChecks, RepairSteps
  <2> QED
    BY <2>3, <2>4
<1>5. CASE LoadStateAgain
  <2>1. PICK r : /\ State!Load(r)
                 /\ CASE r = "ok"         -> Goto("loadJournal", NoContext) /\ ReadFlags
                      [] r \in Raised    -> /\ Goto("loadJournal", NoContext)
                                            /\ securityFault' = TRUE
                                            /\ enabledFlag' = FALSE
                                            /\ UNCHANGED <<up, manualCheck, challenge>>
                      [] r = "cancelled" -> Abort
    BY <1>5 DEF LoadStateAgain
  <2>2. r \in {"ok", "fault", "cancelled"}
    BY <2>1, LoadStateReads
  <2>3. CASE r = "ok"
    <3>1. pc' = "loadJournal" /\ securityFault' = State!IntegrityFault'
      BY <2>1, <2>3 DEF Goto, Raised, ReadFlags
    <3>2. ~storageFault'
      BY <2>1, <2>3, LoadStateReads
    <3> QED
      BY <1>0, <3>1, <3>2
         DEF ReadIn, SourceChecks, RepairSteps, State!IntegrityFault, IntegrityFault
  <2>4. CASE r = "fault"
    <3>1. pc' = "loadJournal" /\ securityFault' = TRUE
      BY <2>1, <2>4 DEF Goto, Raised
    <3>2. ~loaded'
      BY <2>1, <2>4, LoadStateReads
    <3> QED
      BY <3>1, <3>2 DEF ReadIn, SourceChecks, RepairSteps
  <2>5. CASE r = "cancelled"
    <3>1. pc' = "unload"
      BY <2>1, <2>5 DEF Abort, Goto, Raised
    <3> QED
      BY <3>1 DEF ReadIn, SourceChecks, RepairSteps
  <2> QED
    BY <2>2, <2>3, <2>4, <2>5
<1>6. CASE LoadPreparations
  <2>1. pc' = "loadJournal" /\ securityFault' = State!IntegrityFault'
    BY <1>6 DEF LoadPreparations, Goto, ReadFlags
  <2>2. loaded /\ ~storageFault
    BY <1>6 DEF LoadPreparations, ReadIn
  <2>3. loaded' /\ ~storageFault'
    <3>1. CASE UNCHANGED stateVars
      BY <2>2, <3>1 DEF stateVars
    <3>2. CASE PreparationLatches(FALSE)
      BY <2>2, <3>2, LatchesAtStart DEF Types
    <3>3. (pc \notin FaultFree) = FALSE
      BY <1>6 DEF LoadPreparations, MarkersWritten
    <3> QED
      BY <1>6, <3>1, <3>2, <3>3 DEF LoadPreparations
  <2> QED
    BY <1>0, <2>1, <2>3
       DEF ReadIn, SourceChecks, RepairSteps, State!IntegrityFault, IntegrityFault
<1>7. CASE LoadAttempts
  <2>1. PICK r : /\ Journal!LoadJournal(r)
                 /\ CASE r = "ok"         -> Continue("sources")
                      [] r \in Raised    -> ForceFault(0, "sources")
                      [] r = "cancelled" -> Abort
    BY <1>7 DEF LoadAttempts
  <2>2. Loads(r)
    BY <2>1, LoadEffect DEF Types
  <2>3. pc = "loadJournal" /\ UNCHANGED stateVars
    BY <1>7 DEF LoadAttempts
  <2>4. CASE r = "ok"
    <3>1. pc' = "sources" /\ securityFault' = securityFault
      BY <2>1, <2>4 DEF Continue, Goto, Raised, KeepFlags, flagVars
    <3>2. records' = journal'
      BY <2>2, <2>4 DEF Loads
    <3>3. ~securityFault => ~State!IntegrityFault'
      BY <2>3 DEF ReadIn, IntegrityFault, State!IntegrityFault, stateVars
    <3> QED
      BY <3>1, <3>2, <3>3 DEF ReadIn, SourceChecks, RepairSteps, IntegrityFault
  <2>5. CASE r # "ok"
    <3>1. r \in Raised \/ r = "cancelled"
      BY <2>2, <2>5 DEF Loads, Raised
    <3>2. pc' \in {"force", "unload"}
      BY <2>1, <2>5, <3>1 DEF ForceFault, Abort, Goto, Raised
    <3> QED
      BY <3>2 DEF ReadIn, SourceChecks, RepairSteps
  <2> QED
    BY <2>4, <2>5
<1>8. CASE CheckSources
  <2>1. UNCHANGED <<stateVars, journalVars>> /\ pc = "sources"
    BY <1>8 DEF CheckSources
  <2>2. \/ pc' = "force"
        \/ pc' = "unresolved" /\ securityFault' = securityFault
    BY <1>8 DEF CheckSources, ForceFault, Continue, Goto, KeepFlags, flagVars
  <2>3. ~securityFault => ~State!IntegrityFault' /\ DOMAIN journal' = DOMAIN records'
    BY <2>1
       DEF ReadIn, IntegrityFault, State!IntegrityFault, stateVars, journalVars, SourceChecks
  <2> QED
    BY <2>2, <2>3 DEF ReadIn, SourceChecks, RepairSteps, IntegrityFault
<1>9. CASE CheckUnresolved \/ StartLatch \/ Finish
  <2>1. pc' \in {"force", "startLatch", "finish", "unload", "markCreate", "idle"}
    BY <1>9, UnresolvedChecked, LatchedAtStart DEF Finish, Goto
  <2> QED
    BY <2>1 DEF ReadIn, SourceChecks, RepairSteps
<1> QED
  BY <1>1, <1>2, <1>3, <1>4, <1>5, <1>6, <1>7, <1>8, <1>9, MostAreSteady

\* Past those checks an open manager never has a second checkout to be checked.
LEMMA LoneKept ==
    ASSUME Types, Types', Control, StartUp, Lone, Calm, Focus, Next
    PROVE  Lone'
<1> SUFFICES ASSUME pc' \notin SourceChecks \cup {"unresolved"}, ~securityFault'
             PROVE  ~Twice(records')
  BY DEF Lone
<1>1. DOMAIN records' = {} => ~Twice(records')
  BY DEF Twice
<1>2. CASE Unload \/ Crash
  BY <1>1, <1>2, EndOfProcess
<1>3. CASE Start \/ LoadState \/ LoadStateAgain \/ LoadPreparations
  <2>1. records' = records /\ DOMAIN records = {}
    BY <1>3
       DEF Start, LoadState, LoadStateAgain, LoadPreparations, StartUp, Unread, journalVars
  <2> QED
    BY <1>1, <2>1
<1>4. CASE LoadAttempts
  <2>1. PICK r : /\ Journal!LoadJournal(r)
                 /\ CASE r = "ok"         -> Continue("sources")
                      [] r \in Raised    -> ForceFault(0, "sources")
                      [] r = "cancelled" -> Abort
    BY <1>4 DEF LoadAttempts
  <2>2. Loads(r)
    BY <2>1, LoadEffect DEF Types
  <2>3. r # "ok"
    BY <2>1 DEF Continue, Goto, Raised, SourceChecks
  <2>4. DOMAIN records = {}
    BY <1>4 DEF LoadAttempts, StartUp, Unread
  <2> QED
    BY <1>1, <2>2, <2>3, <2>4 DEF Loads
<1>5. CASE CheckSources
  BY <1>5 DEF CheckSources, ForceFault, ShutDown, Continue, Goto
<1>6. CASE CheckUnresolved
  <2>1. ~(Cardinality(Journal!UnresolvedManualChecks) > 1)
    BY <1>6 DEF CheckUnresolved, ForceFault, ShutDown
  <2>2. records' = records
    BY <1>6 DEF CheckUnresolved, journalVars
  <2>3. ASSUME NEW a \in DOMAIN records, NEW b \in DOMAIN records,
               records[a].state = Journal!Manual, records[b].state = Journal!Manual
        PROVE  a = b
    <3>1. a \in Journal!UnresolvedManualChecks /\ b \in Journal!UnresolvedManualChecks
      BY <2>3 DEF Journal!UnresolvedManualChecks
    <3>2. Journal!UnresolvedManualChecks = {a}
      BY <2>1, <3>1, OneUnresolved DEF Types
    <3> QED
      BY <3>1, <3>2
  <2> QED
    BY <2>2, <2>3 DEF Twice
<1>7. CASE LoseChallenge \/ Withdraw \/ PreparationWrites \/ StartLatch \/ Finish
  <2>1. /\ records' = records /\ pc \notin SourceChecks \cup {"unresolved"}
        /\ securityFault => securityFault'
    <3>1. CASE LoseChallenge
      BY <3>1 DEF LoseChallenge, journalVars, SourceChecks, RepairSteps
    <3>2. CASE Withdraw \/ PreparationWrites
      <4>1. /\ up = "up" /\ UNCHANGED <<journalVars, controlVars>>
        BY <3>2 DEF Withdraw, PreparationWrites
      <4>2. pc \notin StartSteps \ {"unload"}
        BY <4>1 DEF Control, Placed
      <4> QED
        BY <4>1, <4>2
           DEF journalVars, controlVars, flagVars, SourceChecks, RepairSteps, StartSteps
    <3>3. CASE StartLatch
      <4>1. pc = "startLatch" /\ records' = records /\ ~securityFault
        BY <3>3 DEF StartLatch, journalVars, StartUp
      <4> QED
        BY <4>1 DEF SourceChecks, RepairSteps
    <3>4. CASE Finish
      <4>1. pc = "finish" /\ records' = records
        BY <3>4 DEF Finish, journalVars
      <4>2. securityFault => securityFault'
        BY <3>4 DEF Finish, ShutDown
      <4> QED
        BY <4>1, <4>2 DEF SourceChecks, RepairSteps
    <3> QED
      BY <1>7, <3>1, <3>2, <3>3, <3>4
  <2> QED
    BY <2>1 DEF Lone
<1>8. CASE Steady /\ pc \notin StartSteps /\ up # "down"
  <2>1. ~securityFault
    BY <1>8 DEF Steady
  <2>2. pc \notin SourceChecks \cup {"unresolved"}
    BY <1>8 DEF SourceChecks, RepairSteps, StartSteps
  <2>3. ~Twice(records)
    BY <2>1, <2>2 DEF Lone
  <2>4. UNCHANGED journalVars \/ Sets \/ Drafts
    BY <1>8, JournalCalls, EndOfProcess DEF LoadAttempts, StartSteps, Steady
  <2>5. \A b \in DOMAIN records' : records'[b].state = Journal!Manual =>
           \/ b = ctx.attempt /\ pc \in {"unsent", "ambiguous", "learn", "recover"}
           \/ b \in DOMAIN records /\ records[b].state = Journal!Manual
    BY <2>4, RecordsChange
  <2>6. CASE pc \in {"unsent", "ambiguous", "learn", "recover"}
    <3>1. Journal!UnresolvedManualChecks \subseteq {ctx.attempt}
      BY <2>6 DEF Calm, Focus, Quiet, Sending, Attention
    <3>2. \A b \in DOMAIN records' : records'[b].state = Journal!Manual => b = ctx.attempt
      BY <2>5, <3>1 DEF Journal!UnresolvedManualChecks
    <3> QED
      BY <3>2 DEF Twice
  <2>7. CASE pc \notin {"unsent", "ambiguous", "learn", "recover"}
    BY <2>3, <2>5, <2>7 DEF Twice
  <2> QED
    BY <2>6, <2>7
<1> QED
  BY <1>2, <1>3, <1>4, <1>5, <1>6, <1>7, <1>8, MostAreSteady

\* The method in progress works on a record of the journal, or on none.
Handy == pc' \in Hand => ctx'.attempt \in DOMAIN records'

\* The steps of methods on a record, and some of the others.
LEMMA HandNames ==
    /\ Hand \subseteq Steps
    /\ {"idle", "create", "quoted", "reserved", "dispatching", "assert", "submit",
        "localFail", "unsent", "rejectedBump", "persistence", "again", "force",
        "markAttempt", "markCreate", "markFault", "inspectFault", "disable", "loadState",
        "loadStateAgain", "preparations", "loadJournal", "sources", "unresolved",
        "startLatch", "finish", "unload", "mixed"} \cap Hand = {}
BY DEF Hand, Sending, AdminSteps, Steps, CheckoutSteps

\* How a method goes on, ends or hands over to a recovery keeps it on a record.
LEMMA HelpersHandy ==
    ASSUME Types, JournalOK'
    PROVE  /\ \A s : \A c : s \notin Hand /\ Goto(s, c) => Handy
           /\ \A s : s \notin Hand /\ (Continue(s) \/ CheckedThen(s)) => Handy
           /\ Done \/ Abort \/ Return \/ WriteMarker \/ MarkerCancelled => Handy
           /\ \A a, t : ForceFault(a, t) \/ Recover(a, t) => Handy
           /\ \A t : MarkBumpFault(t) => Handy
<1> USE HandNames
<1>1. \A s : \A c : s \notin Hand /\ Goto(s, c) => Handy
  BY DEF Goto, Handy
<1>2. Done \/ Abort => Handy
  BY <1>1 DEF Done, Abort
<1>3. \A s : s \notin Hand /\ (Continue(s) \/ CheckedThen(s)) => Handy
  BY <1>1, <1>2 DEF Continue, CheckedThen
<1>4. Return => Handy
  <2>1. ctx.then \notin Hand
    BY DEF Types, Typed, Contexts, Thens
  <2> QED
    BY <1>1, <2>1 DEF Return
<1>5. \A a, t : ForceFault(a, t) => Handy
  BY <1>1 DEF ForceFault
<1>6. \A a, t : Recover(a, t) => Handy
  BY RecoverGoes DEF Handy, Recoverable
<1>7. \A t : MarkBumpFault(t) => Handy
  BY <1>1 DEF MarkBumpFault
<1>8. WriteMarker => Handy
  BY <1>3, <1>4 DEF WriteMarker
<1>9. MarkerCancelled => Handy
  <2>1. ctx.forced \in BOOLEAN
    BY DEF Types, Typed, Contexts
  <2>2. CASE ctx.forced
    BY <1>4, <2>2 DEF MarkerCancelled
  <2>3. CASE ~ctx.forced
    BY <1>2, <1>6, <2>1, <2>3 DEF MarkerCancelled
  <2> QED
    BY <2>2, <2>3
<1> QED
  BY <1>1, <1>2, <1>3, <1>4, <1>5, <1>6, <1>7, <1>8, <1>9

\* No step of a method on a record takes that record out of the journal.
LEMMA RecordStays ==
    ASSUME Types, Control, OnHand, Next, pc \in Hand \cup {"submit"}, ~Crash
    PROVE  ctx.attempt \in DOMAIN records'
<1>1. ctx.attempt \in DOMAIN records
  BY DEF OnHand, Control, Drafting, Drafted, Preparing
<1>2. ~LoadAttempts /\ ~Unload /\ ~Drafts
  <2>1. pc \notin {"loadJournal", "unload", "create", "markCreate"}
    BY HandNames
  <2> QED
    BY <2>1 DEF LoadAttempts, Unload, Drafts
<1>3. UNCHANGED journalVars \/ Sets
  BY <1>2, JournalCalls
<1>4. CASE UNCHANGED journalVars
  BY <1>1, <1>4 DEF journalVars
<1>5. CASE Sets
  BY SMTT(60), <1>1, <1>5 DEF Sets, Moves, Replaces, Saves, JournalStill
<1> QED
  BY <1>3, <1>4, <1>5

\* A step that goes on with the same attempt.
LEMMA SameHandy ==
    ASSUME Types, ctx.attempt \in DOMAIN records'
    PROVE  /\ \A s : Goto(s, ctx) => Handy
           /\ \A s : Continue(s) => Handy
           /\ \A s, n : Goto(s, [ctx EXCEPT !.revision = n]) => Handy
           /\ \A s : Goto(s, [ctx EXCEPT !.revision = @ + 1]) => Handy
           /\ \A s, b, d : Goto(s, [ctx EXCEPT !.succeeded = b, !.learned = d]) => Handy
           /\ \A s, b : Goto(s, [ctx EXCEPT !.learned = b]) => Handy
           /\ \A s, b : Goto(s, [ctx EXCEPT !.saved = b]) => Handy
           /\ \A s, t : Goto(s, [ctx EXCEPT !.then = t]) => Handy
           /\ \A s, b, x : Goto(s, [ctx EXCEPT !.succeeded = b, !.resolution = x]) => Handy
<1>1. ctx \in Contexts
  BY DEF Types, Typed
<1>2. \A s, c : Goto(s, c) /\ c.attempt = ctx.attempt => Handy
  BY DEF Goto, Handy
<1>3. \A s : Goto(s, ctx) => Handy
  BY <1>2
<1>4. \A s : Continue(s) => Handy
  BY <1>3 DEF Continue
<1>5. \A s, n : Goto(s, [ctx EXCEPT !.revision = n]) => Handy
  BY <1>1, <1>2, ContextFields
<1>6. \A s : Goto(s, [ctx EXCEPT !.revision = @ + 1]) => Handy
  BY <1>1, <1>5, ContextFields
<1>7. \A s, b, d : Goto(s, [ctx EXCEPT !.succeeded = b, !.learned = d]) => Handy
  <2>1. \A b, d : [ctx EXCEPT !.succeeded = b, !.learned = d].attempt = ctx.attempt
    BY <1>1, ContextFields
  <2> QED
    BY <1>2, <2>1
<1>8. \A s, b : Goto(s, [ctx EXCEPT !.learned = b]) => Handy
  BY <1>1, <1>2, ContextFields
<1>9. \A s, b : Goto(s, [ctx EXCEPT !.saved = b]) => Handy
  BY <1>1, <1>2, ContextFields
<1>10. \A s, t : Goto(s, [ctx EXCEPT !.then = t]) => Handy
  BY <1>1, <1>2, ContextFields
<1>11. \A s, b, x : Goto(s, [ctx EXCEPT !.succeeded = b, !.resolution = x]) => Handy
  <2>1. \A b, x : [ctx EXCEPT !.succeeded = b, !.resolution = x].attempt = ctx.attempt
    BY <1>1, ContextFields
  <2> QED
    BY <1>2, <2>1
<1> QED
  BY ZenonT(60), <1>3, <1>4, <1>5, <1>6, <1>7, <1>8, <1>9, <1>10, <1>11

\* So a method on a record always has that record in the journal.
LEMMA OnHandKept ==
    ASSUME Types, Control, StartUp, OnHand, Next
    PROVE  OnHand'
<1> SUFFICES Handy
  BY DEF Handy, OnHand
<1>0. JournalOK'
  BY JournalKept
<1>1. /\ \A s : \A c : s \notin Hand /\ Goto(s, c) => Handy
      /\ \A s : s \notin Hand /\ (Continue(s) \/ CheckedThen(s)) => Handy
      /\ Done \/ Abort \/ Return \/ WriteMarker \/ MarkerCancelled => Handy
      /\ \A a, t : ForceFault(a, t) \/ Recover(a, t) => Handy
      /\ \A t : MarkBumpFault(t) => Handy
  BY <1>0, HelpersHandy
<1> USE HandNames
<1>2. CASE Crash
  BY <1>1, <1>2 DEF Crash, Lose
<1>3. CASE pc \in Hand \cup {"submit"} /\ ~Crash
  <2>1. ctx.attempt \in DOMAIN records'
    BY SMTT(60), <1>3, RecordStays
  <2>2. /\ \A s : Goto(s, ctx) => Handy
        /\ \A s : Continue(s) => Handy
        /\ \A s, n : Goto(s, [ctx EXCEPT !.revision = n]) => Handy
        /\ \A s : Goto(s, [ctx EXCEPT !.revision = @ + 1]) => Handy
        /\ \A s, b, d : Goto(s, [ctx EXCEPT !.succeeded = b, !.learned = d]) => Handy
        /\ \A s, b : Goto(s, [ctx EXCEPT !.learned = b]) => Handy
        /\ \A s, b : Goto(s, [ctx EXCEPT !.saved = b]) => Handy
        /\ \A s, t : Goto(s, [ctx EXCEPT !.then = t]) => Handy
        /\ \A s, b, x : Goto(s, [ctx EXCEPT !.succeeded = b, !.resolution = x]) => Handy
    BY ZenonT(60), <2>1, SameHandy
  <2>3. CASE Submit
    BY ZenonT(60), <1>1, <2>2, <2>3 DEF Submit
  <2>4. CASE Reply
    BY ZenonT(60), <1>1, <2>2, <2>4 DEF Reply
  <2>5. CASE RecordAnswer
    BY ZenonT(60), <1>1, <2>2, <2>5, JournalEnds DEF RecordAnswer, Ends, Raised
  <2>6. CASE BumpAfterAnswer
    BY <1>1, <2>6, StateEnds DEF BumpAfterAnswer, Ends, Raised
  <2>7. CASE RecordRejection
    BY <1>1, <2>7 DEF RecordRejection
  <2>8. CASE LearnFromAmbiguous \/ LearnFromAnswer
    BY <1>1, <2>8 DEF LearnFromAmbiguous, LearnFromAnswer
  <2>9. CASE RecoverRecord
    BY <2>2, <2>9 DEF RecoverRecord
  <2>10. CASE RecoverLatch
    BY SMTT(60), <1>1, <2>10 DEF RecoverLatch
  <2>11. CASE InspectionAnswer
    BY ZenonT(60), <1>1, <2>2, <2>11 DEF InspectionAnswer
  <2>12. CASE Reconcile
    BY ZenonT(60), <1>1, <2>2, <2>12 DEF Reconcile
  <2>13. CASE InspectionBind
    BY ZenonT(60), <1>1, <2>2, <2>13 DEF InspectionBind
  <2>14. CASE InspectionBump
    BY <1>1, <2>2, <2>14, StateEnds DEF InspectionBump, Ends, Raised
  <2>15. CASE InspectionClear
    BY ZenonT(60), <1>1, <2>15, StateEnds DEF InspectionClear, Ends, Raised
  <2>16. CASE ClearAgain
    BY <1>1, <2>16 DEF ClearAgain
  <2>17. CASE Review
    BY <1>1, <2>2, <2>17 DEF Review
  <2>18. CASE ReviewBind
    BY <1>1, <2>18 DEF ReviewBind
  <2>19. CASE ResolveBump
    BY <1>1, <2>2, <2>19, StateEnds DEF ResolveBump, Ends, Raised
  <2>20. CASE ResolveRecord
    BY ZenonT(60), <1>1, <2>2, <2>20, JournalEnds DEF ResolveRecord, Ends, Raised
  <2>21. CASE ResolveBind
    BY <1>1, <2>2, <2>21 DEF ResolveBind
  <2>22. CASE ResolveClear
    BY <1>1, <2>22 DEF ResolveClear
  <2>23. CASE Withdraw \/ PreparationWrites
    <3>1. pc' = pc /\ ctx' = ctx
      BY <2>23 DEF Withdraw, PreparationWrites, controlVars
    <3> QED
      BY <2>1, <3>1 DEF Handy
  <2>24. /\ ~ (CreateAttempt \/ AdvanceAttempt \/ AssertAuthority \/ RecordUnsent)
         /\ ~ (FailLocally \/ BumpAfterRejection \/ PersistenceFault \/ ForceAgain)
         /\ ~Faulting
         /\ ~ (DisableBump \/ InspectionFault)
         /\ ~Starting
         /\ ~Requested /\ ~BeginReload /\ ~Start
    <3>1. pc \notin {"idle", "create", "quoted", "reserved", "dispatching", "assert",
                     "localFail", "unsent", "rejectedBump", "persistence", "again", "force",
                     "markAttempt", "markCreate", "markFault", "inspectFault", "disable"}
      BY <1>3
    <3>2. pc \notin StartSteps
      BY <1>3 DEF Hand, Sending, AdminSteps, StartSteps
    <3>3. up # "down"
      BY <3>1 DEF Control, Placed
    <3> QED
      BY <3>1, <3>2, <3>3, Where, Guards DEF Forcing, Marking
  <2>25. ~Environment \/ Withdraw \/ PreparationWrites
    BY <1>3 DEF Environment
  <2> QED
    BY <2>3, <2>4, <2>5, <2>6, <2>7, <2>8, <2>9, <2>10, <2>11, <2>12, <2>13, <2>14, <2>15,
       <2>16, <2>17, <2>18, <2>19, <2>20, <2>21, <2>22, <2>23, <2>24, <2>25
       DEF Next, Progress, Checkout, Administration
<1>4. CASE pc \notin Hand \cup {"submit"}
  <2>1. CASE CreateAttempt
    BY <1>1, <2>1 DEF CreateAttempt
  <2>2. CASE AdvanceAttempt
    <3>1. pc # "dispatching" => Following[pc] \notin Hand
      BY <2>2 DEF AdvanceAttempt, Following
    <3> QED
      BY <1>1, <2>2, <3>1 DEF AdvanceAttempt
  <2>3. CASE AssertAuthority
    BY <1>1, <2>3, StateEnds DEF AssertAuthority, Ends, Raised
  <2>4. CASE RecordUnsent \/ FailLocally
    BY <1>1, <2>4 DEF RecordUnsent, FailLocally
  <2>5. CASE BumpAfterRejection \/ PersistenceFault \/ ForceAgain
    BY <1>1, <2>5 DEF BumpAfterRejection, PersistenceFault, ForceAgain
  <2>6. CASE ForceLatch \/ MarkAttempt \/ MarkFault
    BY <1>1, <2>6 DEF ForceLatch, MarkAttempt, MarkFault
  <2>7. CASE MarkCreate
    BY <1>1, <2>7, JournalEnds DEF MarkCreate, Ends, Raised
  <2>8. CASE DisableBump
    BY <1>1, <2>8, StateEnds DEF DisableBump, Ends, Raised
  <2>9. CASE InspectionFault
    BY <1>1, <2>9 DEF InspectionFault
  <2>10. CASE Starting
    <3>1. CASE LoadState
      BY <1>1, <3>1, StateEnds DEF LoadState, Ends, Raised
    <3>2. CASE LoadStateAgain
      BY <1>1, <3>2, StateEnds DEF LoadStateAgain, Ends, Raised
    <3>3. CASE LoadAttempts
      BY <1>1, <3>3, JournalEnds DEF LoadAttempts, Ends, Raised
    <3>4. CASE LoadPreparations
      BY <1>1, <3>4 DEF LoadPreparations
    <3>5. CASE CheckSources
      BY <1>1, <3>5 DEF CheckSources
    <3>6. CASE CheckUnresolved
      <4>1. pc' \notin Hand
        BY <3>6, UnresolvedChecked
      <4> QED
        BY <4>1 DEF Handy
    <3>7. CASE StartLatch
      <4>1. pc' \notin Hand
        BY <3>7, LatchedAtStart
      <4> QED
        BY <4>1 DEF Handy
    <3>8. CASE Finish \/ Unload
      BY <1>1, <3>8 DEF Finish, Unload, Lose
    <3> QED
      BY <2>10, <3>1, <3>2, <3>3, <3>4, <3>5, <3>6, <3>7, <3>8 DEF Starting
  <2>11. CASE BeginCheckout \/ Disable \/ BeginReload \/ Start
    BY <1>1, <2>11 DEF BeginCheckout, Disable, BeginReload, Start
  <2>12. CASE LoseChallenge \/ PrepareResolution \/ Withdraw \/ PreparationWrites
    <3>1. pc' = pc
      BY <2>12 DEF LoseChallenge, PrepareResolution, Withdraw, PreparationWrites, controlVars
    <3> QED
      BY <1>4, <3>1 DEF Handy
  <2>13. CASE BeginInspection
    <3>1. snap.manual.attempt \in DOMAIN records
      BY <2>13 DEF BeginInspection, Bound
    <3>2. records' = records
      BY <2>13 DEF BeginInspection, journalVars
    <3>3. Goto("inspect", [NoContext EXCEPT !.attempt = snap.manual.attempt,
                                            !.revision = snap.manual.revision])
      BY <2>13 DEF BeginInspection
    <3>4. ctx'.attempt = snap.manual.attempt
      BY <3>3 DEF Goto, NoContext
    <3> QED
      BY <3>1, <3>2, <3>4 DEF Handy
  <2>14. CASE BeginResolution
    <3>1. challenge.attempt \in DOMAIN records
      BY <2>14 DEF BeginResolution, ChallengeCurrent, Bound
    <3>2. records' = records
      BY <2>14 DEF BeginResolution, journalVars
    <3>3. \E s : Goto(s, [NoContext EXCEPT !.attempt = challenge.attempt,
                                          !.revision = challenge.revision,
                                          !.resolution = challenge.resolution])
      BY <2>14 DEF BeginResolution
    <3>4. ctx'.attempt = challenge.attempt
      BY <3>3 DEF Goto, NoContext
    <3> QED
      BY <3>1, <3>2, <3>4 DEF Handy
  <2>15. /\ ~ (Submit \/ Reply \/ RecordAnswer \/ BumpAfterAnswer \/ RecordRejection)
         /\ ~ (LearnFromAmbiguous \/ LearnFromAnswer \/ RecoverRecord \/ RecoverLatch)
         /\ ~ (InspectionAnswer \/ Reconcile \/ InspectionBind \/ InspectionBump)
         /\ ~ (InspectionClear \/ ClearAgain \/ Review \/ ReviewBind)
         /\ ~ (ResolveBump \/ ResolveRecord \/ ResolveBind \/ ResolveClear)
    <3>1. pc \notin {"submit", "reply", "terminal", "finalBump", "rejected", "ambiguous",
                     "learn", "recover", "recoverLatch", "inspect", "reconcile",
                     "inspectBind", "inspectBump", "inspectClear", "clearAgain", "review",
                     "reviewBind", "resolveBump", "resolve", "resolveBind", "clear"}
      BY <1>4 DEF Hand, Sending, AdminSteps
    <3> QED
      BY <3>1, Guards
  <2> QED
    BY <1>2, <2>1, <2>2, <2>3, <2>4, <2>5, <2>6, <2>7, <2>8, <2>9, <2>10, <2>11, <2>12, <2>13,
       <2>14, <2>15
       DEF Next, Progress, Checkout, Faulting, Administration, Requested, Environment
<1> QED
  BY <1>2, <1>3, <1>4

\* Where the journal accepts the call, a marker on an open record is on file.
LEMMA MarkWritten ==
    ASSUME JournalOK, Readable, NEW a \in DOMAIN records,
           records[a].state \notin Journal!Terminal, NEW r \in {"ok", "refused"},
           Journal!Transition(a, Journal!Integrity, FALSE, r)
    PROVE  HasFault(records')
<1> DEFINE new == [records[a] EXCEPT
                    !.state = Journal!Integrity,
                    !.revision = @ + 1,
                    !.dispatched = (@ \/ Journal!Integrity = "DISPATCHING"),
                    !.failure = Journal!Metadata(Journal!Integrity).failure,
                    !.resolution = Journal!Metadata(Journal!Integrity).resolution,
                    !.evidence = Journal!Metadata(Journal!Integrity).evidence,
                    !.checkout = (@ \/ FALSE)]
<1>1. Journal!Integrity \in Journal!Allowed(records[a].state)
  <2>1. records[a].state \in Journal!States
    BY ListFacts DEF GoodEntry
  <2> QED
    BY <2>1
       DEF Journal!States, Journal!Allowed, Journal!Terminal, Journal!Confirmed,
           Journal!Integrity, Journal!Manual, Journal!LegacyMock, Journal!Preparing,
           Journal!InFlight
<1>2. Journal!Write(a, new, r)
  BY <1>1 DEF Journal!Transition
<1>3. /\ new.state = Journal!Integrity /\ new.failure = FALSE
      /\ new.resolution = None /\ new.evidence = None
  <2>1. records[a] \in JP!Records
    BY DEF JournalOK, JP!Inv, JP!GoodList, JP!GoodRecord
  <2>2. /\ Journal!Metadata(Journal!Integrity).failure = FALSE
        /\ Journal!Metadata(Journal!Integrity).resolution = None
        /\ Journal!Metadata(Journal!Integrity).evidence = None
    BY DEF Journal!Metadata, Journal!Integrity, Journal!Manual, Journal!LegacyMock
  <2> QED
    BY <2>1, <2>2 DEF JP!Records
<1> HIDE DEF new
<1>4. Journal!Valid(new)
  BY <1>3
     DEF Journal!Valid, Journal!Integrity, Journal!Manual, Journal!LegacyMock,
         Journal!Confirmed, Journal!Preparing, Journal!InFlight
<1>5. Journal!Save([records EXCEPT ![a] = new], r)
  BY <1>2, <1>4 DEF Journal!Write
<1>6. records' = [records EXCEPT ![a] = new]
  BY <1>5 DEF Journal!Save, Readable
<1>7. DOMAIN records' = DOMAIN records /\ records'[a] = new
  BY <1>6
<1> QED
  BY <1>3, <1>7 DEF HasFault

\* A list full of protected records is grave.
LEMMA FullIsGrave ==
    ASSUME JournalOK, Journal!FullOfProtected(records)
    PROVE  Grave(records)
<1> DEFINE S == {a \in DOMAIN records : Journal!Protected(records[a])}
<1>1. IsFiniteSet(S) /\ Cardinality(S) \in Nat
  BY ListFacts, FS_Subset, FS_CardinalityType
<1>2. Cardinality(S) >= 4
  <2>1. Journal!Cardinality(S) >= MaxRecords
    BY DEF Journal!FullOfProtected
  <2> QED
    BY <1>1, <2>1, SizeBridge, Constants
<1>3. S # {}
  BY <1>2, FS_EmptySet
<1>4. PICK a \in S : TRUE
  BY <1>3
<1>5. PICK b \in S : b # a
  <2>1. IsFiniteSet({a}) /\ Cardinality({a}) = 1
    BY FS_Singleton
  <2>2. S # {a}
    BY <1>2, <2>1
  <2> QED
    BY <1>4, <2>2
<1>6. /\ a \in DOMAIN records /\ b \in DOMAIN records
      /\ records[a].state \in {Journal!Manual, Journal!Integrity}
      /\ records[b].state \in {Journal!Manual, Journal!Integrity}
  BY DEF Journal!Protected
<1> HIDE DEF S
<1> QED
  BY <1>5, <1>6 DEF Grave, Twice, HasFault

\* A record of its own for a marker is made, unless the list is full of what needs attention.
LEMMA MarkerMade ==
    ASSUME Types, Readable, NEW r \in {"ok", "refused"},
           Journal!Create(NewAttempt, "mock", r)
    PROVE  /\ r = "ok" => NewAttempt \in DOMAIN records' /\ records'[NewAttempt].state = "DRAFT"
           /\ r = "refused" => Grave(records)
<1>1. JournalOK /\ posted \subseteq 1..MaxAttempts
  BY DEF Types, Typed
<1>2. NewAttempt \in Nat /\ \A b \in DOMAIN records : b < NewAttempt
  BY <1>1, NewAttemptIsNew DEF Seen
<1>3. CASE r = "ok"
  <2>1. Creates(NewAttempt, "mock", r)
    BY <1>1, <1>2, CreateEffect
  <2>2. PICK c : Adds(c, NewAttempt, "mock") /\ Saves(c, r)
    BY <1>3, <2>1 DEF Creates
  <2>3. records' = c
    BY <1>3, <2>2 DEF Saves
  <2> QED
    BY <1>3, <2>2, <2>3 DEF Adds, Journal!Draft
<1>4. CASE r = "refused"
  <2>1. NewAttempt \notin DOMAIN records
    BY <1>1, <1>2, ListFacts
  <2>2. Journal!FullOfProtected(records)
    BY <1>4, <2>1 DEF Journal!Create, Journal!Save, Readable
  <2>3. Grave(records)
    BY <1>1, <2>2, FullIsGrave
  <2> QED
    BY <1>4, <2>3
<1> QED
  BY <1>3, <1>4

\* A fault that a step finds is about to be latched, for an attempt of the journal or for
\* none, or marked.
Held == Hand \cup {"submit", "startLatch"}
Arising ==
    securityFault' =>
        \/ pc' = "markCreate"
        \/ /\ pc' = "force"
           /\ ctx'.attempt = 0 \/ (ctx'.attempt = ctx.attempt /\ pc \in Held)

\* Each way to go on that may find a fault does what Arising says.
LEMMA HelpersArise ==
    ASSUME Types, ~securityFault, JournalOK'
    PROVE  /\ UNCHANGED securityFault => Arising
           /\ KeepFlags \/ ClearChallenge => Arising
           /\ SetManualCheck(TRUE) \/ SetManualCheck(FALSE) => Arising
           /\ Done \/ Abort \/ Return => Arising
           /\ \A s : Continue(s) \/ CheckedThen(s) => Arising
           /\ \A t : ForceFault(0, t) => Arising
           /\ pc \in Held => \A t : ForceFault(ctx.attempt, t) => Arising
           /\ pc \in Held => \A t : Recover(ctx.attempt, t) => Arising
           /\ \A t : MarkBumpFault(t) => Arising
<1>1. UNCHANGED securityFault => Arising
  BY DEF Arising
<1>2. KeepFlags \/ ClearChallenge => Arising
  BY <1>1 DEF KeepFlags, flagVars, ClearChallenge
<1>3. SetManualCheck(TRUE) \/ SetManualCheck(FALSE) => Arising
  BY <1>1 DEF SetManualCheck
<1>4. Done \/ Abort \/ Return => Arising
  BY <1>2 DEF Done, Abort, Return
<1>5. \A s : Continue(s) => Arising
  BY <1>2 DEF Continue
<1>6. \A s : CheckedThen(s) => Arising
  BY <1>4, <1>5 DEF CheckedThen
<1>7. ASSUME NEW a, NEW t, ForceFault(a, t)
      PROVE  pc' = "force" /\ ctx'.attempt = a
  BY <1>7 DEF ForceFault, Goto, NoContext
<1>8. \A t : ForceFault(0, t) => Arising
  BY <1>7 DEF Arising
<1>9. pc \in Held => \A t : ForceFault(ctx.attempt, t) => Arising
  BY <1>7 DEF Arising
<1>10. ASSUME NEW t, Recover(ctx.attempt, t), pc \in Held
       PROVE  Arising
  <2>1. /\ ctx'.attempt = ctx.attempt
        /\ pc' = "force" \/ securityFault' = securityFault
    BY <1>10, RecoverGoes
  <2> QED
    BY <1>1, <1>10, <2>1 DEF Arising
<1>11. \A t : MarkBumpFault(t) => Arising
  BY DEF MarkBumpFault, Goto, Arising
<1> QED
  BY <1>1, <1>2, <1>3, <1>4, <1>5, <1>6, <1>8, <1>9, <1>10, <1>11

\* That is how faults arise once both files were read, except in the checks of start-up.
LEMMA FaultArises ==
    ASSUME Types, Control, ~securityFault, JournalRead, Next
    PROVE  Arising \/ CheckUnresolved
<1>0. JournalOK'
  BY JournalKept
<1>1. /\ UNCHANGED securityFault => Arising
      /\ KeepFlags \/ ClearChallenge => Arising
      /\ SetManualCheck(TRUE) \/ SetManualCheck(FALSE) => Arising
      /\ Done \/ Abort \/ Return => Arising
      /\ \A s : Continue(s) \/ CheckedThen(s) => Arising
      /\ \A t : ForceFault(0, t) => Arising
      /\ pc \in Held => \A t : ForceFault(ctx.attempt, t) => Arising
      /\ pc \in Held => \A t : Recover(ctx.attempt, t) => Arising
      /\ \A t : MarkBumpFault(t) => Arising
  BY <1>0, HelpersArise
<1>2. {"submit", "startLatch", "reply", "terminal", "finalBump", "rejected", "ambiguous",
       "learn", "recover", "recoverLatch", "inspect", "reconcile", "inspectBind",
       "inspectBump", "inspectClear", "review", "reviewBind", "resolveBump", "resolve",
       "resolveBind", "clear", "clearAgain"} \subseteq Held
  BY DEF Held, Hand, Sending, AdminSteps
<1>3. CASE Checkout
  <2>1. CASE CreateAttempt
    BY <1>1, <2>1 DEF CreateAttempt
  <2>2. CASE AdvanceAttempt
    BY <1>1, <2>2 DEF AdvanceAttempt
  <2>3. CASE AssertAuthority
    BY <1>1, <2>3, StateEnds DEF AssertAuthority, Ends, Raised
  <2>4. CASE RecordUnsent \/ FailLocally
    BY <1>1, <2>4 DEF RecordUnsent, FailLocally
  <2>5. CASE Submit
    BY <1>1, <1>2, <2>5 DEF Submit
  <2>6. CASE Reply
    BY <1>1, <1>2, <2>6 DEF Reply
  <2>7. CASE RecordAnswer
    BY <1>1, <2>7, JournalEnds DEF RecordAnswer, Ends, Raised
  <2>8. CASE BumpAfterAnswer
    BY <1>1, <1>2, <2>8, StateEnds DEF BumpAfterAnswer, Ends, Raised
  <2>9. CASE RecordRejection
    BY <1>1, <2>9 DEF RecordRejection
  <2>10. CASE BumpAfterRejection
    BY <1>1, <2>10 DEF BumpAfterRejection
  <2>11. CASE LearnFromAmbiguous \/ LearnFromAnswer
    BY <1>1, <1>2, <2>11 DEF LearnFromAmbiguous, LearnFromAnswer
  <2>12. CASE RecoverRecord
    BY <1>1, <2>12 DEF RecoverRecord
  <2>13. CASE RecoverLatch
    BY <1>1, <1>2, <2>13 DEF RecoverLatch
  <2>14. CASE ForceAgain
    BY <1>1, <2>14 DEF ForceAgain
  <2>15. ~PersistenceFault
    BY Guards DEF Control, Placed
  <2> QED
    BY <1>3, <2>1, <2>2, <2>3, <2>4, <2>5, <2>6, <2>7, <2>8, <2>9, <2>10, <2>11, <2>12, <2>13,
       <2>14, <2>15 DEF Checkout
<1>4. ~Faulting /\ ~InspectionFault
  <2>1. pc \notin FaultSteps
    BY DEF Control, Placed
  <2> QED
    BY <2>1, Where, Guards DEF Forcing, Marking, FaultSteps
<1>5. CASE Administration
  <2>1. CASE DisableBump
    BY <1>1, <2>1, StateEnds DEF DisableBump, Ends, Raised
  <2>2. CASE InspectionAnswer
    BY <1>1, <2>2 DEF InspectionAnswer
  <2>3. CASE Reconcile
    BY <1>1, <2>3 DEF Reconcile
  <2>4. CASE InspectionBind
    BY <1>1, <1>2, <2>4 DEF InspectionBind
  <2>5. CASE InspectionBump
    BY <1>1, <2>5, StateEnds DEF InspectionBump, Ends, Raised
  <2>6. CASE InspectionClear
    BY <1>1, <1>2, <2>6, StateEnds DEF InspectionClear, Ends, Raised
  <2>7. CASE ClearAgain
    BY <1>1, <2>7 DEF ClearAgain
  <2>8. CASE Review
    BY <1>1, <2>8 DEF Review
  <2>9. CASE ReviewBind
    BY <1>1, <1>2, <2>9 DEF ReviewBind
  <2>10. CASE ResolveBump
    BY <1>1, <2>10, StateEnds DEF ResolveBump, Ends, Raised
  <2>11. CASE ResolveRecord
    BY <1>1, <2>11, JournalEnds DEF ResolveRecord, Ends, Raised
  <2>12. CASE ResolveBind
    BY <1>1, <1>2, <2>12 DEF ResolveBind
  <2>13. CASE ResolveClear
    BY <1>1, <2>13, StateEnds DEF ResolveClear, Ends, Raised
  <2> QED
    BY <1>4, <1>5, <2>1, <2>2, <2>3, <2>4, <2>5, <2>6, <2>7, <2>8, <2>9, <2>10, <2>11, <2>12,
       <2>13 DEF Administration
<1>6. CASE Starting
  <2>1. ~LoadState /\ ~LoadStateAgain /\ ~LoadPreparations /\ ~LoadAttempts /\ ~Unload
    <3>1. pc \notin {"loadState", "loadStateAgain", "preparations", "loadJournal", "unload"}
      BY DEF JournalRead, Unread
    <3> QED
      BY <3>1, Guards
  <2>2. CASE CheckSources
    BY <1>1, <2>2 DEF CheckSources
  <2>3. CASE StartLatch
    BY <1>1, <1>2, <2>3, StateEnds DEF StartLatch, Ends, Raised
  <2>4. CASE Finish
    BY <1>1, <2>4 DEF Finish
  <2> QED
    BY <1>6, <2>1, <2>2, <2>3, <2>4 DEF Starting
<1>7. CASE Requested \/ BeginReload \/ Environment
  <2>1. CASE BeginCheckout \/ Disable \/ BeginInspection \/ BeginReload
    BY <1>1, <2>1 DEF BeginCheckout, Disable, BeginInspection, BeginReload
  <2>2. CASE PrepareResolution \/ LoseChallenge
    BY <1>1, <2>2 DEF PrepareResolution, LoseChallenge
  <2>3. CASE BeginResolution
    BY <1>1, <2>3 DEF BeginResolution
  <2>4. CASE Withdraw \/ PreparationWrites
    BY <1>1, <2>4 DEF Withdraw, PreparationWrites, controlVars, flagVars
  <2>5. CASE Crash
    BY <2>5, EndOfProcess DEF Arising
  <2> QED
    BY <1>7, <2>1, <2>2, <2>3, <2>4, <2>5 DEF Requested, Environment
<1>8. ~Start
  BY Guards DEF JournalRead
<1> QED
  BY <1>3, <1>4, <1>5, <1>6, <1>7, <1>8 DEF Next, Progress

\* So an attempt that a fault is latched for is in the journal, or the latch that start-up
\* found for it outlives the process by itself.
LEMMA ForcedFor ==
    ASSUME Types, Control, StartUp, OnHand, ReadIn, ~securityFault, JournalRead, Next,
           pc' = "force", ctx'.attempt # 0, ctx'.attempt \notin DOMAIN records', securityFault'
    PROVE  Lasting'
<1>1. CASE Arising
  <2>1. ctx'.attempt = ctx.attempt /\ pc \in Held
    BY <1>1 DEF Arising
  <2>2. CASE pc \in Hand \cup {"submit"}
    <3>1. ~Crash
      BY EndOfProcess
    <3>2. ctx.attempt \in DOMAIN records'
      BY <2>2, <3>1, RecordStays
    <3> QED
      BY <2>1, <3>2
  <2>3. CASE pc = "startLatch"
    <3>1. ctx.attempt \in DOMAIN records
      BY <2>3 DEF StartUp, Journal!UnresolvedManualChecks
    <3>2. ~LoadAttempts /\ ~Unload /\ ~Crash
      BY <2>3, Guards, EndOfProcess
    <3>3. ~Sets /\ ~Drafts
      BY <2>3 DEF Sets, Drafts, Due
    <3>4. records' = records
      BY <3>2, <3>3, JournalCalls DEF journalVars
    <3> QED
      BY <2>1, <3>1, <3>4
  <2> QED
    BY <2>1, <2>2, <2>3 DEF Held
<1>2. CASE CheckUnresolved
  <2> DEFINE unresolved == Journal!UnresolvedManualChecks
             a == CHOOSE b \in unresolved : TRUE
  <2>1. pc = "unresolved" /\ UNCHANGED <<stateVars, journalVars>>
    BY <1>2 DEF CheckUnresolved
  <2>2. CASE Cardinality(unresolved) > 1
    <3>1. ForceFault(0, "finish")
      BY <1>2, <2>2 DEF CheckUnresolved
    <3> QED
      BY <3>1 DEF ForceFault, Goto, NoContext
  <2>3. CASE ~(Cardinality(unresolved) > 1) /\ unresolved # {}
    <3>1. a \in unresolved
      BY <2>3
    <3>2. ForceFault(a, "finish")
      BY <1>2, <2>3 DEF CheckUnresolved, Goto
    <3>3. ctx'.attempt = a
      BY <3>2 DEF ForceFault, Goto, NoContext
    <3> QED
      BY <2>1, <3>1, <3>3 DEF Journal!UnresolvedManualChecks, journalVars
  <2>4. CASE ~(Cardinality(unresolved) > 1) /\ unresolved = {}
    <3>1. snap.manual # None /\ ForceFault(snap.manual.attempt, "finish")
      BY <1>2, <2>4 DEF CheckUnresolved, Continue, Goto
    <3>2. ctx'.attempt = snap.manual.attempt /\ ctx'.then = "finish"
      BY <3>1 DEF ForceFault, Goto, NoContext
    <3>3. Names(snap.manual.attempt)
      BY <2>1, <3>1 DEF StartUp, ReadIn
    <3>4. snap.manual.attempt \notin DOMAIN journal
      <4>1. records' = records
        BY <2>1 DEF journalVars
      <4>2. DOMAIN journal = DOMAIN records
        BY <2>1 DEF ReadIn
      <4> QED
        BY <3>2, <4>1, <4>2
    <3>5. Astray'
      BY <2>1, <3>1, <3>3, <3>4 DEF Astray, Names, stateVars, journalVars
    <3> QED
      BY <3>2, <3>5 DEF Lasting, Resting
  <2> QED
    BY <2>2, <2>3, <2>4
<1> QED
  BY <1>1, <1>2, FaultArises

\* Once both files were read, no step reads them again or forgets them and goes on.
LEMMA ReadsOn ==
    ASSUME Types, Control, JournalRead, JournalRead', Next
    PROVE  /\ ~LoadState /\ ~LoadStateAgain /\ ~LoadAttempts /\ ~Unload /\ ~Crash
           /\ loaded' = loaded
           /\ UNCHANGED journalVars \/ Sets \/ Drafts
           /\ Readable' = Readable
<1>1. ~LoadState /\ ~LoadStateAgain /\ ~LoadAttempts
  BY Guards DEF JournalRead, Unread
<1>2. ~Unload /\ ~Crash
  BY EndOfProcess DEF JournalRead
<1>3. loaded' = loaded
  BY <1>1, <1>2, StateCalls DEF StateKeeps
<1>4. UNCHANGED journalVars \/ Sets \/ Drafts
  BY <1>1, <1>2, JournalCalls
<1>5. Readable' = Readable
  BY <1>4, RecordsChange DEF Readable
<1> QED
  BY <1>1, <1>2, <1>3, <1>4, <1>5

\* Where a closed manager rests without a marker it stays, or it goes to write one.
LEMMA RestsOn ==
    ASSUME Types, Control, JournalRead, JournalRead', securityFault, Resting, Next
    PROVE  Resting' \/ pc' \in {"markCreate", "markAttempt"}
<1>1. CASE Withdraw \/ PreparationWrites \/ LoseChallenge
  <2>1. pc' = pc /\ ctx' = ctx
    BY <1>1 DEF Withdraw, PreparationWrites, LoseChallenge, controlVars
  <2> QED
    BY <2>1 DEF Resting
<1>2. CASE pc = "finish" /\ Finish
  BY <1>2 DEF Finish, Goto, Resting
<1>3. CASE BeginReload
  BY <1>3 DEF BeginReload, Goto, Resting
<1>4. CASE DisableBump
  <2>1. ctx.then \in {"idle", "unload"}
    BY <1>4 DEF DisableBump, Control, Returning
  <2>2. Return => pc' \in {"idle", "unload"}
    BY <2>1 DEF Return, Goto
  <2>3. Done => pc' = "idle"
    BY DEF Done, Goto
  <2>4. \A t : MarkBumpFault(t) => pc' = "markCreate"
    BY DEF MarkBumpFault, Goto
  <2>5. pc' \in {"idle", "unload", "markCreate"}
    BY <1>4, <2>2, <2>3, <2>4, StateEnds DEF DisableBump, Ends, Raised
  <2> QED
    BY <2>5 DEF Resting, JournalRead
<1>5. CASE ForceLatch
  <2>1. ctx.then = "finish"
    BY <1>5 DEF ForceLatch, Resting
  <2>2. Return => pc' = "finish"
    BY <2>1 DEF Return, Goto
  <2>3. WriteMarker => pc' \in {"finish", "markCreate", "markAttempt"}
    BY <2>2 DEF WriteMarker, Continue, Goto
  <2>4. pc' \in {"finish", "markCreate", "markAttempt"}
    BY <1>5, <2>2, <2>3 DEF ForceLatch
  <2> QED
    BY <2>4 DEF Resting
<1>6. ~BeginCheckout /\ ~Disable /\ ~BeginInspection /\ ~PrepareResolution /\ ~BeginResolution
  <2>1. ~BeginInspection /\ ~PrepareResolution /\ ~BeginResolution
    BY DEF BeginInspection, PrepareResolution, BeginResolution, IntegrityFault
  <2>2. ~BeginCheckout
    BY DEF BeginCheckout, Guard, IntegrityFault
  <2>3. ~Disable
    BY DEF Disable, Control, Placed
  <2> QED
    BY <2>1, <2>2, <2>3
<1>7. pc \in {"finish", "idle", "disable", "force"}
  BY DEF Resting
<1>8. /\ ~Checkout
      /\ Faulting => ForceLatch
      /\ Administration => DisableBump
      /\ Starting => pc = "finish" /\ Finish
      /\ ~Start /\ ~Crash
  <2>1. ~Checkout /\ ~Start
    BY <1>7, Where DEF CheckoutSteps, JournalRead
  <2>2. Faulting => ForceLatch
    BY <1>7, Guards DEF Faulting
  <2>3. Administration => DisableBump
    BY <1>7, Guards DEF Administration
  <2>4. Starting => pc = "finish" /\ Finish
    BY <1>7, Guards, Where DEF Starting, StartSteps
  <2>5. ~Crash
    BY ReadsOn
  <2> QED
    BY <2>1, <2>2, <2>3, <2>4, <2>5
<1> QED
  BY <1>1, <1>2, <1>3, <1>4, <1>5, <1>6, <1>8 DEF Next, Progress, Requested, Environment

\* A fault that lasts goes on lasting, unless a marker is about to be written for it.
LEMMA LastingStays ==
    ASSUME Types, Control, Lone, Calm, Focus, Lasting, securityFault,
           JournalRead, JournalRead', Next
    PROVE  Lasting' \/ pc' \in {"markCreate", "markAttempt"}
<1>1. CASE disk.integrity
  BY <1>1, StateKept DEF Lasting
<1>2. CASE Grave(records)
  <2>1. Grave(records')
    BY <1>2, GraveStays, ReadsOn
  <2> QED
    BY <2>1 DEF Lasting
<1>3. CASE Astray /\ Resting
  <2>1. pc \in {"finish", "idle", "disable", "force"}
    BY <1>3 DEF Resting
  <2>2. journal' = journal
    <3>1. ~Sets /\ ~Drafts
      BY <2>1 DEF Sets, Drafts, Due
    <3> QED
      BY <3>1, ReadsOn DEF journalVars
  <2>3. StateStep
    <3>1. /\ ~RecoverLatch /\ ~StartLatch
          /\ ~InspectionClear /\ ~ClearAgain /\ ~ResolveClear
      BY <2>1, Guards
    <3> QED
      BY <3>1, StateCalls, ReadsOn
  <2>4. Names(snap.manual.attempt) /\ snap.manual.attempt \notin DOMAIN journal
    BY <1>3 DEF Astray
  <2>5. NamedNext(snap.manual.attempt)
    <3> DEFINE a == snap.manual.attempt
    <3>1. Names(a)
      BY <2>4
    <3>2. \A b : Names(b) => NamedNext(b)
      BY <2>3 DEF StateStep, Names, NamedNext
    <3> HIDE DEF a
    <3>3. NamedNext(a)
      BY <3>1, <3>2
    <3> QED
      BY <3>3 DEF a
  <2>6. Astray'
    BY <2>2, <2>4, <2>5 DEF Astray, NamedNext, Names
  <2> QED
    BY <1>3, <2>6, RestsOn DEF Lasting
<1> QED
  BY <1>1, <1>2, <1>3 DEF Lasting

\* A marker that is written makes the fault last, and one is written if it does not yet.
LEMMA ForcesOn ==
    ASSUME Types, Control, Marked, Readable, loaded, ForceLatch
    PROVE  /\ Lasting' \/ Lasting \/ pc' \in {"markCreate", "markAttempt"}
           /\ pc' # "force" /\ pc' # "markFault"
           /\ pc' = "markAttempt" =>
                 /\ ctx'.attempt \in DOMAIN records'
                 /\ records'[ctx'.attempt].state \notin Journal!Terminal
<1>1. PICK r : /\ State!LatchFault(r)
               /\ IF r = "ok" THEN Return ELSE WriteMarker
  BY DEF ForceLatch
<1>2. pc = "force" /\ records' = records
  BY DEF ForceLatch, journalVars
<1>3. Return => pc' \in Thens
  BY DEF Return, Goto, Types, Typed, Contexts, Thens
<1>4. CASE r = "ok"
  <2>1. disk'.integrity = TRUE
    BY <1>1, <1>4, LatchFaultEffect DEF Types
  <2>2. pc' \in Thens
    BY <1>1, <1>3, <1>4
  <2> QED
    BY <2>1, <2>2 DEF Lasting, Thens
<1>5. CASE r # "ok"
  <2>1. WriteMarker
    BY <1>1, <1>5
  <2>2. CASE ctx.attempt = 0
    BY <2>1, <2>2 DEF WriteMarker, Continue, Goto
  <2>3. CASE ctx.attempt # 0 /\ ctx.attempt \notin DOMAIN records
    <3>1. Lasting
      BY <1>2, <2>3 DEF Marked
    <3>2. pc' \in Thens
      BY <1>3, <2>1, <2>3 DEF WriteMarker
    <3> QED
      BY <3>1, <3>2 DEF Thens
  <2>4. CASE ctx.attempt # 0 /\ ctx.attempt \in DOMAIN records
    <3>1. CASE records[ctx.attempt].state = Journal!Integrity
      <4>1. Lasting
        BY <2>4, <3>1 DEF Lasting, Grave, HasFault
      <4>2. pc' \in Thens
        BY <1>3, <2>1, <2>4, <3>1 DEF WriteMarker
      <4> QED
        BY <4>1, <4>2 DEF Thens
    <3>2. CASE /\ records[ctx.attempt].state # Journal!Integrity
               /\ records[ctx.attempt].state \in Journal!Terminal
      BY <2>1, <2>4, <3>2 DEF WriteMarker, Continue, Goto
    <3>3. CASE records[ctx.attempt].state \notin Journal!Terminal
      <4>1. records[ctx.attempt].state # Journal!Integrity
        BY <3>3, StateNames
      <4>2. pc' = "markAttempt" /\ ctx' = ctx
        BY <2>1, <2>4, <3>3, <4>1 DEF WriteMarker, Continue, Goto
      <4> QED
        BY <1>2, <2>4, <3>3, <4>2
    <3> QED
      BY <3>1, <3>2, <3>3
  <2> QED
    BY <2>2, <2>3, <2>4
<1> QED
  BY <1>4, <1>5

\* The marker then is on file, or the list is grave without it.
LEMMA MarksOn ==
    ASSUME MarkersWritten, Types, Control, Marked, Readable, loaded,
           MarkAttempt \/ MarkCreate \/ MarkFault
    PROVE  /\ Lasting' \/ Grave(records) \/ pc' = "markFault"
           /\ pc' \notin {"force", "markAttempt"}
           /\ pc' = "markFault" =>
                 /\ ctx'.marker \in DOMAIN records'
                 /\ records'[ctx'.marker].state = "DRAFT"
<1>1. Return => pc' \in Thens
  BY DEF Return, Goto, Types, Typed, Contexts, Thens
<1>2. ~ ({"force", "markAttempt", "markFault"} \cap Thens # {})
  BY DEF Thens
<1>3. CASE MarkAttempt
  <2>1. PICK r \in Results : Journal!Transition(ctx.attempt, Journal!Integrity, FALSE, r)
    BY <1>3 DEF MarkAttempt
  <2>2. r \in {"ok", "refused"} /\ pc = "markAttempt"
    BY <1>3, <2>1 DEF MarkAttempt, Results, MarkersWritten
  <2>3. HasFault(records')
    BY <2>1, <2>2, MarkWritten DEF Marked, Types
  <2>4. pc' \in Thens
    BY <1>1, <1>3 DEF MarkAttempt
  <2> QED
    BY <1>2, <2>3, <2>4 DEF Lasting, Grave
<1>4. CASE MarkCreate
  <2>1. PICK r \in Results :
           /\ Journal!Create(NewAttempt, "mock", r)
           /\ CASE r = "ok"         -> /\ Goto("markFault", [ctx EXCEPT !.marker = NewAttempt])
                                       /\ KeepFlags
                [] r \in Raised    -> Return
                [] r = "cancelled" -> MarkerCancelled
    BY <1>4 DEF MarkCreate
  <2>2. r \in {"ok", "refused"}
    BY <1>4, <2>1 DEF MarkCreate, Results, MarkersWritten
  <2>3. /\ r = "ok" => NewAttempt \in DOMAIN records' /\ records'[NewAttempt].state = "DRAFT"
        /\ r = "refused" => Grave(records)
    BY <2>1, <2>2, MarkerMade
  <2>4. CASE r = "ok"
    <3>1. pc' = "markFault" /\ ctx' = [ctx EXCEPT !.marker = NewAttempt]
      BY <2>1, <2>4 DEF Goto, Raised
    <3>2. ctx'.marker = NewAttempt
      BY <3>1 DEF Types, Typed, Contexts
    <3> QED
      BY <2>3, <2>4, <3>1, <3>2
  <2>5. CASE r = "refused"
    <3>1. pc' \in Thens
      BY <1>1, <2>1, <2>5 DEF Raised
    <3> QED
      BY <1>2, <2>3, <2>5, <3>1
  <2> QED
    BY <2>2, <2>4, <2>5
<1>5. CASE MarkFault
  <2>1. PICK r \in Results :
           /\ Journal!Transition(ctx.marker, Journal!Integrity, FALSE, r)
           /\ IF r = "cancelled" THEN MarkerCancelled ELSE Return
    BY <1>5 DEF MarkFault
  <2>2. r \in {"ok", "refused"} /\ pc = "markFault"
    BY <1>5, <2>1 DEF MarkFault, Results, MarkersWritten
  <2>3. ctx.marker \in DOMAIN records /\ records[ctx.marker].state \notin Journal!Terminal
    BY <2>2, StateNames DEF Marked
  <2>4. HasFault(records')
    BY <2>1, <2>2, <2>3, MarkWritten DEF Types
  <2>5. pc' \in Thens
    BY <1>1, <2>1, <2>2
  <2> QED
    BY <1>2, <2>4, <2>5 DEF Lasting, Grave
<1> QED
  BY <1>3, <1>4, <1>5

\* A step that does not begin to write a marker.
Unmarked == pc' \notin {"markAttempt", "markFault"}

\* No other way to go on leads there.
LEMMA HelpersUnmarked ==
    ASSUME Types, JournalOK'
    PROVE  /\ \A s : \A c : s \notin {"markAttempt", "markFault"} /\ Goto(s, c) => Unmarked
           /\ \A s : s \notin {"markAttempt", "markFault"} /\ (Continue(s) \/ CheckedThen(s))
                       => Unmarked
           /\ Done \/ Abort \/ Return => Unmarked
           /\ \A a, t : ForceFault(a, t) \/ Recover(a, t) => Unmarked
           /\ \A t : MarkBumpFault(t) => Unmarked
<1>1. \A s : \A c : s \notin {"markAttempt", "markFault"} /\ Goto(s, c) => Unmarked
  BY DEF Goto, Unmarked
<1>2. Done \/ Abort => Unmarked
  BY <1>1 DEF Done, Abort
<1>3. \A s : s \notin {"markAttempt", "markFault"} /\ (Continue(s) \/ CheckedThen(s)) => Unmarked
  BY <1>1, <1>2 DEF Continue, CheckedThen
<1>4. Return => Unmarked
  <2>1. ctx.then \notin {"markAttempt", "markFault"}
    BY DEF Types, Typed, Contexts, Thens
  <2> QED
    BY <1>1, <2>1 DEF Return
<1>5. \A a, t : ForceFault(a, t) => Unmarked
  BY <1>1 DEF ForceFault
<1>6. \A a, t : Recover(a, t) => Unmarked
  BY RecoverGoes DEF Unmarked
<1>7. \A t : MarkBumpFault(t) => Unmarked
  BY <1>1 DEF MarkBumpFault
<1> QED
  BY <1>1, <1>2, <1>3, <1>4, <1>5, <1>6, <1>7

\* Only the latch of a fault, and the record made for a marker, lead to one.
LEMMA MarkReached ==
    ASSUME Types, Control, StartUp, Next
    PROVE  Unmarked \/ ForceLatch \/ MarkCreate \/ Withdraw \/ PreparationWrites
<1>0. JournalOK'
  BY JournalKept
<1>1. /\ \A s : \A c : s \notin {"markAttempt", "markFault"} /\ Goto(s, c) => Unmarked
      /\ \A s : s \notin {"markAttempt", "markFault"} /\ (Continue(s) \/ CheckedThen(s))
                  => Unmarked
      /\ Done \/ Abort \/ Return => Unmarked
      /\ \A a, t : ForceFault(a, t) \/ Recover(a, t) => Unmarked
      /\ \A t : MarkBumpFault(t) => Unmarked
  BY <1>0, HelpersUnmarked
<1>2. CASE Checkout
  <2>1. CASE CreateAttempt
    BY <1>1, <2>1 DEF CreateAttempt
  <2>2. CASE AdvanceAttempt
    <3>1. pc # "dispatching" => Following[pc] \notin {"markAttempt", "markFault"}
      BY <2>2 DEF AdvanceAttempt, Following
    <3> QED
      BY <1>1, <2>2, <3>1 DEF AdvanceAttempt
  <2>3. CASE AssertAuthority
    BY <1>1, <2>3, StateEnds DEF AssertAuthority, Ends, Raised
  <2>4. CASE RecordUnsent \/ FailLocally
    BY <1>1, <2>4 DEF RecordUnsent, FailLocally
  <2>5. CASE Submit
    BY <1>1, <2>5 DEF Submit
  <2>6. CASE Reply
    BY ZenonT(60), <1>1, <2>6 DEF Reply, Continue, Goto, Unmarked
  <2>7. CASE RecordAnswer
    BY <1>1, <2>7, JournalEnds DEF RecordAnswer, Ends, Raised
  <2>8. CASE BumpAfterAnswer
    BY <1>1, <2>8, StateEnds DEF BumpAfterAnswer, Ends, Raised
  <2>9. CASE RecordRejection
    BY <1>1, <2>9 DEF RecordRejection
  <2>10. CASE BumpAfterRejection
    BY <1>1, <2>10 DEF BumpAfterRejection
  <2>11. CASE LearnFromAmbiguous \/ LearnFromAnswer
    BY <1>1, <2>11 DEF LearnFromAmbiguous, LearnFromAnswer
  <2>12. CASE RecoverRecord
    BY <1>1, <2>12 DEF RecoverRecord
  <2>13. CASE RecoverLatch
    BY <1>1, <2>13 DEF RecoverLatch
  <2>14. CASE ForceAgain \/ PersistenceFault
    BY <1>1, <2>14 DEF ForceAgain, PersistenceFault
  <2> QED
    BY <1>2, <2>1, <2>2, <2>3, <2>4, <2>5, <2>6, <2>7, <2>8, <2>9, <2>10, <2>11, <2>12, <2>13,
       <2>14 DEF Checkout
<1>3. CASE MarkAttempt
  BY <1>1, <1>3 DEF MarkAttempt
<1>4. CASE MarkFault
  <2>1. MarkerCancelled => Unmarked
    <3>1. ctx.forced \in BOOLEAN
      BY DEF Types, Typed, Contexts
    <3>2. CASE ctx.forced
      BY <1>1, <3>2 DEF MarkerCancelled
    <3>3. CASE ~ctx.forced
      BY <1>1, <3>1, <3>3 DEF MarkerCancelled
    <3> QED
      BY <3>2, <3>3
  <2> QED
    BY <1>1, <1>4, <2>1 DEF MarkFault
<1>5. CASE Administration
  <2>1. CASE DisableBump
    BY <1>1, <2>1, StateEnds DEF DisableBump, Ends, Raised
  <2>2. CASE InspectionAnswer \/ InspectionFault
    BY ZenonT(60), <1>1, <2>2 DEF InspectionAnswer, InspectionFault, Goto, Unmarked
  <2>3. CASE Reconcile
    BY <1>1, <2>3 DEF Reconcile
  <2>4. CASE InspectionBind
    BY <1>1, <2>4 DEF InspectionBind
  <2>5. CASE InspectionBump
    BY <1>1, <2>5, StateEnds DEF InspectionBump, Ends, Raised
  <2>6. CASE InspectionClear
    BY <1>1, <2>6, StateEnds DEF InspectionClear, Ends, Raised
  <2>7. CASE ClearAgain \/ Review
    BY <1>1, <2>7 DEF ClearAgain, Review, Goto, Unmarked
  <2>8. CASE ReviewBind
    BY <1>1, <2>8 DEF ReviewBind
  <2>9. CASE ResolveBump
    BY <1>1, <2>9, StateEnds DEF ResolveBump, Ends, Raised
  <2>10. CASE ResolveRecord
    BY <1>1, <2>10, JournalEnds DEF ResolveRecord, Ends, Raised, Goto, Unmarked
  <2>11. CASE ResolveBind
    BY <1>1, <2>11 DEF ResolveBind
  <2>12. CASE ResolveClear
    BY <1>1, <2>12 DEF ResolveClear
  <2> QED
    BY <1>5, <2>1, <2>2, <2>3, <2>4, <2>5, <2>6, <2>7, <2>8, <2>9, <2>10, <2>11, <2>12
       DEF Administration
<1>6. CASE Starting
  <2>1. CASE LoadState
    BY <1>1, <2>1, StateEnds DEF LoadState, Ends, Raised
  <2>2. CASE LoadStateAgain
    BY <1>1, <2>2, StateEnds DEF LoadStateAgain, Ends, Raised
  <2>3. CASE LoadAttempts
    BY <1>1, <2>3, JournalEnds DEF LoadAttempts, Ends, Raised
  <2>4. CASE LoadPreparations \/ CheckSources
    BY <1>1, <2>4 DEF LoadPreparations, CheckSources
  <2>5. CASE CheckUnresolved \/ StartLatch
    <3>1. pc' \in {"force", "startLatch", "finish", "unload"}
      BY <2>5, UnresolvedChecked, LatchedAtStart
    <3> QED
      BY <3>1 DEF Unmarked
  <2>6. CASE Finish \/ Unload
    BY <1>1, <2>6 DEF Finish, Unload, Lose
  <2> QED
    BY <1>6, <2>1, <2>2, <2>3, <2>4, <2>5, <2>6 DEF Starting
<1>7. CASE Requested \/ BeginReload \/ Start \/ Crash
  <2>1. CASE BeginCheckout \/ Disable \/ BeginInspection \/ BeginReload \/ Start
    BY <1>1, <2>1 DEF BeginCheckout, Disable, BeginInspection, BeginReload, Start
  <2>2. CASE PrepareResolution \/ LoseChallenge
    BY <2>2 DEF PrepareResolution, LoseChallenge, Unmarked
  <2>3. CASE BeginResolution
    <3>1. pc' \in {"clearAgain", "review", "resolveBump"}
      BY <2>3 DEF BeginResolution, Goto
    <3> QED
      BY <3>1 DEF Unmarked
  <2>4. CASE Crash
    BY <2>4, EndOfProcess DEF Unmarked
  <2> QED
    BY <1>7, <2>1, <2>2, <2>3, <2>4 DEF Requested
<1> QED
  BY <1>2, <1>3, <1>4, <1>5, <1>6, <1>7 DEF Next, Progress, Faulting, Environment

\* Both files are read only when the second is.
LEMMA ReadsBegin ==
    ASSUME Types, Control, ~JournalRead, JournalRead', Next
    PROVE  LoadAttempts
<1>1. ~ (Steady /\ pc \notin StartSteps /\ up # "down")
  BY DEF JournalRead, Unread, StartSteps
<1>2. ~LoseChallenge /\ ~Withdraw /\ ~PreparationWrites
  BY DEF LoseChallenge, Withdraw, PreparationWrites, controlVars, flagVars, JournalRead
<1>3. ~Start /\ ~Unload /\ ~Crash
  BY EndOfProcess DEF Start, Goto, JournalRead, Unread
<1>4. ~LoadState
  <2>1. LoadState => pc' \in {"preparations", "loadStateAgain", "unload"}
    BY StateEnds DEF LoadState, Continue, Abort, Goto, Ends, Raised
  <2> QED
    BY <2>1 DEF JournalRead, Unread
<1>5. ~LoadStateAgain /\ ~LoadPreparations
  <2>1. LoadStateAgain => pc' \in {"loadJournal", "unload"}
    BY StateEnds DEF LoadStateAgain, Abort, Goto, Ends, Raised
  <2>2. LoadPreparations => pc' = "loadJournal"
    BY DEF LoadPreparations, Goto
  <2> QED
    BY <2>1, <2>2 DEF JournalRead, Unread
<1>6. ~CheckSources /\ ~CheckUnresolved /\ ~StartLatch /\ ~Finish
  <2>1. pc \notin {"sources", "unresolved", "startLatch", "finish"}
    BY DEF JournalRead, Unread, Control, Placed, StartSteps
  <2> QED
    BY <2>1, Guards
<1> QED
  BY <1>1, <1>2, <1>3, <1>4, <1>5, <1>6, MostAreSteady

\* What a start knows of a closed manager that has just read the journal.
LEMMA ClosedAtStart ==
    ASSUME Types, Control, ReadIn, LoadAttempts
    PROVE  Marked' /\ Closed'
<1>1. PICK r : /\ Journal!LoadJournal(r)
               /\ CASE r = "ok"         -> Continue("sources")
                    [] r \in Raised    -> ForceFault(0, "sources")
                    [] r = "cancelled" -> Abort
  BY DEF LoadAttempts
<1>2. Loads(r)
  BY <1>1, LoadEffect DEF Types
<1>3. CASE r = "ok"
  <2>1. pc' = "sources" /\ securityFault' = securityFault
    BY <1>1, <1>3 DEF Continue, Goto, Raised, KeepFlags, flagVars
  <2>2. pc = "loadJournal" /\ UNCHANGED stateVars
    BY DEF LoadAttempts
  <2>3. loaded' /\ securityFault' => disk'.integrity
    BY <2>1, <2>2 DEF ReadIn, stateVars
  <2> QED
    BY <2>1, <2>3 DEF Marked, Closed, Lasting
<1>4. CASE r = "fault"
  <2>1. ~Readable'
    BY <1>2, <1>4 DEF Loads, Readable
  <2> QED
    BY <2>1 DEF Marked, Closed
<1>5. CASE r = "cancelled"
  <2>1. pc' = "unload"
    BY <1>1, <1>5 DEF Abort, Goto, Raised
  <2> QED
    BY <2>1 DEF Marked, Closed, JournalRead
<1> QED
  BY <1>2, <1>3, <1>4, <1>5 DEF Loads

\* What a manager that has read both files knows when it finds a fault.
LEMMA ClosedByFault ==
    ASSUME Types, Control, StartUp, OnHand, ReadIn, ~securityFault, securityFault',
           JournalRead, Next
    PROVE  Marked' /\ Closed'
<1>1. pc' = "markCreate" \/ pc' = "force"
  <2>1. CheckUnresolved => pc' = "force"
    <3>1. ASSUME CheckUnresolved, pc' # "force"
          PROVE  securityFault' = securityFault
      <4>1. \A a, t : ~ForceFault(a, t)
        BY <3>1 DEF ForceFault, Goto
      <4> QED
        BY <3>1, <4>1
           DEF CheckUnresolved, Continue, KeepFlags, flagVars, SetManualCheck
    <3> QED
      BY <3>1
  <2> QED
    BY <2>1, FaultArises DEF Arising
<1>2. CASE pc' = "markCreate"
  BY <1>2 DEF Marked, Closed, Marking
<1>3. CASE pc' = "force"
  <2>1. ctx'.attempt # 0 /\ ctx'.attempt \notin DOMAIN records' => Lasting'
    BY <1>3, ForcedFor
  <2> QED
    BY <1>3, <2>1 DEF Marked, Closed, Forcing
<1> QED
  BY <1>1, <1>2, <1>3

\* What a closed manager knows as it goes on.
LEMMA ClosedGoesOn ==
    ASSUME MarkersWritten, Types, Types', Control, Control', StartUp, Calm, Focus, Lone,
           Marked, Closed, securityFault, JournalRead, JournalRead', loaded, Readable, Next
    PROVE  Marked' /\ Closed'
<1>1. /\ loaded' /\ Readable' /\ ~Crash
  BY ReadsOn
<1>2. Lasting => Lasting' \/ pc' \in {"markCreate", "markAttempt"}
  BY LastingStays
<1>3. CASE Withdraw \/ PreparationWrites
  <2>1. pc' = pc /\ ctx' = ctx /\ records' = records
    BY <1>3 DEF Withdraw, PreparationWrites, controlVars, journalVars
  <2>2. Closed'
    BY <1>2, <2>1 DEF Closed, Forcing, Marking
  <2>3. Marked'
    BY <1>2, <2>1 DEF Marked
  <2> QED
    BY <2>2, <2>3
<1>4. CASE ForceLatch
  <2>1. /\ Lasting' \/ Lasting \/ pc' \in {"markCreate", "markAttempt"}
        /\ pc' # "force" /\ pc' # "markFault"
        /\ pc' = "markAttempt" =>
              /\ ctx'.attempt \in DOMAIN records'
              /\ records'[ctx'.attempt].state \notin Journal!Terminal
    BY <1>4, ForcesOn
  <2> QED
    BY <1>2, <2>1 DEF Marked, Closed, Forcing, Marking
<1>5. CASE MarkAttempt \/ MarkCreate \/ MarkFault
  <2>1. /\ Lasting' \/ Grave(records) \/ pc' = "markFault"
        /\ pc' \notin {"force", "markAttempt"}
        /\ pc' = "markFault" =>
              /\ ctx'.marker \in DOMAIN records'
              /\ records'[ctx'.marker].state = "DRAFT"
    BY <1>5, MarksOn
  <2>2. Grave(records) => Lasting
    BY DEF Lasting
  <2> QED
    BY <1>2, <2>1, <2>2 DEF Marked, Closed, Forcing, Marking
<1>6. CASE ~Faulting /\ ~Withdraw /\ ~PreparationWrites
  <2>1. Unmarked
    BY <1>6, MarkReached DEF Faulting
  <2>2. pc \notin Forcing \cup Marking
    <3>1. pc \notin CheckoutSteps \cup AdminSteps \cup {"inspectFault", "idle"} \cup StartSteps
          \/ pc \notin Forcing \cup Marking
      BY DEF CheckoutSteps, AdminSteps, StartSteps, Forcing, Marking
    <3>2. up # "down"
      BY DEF JournalRead
    <3> QED
      BY <1>1, <1>6, <3>1, <3>2, Where, Guards DEF Next, Progress, Requested, Environment
  <2>3. Lasting
    BY <2>2 DEF Closed
  <2> QED
    BY <1>2, <2>1, <2>3 DEF Marked, Closed, Unmarked, Forcing, Marking
<1> QED
  BY <1>3, <1>4, <1>5, <1>6 DEF Faulting

\* A manager that starts or goes on knows why it is closed.
LEMMA ClosedKept ==
    ASSUME MarkersWritten, Types, Types', Control, Control', StartUp, Calm, Focus, Lone,
           OnHand, ReadIn, Marked, Closed, Next
    PROVE  Marked' /\ Closed'
<1>1. \/ ~JournalRead' \/ ~securityFault' \/ ~loaded' \/ ~Readable'
      => Marked' /\ Closed'
  <2>1. pc' \in {"markAttempt", "markFault", "force"} => securityFault' /\ JournalRead'
    BY DEF Control, Placed, FaultSteps, JournalRead, Unread
  <2>2. ~JournalRead' \/ ~securityFault' \/ ~loaded' \/ ~Readable' => Closed'
    BY DEF Closed
  <2> QED
    BY <2>1, <2>2 DEF Marked
<1>2. CASE JournalRead' /\ securityFault' /\ loaded' /\ Readable'
  <2>1. CASE ~JournalRead
    BY <1>2, <2>1, ReadsBegin, ClosedAtStart
  <2>2. CASE JournalRead /\ ~securityFault
    BY <1>2, <2>2, ClosedByFault
  <2>3. CASE JournalRead /\ securityFault
    <3>1. loaded /\ Readable
      BY <1>2, <2>3, ReadsOn
    <3> QED
      BY <1>2, <2>3, <3>1, ClosedGoesOn
  <2> QED
    BY <2>1, <2>2, <2>3
<1> QED
  BY <1>1, <1>2

\* The manager starts with all of it,
LEMMA OutlivingInit == Init => Outliving
<1> SUFFICES ASSUME Init
             PROVE  Outliving
  OBVIOUS
<1>1. /\ up = "down" /\ pc = "idle" /\ ~securityFault
      /\ DOMAIN records = {} /\ ~journalLoaded
  BY DEF Init, AtRest, Journal!Init, Journal!NoRecords
<1> QED
  BY <1>1
     DEF Outliving, Lone, Echo, OnHand, ReadIn, Marked, Closed, Uncorrupt, Readable,
         Twice, Grave, HasFault, SourceChecks, RepairSteps, Hand, Sending, AdminSteps,
         JournalRead

\* nothing of it is lost while nothing changes,
LEMMA OutlivingStutter ==
    Outliving /\ UNCHANGED <<stateVars, journalVars, controlVars>> => Outliving'
<1> SUFFICES ASSUME Outliving, UNCHANGED <<stateVars, journalVars, controlVars>>
             PROVE  Outliving'
  OBVIOUS
<1> USE DEF stateVars, journalVars, controlVars, flagVars
<1>1. Grave(records)' = Grave(records) /\ Grave(journal)' = Grave(journal)
      /\ Twice(records)' = Twice(records)
  BY DEF Grave, HasFault, Twice
<1>2. Lasting' = Lasting
  BY <1>1 DEF Lasting, Astray, Resting, Names
<1>3. Readable' = Readable /\ JournalRead' = JournalRead
  BY DEF Readable, JournalRead
<1>4. Lone' /\ Echo' /\ OnHand' /\ Uncorrupt'
  BY <1>1, <1>3 DEF Outliving, Lone, Echo, OnHand, Uncorrupt
<1>5. ReadIn'
  BY DEF Outliving, ReadIn, IntegrityFault, State!IntegrityFault
<1>6. Marked' /\ Closed'
  BY <1>2, <1>3 DEF Outliving, Marked, Closed
<1> QED
  BY <1>4, <1>5, <1>6 DEF Outliving

\* and every step keeps it where markers can be written.
LEMMA OutlivingKept ==
    ASSUME MarkersWritten
    PROVE  Secure /\ Sound /\ Outliving /\ [Next]_vars => Outliving'
<1>1. ASSUME Secure, Sound, Outliving, Next
      PROVE  Outliving'
  <2>1. Types /\ Control /\ StartUp /\ Calm /\ Focus
    BY <1>1 DEF Secure, Before, Sound
  <2>2. Types' /\ Control'
    BY <1>1, SecureKept DEF Secure, Before
  <2>3. Lone /\ Echo /\ OnHand /\ ReadIn /\ Marked /\ Closed /\ Uncorrupt
    BY <1>1 DEF Outliving
  <2>4. Lone' /\ Echo' /\ Uncorrupt'
    BY <1>1, <2>1, <2>2, <2>3, LoneKept, EchoKept, UncorruptKept
  <2>5. OnHand' /\ ReadIn'
    BY <1>1, <2>1, <2>2, <2>3, OnHandKept, ReadInKept
  <2>6. Marked' /\ Closed'
    BY <1>1, <2>1, <2>2, <2>3, ClosedKept
  <2> QED
    BY <2>4, <2>5, <2>6 DEF Outliving
<1> QED
  BY <1>1, OutlivingStutter DEF vars, restVars

\* What has outlived every step so far outlives the process.
LEMMA OutlivingEndures == Outliving => FaultOutlivesProcess
<1> SUFFICES ASSUME Outliving, Idle, loaded, journalLoaded, securityFault
             PROVE  DurablyFaulted \/ Contradicted
  BY DEF FaultOutlivesProcess
<1>1. Readable /\ JournalRead
  BY DEF Outliving, Uncorrupt, Readable, Idle, JournalRead, Unread
<1>2. Lasting
  BY <1>1 DEF Outliving, Closed, Idle, Forcing, Marking
<1>3. Grave(records) => HasFault(journal) \/ Twice(journal)
  BY <1>1 DEF Outliving, Echo, Grave
<1>4. HasFault(journal) \/ disk.integrity => DurablyFaulted
  BY DEF HasFault, DurablyFaulted
<1>5. Twice(journal) \/ Astray => Contradicted
  BY DEF Twice, Astray, Names, Contradicted
<1> QED
  BY <1>2, <1>3, <1>4, <1>5 DEF Lasting

\* If the journal can be written where a marker is made, a fault that closes a manager that
\* had read both files outlives it: the latch or a marker is on file, or the files
\* contradict each other so that the next start is bound to find the fault again.
THEOREM FaultsOutliveProcesses ==
    ASSUME Undisturbed, MarkersWritten
    PROVE  Spec => []FaultOutlivesProcess
<1>1. Init => Outliving
  BY OutlivingInit
<1>2. Secure /\ Sound /\ Outliving /\ [Next]_vars => Outliving'
  BY OutlivingKept
<1>3. Spec => [](Secure /\ Sound)
  BY SoundHolds
<1> QED
  BY <1>1, <1>2, <1>3, OutlivingEndures, PTL DEF Spec

(***************************************************************************)
(* LegacyRepair: the account of an earlier release.                        *)
(*                                                                         *)
(* Its steps are the manager's, but for the five of the repair, which come *)
(* before the check of the sources, and so the manager's invariants hold   *)
(* of it, too, except while a manager whose repair was cancelled waits to  *)
(* be dropped (Parting).  What it adds: Latent, that a v1 fault is still   *)
(* on file, and in the journal a manager has read, unless a repair has     *)
(* been at work; Shown, that a checkout that was posted has left a record  *)
(* no v1 account has; Unlooked and Repairing, that a repair works on a     *)
(* journal it has read, with the same records in memory and on file.       *)
(***************************************************************************)
\* The list holds records of this release's attempts.
Used(list) == \E a \in DOMAIN list : a # 0

Inert(list) == \A a \in DOMAIN list : a = 0 /\ list[a].mode = "mock"

\* Memory and file hold the same records.
Alike == journal = records

V1JournalFault ==
    /\ legacy.attempts # None
    /\ 0 \in DOMAIN legacy.attempts
    /\ legacy.attempts[0] = "SECURITY_FAULT"

Latent ==
    /\ legacy \in LegacyFiles
    /\ legacy.fault = TRUE /\ ~lifted => disk.integrity
    /\ V1JournalFault /\ ~lifted => HasFault(journal) /\ (Readable => HasFault(records))

Shown == posted # {} => Used(journal) /\ (Readable => Used(records))

Unlooked ==
    up = "down" \/ (up = "starting" /\ ~repairTried) =>
        ~Readable \/ (pc = "sources" /\ Alike)

Repairing ==
    /\ pc \in RepairSteps => ~prepared /\ Readable /\ Alike /\ snap.manual = None
    /\ pc = "lineage" => DOMAIN records = {}
    /\ pc = "repairState" =>
          /\ legacy.fault # None \/ legacy.attempts # None
          /\ Inert(records)

\* What OrderingManager keeps.
Regular == Types /\ Control /\ Recorded /\ Authorized /\ FaultsKnown /\ StartUp /\ Conclusive

\* Which is its second invariant.
LEMMA RegularIsSecure == Regular <=> Secure
  BY DEF Regular, Secure, Before

\* A cancelled repair may have lifted on file what memory still holds.
Parting ==
    /\ pc = "unload" /\ up = "starting" /\ ~reloading
    /\ disk \in SP!Snapshots /\ SP!BindingsAreCurrent
    /\ JournalOK
    /\ Typed /\ settled \subseteq Nat

Inherited == (Regular \/ Parting) /\ Latent /\ Shown /\ Unlooked /\ Repairing

(***************************************************************************)
(* The steps of OrderingManager.                                           *)
(***************************************************************************)
\* Nothing of the take-over but what a load of the files does.
Untouched ==
    /\ UNCHANGED <<legacy, prepared, lifted>>
    /\ repairTried' = repairTried \/ (repairTried' = FALSE /\ (Start \/ Unload \/ Crash))

\* Whatever happens is a step of the manager, one of the repair, the withdrawal of all
\* consents or the first record of a preparation.
LEMMA LegacySteps ==
    ASSUME LegacyNext
    PROVE  \/ /\ Next /\ Untouched
              /\ up = "starting" /\ pc = "sources" => repairTried \/ Crash
              /\ up = "starting" /\ pc = "unload" => Unload \/ Crash
           \/ Repair /\ Settle
           \/ CloseConsents /\ Tracked /\ Settle
           \/ PrepareMutation
<1>1. CASE LegacyProgress /\ Settle
  <2>1. CASE /\ pc \notin {"sources", "unload"} \/ (pc = "sources" /\ repairTried)
             /\ Progress
             /\ Tracked
    BY <1>1, <2>1 DEF Next, Tracked, Untouched
  <2>2. CASE Repair
    BY <1>1, <2>2
  <2> QED
    BY <1>1, <2>1, <2>2 DEF LegacyProgress
<1>2. CASE (Requested \/ BeginReload) /\ Tracked /\ Settle
  BY <1>2, Where DEF Next, Tracked, Untouched
<1>3. CASE Withdraw /\ Tracked /\ Settle
  BY <1>3 DEF Withdraw, Next, Environment, Tracked, Untouched
<1>4. CASE (Start \/ Unload \/ Crash) /\ Fresh /\ Settle
  <2>1. Next
    BY <1>4 DEF Next, Progress, Starting, Environment
  <2>2. Start => up = "down"
    BY Where
  <2>3. Unload => pc = "unload"
    BY DEF Unload
  <2>4. Untouched
    BY <1>4 DEF Fresh, Untouched
  <2> QED
    BY <1>4, <2>1, <2>2, <2>3, <2>4
<1> QED
  BY <1>1, <1>2, <1>3, <1>4 DEF LegacyNext, LegacyRequested

\* No step of the manager leads into the repair.
LEMMA NoneRepairs ==
    ASSUME Types, Control, StartUp, Next
    PROVE  pc' \notin RepairSteps
<1> USE DEF RepairSteps
<1>1. CASE Steady
  BY <1>1 DEF Steady
<1>2. CASE LoseChallenge \/ Withdraw \/ PreparationWrites
  BY <1>2 DEF LoseChallenge, Withdraw, PreparationWrites, controlVars, Control, Placed, StartSteps
<1>3. CASE Start \/ Unload \/ Crash
  BY <1>3, EndOfProcess DEF Start, Goto
<1>4. CASE LoadState
  BY <1>4, StateEnds DEF LoadState, Continue, Abort, Goto, Ends, Raised, Types
<1>5. CASE LoadStateAgain
  BY <1>5, StateEnds DEF LoadStateAgain, Abort, Goto, Ends, Raised, Types
<1>6. CASE LoadPreparations
  BY <1>6 DEF LoadPreparations, Goto
<1>7. CASE LoadAttempts
  BY <1>7, JournalEnds DEF LoadAttempts, Continue, ForceFault, Abort, Goto, Ends, Raised, Types
<1>8. CASE CheckSources
  BY <1>8 DEF CheckSources, Continue, ForceFault, Goto
<1>9. CASE CheckUnresolved
  BY <1>9, UnresolvedChecked
<1>10. CASE StartLatch
  BY <1>10, LatchedAtStart
<1>11. CASE Finish
  BY <1>11 DEF Finish, Goto
<1> QED
  BY <1>1, <1>2, <1>3, <1>4, <1>5, <1>6, <1>7, <1>8, <1>9, <1>10, <1>11, MostAreSteady

\* A fault stays on file, and in what a manager has read of it.
LEMMA FaultStaysOnFile ==
    ASSUME Types, Control, HasFault(journal), Readable => HasFault(records), Next
    PROVE  HasFault(journal)' /\ (Readable' => HasFault(records)')
<1>1. CASE UNCHANGED journalVars
  BY <1>1 DEF HasFault, Readable, journalVars
<1>2. CASE Sets \/ Drafts
  <2>1. journalLoaded' = journalLoaded /\ corrupt' = corrupt
    BY <1>2, RecordsChange
  <2>2. journal' = journal \/ Readable
    BY <1>2 DEF Sets, Drafts, Moves, Creates, JournalStill
  <2>3. Readable => HasFault(records)'
    BY <1>2, FaultStays DEF Types
  <2>4. CASE journal' = journal
    BY <2>1, <2>3, <2>4 DEF HasFault, Readable
  <2>5. CASE journal' # journal
    <3>1. HasFault(records)
      BY <2>2, <2>5
    <3>2. CASE Sets
      <4>1. PICK s, r, c : Replaces(c, Subject, s) /\ journal' = c
        BY <2>5, <3>2 DEF Sets, Moves, JournalStill, Saves
      <4>2. records[Subject].state \notin Journal!Terminal
        BY <4>1, AllowedFacts, StateNames DEF Replaces
      <4> QED
        BY <2>1, <2>3, <3>1, <4>1, <4>2, StateNames DEF HasFault, Replaces, Readable
    <3>3. CASE Drafts
      <4>1. PICK a, m, c : Adds(c, a, m) /\ journal' = c
        BY <2>5, <3>3 DEF Drafts, Creates, JournalStill, Saves
      <4> QED
        BY <2>1, <2>3, <3>1, <4>1 DEF HasFault, Adds, Journal!Protected, Readable
    <3> QED
      BY <1>2, <3>2, <3>3
  <2> QED
    BY <2>4, <2>5
<1>3. CASE LoadAttempts
  <2>1. PICK r : Loads(r)
    BY <1>3, LoadEffect DEF LoadAttempts, Types
  <2>2. Recovers(journal') => HasFault(journal)'
    BY StateNames DEF Recovers, HasFault
  <2> QED
    BY <2>1, <2>2 DEF Loads, HasFault, Readable
<1>4. CASE Unload \/ Crash
  BY <1>4, EndOfProcess DEF HasFault, Readable
<1> QED
  BY <1>1, <1>2, <1>3, <1>4, JournalCalls

\* A step of the manager keeps what OrderingManager keeps,
LEMMA RegularKept ==
    ASSUME Regular, Next
    PROVE  Regular'
  BY RegularIsSecure, SecureKept DEF Regular, Secure, Before

\* and the faults that were taken over,
LEMMA LatentKept ==
    ASSUME Types, Control, Latent, Next, UNCHANGED <<legacy, lifted>>
    PROVE  Latent'
<1>1. disk.integrity => disk'.integrity
  BY StateKept
<1>2. V1JournalFault /\ ~lifted => HasFault(journal)' /\ (Readable' => HasFault(records)')
  BY FaultStaysOnFile DEF Latent
<1> QED
  BY <1>1, <1>2 DEF Latent, V1JournalFault

\* A record of this release stays in a list, or a younger one takes its place.
LEMMA UsedKept ==
    ASSUME Types, Control, Used(journal), Readable => Used(records), Next
    PROVE  Used(journal)' /\ (Readable' => Used(records)')
<1>1. CASE UNCHANGED journalVars
  BY <1>1 DEF Used, Readable, journalVars
<1>2. CASE Sets \/ Drafts
  <2>1. journalLoaded' = journalLoaded /\ corrupt' = corrupt
    BY <1>2, RecordsChange
  <2>2. NewAttempt # 0 /\ (pc = "create" => ctx.attempt # 0)
    BY NewAttemptIsNew DEF Types, Typed, Control, Drafting
  <2>3. ASSUME NEW c,
               \/ \E a, s : Replaces(c, a, s)
               \/ \E m : Adds(c, NewAttempt, m) \/ (pc = "create" /\ Adds(c, ctx.attempt, m)),
               Used(records)
        PROVE  Used(c)
    BY <2>2, <2>3 DEF Used, Replaces, Adds
  <2>4. \/ JournalStill
        \/ /\ Readable
           /\ \E c, r : /\ Saves(c, r)
                        /\ \/ \E a, s : Replaces(c, a, s)
                           \/ \E m : Adds(c, NewAttempt, m)
                                       \/ (pc = "create" /\ Adds(c, ctx.attempt, m))
    BY <1>2 DEF Sets, Drafts, Moves, Creates
  <2>5. CASE JournalStill
    BY <2>1, <2>5 DEF JournalStill, Used, Readable
  <2>6. CASE ~JournalStill
    <3>1. PICK c, r : /\ Saves(c, r)
                      /\ \/ \E a, s : Replaces(c, a, s)
                         \/ \E m : Adds(c, NewAttempt, m)
                                     \/ (pc = "create" /\ Adds(c, ctx.attempt, m))
      BY <2>4, <2>6
    <3>2. Used(records) /\ Used(c)
      BY <2>3, <2>4, <2>6, <3>1
    <3> QED
      BY <3>1, <3>2 DEF Saves, Used
  <2> QED
    BY <2>5, <2>6
<1>3. CASE LoadAttempts
  <2>1. PICK r : Loads(r)
    BY <1>3, LoadEffect DEF LoadAttempts, Types
  <2>2. Recovers(journal') => Used(journal)'
    BY DEF Recovers, Used
  <2> QED
    BY <2>1, <2>2 DEF Loads, Used, Readable
<1>4. CASE Unload \/ Crash
  BY <1>4, EndOfProcess DEF Used, Readable
<1> QED
  BY <1>1, <1>2, <1>3, <1>4, JournalCalls

\* A POST leaves a record of its attempt, which stays or is followed by younger ones.
LEMMA ShownKept ==
    ASSUME Regular, Shown, Next
    PROVE  Shown'
<1> USE DEF Regular
<1>1. CASE posted' = posted
  BY <1>1, UsedKept DEF Shown
<1>2. CASE posted' # posted
  <2>1. /\ pc = "submit"
        /\ Crash \/ UNCHANGED journalVars
    BY <1>2, PostedGrows
  <2>2. ctx.attempt \in DOMAIN records /\ journal = records /\ ctx.attempt \in 1..MaxAttempts
    BY <2>1 DEF Control, Drafting, Recorded, Drafted, Preparing, Located, CheckoutSteps
  <2>3. ctx.attempt # 0
    BY <2>2, ManagerConstants
  <2>4. Used(journal) /\ Used(records)
    BY <2>2, <2>3 DEF Used
  <2> QED
    BY <2>4, UsedKept DEF Shown
<1> QED
  BY <1>1, <1>2

\* A process goes on, or has started up, until its end.
LEMMA GoesOn ==
    ASSUME Types, Control, StartUp, Next, ~Start, ~Unload, ~Crash
    PROVE  up' \in {up, "up"}
<1>1. CASE LoseChallenge \/ Withdraw \/ PreparationWrites
  BY <1>1 DEF LoseChallenge, ClearChallenge, Withdraw, PreparationWrites, controlVars, flagVars
<1>2. CASE LoadState \/ LoadStateAgain \/ LoadPreparations \/ LoadAttempts \/ CheckSources
  <2>1. up = "starting"
    BY <1>2, Guards DEF Control, Placed, StartSteps
  <2> QED
    BY <1>2, <2>1, ReadingGoesOn
<1>3. CASE CheckUnresolved \/ StartLatch
  BY <1>3, UnresolvedChecked, LatchedAtStart
<1>4. CASE Finish
  BY <1>4 DEF Finish, ShutDown
<1> QED
  BY <1>1, <1>2, <1>3, <1>4, MostAreSteady DEF Steady

\* A manager that has not looked at the repair has read the journal only just now.
LEMMA UnlookedKept ==
    ASSUME Types, Control, StartUp, Unlooked, Next, Untouched,
           up = "starting" /\ pc = "sources" => repairTried \/ Crash
    PROVE  Unlooked'
<1>1. CASE Unload \/ Crash
  BY <1>1, EndOfProcess DEF Unlooked, Readable
<1>2. CASE Start
  <2>1. up = "down" /\ pc = "idle" /\ UNCHANGED <<journalLoaded, corrupt>>
    BY <1>2 DEF Start, Control, Placed, journalVars
  <2> QED
    BY <2>1 DEF Unlooked, Readable
<1>3. CASE ~Start /\ ~Unload /\ ~Crash
  <2>1. repairTried' = repairTried /\ up' \in {up, "up"}
    BY <1>3, GoesOn DEF Untouched
  <2>2. pc = "sources" => up = "starting"
    BY DEF Control, Placed, StartSteps
  <2>3. CASE up' = "up" \/ (up' = "starting" /\ repairTried')
    BY <2>3 DEF Unlooked
  <2>4. CASE ~Readable
    <3>1. CASE UNCHANGED journalVars \/ Sets \/ Drafts
      BY <2>4, <3>1, RecordsChange DEF Unlooked, Readable
    <3>2. CASE LoadAttempts
      <4>1. PICK r : /\ Loads(r)
                     /\ r = "ok" => Continue("sources")
        BY <3>2, LoadEffect DEF LoadAttempts, Raised, Types
      <4>2. Readable' => r = "ok"
        <5>1. CASE r = "fault"
          BY <4>1, <5>1 DEF Loads, Readable
        <5>2. CASE r = "cancelled"
          <6>1. journalLoaded' = journalLoaded /\ corrupt' = corrupt
            BY <4>1, <5>2 DEF Loads
          <6> QED
            BY <2>4, <6>1 DEF Readable
        <5> QED
          BY <4>1, <5>1, <5>2 DEF Loads
      <4>3. r = "ok" => pc' = "sources" /\ records' = journal'
        BY <4>1 DEF Loads, Continue, Goto
      <4> QED
        BY <4>2, <4>3 DEF Unlooked, Alike
    <3> QED
      BY <1>3, <3>1, <3>2, JournalCalls
  <2> QED
    BY <1>3, <2>1, <2>2, <2>3, <2>4 DEF Unlooked, Types, Typed
<1> QED
  BY <1>1, <1>2, <1>3

\* So a step of the manager keeps it all.
LEMMA ManagerKeeps ==
    ASSUME Regular, Latent, Shown, Unlooked, Repairing, Next, Untouched,
           up = "starting" /\ pc = "sources" => repairTried \/ Crash
    PROVE  Inherited'
<1>1. Types /\ Control /\ StartUp
  BY DEF Regular
<1>2. Regular'
  BY RegularKept
<1>3. Latent'
  BY <1>1, LatentKept DEF Untouched
<1>4. Shown'
  BY ShownKept
<1>5. Unlooked'
  BY <1>1, UnlookedKept
<1>6. Repairing'
  BY <1>1, NoneRepairs DEF Repairing, RepairSteps
<1> QED
  BY <1>2, <1>3, <1>4, <1>5, <1>6 DEF Inherited

\* The end of the process after a repair that was cancelled is one like any other.
LEMMA PartingEnds ==
    ASSUME Parting, Latent, Shown, Unload \/ Crash, Settle, UNCHANGED <<legacy, prepared, lifted>>
    PROVE  Inherited'
<1>1. /\ SP!Forget /\ JP!ForgetJournal
      /\ up' = "down" /\ pc' = "idle" /\ ctx' = NoContext
      /\ enabledFlag' = FALSE /\ securityFault' = FALSE /\ manualCheck' = FALSE
      /\ challenge' = None /\ finalAdapter' = FALSE /\ reloading' = FALSE /\ gate' = gate
      /\ posted' = posted
  <2>1. State!Forget => SP!Forget
    BY DEF State!Forget, SP!Forget, State!FreshSnapshot, SP!FreshSnapshot
  <2> QED
    BY <2>1, LoadBridge DEF Unload, Crash, Lose, Goto, Parting
<1>2. disk' = disk /\ journal' = journal /\ ~Readable' /\ DOMAIN records' = {} /\ ~corrupt'
  BY <1>1, JP!NoRecordsAreGood, Constants DEF JP!ForgetJournal, SP!Forget, Readable
<1>3. StateOK'
  BY <1>1, SP!FreshIsSnapshot, Constants
     DEF StateOK, SP!Inv, SP!TypeOK, SP!MemoryNeverAhead, SP!BindingsAreCurrent,
         SP!SameGenerationSameBlocks, SP!Forget, Parting
<1>4. JournalOK'
  BY <1>1, JP!ForgetKeepsInv, Constants DEF JournalOK, Parting
<1>5. Types'
  <2>1. settled' \subseteq Nat
    BY <1>4, ListFactsNext DEF Parting, Settle, Concluded
  <2>2. Typed'
    BY <1>1, NoContextTyped DEF Parting, Typed, Steps
  <2> QED
    BY <1>3, <1>4, <2>1, <2>2 DEF Types
<1>6. Control' /\ Recorded' /\ Authorized'
  BY <1>1 DEF Control, Located, Placed, Returning, Drafting, Recorded, Drafted, Preparing,
              CheckoutSteps, AdminSteps, FaultSteps, StartSteps, Marking, Forcing, Authorized
<1>7. FaultsKnown' /\ StartUp' /\ Conclusive'
  BY <1>1, <1>2
     DEF FaultsKnown, StartUp, Conclusive, HasFault, StateRead, JournalRead, Unread,
         Concluding, SourceChecks, RepairSteps
<1>8. Latent' /\ Shown' /\ Unlooked' /\ Repairing'
  BY <1>1, <1>2
     DEF Latent, V1JournalFault, HasFault, Shown, Used, Unlooked, Repairing, RepairSteps
<1> QED
  BY <1>5, <1>6, <1>7, <1>8 DEF Inherited, Regular

(***************************************************************************)
(* What is taken over.                                                     *)
(***************************************************************************)
\* A record of the fixture adapter, in any of the states that a take-over gives one.
Synthetic(rec) ==
    /\ rec \in JP!Records
    /\ rec.state \in Journal!Terminal
    /\ rec.mode = "mock" /\ rec.dispatched = FALSE /\ rec.failure = FALSE
    /\ rec.resolution = MigratedResolution[rec.state]
    /\ rec.evidence = MigratedEvidence[rec.state]

\* How a state goes with its conclusion.
LEMMA MigratedNames ==
    ASSUME NEW s \in Journal!Terminal
    PROVE  /\ \/ /\ s = "CONFIRMED_SUCCEEDED"
                 /\ MigratedResolution[s] = "synthetic_success"
                 /\ MigratedEvidence[s] = "mock_adapter"
              \/ /\ s = "CONFIRMED_FAILED"
                 /\ MigratedResolution[s] = "synthetic_failure"
                 /\ MigratedEvidence[s] = "mock_adapter"
              \/ /\ s = "LEGACY_MOCK_NO_REMOTE_EFFECT"
                 /\ MigratedResolution[s] = "legacy_mock_no_remote_effect"
                 /\ MigratedEvidence[s] = "legacy_migration"
              \/ /\ s = "INTEGRITY_FAULT"
                 /\ MigratedResolution[s] = None /\ MigratedEvidence[s] = None
           /\ s \in JP!States
           /\ MigratedResolution[s] \in JP!Resolutions \cup {None}
           /\ MigratedEvidence[s] \in JP!EvidenceSources \cup {None}
<1>1. s \in {"CONFIRMED_SUCCEEDED", "CONFIRMED_FAILED", "LEGACY_MOCK_NO_REMOTE_EFFECT",
             "INTEGRITY_FAULT"}
  BY DEF Journal!Terminal, Journal!Confirmed, Journal!LegacyMock, Journal!Integrity
<1> QED
  BY <1>1
     DEF MigratedResolution, MigratedEvidence, JP!Resolutions, JP!EvidenceSources, JP!States,
         JP!Terminal, JP!Confirmed, JP!LegacyMock, JP!Integrity

\* Such a record is good.
LEMMA SyntheticIsGood ==
    ASSUME NEW rec, Synthetic(rec)
    PROVE  JP!GoodRecord(rec)
<1>1. \/ /\ rec.state = "CONFIRMED_SUCCEEDED"
         /\ rec.resolution = "synthetic_success" /\ rec.evidence = "mock_adapter"
      \/ /\ rec.state = "CONFIRMED_FAILED"
         /\ rec.resolution = "synthetic_failure" /\ rec.evidence = "mock_adapter"
      \/ /\ rec.state = "LEGACY_MOCK_NO_REMOTE_EFFECT"
         /\ rec.resolution = "legacy_mock_no_remote_effect"
         /\ rec.evidence = "legacy_migration"
      \/ /\ rec.state = "INTEGRITY_FAULT"
         /\ rec.resolution = None /\ rec.evidence = None
  BY MigratedNames DEF Synthetic
<1>2. rec \in JP!Records /\ rec.mode = "mock" /\ ~rec.dispatched /\ ~rec.failure
  BY DEF Synthetic
<1>3. rec.state = "CONFIRMED_SUCCEEDED" \/ rec.state = "CONFIRMED_FAILED" =>
         <<rec.mode, rec.resolution, rec.evidence>> \in JP!ConfirmedBy(rec.state)
  BY <1>1, <1>2 DEF JP!ConfirmedBy
<1>4. JP!Valid(rec)
  BY <1>1, <1>2, <1>3
     DEF JP!Valid, JP!Preparing, JP!InFlight, JP!Manual, JP!Confirmed, JP!LegacyMock,
         JP!Integrity
<1> QED
  BY <1>2, <1>4 DEF JP!GoodRecord

\* The take-over makes synthetic records, and a fault of a fault marker only;
LEMMA MigratesSynthetic ==
    ASSUME NEW x \in V1States
    PROVE  /\ MigratedState(x) = Journal!Integrity <=> x = "SECURITY_FAULT"
           /\ MigrateRecord(x).state = MigratedState(x)
           /\ MigrateRecord(x).revision = 1
           /\ Synthetic(MigrateRecord(x))
<1> DEFINE s == MigratedState(x)
           new == MigrateRecord(x)
<1>1. /\ s \in Journal!Terminal
      /\ s = Journal!Integrity <=> x = "SECURITY_FAULT"
  BY DEF V1States, V1Open, MigratedState, Journal!Terminal, Journal!Confirmed,
         Journal!Integrity, Journal!LegacyMock
<1>2. Journal!Draft("mock") \in JP!Records
  BY DEF Journal!Draft, JP!Records, JP!States, JP!Preparing
<1>3. /\ s \in JP!States
      /\ MigratedResolution[s] \in JP!Resolutions \cup {None}
      /\ MigratedEvidence[s] \in JP!EvidenceSources \cup {None}
  BY <1>1, MigratedNames
<1>4. /\ Journal!Draft("mock").mode = "mock" /\ Journal!Draft("mock").revision = 1
      /\ Journal!Draft("mock").dispatched = FALSE /\ Journal!Draft("mock").failure = FALSE
  BY DEF Journal!Draft
<1> HIDE DEF s
<1>5. /\ new \in JP!Records
      /\ new.state = s /\ new.mode = "mock" /\ new.revision = 1
      /\ new.dispatched = FALSE /\ new.failure = FALSE
      /\ new.resolution = MigratedResolution[s] /\ new.evidence = MigratedEvidence[s]
  BY <1>2, <1>3, <1>4 DEF MigrateRecord, s, JP!Records
<1> QED
  BY <1>1, <1>5 DEF Synthetic, s

\* it takes over one record at most,
LEMMA MigratedFacts ==
    ASSUME legacy \in LegacyFiles
    PROVE  /\ DOMAIN Migrated \subseteq {0}
           /\ legacy.attempts # None => DOMAIN Migrated = DOMAIN legacy.attempts
           /\ \A a \in DOMAIN Migrated : /\ legacy.attempts # None
                                         /\ legacy.attempts[a] \in V1States
                                         /\ Migrated[a] = MigrateRecord(legacy.attempts[a])
           /\ V1JournalFault => HasFault(Migrated)
<1>1. legacy.attempts = None
        \/ legacy.attempts \in [{0} -> V1States] \cup [{} -> V1States]
  BY LegacyConstants
<1>2. CASE legacy.attempts = None
  <2>1. Migrated = Journal!NoRecords /\ DOMAIN Migrated = {}
    BY <1>2 DEF Migrated, Journal!NoRecords
  <2> QED
    BY <1>2, <2>1 DEF V1JournalFault
<1>3. CASE legacy.attempts # None
  <2>1. /\ Migrated = [a \in DOMAIN legacy.attempts |-> MigrateRecord(legacy.attempts[a])]
        /\ DOMAIN legacy.attempts \subseteq {0}
        /\ \A a \in DOMAIN legacy.attempts : legacy.attempts[a] \in V1States
    BY <1>1, <1>3 DEF Migrated
  <2>2. V1JournalFault => HasFault(Migrated)
    <3> SUFFICES ASSUME V1JournalFault
                 PROVE  HasFault(Migrated)
      OBVIOUS
    <3>1. 0 \in DOMAIN Migrated /\ Migrated[0] = MigrateRecord("SECURITY_FAULT")
      BY <2>1 DEF V1JournalFault
    <3>2. MigrateRecord("SECURITY_FAULT").state = Journal!Integrity
      BY MigratesSynthetic DEF V1States
    <3> QED
      BY <3>1, <3>2 DEF HasFault
  <2> QED
    BY <1>3, <2>1, <2>2
<1> QED
  BY <1>2, <1>3

\* the repair leaves the same records without a fault, and both lists are good.
LEMMA TakenOverFacts ==
    ASSUME legacy \in LegacyFiles
    PROVE  /\ DOMAIN Repaired = DOMAIN Migrated
           /\ \A a \in DOMAIN Migrated :
                 /\ a = 0
                 /\ JP!GoodRecord(Migrated[a]) /\ JP!GoodRecord(Repaired[a])
                 /\ Migrated[a].mode = "mock" /\ Repaired[a].mode = "mock"
                 /\ Migrated[a].state \in Journal!Terminal /\ Repaired[a].state \in Journal!Terminal
                 /\ Repaired[a].revision >= Migrated[a].revision
                 /\ Repaired[a].state # Journal!Integrity
           /\ V1JournalFault => HasFault(Migrated)
<1>1. /\ DOMAIN Repaired = DOMAIN Migrated
      /\ V1JournalFault => HasFault(Migrated)
  BY MigratedFacts DEF Repaired
<1>2. ASSUME NEW a \in DOMAIN Migrated
      PROVE  /\ a = 0
             /\ JP!GoodRecord(Migrated[a]) /\ JP!GoodRecord(Repaired[a])
             /\ Migrated[a].mode = "mock" /\ Repaired[a].mode = "mock"
             /\ Migrated[a].state \in Journal!Terminal /\ Repaired[a].state \in Journal!Terminal
             /\ Repaired[a].revision >= Migrated[a].revision
             /\ Repaired[a].state # Journal!Integrity
  <2>1. PICK x \in V1States : Migrated[a] = MigrateRecord(x)
    BY MigratedFacts
  <2>2. Synthetic(Migrated[a]) /\ Migrated[a].revision = 1
    BY <2>1, MigratesSynthetic
  <2>3. Migrated[a].mode = "mock" /\ Migrated[a].state \in Journal!Terminal
    BY <2>2 DEF Synthetic
  <2>4. JP!GoodRecord(Migrated[a])
    BY <2>2, SyntheticIsGood
  <2>5. CASE Migrated[a].state # Journal!Integrity
    <3>1. Repaired[a] = Migrated[a]
      BY <2>5 DEF Repaired
    <3> QED
      BY <2>2, <2>3, <2>4, <2>5, <3>1, MigratedFacts
  <2>6. CASE Migrated[a].state = Journal!Integrity
    <3> DEFINE old == MigrateRecord("UNCERTAIN")
               new == [old EXCEPT !.revision = 2]
    <3>1. Repaired[a] = new
      BY <2>6 DEF Repaired
    <3>2. Synthetic(old) /\ old.state # Journal!Integrity
      BY MigratesSynthetic DEF V1States, V1Open
    <3> HIDE DEF old
    <3>3. Synthetic(new) /\ new.revision = 2 /\ new.state = old.state /\ new.mode = "mock"
      BY <3>2 DEF Synthetic, JP!Records
    <3>4. new.state \in Journal!Terminal /\ new.state # Journal!Integrity
      BY <3>2, <3>3 DEF Synthetic
    <3>5. JP!GoodRecord(new)
      BY <3>3, SyntheticIsGood
    <3>6. new.revision >= Migrated[a].revision
      BY <2>2, <3>3
    <3>7. a = 0
      BY MigratedFacts
    <3> HIDE DEF new
    <3> QED
      BY <2>3, <2>4, <3>1, <3>3, <3>4, <3>5, <3>6, <3>7
  <2> QED
    BY <2>5, <2>6
<1> QED
  BY <1>1, <1>2

\* A list of such records is one the journal may hold, and the repair may save.
LEMMA TakenOverLists ==
    ASSUME legacy \in LegacyFiles
    PROVE  /\ JP!GoodList(Migrated) /\ JP!Sized(Migrated)
           /\ JP!GoodList(Repaired) /\ JP!Sized(Repaired)
<1>1. DOMAIN Migrated \subseteq {0} /\ DOMAIN Repaired = DOMAIN Migrated
  BY MigratedFacts, TakenOverFacts
<1>2. IsFiniteSet({0}) /\ Cardinality({0}) = 1
  BY FS_Singleton
<1>3. /\ IsFiniteSet(DOMAIN Migrated)
      /\ Cardinality(DOMAIN Migrated) \in Nat /\ Cardinality(DOMAIN Migrated) <= 1
  BY <1>1, <1>2, FS_Subset, FS_CardinalityType
<1>4. Cardinality(DOMAIN Migrated) <= MaxRecords
  BY <1>3, Constants
<1> QED
  BY <1>1, <1>3, <1>4, TakenOverFacts, SizeBridge DEF JP!GoodList, JP!Sized, JP!Attempts

\* The account that an update finds has all of it.
LEMMA InheritedInit == LegacyInit => Inherited
<1> SUFFICES ASSUME LegacyInit
             PROVE  Inherited
  OBVIOUS
<1>1. StateOK /\ (legacy.fault = TRUE => disk.integrity)
  <2>1. SP!FreshSnapshot = State!FreshSnapshot
    BY DEF State!FreshSnapshot, SP!FreshSnapshot
  <2>2. SP!FreshSnapshot \in SP!Snapshots
    BY SP!FreshIsSnapshot, Constants
  <2>3. /\ disk \in SP!Snapshots
        /\ disk.manual = None /\ disk.preparation = None
        /\ disk.integrity = (legacy.fault = TRUE)
    BY <2>1, <2>2 DEF LegacyInit, FromLegacy, SP!Snapshots, SP!FreshSnapshot
  <2> QED
    BY <2>1, <2>2, <2>3
       DEF LegacyInit, StateOK, SP!Inv, SP!TypeOK, SP!MemoryNeverAhead, SP!BindingsAreCurrent,
           SP!SameGenerationSameBlocks
<1>2. legacy \in LegacyFiles /\ journal = Migrated /\ DOMAIN records = {} /\ ~Readable /\ ~corrupt
  BY DEF LegacyInit, Journal!NoRecords, Readable
<1>3. JournalOK
  <2>1. Journal!NoRecords = JP!NoRecords
    BY DEF Journal!NoRecords, JP!NoRecords
  <2>2. JP!GoodList(records) /\ JP!Sized(records)
    BY <2>1, JP!NoRecordsAreGood, Constants DEF LegacyInit
  <2> QED
    BY <1>2, <2>2, TakenOverLists DEF LegacyInit, JournalOK, JP!Inv, JP!ProtectedIsDurable
<1>4. Typed /\ settled \subseteq Nat
  <2>1. DOMAIN journal \subseteq Nat
    BY <1>3, ListFacts
  <2>2. Typed
    BY NoContextTyped DEF LegacyInit, AtRest, Typed, Steps, NoConsents
  <2> QED
    BY <2>1, <2>2 DEF LegacyInit, Concluded
<1>5. Control /\ Recorded /\ Authorized
  BY DEF LegacyInit, AtRest, Control, Located, Placed, Returning, Drafting, Recorded, Drafted,
         Preparing, CheckoutSteps, AdminSteps, FaultSteps, StartSteps, Forcing, Marking,
         Authorized
<1>6. FaultsKnown /\ StartUp /\ Conclusive
  BY <1>2
     DEF LegacyInit, AtRest, FaultsKnown, StartUp, Conclusive, HasFault, StateRead,
         JournalRead, Unread, Concluding, SourceChecks, RepairSteps
<1>7. Latent
  BY <1>1, <1>2, TakenOverFacts DEF Latent
<1>8. Shown /\ Unlooked /\ Repairing
  BY <1>2 DEF LegacyInit, AtRest, Shown, Unlooked, Repairing, RepairSteps
<1> QED
  BY <1>1, <1>3, <1>4, <1>5, <1>6, <1>7, <1>8 DEF Inherited, Regular, Types

(***************************************************************************)
(* The steps of the repair.                                                *)
(***************************************************************************)
\* The save that lifts the latch: only a cancellation can part file and memory.
LEMMA LiftEffect ==
    ASSUME StateOK, NEW r, LiftIntegrity(r)
    PROVE  /\ r \in Ends
           /\ r \in Raised => disk' = disk /\ snap' = snap /\ StateStep
           /\ r = "ok" => /\ StateOK'
                          /\ snap' = disk' /\ snap'.manual = None /\ ~snap'.integrity
                          /\ ~storageFault'
           /\ r = "cancelled" => disk' \in SP!Snapshots /\ SP!BindingsAreCurrent'
<1> DEFINE c == [State!FreshSnapshot EXCEPT !.generation = snap.generation + 1]
<1>1. c \in SP!Snapshots /\ c.manual = None /\ c.preparation = None /\ c.integrity = FALSE
  <2>1. State!FreshSnapshot \in SP!Snapshots
    BY SP!FreshIsSnapshot, Constants DEF State!FreshSnapshot, SP!FreshSnapshot
  <2>2. snap.generation + 1 \in SP!Positive
    BY StateTypes DEF SP!Positive
  <2> QED
    BY <2>1, <2>2 DEF State!FreshSnapshot, SP!Snapshots
<1> HIDE DEF c
<1>2. disk \in SP!Snapshots /\ SP!BindingsAreCurrent /\ snap \in SP!Snapshots
      /\ storageFault \in BOOLEAN /\ transientFault \in BOOLEAN /\ loaded \in BOOLEAN
  BY DEF StateOK, SP!Inv, SP!TypeOK
<1>3. CASE \/ State!ReadFails(r) \/ State!CancelRead(r)
           \/ State!RefuseForever(r)
  <2>1. /\ r \in {"fault", "refused", "cancelled"}
        /\ disk' = disk /\ snap' = snap /\ loaded' = loaded
        /\ storageFault' \in BOOLEAN /\ transientFault' \in BOOLEAN
        /\ storageFault => storageFault'
    BY <1>2, <1>3 DEF State!ReadFails, State!CancelRead, State!RefuseForever, State!FaultForever,
                      State!stateVars
  <2>2. StateStep
    BY <2>1, StillEffect
  <2> QED
    BY <1>2, <2>1, <2>2 DEF Ends, Raised, SP!BindingsAreCurrent
<1>4. CASE State!Persist(c, TRUE, r)
  <2>1. CASE r = "ok"
    <3>1. disk' = c /\ snap' = c /\ transientFault' = FALSE /\ loaded' = loaded
          /\ storageFault' = storageFault /\ ~storageFault
      BY <1>4, <2>1 DEF State!Persist, State!Refuse
    <3>2. StateOK'
      <4>1. SP!TypeOK'
        BY <1>1, <1>2, <3>1 DEF SP!TypeOK
      <4>2. c.generation \in Nat
        BY <1>1 DEF SP!Snapshots, SP!Positive
      <4>3. SP!MemoryNeverAhead' /\ SP!BindingsAreCurrent'
        BY <1>1, <3>1, <4>2 DEF SP!MemoryNeverAhead, SP!BindingsAreCurrent
      <4>4. SP!SameGenerationSameBlocks'
        BY <3>1 DEF SP!SameGenerationSameBlocks
      <4> QED
        BY <4>1, <4>3, <4>4 DEF StateOK, SP!Inv
    <3> QED
      BY <1>1, <2>1, <3>1, <3>2 DEF Ends, Raised
  <2>2. CASE r = "cancelled"
    <3>1. disk' \in {disk, c}
      BY <1>4, <2>2 DEF State!Persist, State!Refuse
    <3> QED
      BY <1>1, <1>2, <2>2, <3>1 DEF Ends, Raised, SP!BindingsAreCurrent
  <2>3. CASE r \notin {"ok", "cancelled"}
    <3>1. /\ r \in {"fault", "refused"}
          /\ disk' = disk /\ snap' = snap /\ loaded' = loaded
          /\ storageFault' \in BOOLEAN /\ transientFault' \in BOOLEAN
          /\ storageFault => storageFault'
      BY <1>2, <1>4, <2>3 DEF State!Persist, State!Refuse, State!stateVars
    <3>2. StateStep
      BY <3>1, StillEffect
    <3> QED
      BY <3>1, <3>2 DEF Ends, Raised
  <2> QED
    BY <2>1, <2>2, <2>3
<1> QED
  BY <1>3, <1>4 DEF LiftIntegrity, c

\* The save that ends the fault markers of a take-over is one the journal may make.
LEMMA RepairedEffect ==
    ASSUME JournalOK, legacy \in LegacyFiles, records = Migrated, NEW r, Journal!Save(Repaired, r)
    PROVE  /\ JournalKeeps /\ r \in Ends
           /\ \/ r # "ok" /\ JournalStill
              \/ Readable /\ Saves(Repaired, r)
<1>1. JP!Save(Repaired, r)
  BY SaveBridge
<1>2. JP!KeepsPromises(Repaired)
  BY TakenOverFacts, TakenOverLists DEF JP!KeepsPromises
<1>3. JP!Writing
  BY <1>1, <1>2, JP!SaveIsWriting, Constants
<1> QED
  BY <1>1, <1>3, SaveOutcome, WritingKeeps

\* A repaired manager starts over with the sources.
Reopened ==
    /\ Goto("sources", NoContext)
    /\ securityFault' = FALSE /\ manualCheck' = FALSE /\ enabledFlag' = FALSE
    /\ challenge' = None /\ up' = up

\* Start-up goes on among the checks of the sources, or with a fault.
Checking ==
    \/ \E s \in SourceChecks : Continue(s)
    \/ ForceFault(0, "mixed") \/ ForceFault(0, "sources")
    \/ Reopened

\* Wherever it goes on, it is typed and in its place.
LEMMA ChecksPlaced ==
    ASSUME Types, Control, JournalOK', up = "starting", UNCHANGED environmentVars, Checking
    PROVE  /\ Typed' /\ Control' /\ Recorded' /\ up' = up
           /\ pc' \in SourceChecks \cup {"force"}
           /\ pc' = "force" => securityFault'
<1>1. /\ SourceChecks \subseteq Steps /\ SourceChecks \subseteq StartSteps \ {"startLatch"}
      /\ {"mixed", "sources"} \subseteq Thens /\ {"mixed", "sources"} \subseteq Rejoining
      /\ "sources" \in StartSteps /\ "sources" \in Steps
  BY DEF SourceChecks, RepairSteps, Steps, StartSteps, Thens, Rejoining
<1>2. Lands
  <2>1. CASE Reopened
    BY <1>1, <2>1, NoContextTyped DEF Reopened, Goto, Lands, Types, Typed
  <2> QED
    BY <1>1, <2>1, HelpersLand DEF Checking
<1>3. Places
  <2>1. Located /\ Placed /\ Returning /\ UNCHANGED <<gate, reloading>>
    BY DEF Control, environmentVars
  <2>2. Reopened => Places
    BY <1>1, <2>1, StartHelpersPlace DEF Reopened
  <2>3. \A s \in SourceChecks : Continue(s) => Places
    BY <1>1, <2>1, StartHelpersPlace
  <2>4. ForceFault(0, "mixed") \/ ForceFault(0, "sources") => Places
    BY <1>1, <2>1, StartHelpersPlace
  <2> QED
    BY <2>2, <2>3, <2>4 DEF Checking
<1>4. /\ pc' \in SourceChecks \cup {"force"}
      /\ pc' = "force" => securityFault' = TRUE
      /\ up' = up
  <2>1. CASE \E s \in SourceChecks : Continue(s)
    BY <2>1 DEF Continue, Goto, KeepFlags, flagVars, SourceChecks, RepairSteps
  <2>2. CASE ForceFault(0, "mixed") \/ ForceFault(0, "sources")
    BY <2>2 DEF ForceFault, Goto, ShutDown
  <2>3. CASE Reopened
    BY <2>3 DEF Reopened, Goto, SourceChecks
  <2> QED
    BY <2>1, <2>2, <2>3 DEF Checking
<1>5. Typed'
  BY <1>2 DEF Lands, Types, Typed, environmentVars
<1>6. Drafting' /\ Recorded'
  BY <1>4 DEF Drafting, Recorded, Drafted, Preparing, SourceChecks, RepairSteps
<1> QED
  BY <1>3, <1>4, <1>5, <1>6 DEF Control, Places

\* So the repair keeps what OrderingManager keeps as long as it is not cancelled,
LEMMA ChecksKeep ==
    ASSUME Regular, up = "starting", pc \in SourceChecks, UNCHANGED environmentVars, Settle,
           StateOK', JournalOK', journalLoaded' = journalLoaded, corrupt' = corrupt,
           \A b \in DOMAIN records' : records'[b].state \notin Journal!InFlight,
           \/ /\ UNCHANGED stateVars /\ \E s \in SourceChecks : Continue(s)
              /\ UNCHANGED journalVars \/ Alike'
           \/ ForceFault(0, "mixed") \/ ForceFault(0, "sources")
           \/ Reopened /\ Readable /\ ~disk'.integrity /\ snap'.manual = None /\ Alike'
    PROVE  Regular'
<1>1. /\ Typed' /\ Control' /\ Recorded' /\ up' = up
      /\ pc' \in SourceChecks \cup {"force"}
      /\ pc' = "force" => securityFault'
  BY ChecksPlaced DEF Regular, Checking
<1>2. Types'
  <2>1. settled' \subseteq Nat
    BY ListFactsNext DEF Regular, Types, Settle, Concluded
  <2> QED
    BY <1>1, <2>1 DEF Types
<1>3. Readable' = Readable
  BY DEF Readable
<1>4. pc' # "force" =>
         \/ /\ UNCHANGED stateVars
            /\ UNCHANGED journalVars \/ Alike'
            /\ securityFault' = securityFault /\ manualCheck' = manualCheck
         \/ /\ Readable /\ ~disk'.integrity /\ snap'.manual = None /\ Alike'
            /\ securityFault' = FALSE /\ manualCheck' = FALSE
  BY DEF Continue, KeepFlags, flagVars, ForceFault, Goto, Reopened
<1>5. FaultsKnown'
  <2>1. JournalRead /\ StateRead
    BY DEF JournalRead, StateRead, Unread, SourceChecks, RepairSteps
  <2>2. (Readable \/ securityFault) /\ (disk.integrity => IntegrityFault)
    BY <2>1 DEF Regular, FaultsKnown
  <2>3. CASE pc' = "force"
    BY <1>1, <2>3 DEF FaultsKnown, IntegrityFault
  <2>4. CASE pc' \in SourceChecks
    <3>1. Readable' \/ securityFault'
      BY <1>3, <1>4, <2>2, <2>4 DEF SourceChecks, RepairSteps
    <3>2. disk'.integrity => IntegrityFault'
      BY <1>4, <2>2, <2>4
         DEF SourceChecks, RepairSteps, IntegrityFault, State!IntegrityFault, stateVars
    <3> QED
      BY <2>4, <3>1, <3>2 DEF FaultsKnown, SourceChecks, RepairSteps
  <2> QED
    BY <1>1, <2>3, <2>4
<1>6. StartUp'
  <2>1. /\ up' = "starting"
        /\ pc' \notin Unread \cup {"unresolved", "startLatch", "finish"}
    BY <1>1 DEF Unread, SourceChecks, RepairSteps
  <2>2. CASE pc' = "force"
    BY <2>1, <2>2 DEF StartUp, Unread, SourceChecks, RepairSteps
  <2>3. CASE pc' \in SourceChecks
    <3>1. ~IntegrityFault' /\ snap'.manual # None => Names(snap.manual.attempt)'
      <4>1. CASE snap'.manual = None
        BY <4>1
      <4>2. CASE UNCHANGED stateVars /\ securityFault' = securityFault
        BY <4>2
           DEF Regular, StartUp, IntegrityFault, State!IntegrityFault, stateVars, Names
      <4> QED
        BY <1>4, <2>3, <4>1, <4>2 DEF SourceChecks, RepairSteps
    <3>2. ~securityFault' /\ manualCheck' => snap'.manual # None
      BY <1>4, <2>3 DEF Regular, StartUp, SourceChecks, RepairSteps, stateVars
    <3> QED
      BY <2>1, <3>1, <3>2 DEF StartUp, Unread
  <2> QED
    BY <1>1, <2>2, <2>3
<1>7. Authorized' /\ Conclusive'
  <2>1. pc' \notin Concluding \cup {"reconcile", "submit"}
    BY <1>1 DEF Concluding, SourceChecks, RepairSteps
  <2>2. CASE UNCHANGED journalVars /\ securityFault' = securityFault
    BY <2>1, <2>2 DEF Regular, Conclusive, Authorized, journalVars
  <2>3. CASE Alike'
    BY <2>1, <2>3 DEF Conclusive, Authorized, Alike
  <2>4. CASE securityFault'
    BY <2>1, <2>4 DEF Conclusive, Authorized
  <2> QED
    BY <1>1, <1>4, <2>2, <2>3, <2>4
<1> QED
  BY <1>1, <1>2, <1>5, <1>6, <1>7 DEF Regular

\* and otherwise the manager parts.
LEMMA CancelledParts ==
    ASSUME Types, Control, up = "starting", UNCHANGED environmentVars, Settle, Abort,
           JournalOK', disk' \in SP!Snapshots, SP!BindingsAreCurrent'
    PROVE  Parting'
<1>1. Lands
  BY HelpersLand
<1>2. Typed'
  BY <1>1 DEF Lands, Types, Typed, environmentVars
<1>3. settled' \subseteq Nat
  BY ListFactsNext DEF Types, Settle, Concluded
<1>4. pc' = "unload" /\ up' = "starting" /\ ~reloading'
  BY DEF Abort, Goto, KeepFlags, flagVars, Control, Placed, environmentVars
<1> QED
  BY <1>2, <1>3, <1>4 DEF Parting

\* Where a repair begins, and what none of its steps touches.
LEMMA AtRepair ==
    ASSUME Types, Control, Repair
    PROVE  /\ pc \in SourceChecks /\ up = "starting"
           /\ UNCHANGED environmentVars /\ legacy' = legacy /\ prepared' = prepared
           /\ journalLoaded' = journalLoaded /\ corrupt' = corrupt
           /\ RepairState \/ UNCHANGED stateVars
           /\ RepairJournal \/ UNCHANGED journalVars
           /\ TryRepair \/ repairTried' = repairTried
           /\ RepairJournal \/ RepairState \/ lifted' = lifted
<1>1. /\ pc \in SourceChecks
      /\ UNCHANGED environmentVars /\ legacy' = legacy /\ prepared' = prepared
      /\ RepairState \/ UNCHANGED stateVars
      /\ RepairJournal \/ UNCHANGED journalVars
      /\ TryRepair \/ repairTried' = repairTried
      /\ RepairJournal \/ RepairState \/ lifted' = lifted
  <2>1. CASE TryRepair
    BY <2>1 DEF TryRepair, SourceChecks, restVars, environmentVars
  <2>2. CASE ProveLineage
    BY <2>2 DEF ProveLineage, SourceChecks, RepairSteps
  <2>3. CASE RepairJournal
    BY <2>3 DEF RepairJournal, SourceChecks, RepairSteps
  <2>4. CASE RepairState
    BY <2>4 DEF RepairState, SourceChecks, RepairSteps
  <2>5. CASE CheckMixed
    BY <2>5 DEF CheckMixed, SourceChecks, restVars, environmentVars
  <2> QED
    BY <2>1, <2>2, <2>3, <2>4, <2>5 DEF Repair
<1>2. up = "starting"
  BY <1>1 DEF Control, Placed, SourceChecks, RepairSteps, StartSteps
<1>3. journalLoaded' = journalLoaded /\ corrupt' = corrupt
  BY <1>1 DEF RepairJournal, Journal!Save, Journal!JournalRefuse, Journal!journalVars, journalVars
<1> QED
  BY <1>1, <1>2, <1>3

\* A fault in the repair is forced, and a cancellation drops the manager.
LEMMA Stopped ==
    ASSUME NEW r, RepairStopped(r)
    PROVE  /\ ForceFault(0, "mixed") \/ Abort
           /\ pc' \in {"force", "unload"}
  BY DEF RepairStopped, Abort, ForceFault, Goto

\* The repair of the journal ends the fault markers of a list that is as it came, and
\* takes one that has no others, or that it has ended already, for repaired.
LEMMA AtRepairJournal ==
    ASSUME Types, legacy \in LegacyFiles, RepairJournal
    PROVE  /\ JournalOK'
           /\ \/ UNCHANGED journalVars
              \/ /\ records = Migrated /\ Readable
                 /\ journal' = Repaired /\ records' \in {records, Repaired}
                 /\ lifted' = (lifted \/ journal' # journal)
           /\ pc' = "repairState" =>
                 /\ legacy.attempts # None /\ records' = Repaired
                 /\ UNCHANGED journalVars \/ journal' = Repaired
           /\ \/ /\ \E s \in SourceChecks : Continue(s)
                 /\ UNCHANGED journalVars \/ Alike'
              \/ ForceFault(0, "mixed") /\ UNCHANGED journalVars
              \/ Abort
           /\ lifted => lifted'
<1>1. {"repairState", "mixed"} \subseteq SourceChecks
  BY DEF SourceChecks, RepairSteps
<1>2. CASE /\ legacy.attempts # None
           /\ records = Migrated
           /\ \E r \in Results :
                /\ Counted(r)
                /\ Journal!Save(Repaired, r)
                /\ IF r = "ok" THEN Continue("repairState") ELSE RepairStopped(r)
           /\ lifted' = (lifted \/ journal' # journal)
  <2>1. PICK r \in Results : /\ Journal!Save(Repaired, r)
                             /\ IF r = "ok" THEN Continue("repairState") ELSE RepairStopped(r)
    BY <1>2
  <2>2. /\ JournalKeeps
        /\ \/ r # "ok" /\ JournalStill
           \/ Readable /\ Saves(Repaired, r)
    BY <1>2, <2>1, RepairedEffect DEF Types
  <2>3. CASE r = "ok"
    BY <1>1, <1>2, <2>1, <2>2, <2>3 DEF JournalKeeps, Saves, Alike
  <2>4. CASE r # "ok"
    <3>1. RepairStopped(r)
      BY <2>1, <2>4
    <3>2. /\ IF r = "cancelled" THEN Abort ELSE ForceFault(0, "mixed")
          /\ pc' # "repairState"
      BY <3>1, Stopped DEF RepairStopped
    <3>3. UNCHANGED journalVars \/ (r = "cancelled" /\ Saves(Repaired, r) /\ Readable)
      BY <2>2, <2>4 DEF JournalKeeps, JournalStill, Saves, journalVars
    <3> QED
      BY <1>2, <2>2, <3>2, <3>3 DEF JournalKeeps, Saves
  <2> QED
    BY <2>3, <2>4
<1>3. CASE /\ IF legacy.attempts # None /\ records = Repaired
              THEN Continue("repairState") ELSE Continue("mixed")
           /\ UNCHANGED <<journalVars, lifted>>
  <2>1. JournalOK'
    BY <1>3, JournalStays DEF Types
  <2>2. pc' = "repairState" =>
           legacy.attempts # None /\ records' = Repaired
    BY <1>3 DEF Continue, Goto, journalVars
  <2> QED
    BY <1>1, <1>3, <2>1, <2>2
<1>4. CASE /\ \E r \in Results \cap {"fault", "cancelled"} : RepairStopped(r)
           /\ UNCHANGED <<journalVars, lifted>>
  <2>1. JournalOK'
    BY <1>4, JournalStays DEF Types
  <2> QED
    BY <1>4, <2>1, Stopped
<1> QED
  BY <1>2, <1>3, <1>4 DEF RepairJournal

\* The repair of the safety state lifts its latch, shuts down, or ends with the process.
LEMMA AtRepairState ==
    ASSUME Types, RepairState
    PROVE  /\ \/ /\ StateOK' /\ Reopened /\ ~storageFault'
                 /\ snap' = disk' /\ ~disk'.integrity /\ snap'.manual = None
              \/ /\ StateOK' /\ ForceFault(0, "mixed") /\ disk' = disk
              \/ /\ Abort /\ disk' \in SP!Snapshots /\ SP!BindingsAreCurrent'
           /\ lifted' = (lifted \/ disk' # disk)
<1>1. PICK r \in Results :
         /\ LiftIntegrity(r)
         /\ IF r = "ok"
            THEN /\ Goto("sources", NoContext)
                 /\ securityFault' = FALSE
                 /\ manualCheck' = FALSE
                 /\ enabledFlag' = FALSE
                 /\ challenge' = None
                 /\ UNCHANGED up
            ELSE RepairStopped(r)
  BY DEF RepairState
<1>2. /\ r \in Ends
      /\ r \in Raised => disk' = disk /\ StateOK'
      /\ r = "ok" => /\ StateOK' /\ ~storageFault'
                     /\ snap' = disk' /\ snap'.manual = None /\ ~snap'.integrity
      /\ r = "cancelled" => disk' \in SP!Snapshots /\ SP!BindingsAreCurrent'
  BY <1>1, LiftEffect DEF Types, StateStep, StateKeeps
<1>3. r = "ok" => Reopened
  BY <1>1 DEF Reopened
<1>4. r # "ok" => IF r = "cancelled" THEN Abort ELSE ForceFault(0, "mixed")
  BY <1>1 DEF RepairStopped
<1>5. lifted' = (lifted \/ disk' # disk)
  BY DEF RepairState
<1> QED
  BY <1>2, <1>3, <1>4, <1>5 DEF Ends, Raised

\* The repair keeps what OrderingManager keeps, or the manager parts.
LEMMA RepairRegular ==
    ASSUME Regular, Latent, Repairing, Repair, Settle
    PROVE  Regular' \/ Parting'
<1>1. /\ Types /\ Control /\ legacy \in LegacyFiles
      /\ pc \in SourceChecks /\ up = "starting" /\ UNCHANGED environmentVars
      /\ journalLoaded' = journalLoaded /\ corrupt' = corrupt
      /\ RepairState \/ UNCHANGED stateVars
      /\ RepairJournal \/ UNCHANGED journalVars
  BY AtRepair DEF Regular, Latent
<1>2. \A b \in DOMAIN records : records[b].state \notin Journal!InFlight
  BY <1>1 DEF Regular, StartUp
<1>3. StateOK /\ JournalOK /\ disk \in SP!Snapshots /\ SP!BindingsAreCurrent
  BY <1>1 DEF Types, StateOK, SP!Inv, SP!TypeOK
<1>4. UNCHANGED stateVars =>
         StateOK' /\ disk' \in SP!Snapshots /\ SP!BindingsAreCurrent'
  BY <1>3, StateStays DEF StateStep, StateKeeps, stateVars, SP!BindingsAreCurrent
<1>5. UNCHANGED journalVars => JournalOK' /\ records' = records
  BY <1>3, JournalStays DEF journalVars
<1>6. CASE TryRepair \/ ProveLineage \/ CheckMixed
  <2>1. {"lineage", "repairJournal", "repairState", "mixed", "sources"} \subseteq SourceChecks
    BY DEF SourceChecks, RepairSteps
  <2>2. UNCHANGED stateVars /\ UNCHANGED journalVars
    BY <1>6 DEF TryRepair, ProveLineage, CheckMixed
  <2>3. \/ \E s \in SourceChecks : Continue(s)
        \/ ForceFault(0, "mixed") \/ ForceFault(0, "sources") \/ Abort
    <3>1. CASE TryRepair
      BY <2>1, <3>1 DEF TryRepair
    <3>2. CASE ProveLineage
      BY <2>1, <3>2, Stopped DEF ProveLineage
    <3>3. CASE CheckMixed
      BY <2>1, <3>3 DEF CheckMixed
    <3> QED
      BY <1>6, <3>1, <3>2, <3>3
  <2> QED
    BY <1>1, <1>2, <1>4, <1>5, <2>2, <2>3, ChecksKeep, CancelledParts
<1>7. CASE RepairJournal
  <2>1. UNCHANGED stateVars
    BY <1>7 DEF RepairJournal
  <2>2. /\ JournalOK'
        /\ \/ /\ \E s \in SourceChecks : Continue(s)
              /\ UNCHANGED journalVars \/ Alike'
           \/ ForceFault(0, "mixed") \/ Abort
    BY <1>1, <1>7, AtRepairJournal
  <2>3. \A b \in DOMAIN records' : records'[b].state \notin Journal!InFlight
    <3>1. CASE records' = records
      BY <1>2, <3>1
    <3>2. CASE records' = Repaired
      BY <1>1, <3>2, TakenOverFacts, StateNames
    <3> QED
      BY <1>1, <1>5, <1>7, <3>1, <3>2, AtRepairJournal
  <2> QED
    BY <1>1, <1>4, <2>1, <2>2, <2>3, ChecksKeep, CancelledParts
<1>8. CASE RepairState
  <2>1. UNCHANGED journalVars /\ pc = "repairState"
    BY <1>8 DEF RepairState
  <2>2. Readable /\ Alike'
    BY <2>1 DEF Repairing, RepairSteps, Alike, journalVars
  <2>3. \/ /\ StateOK' /\ Reopened
           /\ snap' = disk' /\ ~disk'.integrity /\ snap'.manual = None
        \/ /\ StateOK' /\ ForceFault(0, "mixed")
        \/ /\ Abort /\ disk' \in SP!Snapshots /\ SP!BindingsAreCurrent'
    BY <1>1, <1>8, AtRepairState
  <2> QED
    BY <1>1, <1>2, <1>5, <2>1, <2>2, <2>3, ChecksKeep, CancelledParts
<1> QED
  BY <1>6, <1>7, <1>8 DEF Repair

\* What a repair changes of a fault it has lifted,
LEMMA RepairLatent ==
    ASSUME Types, Control, Latent, Repair
    PROVE  Latent'
<1>1. /\ legacy' = legacy /\ legacy \in LegacyFiles
      /\ journalLoaded' = journalLoaded /\ corrupt' = corrupt
      /\ RepairState \/ UNCHANGED stateVars
      /\ RepairJournal \/ UNCHANGED journalVars
      /\ RepairJournal \/ RepairState \/ lifted' = lifted
  BY AtRepair DEF Latent
<1>2. legacy.fault = TRUE /\ ~lifted' => disk'.integrity
  <2>1. CASE RepairState
    BY <2>1, AtRepairState DEF Latent
  <2>2. CASE UNCHANGED stateVars
    <3>1. lifted => lifted'
      BY <1>1, AtRepairJournal, AtRepairState
    <3> QED
      BY <2>2, <3>1 DEF Latent, stateVars
  <2> QED
    BY <1>1, <2>1, <2>2
<1>3. V1JournalFault /\ ~lifted' => HasFault(journal)' /\ (Readable' => HasFault(records)')
  <2> SUFFICES ASSUME V1JournalFault, ~lifted'
               PROVE  HasFault(journal)' /\ (Readable' => HasFault(records)')
    OBVIOUS
  <2>1. ~lifted
    BY <1>1, AtRepairJournal, AtRepairState
  <2>2. HasFault(journal) /\ (Readable => HasFault(records))
    BY <2>1 DEF Latent
  <2>3. CASE UNCHANGED journalVars
    BY <2>2, <2>3 DEF HasFault, Readable, journalVars
  <2>4. CASE ~UNCHANGED journalVars
    <3>1. /\ journal' = Repaired /\ records' \in {records, Repaired}
          /\ lifted' = (lifted \/ journal' # journal)
      BY <1>1, <2>4, AtRepairJournal
    <3>2. journal = Repaired
      BY <3>1
    <3>3. ~HasFault(Repaired)
      BY <1>1, TakenOverFacts DEF HasFault
    <3> QED
      BY <2>2, <3>2, <3>3
  <2> QED
    BY <2>3, <2>4
<1> QED
  BY <1>1, <1>2, <1>3 DEF Latent, V1JournalFault

\* of an account that has posted,
LEMMA RepairShown ==
    ASSUME Types, Control, Latent, Shown, Repair
    PROVE  Shown'
<1>1. /\ legacy \in LegacyFiles /\ posted' = posted
      /\ journalLoaded' = journalLoaded /\ corrupt' = corrupt
      /\ RepairJournal \/ UNCHANGED journalVars
  BY AtRepair DEF Latent, environmentVars
<1>2. CASE UNCHANGED journalVars
  BY <1>1, <1>2 DEF Shown, Used, Readable, journalVars
<1>3. CASE ~UNCHANGED journalVars
  <2>1. records = Migrated /\ Readable
    BY <1>1, <1>3, AtRepairJournal
  <2>2. ~Used(records)
    BY <1>1, <2>1, MigratedFacts DEF Used
  <2> QED
    BY <1>1, <2>1, <2>2 DEF Shown
<1> QED
  BY <1>2, <1>3

\* and of what a manager has looked at.
LEMMA RepairUnlooked ==
    ASSUME Types, Control, Unlooked, Repairing, Repair
    PROVE  Unlooked'
<1>1. /\ pc \in SourceChecks /\ up = "starting"
      /\ journalLoaded' = journalLoaded /\ corrupt' = corrupt
      /\ TryRepair \/ repairTried' = repairTried
  BY AtRepair
<1>2. up' \in {up, "starting"}
  BY DEF Repair, TryRepair, ProveLineage, RepairJournal, RepairState, CheckMixed, Continue,
         RepairStopped, Abort, ForceFault, ShutDown, KeepFlags, flagVars, restVars
<1>3. CASE TryRepair
  BY <1>1, <1>2, <1>3 DEF Unlooked, TryRepair
<1>4. CASE ~TryRepair
  <2>1. pc # "sources"
    BY <1>4 DEF Repair, ProveLineage, RepairJournal, RepairState, CheckMixed
  <2> QED
    BY <1>1, <1>2, <1>4, <2>1 DEF Unlooked, Readable
<1> QED
  BY <1>3, <1>4

\* A repair goes on with what it has found.
LEMMA RepairGoesOn ==
    ASSUME Types, Control, Latent, Unlooked, Repairing, Repair
    PROVE  Repairing'
<1>1. /\ legacy' = legacy /\ legacy \in LegacyFiles /\ prepared' = prepared
      /\ pc \in SourceChecks /\ up = "starting"
      /\ journalLoaded' = journalLoaded /\ corrupt' = corrupt
  BY AtRepair DEF Latent
<1>2. CASE TryRepair
  <2>1. /\ journalVars' = journalVars /\ pc = "sources" /\ ~repairTried
        /\ pc' \in {"lineage", "repairJournal", "mixed"}
    BY <1>2 DEF TryRepair, Continue, Goto
  <2>2. pc' \in {"lineage", "repairJournal"} => ~prepared /\ Readable /\ snap'.manual = None
    BY <1>2 DEF TryRepair, Continue, Goto, MayRepair, Unbound, Readable, stateVars
  <2>3. pc' = "lineage" => DOMAIN records = {}
    BY <1>2 DEF TryRepair, Continue, Goto, EmptyJournalLineage, Journal!NoRecords
  <2>4. Readable => Alike
    BY <1>1, <2>1 DEF Unlooked
  <2> QED
    BY <1>1, <2>1, <2>2, <2>3, <2>4 DEF Repairing, RepairSteps, Readable, Alike, journalVars
<1>3. CASE ProveLineage
  <2>1. /\ journalVars' = journalVars /\ pc = "lineage"
        /\ pc' \in {"repairState", "mixed", "force", "unload"}
        /\ pc' = "repairState" => legacy.fault # None
        /\ snap' = snap
    BY <1>3 DEF ProveLineage, RepairStopped, Abort, ForceFault, Continue, Goto, stateVars
  <2> QED
    BY <1>1, <2>1 DEF Repairing, RepairSteps, Readable, Alike, Inert, journalVars
<1>4. CASE RepairJournal
  <2>1. pc = "repairJournal" /\ pc' \in {"repairState", "mixed", "force", "unload"}
    BY <1>4, Stopped DEF RepairJournal, Continue, Goto
  <2>2. ~prepared /\ Readable /\ Alike /\ snap'.manual = None
    BY <1>4, <2>1 DEF Repairing, RepairSteps, RepairJournal, stateVars
  <2>3. pc' = "repairState" =>
          /\ legacy.attempts # None /\ records' = Repaired
          /\ UNCHANGED journalVars \/ journal' = Repaired
    BY <1>1, <1>4, AtRepairJournal
  <2>4. Inert(Repaired)
    BY <1>1, TakenOverFacts DEF Inert
  <2>5. pc' = "repairState" => Alike'
    BY <2>2, <2>3 DEF Alike, journalVars
  <2> QED
    BY <1>1, <2>1, <2>2, <2>3, <2>4, <2>5 DEF Repairing, RepairSteps, Readable
<1>5. CASE RepairState \/ CheckMixed
  <2>1. pc' \in {"sources", "force", "unload"}
    BY <1>5, Stopped DEF RepairState, CheckMixed, Continue, ForceFault, Goto
  <2> QED
    BY <2>1 DEF Repairing, RepairSteps
<1> QED
  BY <1>2, <1>3, <1>4, <1>5 DEF Repair

\* So a step of the repair keeps it all.
LEMMA RepairKeeps ==
    ASSUME Regular, Latent, Shown, Unlooked, Repairing, Repair, Settle
    PROVE  Inherited'
<1>1. Types /\ Control
  BY DEF Regular
<1> QED
  BY <1>1, RepairRegular, RepairLatent, RepairShown, RepairUnlooked, RepairGoesOn DEF Inherited

(***************************************************************************)
(* What happens beside the manager and the repair.                         *)
(***************************************************************************)
\* Where no method goes on, only the options and the marks of the entry may change.
LEMMA BesideAll ==
    ASSUME Inherited, UNCHANGED <<stateVars, journalVars, controlVars, posted, finalAdapter>>,
           UNCHANGED <<legacy, repairTried, lifted>>,
           prepared' = prepared \/ pc \notin RepairSteps,
           settled' \subseteq Nat,
           gate' \in [ordering : BOOLEAN, checkout : BOOLEAN], reloading' \in BOOLEAN,
           reloading' => up = "up" /\ ~CheckoutGate'
    PROVE  Inherited'
<1> USE DEF stateVars, journalVars, controlVars, flagVars
<1>1. Parting => Parting'
  BY DEF Parting, Typed, JournalOK, JP!Inv, JP!GoodList, JP!Sized, JP!ProtectedIsDurable,
         SP!BindingsAreCurrent
<1>2. Regular => Regular'
  <2> SUFFICES ASSUME Regular
               PROVE  Regular'
    OBVIOUS
  <2>1. StateOK' /\ JournalOK'
    BY StateStays, JournalStays DEF Regular, Types, StateStep, StateKeeps
  <2>2. Typed'
    BY DEF Regular, Types, Typed
  <2>3. NewAttempt' = NewAttempt
    BY DEF NewAttempt, Seen
  <2>4. Control' /\ Recorded'
    BY <2>3 DEF Regular, Control, Located, Placed, Returning, Drafting, Recorded
  <2>5. FaultsKnown'
    BY DEF Regular, FaultsKnown, HasFault, StateRead, JournalRead, Readable, IntegrityFault,
           State!IntegrityFault
  <2>6. Bound' = Bound /\ Journal!UnresolvedManualChecks' = Journal!UnresolvedManualChecks
    BY DEF Bound, Journal!UnresolvedManualChecks
  <2>7. StartUp'
    BY <2>6
       DEF Regular, StartUp, IntegrityFault, State!IntegrityFault, ManualCheckRequired, Names
  <2>8. Authorized' /\ Conclusive'
    BY DEF Regular, Authorized, Conclusive, State!AuthorityIsCurrent
  <2> QED
    BY <2>1, <2>2, <2>4, <2>5, <2>7, <2>8 DEF Regular, Types
<1>3. Latent' /\ Shown' /\ Unlooked'
  BY DEF Inherited, Latent, V1JournalFault, HasFault, Shown, Used, Unlooked, Alike, Readable
<1>4. Repairing'
  BY DEF Inherited, Repairing, RepairSteps, Readable, Alike, Inert
<1> QED
  BY <1>1, <1>2, <1>3, <1>4 DEF Inherited

\* The withdrawal of all consents is such a step,
LEMMA ClosesBeside ==
    ASSUME Inherited, CloseConsents, Tracked, Settle
    PROVE  Inherited'
<1>1. settled' \subseteq Nat
  <2>1. JournalOK /\ settled \subseteq Nat
    BY DEF Inherited, Regular, Types, Parting
  <2>2. DOMAIN journal' \subseteq Nat
    BY <2>1, ListFacts DEF CloseConsents, journalVars
  <2> QED
    BY <2>1, <2>2 DEF Settle, Concluded
<1> QED
  BY <1>1, BesideAll
     DEF CloseConsents, Tracked, NoConsents, CheckoutGate, stateVars, journalVars, controlVars

\* the first record of a preparation is,
LEMMA PreparesBeside ==
    ASSUME Inherited, PrepareMutation
    PROVE  Inherited'
<1>1. UNCHANGED vars /\ pc = "idle" /\ UNCHANGED <<legacy, repairTried, lifted>>
  BY DEF PrepareMutation
<1>2. settled \subseteq Nat /\ Typed /\ (reloading => up = "up" /\ ~CheckoutGate)
  BY <1>1 DEF Inherited, Regular, Types, Parting, Control, Placed
<1> QED
  BY <1>1, <1>2, BesideAll
     DEF vars, restVars, environmentVars, RepairSteps, Typed, CheckoutGate

\* and a step that changes nothing.
LEMMA NothingBeside ==
    ASSUME Inherited, UNCHANGED legacyVars
    PROVE  Inherited'
<1>1. UNCHANGED vars /\ UNCHANGED <<legacy, repairTried, prepared, lifted>>
  BY DEF legacyVars
<1>2. settled \subseteq Nat /\ Typed
  BY DEF Inherited, Regular, Types, Parting
<1>3. reloading => up = "up" /\ ~CheckoutGate
  BY DEF Inherited, Regular, Control, Placed, Parting
<1> QED
  BY <1>1, <1>2, <1>3, BesideAll DEF vars, restVars, environmentVars, Typed, CheckoutGate

(***************************************************************************)
(* The theorems.                                                           *)
(***************************************************************************)
\* Whatever happens to the account, it keeps all of this.
LEMMA InheritedKept == Inherited /\ [LegacyNext]_legacyVars => Inherited'
<1>1. ASSUME Inherited, LegacyNext
      PROVE  Inherited'
  <2>1. Latent /\ Shown /\ Unlooked /\ Repairing /\ (Regular \/ Parting)
    BY <1>1 DEF Inherited
  <2>2. CASE /\ Next /\ Untouched
             /\ up = "starting" /\ pc = "sources" => repairTried \/ Crash
             /\ up = "starting" /\ pc = "unload" => Unload \/ Crash
    <3>1. Regular => Inherited'
      BY SMTT(60), <2>1, <2>2, ManagerKeeps
    <3>2. Parting => Inherited'
      BY <2>1, <2>2, PartingEnds DEF Parting, Next, Untouched
    <3> QED
      BY <2>1, <3>1, <3>2
  <2>3. CASE Repair /\ Settle
    <3>1. pc # "unload"
      BY <2>3 DEF Repair, TryRepair, ProveLineage, RepairJournal, RepairState, CheckMixed
    <3> QED
      BY <2>1, <2>3, <3>1, RepairKeeps DEF Parting
  <2> QED
    BY <1>1, <2>2, <2>3, LegacySteps, ClosesBeside, PreparesBeside
<1> QED
  BY <1>1, NothingBeside

\* The inductive invariant of LegacyRepair: the manager's own, but for a manager that is to
\* be dropped, and what is known of the v1 files it took over.
THEOREM InheritedHolds == LegacySpec => []Inherited
  BY InheritedInit, InheritedKept, PTL DEF LegacySpec

\* A fault of the v1 release, in either file, keeps the account closed until a repair has
\* been at work, however often the take-over of the two files is interrupted.
THEOREM InheritedFaultBlocks == LegacySpec => []V1FaultBlocks
<1>1. Inherited => V1FaultBlocks
  <2> SUFFICES ASSUME Inherited, V1Faulted, Idle, Enabled, ~lifted
               PROVE  FALSE
    BY DEF V1FaultBlocks
  <2>1. Regular /\ Latent /\ up = "up" /\ pc = "idle"
    BY DEF Inherited, Parting, Idle
  <2>2. ~securityFault /\ ~IntegrityFault
    BY DEF Enabled, State!SafetyFault, IntegrityFault
  <2>3. StateRead /\ JournalRead
    BY <2>1 DEF StateRead, JournalRead, Unread
  <2>4. ~disk.integrity /\ Readable /\ ~HasFault(records)
    BY <2>1, <2>2, <2>3 DEF Regular, FaultsKnown, SourceChecks, RepairSteps
  <2>5. legacy.fault = TRUE \/ V1JournalFault
    BY DEF V1Faulted, V1JournalFault
  <2> QED
    BY <2>1, <2>4, <2>5 DEF Latent
<1> QED
  BY <1>1, InheritedHolds, PTL

\* Only the repair of the safety state lifts the latch, and only of an account that came
\* from the v1 release and has done nothing since.
LEMMA LiftsInert ==
    ASSUME Inherited, LegacyNext, disk.integrity, ~disk'.integrity
    PROVE  /\ legacy.fault # None \/ legacy.attempts # None
           /\ posted = {} /\ ~prepared
           /\ \A a \in DOMAIN journal : journal[a].mode = "mock" /\ a = 0
<1>1. CASE /\ Next
           /\ up = "starting" /\ pc = "unload" => Unload \/ Crash
  <2>1. CASE Regular
    BY <1>1, <2>1, StateKept DEF Regular
  <2>2. CASE Parting
    BY <1>1, <2>2 DEF Parting, Unload, Crash, Lose, State!Forget
  <2> QED
    BY <2>1, <2>2 DEF Inherited
<1>2. CASE Repair
  <2>1. RepairState
    BY <1>2 DEF Repair, TryRepair, ProveLineage, RepairJournal, CheckMixed, stateVars
  <2>2. /\ pc = "repairState" /\ ~prepared /\ Readable /\ Alike
        /\ legacy.fault # None \/ legacy.attempts # None
        /\ Inert(records)
    BY <2>1 DEF RepairState, Inherited, Repairing, RepairSteps
  <2>3. posted = {}
    BY <2>2 DEF Inherited, Shown, Used, Inert
  <2> QED
    BY <2>2, <2>3 DEF Alike, Inert
<1>3. CASE CloseConsents \/ PrepareMutation
  BY <1>3 DEF CloseConsents, PrepareMutation, vars, stateVars
<1> QED
  BY <1>1, <1>2, <1>3, LegacySteps

\* The one save that drops the permanent latch happens only to an account that comes
\* from the v1 release and has done nothing since: nothing was prepared, no checkout was
\* so much as begun, let alone posted.
THEOREM LiftsAreInert == LegacySpec => LiftedOnlyInert
<1>1. Inherited /\ [LegacyNext]_legacyVars =>
         [disk.integrity /\ ~disk'.integrity =>
            /\ legacy.fault # None \/ legacy.attempts # None
            /\ posted = {} /\ ~prepared
            /\ \A a \in DOMAIN journal : journal[a].mode = "mock" /\ a = 0]_legacyVars
  BY LiftsInert
<1> QED
  BY <1>1, InheritedHolds, PTL DEF LegacySpec, LiftedOnlyInert

(***************************************************************************)
(* The account that was taken over is as sound as any other: what is sent  *)
(* has left a record no repair is about.                                   *)
(***************************************************************************)
\* Nothing is sent by a manager that looks at the sources, or is dropped.
LEMMA SoundAtRest ==
    ASSUME Files', Flying' = {}, up' # "up",
           pc' \in SourceChecks \cup {"force", "unload", "idle"}
    PROVE  Sound'
<1>1. /\ pc' \notin Sending \cup Quiet \cup Marking \cup Preparing
      /\ pc' \notin {"reply", "rejected", "recoverLatch", "finish", "unsent"}
  BY DEF SourceChecks, RepairSteps, Sending, Quiet, Marking, Preparing
<1>2. Watch' /\ Calm' /\ Focus' /\ Unused' /\ Answered'
  BY <1>1 DEF Watch, Calm, Focus, Unused, Answered
<1>3. Aloft' /\ Room'
  BY DEF Aloft, Room
<1> QED
  BY <1>2, <1>3 DEF Sound

\* A list that knows what was concluded holds on as long as nothing was sent.
LEMMA HoldsUnsent ==
    ASSUME NEW f, DOMAIN f \subseteq Nat, NEW known, NEW later, NEW latched,
           \A a \in known : \E b \in DOMAIN f : a <= b,
           later \ known \subseteq DOMAIN f, Concluded(f) \subseteq later
    PROVE  Holds(f, {}, later, latched)
<1>1. \A a \in DOMAIN f : a <= a
  OBVIOUS
<1> QED
  BY <1>1 DEF Holds

\* The account that an update finds has sent nothing.
LEMMA InheritedSoundInit == LegacyInit => Sound
<1> SUFFICES ASSUME LegacyInit
             PROVE  Sound
  OBVIOUS
<1>1. /\ DOMAIN records = {} /\ ~Readable /\ posted = {} /\ up = "down" /\ pc = "idle"
      /\ settled = Concluded(journal)
  BY DEF LegacyInit, Journal!NoRecords, AtRest, Readable
<1>2. JournalOK
  BY InheritedInit DEF Inherited, Regular, Types, Parting
<1>3. Files
  <2>1. DOMAIN journal \subseteq Nat /\ Concluded(journal) \subseteq DOMAIN journal
    BY <1>2, ListFacts DEF Concluded
  <2>2. Holds(journal, {}, settled, disk.integrity)
    BY <1>1, <2>1, HoldsUnsent
  <2> QED
    BY <1>1, <2>2 DEF Files
<1>4. Flying = {}
  BY <1>1 DEF Flying
<1>5. Watch /\ Calm /\ Focus /\ Unused /\ Answered
  BY <1>1
     DEF Watch, Calm, Quiet, Preparing, Focus, Sending, Marking, Unused, Answered
<1>6. Aloft /\ Room
  BY <1>4 DEF Aloft, Room
<1> QED
  BY <1>3, <1>5, <1>6 DEF Sound

\* A repair changes the files of an account that has sent nothing.
LEMMA RepairsUnsent ==
    ASSUME Types, Control, Latent, Shown, Repairing, Repair
    PROVE  posted = {} \/ (UNCHANGED journalVars /\ UNCHANGED stateVars)
<1>1. /\ legacy \in LegacyFiles
      /\ RepairState \/ UNCHANGED stateVars
      /\ RepairJournal \/ UNCHANGED journalVars
  BY AtRepair DEF Latent
<1>2. CASE RepairState
  <2>1. Readable /\ Inert(records)
    BY <1>2 DEF RepairState, Repairing, RepairSteps
  <2> QED
    BY <2>1 DEF Shown, Used, Inert
<1>3. CASE RepairJournal /\ ~UNCHANGED journalVars
  <2>1. records = Migrated /\ Readable
    BY <1>1, <1>3, AtRepairJournal
  <2>2. ~Used(records)
    BY <1>1, <2>1, MigratedFacts DEF Used
  <2> QED
    BY <2>1, <2>2 DEF Shown
<1> QED
  BY <1>1, <1>2, <1>3

\* So a repair keeps the files as they should be,
LEMMA RepairFiles ==
    ASSUME Types, Control, Latent, Shown, Repairing, Files, Repair, Settle
    PROVE  Files'
<1>1. /\ legacy \in LegacyFiles /\ posted' = posted
      /\ journalLoaded' = journalLoaded /\ corrupt' = corrupt
      /\ pc \in SourceChecks
      /\ RepairJournal \/ UNCHANGED journalVars
  BY AtRepair DEF Latent, environmentVars
<1>2. /\ DOMAIN journal \subseteq Nat /\ DOMAIN records \subseteq Nat
      /\ Concluded(journal) \subseteq settled
      /\ Readable => Concluded(records) \subseteq settled
      /\ settled' = settled \cup Concluded(journal')
      /\ Readable' = Readable
  BY <1>1, ListFacts DEF Types, Files, Holds, Settle, Readable
<1>3. CASE UNCHANGED journalVars /\ UNCHANGED stateVars
  <2>1. settled' = settled
    BY <1>2, <1>3 DEF journalVars
  <2> QED
    BY <1>1, <1>2, <1>3, <2>1 DEF Files, Holds, OpenIn, HasFault, Concluded, journalVars, stateVars
<1>4. CASE posted = {} /\ UNCHANGED journalVars
  <2>1. settled' = settled /\ journal' = journal /\ records' = records
    BY <1>2, <1>4 DEF journalVars
  <2>2. Holds(journal, {}, settled, disk'.integrity)
    BY <1>2, HoldsUnsent DEF Files, Holds
  <2>3. Readable => Holds(records, {}, settled, disk'.integrity)
    BY <1>2, HoldsUnsent DEF Files, Holds
  <2> QED
    BY <1>1, <1>2, <1>4, <2>1, <2>2, <2>3 DEF Files
<1>5. CASE posted = {} /\ ~UNCHANGED journalVars
  <2>1. /\ records = Migrated /\ Readable
        /\ journal' = Repaired /\ records' \in {Migrated, Repaired}
        /\ pc = "repairJournal"
    BY <1>1, <1>5, AtRepairJournal DEF RepairJournal
  <2>2. DOMAIN Repaired = DOMAIN Migrated
    BY <1>1, TakenOverFacts
  <2>3. \A a \in settled : \E b \in DOMAIN Migrated : a <= b
    BY <2>1 DEF Files, Holds
  <2>4. /\ Concluded(Repaired) \subseteq settled' /\ Concluded(Migrated) \subseteq settled'
        /\ settled' \ settled \subseteq DOMAIN Migrated
    BY <1>2, <2>1, <2>2 DEF Concluded
  <2>5. /\ Holds(Repaired, {}, settled', disk'.integrity)
        /\ Holds(Migrated, {}, settled', disk'.integrity)
    BY <1>2, <2>1, <2>2, <2>3, <2>4, HoldsUnsent
  <2> QED
    BY <1>1, <1>5, <2>1, <2>5 DEF Files
<1> QED
  BY <1>3, <1>4, <1>5, RepairsUnsent

\* and all else: nothing is in flight where it works.
LEMMA RepairSound ==
    ASSUME Regular, Latent, Shown, Repairing, Sound, Repair, Settle
    PROVE  Sound'
<1>1. /\ Types /\ Control /\ legacy \in LegacyFiles /\ up = "starting"
      /\ RepairJournal \/ UNCHANGED journalVars
  BY AtRepair DEF Regular, Latent
<1>2. Files'
  BY <1>1, RepairFiles DEF Sound
<1>3. /\ pc' \in SourceChecks \cup {"force", "unload"}
      /\ up' # "up"
  BY <1>1
     DEF Repair, TryRepair, ProveLineage, RepairJournal, RepairState, CheckMixed, Continue,
         RepairStopped, Abort, ForceFault, Goto, ShutDown, KeepFlags, flagVars, restVars,
         SourceChecks, RepairSteps
<1>4. \A b \in DOMAIN records' : records'[b].state \notin Journal!InFlight
  <2>1. CASE records' = records
    BY <1>1, <2>1 DEF Regular, StartUp
  <2>2. CASE records' = Repaired
    BY <1>1, <2>2, TakenOverFacts, StateNames
  <2> QED
    BY <1>1, <2>1, <2>2, AtRepairJournal DEF journalVars
<1>5. Flying' = {}
  BY <1>4 DEF Flying
<1> QED
  BY <1>2, <1>3, <1>5, SoundAtRest

\* A manager that is dropped after its repair was cancelled leaves files that are, too.
LEMMA PartingSound ==
    ASSUME Parting, Sound, Unload \/ Crash, Settle
    PROVE  Sound'
<1>1. /\ JP!ForgetJournal /\ up' = "down" /\ pc' = "idle" /\ posted' = posted /\ disk' = disk
  <2>1. State!Forget => disk' = disk
    BY DEF State!Forget
  <2> QED
    BY <2>1, LoadBridge DEF Unload, Crash, Lose, Goto, Parting
<1>2. journal' = journal /\ ~Readable' /\ DOMAIN records' = {}
  BY <1>1, JP!NoRecordsAreGood, Constants DEF JP!ForgetJournal, Readable
<1>3. settled' = settled
  BY <1>2 DEF Settle, Sound, Files, Holds
<1>4. Files'
  BY <1>1, <1>2, <1>3 DEF Sound, Files
<1>5. Flying' = {}
  BY <1>2 DEF Flying
<1> QED
  BY <1>1, <1>4, <1>5, SoundAtRest

\* Where not all consents are withdrawn one is given.
LEMMA OneConsent ==
    ASSUME NEW g \in [ordering : BOOLEAN, checkout : BOOLEAN], g # NoConsents
    PROVE  g.ordering \in BOOLEAN /\ g.checkout \in BOOLEAN /\ (g.ordering \/ g.checkout)
<1>1. g = [ordering |-> g.ordering, checkout |-> g.checkout]
  OBVIOUS
<1> QED
  BY <1>1 DEF NoConsents

\* The withdrawal of all consents uses up the reload that it asks for.
LEMMA ClosesSound ==
    ASSUME Regular, Sound, CloseConsents, Settle
    PROVE  Sound'
<1> USE DEF stateVars, journalVars, controlVars, flagVars
<1>1. /\ UNCHANGED <<stateVars, journalVars, controlVars, posted>>
      /\ reloading = FALSE /\ reloading' = TRUE /\ gate # NoConsents /\ gate' = NoConsents
      /\ gate \in [ordering : BOOLEAN, checkout : BOOLEAN]
      /\ UNCHANGED <<disk, snap, loaded, storageFault, transientFault>>
      /\ UNCHANGED <<journal, records, journalLoaded, corrupt>>
      /\ UNCHANGED <<up, pc, ctx, enabledFlag, securityFault, manualCheck, challenge>>
  BY DEF CloseConsents, Regular, Types, Typed
<1>2. settled' = settled
  BY <1>1 DEF Settle, Sound, Files, Holds
<1> USE <1>1, <1>2
<1>3. Unsettled' = Unsettled /\ Attention' = Attention /\ NewAttempt' = NewAttempt
  BY DEF Attention, Unsettled, Journal!UnresolvedManualChecks, NewAttempt, Seen
<1>4. Flying' = Flying /\ \A a : Newer(a)' = Newer(a)
  BY <1>3 DEF Flying, Newer
<1>5. MarkerDue' = MarkerDue
  BY DEF MarkerDue
<1>6. Slots \in Int /\ Slots' \in Int /\ Slots' <= Slots
  <2>1. gate.ordering \in BOOLEAN /\ gate.checkout \in BOOLEAN /\ (gate.ordering \/ gate.checkout)
    BY OneConsent
  <2>2. ~gate'.ordering /\ ~gate'.checkout /\ ~reloading /\ reloading'
    BY DEF NoConsents
  <2> QED
    BY SMT, <2>1, <2>2 DEF Slots, Bit
<1>7. Files'
  BY DEF Sound, Files, Holds, HasFault, OpenIn, Concluded, Readable
<1>8. Watch' /\ Calm' /\ Focus'
  BY <1>3
     DEF Sound, Watch, Calm, Focus, IntegrityFault, State!IntegrityFault, Names
<1>9. Unused' /\ Answered'
  BY DEF Sound, Unused, Answered, Readable
<1>10. Aloft'
  BY <1>4 DEF Sound, Aloft
<1>11. Room'
  <2>1. CASE HasFault(records)
    BY <2>1 DEF Room, HasFault
  <2>2. CASE ~HasFault(records)
    <3> SUFFICES ASSUME NEW a \in Flying
                 PROVE  /\ Journal!UnresolvedManualChecks = {}
                        /\ Cardinality(Newer(a)) + Bit(MarkerDue) + Slots' <= 3
      BY <1>4, <1>5 DEF Room, Journal!UnresolvedManualChecks
    <3>1. /\ Journal!UnresolvedManualChecks = {}
          /\ Cardinality(Newer(a)) + Bit(MarkerDue) + Slots <= 3
      BY <2>2 DEF Sound, Room
    <3>2. Cardinality(Newer(a)) \in Nat
      <4>1. IsFiniteSet(DOMAIN records) /\ Newer(a) \subseteq DOMAIN records
        BY ListFacts DEF Newer, Regular, Types
      <4> QED
        BY <4>1, FS_Subset, FS_CardinalityType
    <3>3. Bit(MarkerDue) \in Int
      BY DEF Bit
    <3> QED
      BY <1>6, <3>1, <3>2, <3>3
  <2> QED
    BY <2>1, <2>2
<1> QED
  BY <1>7, <1>8, <1>9, <1>10, <1>11 DEF Sound

\* Whatever happens to the account it stays sound,
LEMMA InheritedSoundKept ==
    ASSUME Undisturbed
    PROVE  Inherited /\ Sound /\ [LegacyNext]_legacyVars => Sound'
<1>1. ASSUME Inherited, Sound, LegacyNext
      PROVE  Sound'
  <2>1. Latent /\ Shown /\ Unlooked /\ Repairing /\ (Regular \/ Parting)
    BY <1>1 DEF Inherited
  <2>2. CASE /\ Next
             /\ up = "starting" /\ pc = "unload" => Unload \/ Crash
    <3>1. Regular => Sound'
      BY <1>1, <2>2, RegularIsSecure, SoundKept
    <3>2. Parting => Sound'
      BY <1>1, <2>2, PartingSound DEF Parting, Next
    <3> QED
      BY <2>1, <3>1, <3>2
  <2>3. CASE Repair /\ Settle
    <3>1. pc # "unload"
      BY <2>3 DEF Repair, TryRepair, ProveLineage, RepairJournal, RepairState, CheckMixed
    <3> QED
      BY <1>1, <2>1, <2>3, <3>1, RepairSound DEF Parting
  <2>4. CASE CloseConsents /\ Tracked /\ Settle
    <3>1. Regular
      BY <2>1, <2>4 DEF CloseConsents, Parting
    <3> QED
      BY <1>1, <2>4, <3>1, ClosesSound
  <2>5. CASE PrepareMutation
    BY <1>1, <2>5, SoundStutter DEF PrepareMutation
  <2> QED
    BY <1>1, <2>2, <2>3, <2>4, <2>5, LegacySteps
<1>2. UNCHANGED legacyVars => UNCHANGED vars
  BY DEF legacyVars
<1> QED
  BY <1>1, <1>2, SoundStutter

\* so that the manager's promises are good for it as well.
LEMMA InheritedSoundHolds ==
    ASSUME Undisturbed
    PROVE  LegacySpec => [](Inherited /\ Sound)
<1>1. LegacyInit => Inherited /\ Sound
  BY InheritedInit, InheritedSoundInit
<1>2. Inherited /\ Sound /\ [LegacyNext]_legacyVars => (Inherited /\ Sound)'
  BY InheritedKept, InheritedSoundKept
<1> QED
  BY <1>1, <1>2, PTL DEF LegacySpec

(***************************************************************************)
(* What the manager promises, of an account that was taken over.           *)
(***************************************************************************)
\* The repair clears no binding: it has found none.
LEMMA LiftsUnbound ==
    ASSUME NEW r, LiftIntegrity(r), disk.manual # None, snap.manual = None
    PROVE  disk' = disk
<1>1. disk # snap
  OBVIOUS
<1> QED
  BY <1>1
     DEF LiftIntegrity, State!ReadFails, State!CancelRead, State!RefuseForever,
         State!FaultForever, State!stateVars

\* When the POST may leave, the authority is current and its dispatch is on file: an
\* account that was taken over is no exception.
THEOREM InheritedPosts == LegacySpec => [](AuthorityCurrentAtPost /\ DispatchRecordedBeforePost)
<1>1. Inherited => AuthorityCurrentAtPost /\ DispatchRecordedBeforePost
  <2>1. CASE Regular
    BY <2>1
       DEF Regular, Authorized, AuthorityCurrentAtPost, State!AuthorityIsCurrent, Control,
           Drafting, Recorded, Drafted, Preparing, DispatchRecordedBeforePost
  <2>2. CASE Parting
    BY <2>2 DEF Parting, AuthorityCurrentAtPost, DispatchRecordedBeforePost
  <2> QED
    BY <2>1, <2>2 DEF Inherited
<1> QED
  BY <1>1, InheritedHolds, PTL

\* Start-up never opens a manager that demands a manual check it cannot name, whatever it
\* has taken over and repaired.
THEOREM InheritedStartupBinds == LegacySpec => StartupBindsOrFaults
<1>1. ASSUME Inherited, LegacyNext, pc = "finish", pc' = "idle"
      PROVE  (ManualCheckRequired /\ ~IntegrityFault => Bound)'
  <2>1. Secure
    BY <1>1, RegularIsSecure DEF Inherited, Parting
  <2>2. Next
    <3>1. ~Repair
      BY <1>1 DEF Repair, TryRepair, ProveLineage, RepairJournal, RepairState, CheckMixed
    <3>2. ~CloseConsents
      BY <1>1 DEF CloseConsents, controlVars
    <3>3. ~PrepareMutation
      BY <1>1 DEF PrepareMutation
    <3> QED
      BY <1>1, <3>1, <3>2, <3>3, LegacySteps
  <2> QED
    BY <1>1, <2>1, <2>2, FinishBinds
<1>2. UNCHANGED legacyVars => UNCHANGED vars
  BY DEF legacyVars
<1>3. Inherited /\ [LegacyNext]_legacyVars =>
         [pc = "finish" /\ pc' = "idle" =>
             (ManualCheckRequired /\ ~IntegrityFault => Bound)']_vars
  BY <1>1, <1>2
<1> QED
  BY <1>3, InheritedHolds, PTL DEF LegacySpec, StartupBindsOrFaults

\* The manual latch goes only when the journal durably holds the very conclusion the latch
\* is bound to; the repair, which lifts the other latch, leaves this one alone.
THEOREM InheritedClears == LegacySpec => ClearedAgainstJournal
<1>1. ASSUME Inherited, LegacyNext, disk.manual # None, disk'.manual = None
      PROVE  LET a == disk.manual.attempt
             IN  /\ a \in DOMAIN journal
                 /\ journal[a].state \in Journal!Confirmed
                 /\ journal[a].resolution = disk.manual.resolution
  <2>1. CASE /\ Next
             /\ up = "starting" /\ pc = "unload" => Unload \/ Crash
    <3>1. ~Parting
      BY <1>1, <2>1 DEF Parting, Unload, Crash, Lose, State!Forget
    <3> QED
      BY <1>1, <2>1, <3>1, RegularIsSecure, ClearsConclude DEF Inherited
  <2>2. CASE Repair
    <3>1. RepairState
      BY <1>1, <2>2 DEF Repair, TryRepair, ProveLineage, RepairJournal, CheckMixed, stateVars
    <3>2. snap.manual = None
      BY <1>1, <3>1 DEF RepairState, Inherited, Repairing, RepairSteps
    <3>3. disk' = disk
      BY <1>1, <3>1, <3>2, LiftsUnbound DEF RepairState
    <3> QED
      BY <1>1, <3>3
  <2>3. CASE CloseConsents \/ PrepareMutation
    BY <1>1, <2>3 DEF CloseConsents, PrepareMutation, vars, stateVars
  <2> QED
    BY <1>1, <2>1, <2>2, <2>3, LegacySteps
<1>2. UNCHANGED legacyVars => UNCHANGED vars
  BY DEF legacyVars
<1>3. Inherited /\ [LegacyNext]_legacyVars =>
         [disk.manual # None /\ disk'.manual = None =>
             LET a == disk.manual.attempt
             IN  /\ a \in DOMAIN journal
                 /\ journal[a].state \in Journal!Confirmed
                 /\ journal[a].resolution = disk.manual.resolution]_vars
  BY <1>1, <1>2
<1> QED
  BY <1>3, InheritedHolds, PTL DEF LegacySpec, ClearedAgainstJournal

\* An account that was taken over accepts no checkout while the outcome of one that it
\* sent is unknown, and that one, or a fault, is on file.
THEOREM InheritedUnsettledBlock ==
    ASSUME Undisturbed
    PROVE  LegacySpec => []UnsettledBlocks
BY SoundBlocks, InheritedSoundHolds, PTL

\* The ledger sees nothing of a take-over, of its repair, or of what a manager that is
\* dropped forgets.
LEMMA InheritedLedgerStep ==
    ASSUME Inherited, Sound, LegacyNext
    PROVE  [Ledger!Next]_(Ledger!vars)
<1>1. Concluded(journal) \subseteq settled
  BY DEF Sound, Files, Holds
<1>2. CASE /\ Next
           /\ up = "starting" /\ pc = "unload" => Unload \/ Crash
  <2>1. CASE Regular
    BY <1>2, <2>1, RegularIsSecure, LedgerStep
  <2>2. CASE Parting
    <3>1. JP!ForgetJournal /\ posted' = posted
      BY <1>2, <2>2, LoadBridge DEF Unload, Crash, Lose, Parting
    <3>2. settled' = settled
      BY <1>1, <1>2, <3>1 DEF JP!ForgetJournal, Next, Settle
    <3> QED
      BY <3>1, <3>2 DEF Ledger!vars
  <2> QED
    BY <2>1, <2>2 DEF Inherited
<1>3. CASE Repair /\ Settle
  <2>1. Types /\ Control /\ Latent /\ Shown /\ Repairing
    BY <1>3
       DEF Inherited, Regular, Parting, Repair, TryRepair, ProveLineage, RepairJournal,
           RepairState, CheckMixed
  <2>2. posted' = posted
    BY <1>3, <2>1, AtRepair DEF environmentVars
  <2>3. CASE posted = {}
    BY <2>2, <2>3 DEF Ledger!vars
  <2>4. CASE UNCHANGED journalVars
    BY <1>1, <1>3, <2>2, <2>4 DEF Settle, journalVars, Ledger!vars
  <2> QED
    BY <1>3, <2>1, <2>3, <2>4, RepairsUnsent
<1>4. CASE CloseConsents /\ Settle
  BY <1>1, <1>4 DEF CloseConsents, Settle, journalVars, Ledger!vars
<1>5. CASE PrepareMutation
  BY <1>5 DEF PrepareMutation, vars, restVars, environmentVars, Ledger!vars
<1> QED
  BY <1>2, <1>3, <1>4, <1>5, LegacySteps

\* The manager of an account that was taken over implements the ledger, too.
THEOREM InheritedImplementsLedger ==
    ASSUME Undisturbed
    PROVE  LegacySpec => ImplementsLedger
<1>1. LegacyInit => Ledger!Init
  BY DEF LegacyInit, AtRest, Ledger!Init
<1>2. UNCHANGED legacyVars => UNCHANGED Ledger!vars
  BY DEF legacyVars, vars, restVars, environmentVars, Ledger!vars
<1>3. Inherited /\ Sound /\ [LegacyNext]_legacyVars => [Ledger!Next]_(Ledger!vars)
  BY <1>2, InheritedLedgerStep
<1> QED
  BY <1>1, <1>3, InheritedSoundHolds, PTL DEF LegacySpec, ImplementsLedger, Ledger!Spec

(***************************************************************************)
(* Its faults outlive a process, too: a repair rewrites the journal while  *)
(* the latch stands for it, and lifts the latch last (Latched).  A manager *)
(* whose repair was cancelled is dropped before it can rest.               *)
(***************************************************************************)
\* Before a repair has looked at them, a manager that has read both files is closed for
\* what is latched on the one; a fault of the journal is not known yet.
Latched ==
    (pc = "sources" /\ ~repairTried) \/ pc \in RepairSteps =>
        (Readable /\ loaded /\ securityFault => disk.integrity)

\* A manager whose repair was cancelled is dropped with what it has not yet read again.
Dropped == pc = "unload" /\ up = "starting"

Enduring == (Outliving \/ Dropped) /\ Latched

\* The account that an update finds has no process,
LEMMA EnduringInit == LegacyInit => Enduring
<1> SUFFICES ASSUME LegacyInit
             PROVE  Enduring
  OBVIOUS
<1>1. /\ up = "down" /\ pc = "idle" /\ ~securityFault
      /\ DOMAIN records = {} /\ ~journalLoaded
  BY DEF LegacyInit, AtRest, Journal!NoRecords
<1>2. Outliving
  BY <1>1
     DEF Outliving, Lone, Echo, OnHand, ReadIn, Marked, Closed, Uncorrupt, Readable,
         Twice, Grave, HasFault, SourceChecks, RepairSteps, Hand, Sending, AdminSteps,
         JournalRead
<1> QED
  BY <1>1, <1>2 DEF Enduring, Latched, RepairSteps

\* and the end of one leaves none.
LEMMA EndsOutliving ==
    ASSUME Unload \/ Crash
    PROVE  Outliving' /\ Latched'
<1>1. JP!ForgetJournal /\ up' = "down" /\ pc' = "idle" /\ ~securityFault'
  BY LoadBridge DEF Unload, Crash, Lose, Goto
<1>2. DOMAIN records' = {} /\ ~journalLoaded'
  BY <1>1, JP!NoRecordsAreGood, Constants DEF JP!ForgetJournal
<1>3. Outliving'
  BY <1>1, <1>2
     DEF Outliving, Lone, Echo, OnHand, ReadIn, Marked, Closed, Uncorrupt, Readable,
         Twice, Grave, HasFault, SourceChecks, RepairSteps, Hand, Sending, AdminSteps,
         JournalRead
<1> QED
  BY <1>1, <1>3 DEF Latched, RepairSteps

\* The journal is read without a fault of its own, or not at all.
LEMMA LatchedKept ==
    ASSUME Types, Control, StartUp, Control', Unlooked, ReadIn, Latched, Next, Untouched,
           up = "starting" /\ pc = "sources" => repairTried \/ Crash
    PROVE  Latched'
<1> SUFFICES ASSUME pc' = "sources", ~repairTried', Readable', loaded', securityFault'
             PROVE  disk'.integrity
  BY NoneRepairs DEF Latched
<1>1. ~Start /\ ~Unload /\ ~Crash
  BY EndOfProcess DEF Start, Goto
<1>2. up = "starting" /\ ~repairTried
  <2>1. up' = "starting"
    BY DEF Control, Placed, StartSteps
  <2> QED
    BY <1>1, <2>1, GoesOn DEF Untouched
<1>3. pc # "sources"
  BY <1>1, <1>2
<1>4. LoadAttempts
  <2>1. ~Readable
    BY <1>2, <1>3 DEF Unlooked
  <2> QED
    BY <1>1, <2>1, JournalCalls, RecordsChange DEF Readable, journalVars
<1>5. PICK r : /\ Journal!LoadJournal(r)
               /\ CASE r = "ok"        -> Continue("sources")
                    [] r \in Raised    -> ForceFault(0, "sources")
                    [] r = "cancelled" -> Abort
  BY <1>4 DEF LoadAttempts
<1>6. Loads(r)
  BY <1>5, LoadEffect DEF Types
<1>7. r = "ok"
  <2>1. ~(ForceFault(0, "sources") \/ Abort)
    BY DEF ForceFault, Abort, Goto
  <2> QED
    BY <1>5, <1>6, <2>1 DEF Loads, Raised
<1>8. securityFault' = securityFault /\ pc = "loadJournal" /\ UNCHANGED stateVars
  BY <1>4, <1>5, <1>7 DEF LoadAttempts, Continue, Goto, KeepFlags, flagVars, Raised
<1> QED
  BY <1>8 DEF ReadIn, stateVars

\* A repair forgets no fault that it does not lift: what it rewrites of the journal stands
\* for the latch, which is the last that it takes away.
LEMMA RepairOutlives ==
    ASSUME Regular, Latent, Repairing, Unlooked, Outliving, Latched, Repair
    PROVE  (Outliving' \/ Dropped') /\ Latched'
<1>1. /\ Types /\ Control /\ legacy \in LegacyFiles
      /\ pc \in SourceChecks /\ up = "starting"
      /\ journalLoaded' = journalLoaded /\ corrupt' = corrupt
      /\ RepairState \/ UNCHANGED stateVars
      /\ RepairJournal \/ UNCHANGED journalVars
      /\ TryRepair \/ repairTried' = repairTried
  BY AtRepair DEF Regular, Latent
<1>2. /\ JournalRead /\ pc \notin Forcing \cup Marking
      /\ ~Resting /\ Readable' = Readable
  BY <1>1 DEF JournalRead, Unread, SourceChecks, RepairSteps, Forcing, Marking, Resting, Readable
<1>3. Readable /\ loaded /\ securityFault => disk.integrity \/ Grave(records)
  BY <1>2 DEF Outliving, Closed, Lasting
<1>4. pc = "repairJournal" /\ Readable /\ loaded /\ securityFault => disk.integrity
  BY DEF Latched, RepairSteps
<1>5. ASSUME Abort
      PROVE  Dropped' /\ Latched'
  BY <1>1, <1>5 DEF Abort, Goto, KeepFlags, flagVars, Dropped, Latched, RepairSteps
<1>6. ASSUME ForceFault(0, "mixed") \/ ForceFault(0, "sources"), UNCHANGED journalVars
      PROVE  Outliving' /\ Latched'
  <2>1. pc' = "force" /\ ctx'.attempt = 0 /\ securityFault' /\ records' = records
        /\ journal' = journal
    BY <1>6 DEF ForceFault, Goto, ShutDown, NoContext, journalVars
  <2>2. Lone' /\ OnHand' /\ Uncorrupt'
    BY <1>1, <2>1
       DEF Lone, OnHand, Hand, Sending, AdminSteps, Uncorrupt, Outliving
  <2>3. Echo'
    BY <1>2, <2>1 DEF Outliving, Echo, Grave, HasFault, Twice
  <2>4. ReadIn' /\ Marked' /\ Closed'
    BY <2>1 DEF ReadIn, SourceChecks, RepairSteps, Marked, Closed, Forcing
  <2> QED
    BY <2>1, <2>2, <2>3, <2>4 DEF Outliving, Latched, RepairSteps
<1>7. ASSUME NEW s \in SourceChecks, Continue(s), UNCHANGED stateVars,
             UNCHANGED journalVars \/ (pc = "repairJournal" /\ Alike')
      PROVE  Outliving'
  <2>1. /\ pc' = s /\ securityFault' = securityFault /\ up' = up
        /\ disk' = disk /\ loaded' = loaded
        /\ State!IntegrityFault' = State!IntegrityFault
    BY <1>7 DEF Continue, Goto, KeepFlags, flagVars, stateVars, State!IntegrityFault
  <2>2. Lone' /\ OnHand' /\ Uncorrupt' /\ Marked'
    BY <1>1, <2>1
       DEF Lone, OnHand, Hand, Sending, AdminSteps, Uncorrupt, Outliving, Marked,
           SourceChecks, RepairSteps
  <2>3. Echo'
    BY <1>2, <1>7 DEF Outliving, Echo, Grave, HasFault, Twice, Alike, journalVars
  <2>4. ReadIn'
    <3>1. pc' \notin {"preparations", "loadJournal"}
      BY <2>1 DEF SourceChecks, RepairSteps
    <3>2. ~securityFault' => ~IntegrityFault' /\ DOMAIN journal' = DOMAIN records'
      BY <1>1, <1>7, <2>1 DEF Outliving, ReadIn, IntegrityFault, Alike, journalVars
    <3> QED
      BY <3>1, <3>2 DEF ReadIn
  <2>5. Closed'
    <3>1. Readable /\ loaded /\ securityFault => disk.integrity \/ Grave(records)'
      BY <1>3, <1>4, <1>7 DEF Grave, HasFault, Twice, journalVars
    <3> QED
      BY <1>2, <2>1, <3>1 DEF Closed, Lasting
  <2> QED
    BY <2>2, <2>3, <2>4, <2>5 DEF Outliving
<1>8. CASE TryRepair
  <2>1. /\ \E s \in {"lineage", "repairJournal", "mixed"} : Continue(s)
        /\ UNCHANGED <<stateVars, journalVars>> /\ pc = "sources" /\ ~repairTried
    BY <1>8 DEF TryRepair
  <2>2. Latched'
    BY <1>2, <2>1 DEF Latched, Continue, Goto, KeepFlags, flagVars, stateVars
  <2> QED
    BY <1>7, <2>1, <2>2 DEF SourceChecks, RepairSteps
<1>9. CASE ProveLineage
  <2>1. /\ UNCHANGED <<stateVars, journalVars>> /\ pc = "lineage"
        /\ \/ ForceFault(0, "mixed") \/ Abort
           \/ \E s \in {"repairState", "mixed"} : Continue(s)
    BY <1>9, Stopped DEF ProveLineage
  <2>2. (\E s \in {"repairState", "mixed"} : Continue(s)) => Latched'
    BY <1>2, <2>1 DEF Latched, Continue, Goto, KeepFlags, flagVars, stateVars, RepairSteps
  <2> QED
    BY <1>5, <1>6, <1>7, <2>1, <2>2 DEF SourceChecks, RepairSteps
<1>10. CASE RepairJournal
  <2>1. /\ UNCHANGED stateVars /\ pc = "repairJournal"
    BY <1>10 DEF RepairJournal
  <2>2. \/ /\ \E s \in SourceChecks : Continue(s)
           /\ UNCHANGED journalVars \/ Alike'
        \/ ForceFault(0, "mixed") /\ UNCHANGED journalVars
        \/ Abort
    BY <1>1, <1>10, AtRepairJournal
  <2>3. (\E s \in SourceChecks : Continue(s)) => Latched'
    BY <1>2, <1>4, <2>1 DEF Latched, Continue, Goto, KeepFlags, flagVars, stateVars
  <2> QED
    BY <1>5, <1>6, <1>7, <2>1, <2>2, <2>3
<1>11. CASE RepairState
  <2>1. /\ UNCHANGED journalVars /\ pc = "repairState"
    BY <1>11 DEF RepairState
  <2>2. Alike
    BY <2>1 DEF Repairing, RepairSteps
  <2>3. \/ Reopened /\ ~storageFault' /\ snap' = disk' /\ ~disk'.integrity
        \/ ForceFault(0, "mixed") \/ Abort
    BY <1>1, <1>11, AtRepairState
  <2>4. ASSUME Reopened, ~storageFault', snap' = disk', ~disk'.integrity
        PROVE  Outliving' /\ Latched'
    <3>1. pc' = "sources" /\ ~securityFault' /\ ~IntegrityFault'
      BY <2>4 DEF Reopened, Goto, IntegrityFault, State!IntegrityFault
    <3>2. /\ records' = records /\ journal' = journal
          /\ journal = records
      BY <2>1, <2>2 DEF journalVars, Alike
    <3>3. Lone' /\ OnHand' /\ Uncorrupt' /\ Echo'
      BY <1>1, <3>1, <3>2
         DEF Lone, OnHand, Hand, Sending, AdminSteps, Uncorrupt, Outliving, Echo, SourceChecks
    <3>4. ReadIn' /\ Marked' /\ Closed'
      BY <3>1, <3>2 DEF ReadIn, Marked, Closed
    <3> QED
      BY <3>1, <3>3, <3>4 DEF Outliving, Latched
  <2> QED
    BY <1>5, <1>6, <2>1, <2>3, <2>4
<1>12. CASE CheckMixed
  <2>1. /\ UNCHANGED <<stateVars, journalVars>> /\ pc = "mixed"
        /\ ForceFault(0, "sources") \/ Continue("sources")
    BY <1>12 DEF CheckMixed
  <2>2. Readable => repairTried'
    BY <1>1, <1>12, <2>1 DEF Unlooked, CheckMixed, Types, Typed
  <2>3. Continue("sources") => Latched'
    BY <1>2, <2>2 DEF Latched, Continue, Goto, RepairSteps
  <2> QED
    BY <1>6, <1>7, <2>1, <2>3 DEF SourceChecks
<1> QED
  BY <1>8, <1>9, <1>10, <1>11, <1>12 DEF Repair

\* So every step keeps it where markers can be written,
LEMMA EnduringKept ==
    ASSUME Undisturbed, MarkersWritten
    PROVE  Inherited /\ Sound /\ Enduring /\ [LegacyNext]_legacyVars => Enduring'
<1>1. ASSUME Inherited, Sound, Enduring, LegacyNext
      PROVE  Enduring'
  <2>1. /\ Latent /\ Shown /\ Unlooked /\ Repairing /\ (Regular \/ Parting)
        /\ Outliving \/ Dropped
        /\ Latched
    BY <1>1 DEF Inherited, Enduring
  <2>2. CASE /\ Next /\ Untouched
             /\ up = "starting" /\ pc = "sources" => repairTried \/ Crash
             /\ up = "starting" /\ pc = "unload" => Unload \/ Crash
    <3>1. CASE Unload \/ Crash
      BY <3>1, EndsOutliving DEF Enduring
    <3>2. CASE ~Unload /\ ~Crash
      <4>1. ~Parting /\ ~Dropped
        BY <2>2, <3>2 DEF Parting, Dropped
      <4>2. /\ Secure /\ Types /\ Control /\ StartUp /\ ReadIn /\ Outliving
        BY <2>1, <4>1, RegularIsSecure DEF Regular, Outliving
      <4>3. Control'
        BY <2>2, <4>2, SecureKept DEF Secure, Before
      <4>4. Latched'
        BY <2>1, <2>2, <4>2, <4>3, LatchedKept
      <4> QED
        BY <1>1, <2>2, <4>2, <4>4, OutlivingKept DEF Enduring
    <3> QED
      BY <3>1, <3>2
  <2>3. CASE Repair /\ Settle
    <3>1. pc # "unload"
      BY <2>3 DEF Repair, TryRepair, ProveLineage, RepairJournal, RepairState, CheckMixed
    <3> QED
      BY <2>1, <2>3, <3>1, RepairOutlives DEF Parting, Dropped, Enduring
  <2>4. CASE (CloseConsents /\ Tracked) \/ PrepareMutation
    <3>1. UNCHANGED <<stateVars, journalVars, controlVars>> /\ repairTried' = repairTried
          /\ up = "up"
      BY <2>4 DEF CloseConsents, Tracked, PrepareMutation, vars
    <3>2. Outliving'
      BY <2>1, <3>1, OutlivingStutter DEF Dropped
    <3>3. Latched'
      BY <2>1, <3>1 DEF Latched, Readable, stateVars, journalVars, controlVars, flagVars
    <3> QED
      BY <3>2, <3>3 DEF Enduring
  <2> QED
    BY <1>1, <2>2, <2>3, <2>4, LegacySteps
<1>2. ASSUME Enduring, UNCHANGED legacyVars
      PROVE  Enduring'
  <2>1. UNCHANGED <<stateVars, journalVars, controlVars>> /\ repairTried' = repairTried
    BY <1>2 DEF legacyVars, vars
  <2>2. Latched'
    BY <1>2, <2>1
       DEF Enduring, Latched, Readable, stateVars, journalVars, controlVars, flagVars
  <2>3. Dropped => Dropped'
    BY <2>1 DEF Dropped, controlVars, flagVars
  <2> QED
    BY <1>2, <2>1, <2>2, <2>3, OutlivingStutter DEF Enduring
<1> QED
  BY <1>1, <1>2

\* and a fault that closes a manager outlives it, whatever the manager took over, and
\* wherever an earlier repair was interrupted.
THEOREM InheritedFaultsOutlive ==
    ASSUME Undisturbed, MarkersWritten
    PROVE  LegacySpec => []FaultOutlivesProcess
<1>1. LegacyInit => Enduring
  BY EnduringInit
<1>2. Inherited /\ Sound /\ Enduring /\ [LegacyNext]_legacyVars => Enduring'
  BY EnduringKept
<1>3. Enduring => FaultOutlivesProcess
  BY OutlivingEndures DEF Enduring, Dropped, FaultOutlivesProcess, Idle
<1>4. LegacySpec => [](Inherited /\ Sound)
  BY InheritedSoundHolds
<1> QED
  BY <1>1, <1>2, <1>3, <1>4, PTL DEF LegacySpec
=============================================================================
