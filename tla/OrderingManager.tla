-------------------------- MODULE OrderingManager --------------------------
(***************************************************************************)
(* OrderingManager (ordering_manager.py): the live paid checkout of one    *)
(* account around its sole final POST, the recovery that follows an        *)
(* ambiguous one, and start-up from the two durable files.                 *)
(*                                                                         *)
(* Every public method holds the manager's lock, so at most one is in      *)
(* progress; `pc' names the await it is suspended in ("idle": none) and    *)
(* `ctx' holds its local variables.  An action performs one awaited call   *)
(* and the code up to the next await.  Between two of them the options may *)
(* change (which reloads the entry), a preparation may write the safety    *)
(* file (it does not take the manager's lock, but never runs beside a      *)
(* checkout: both hold the flow's lock) and the process may end.           *)
(*                                                                         *)
(* The awaited storage calls are those of OrderingState and AttemptJournal *)
(* and end as described there.  They may fail except at the steps of       *)
(* FaultFree and be cancelled except at the steps of CancelFree.           *)
(***************************************************************************)
EXTENDS Integers, FiniteSets

CONSTANTS
    Expectations,   \* expectations of preparation mutations
    None,
    MaxRecords,     \* MAX_JOURNAL_RECORDS
    MaxAttempts,    \* bound on the checkouts begun
    MaxGeneration,  \* operator actions begin below this generation
    MaxPreparation, \* preparations latch below this generation
    MaxRevision,    \* an inconclusive review begins below this record revision
    MaxCrashes,     \* the process ends, and options change, only below this many ends
    MaxFailures,    \* bound on the storage calls that fail or are cancelled
    FaultFree,      \* steps whose storage call does not fail
    CancelFree      \* steps at which no cancellation is delivered

VARIABLES
    disk, snap, loaded, storageFault, transientFault,   \* OrderingState
    journal, records, journalLoaded, corrupt,           \* AttemptJournal
    up,             \* the life of the process: "down", "starting", "up"
    enabledFlag,    \* self._enabled
    securityFault,  \* self._security_fault
    manualCheck,    \* self._manual_check
    challenge,      \* self._manual_challenges of the one administrator
    gate,           \* the two consents in the entry's options
    reloading,      \* the options changed and the entry is about to reload
    finalAdapter,   \* setup composed the adapter of the final POST and its status GET
    pc, ctx,        \* the method in progress
    posted,         \* history: attempts whose final POST has left
    settled,        \* history: attempts whose conclusion has been durable
    crashes,        \* how often the process has ended
    failures        \* how many storage calls have failed or been cancelled

State == INSTANCE OrderingState WITH
            Attempts <- Nat, MaxRevision <- 0, MaxGeneration <- 0
Journal == INSTANCE AttemptJournal WITH MaxAttempt <- 0, MaxRevision <- 0

stateVars == <<disk, snap, loaded, storageFault, transientFault>>
journalVars == <<journal, records, journalLoaded, corrupt>>
flagVars == <<up, enabledFlag, securityFault, manualCheck, challenge>>
controlVars == <<flagVars, pc, ctx>>
environmentVars == <<gate, reloading, finalAdapter, posted, crashes>>
restVars == <<environmentVars, failures>>
vars == <<stateVars, journalVars, controlVars, restVars, settled>>

CheckoutSteps ==
    {"create", "quoted", "reserved", "dispatching", "assert", "submit", "reply",
     "terminal", "finalBump", "rejected", "rejectedBump", "ambiguous", "learn",
     "unsent", "localFail", "recover", "recoverLatch", "persistence", "again"}
FaultSteps == {"force", "markAttempt", "markCreate", "markFault", "inspectFault"}
AdminSteps ==
    {"disable", "inspect", "reconcile", "inspectBind", "inspectBump", "inspectClear",
     "review", "reviewBind", "resolveBump", "resolve", "resolveBind", "clear",
     "clearAgain"}
\* The second row is LegacyRepair's, which takes them before the check of the sources.
StartSteps ==
    {"loadState", "loadStateAgain", "preparations", "loadJournal", "sources", "unresolved",
     "lineage", "repairJournal", "repairState", "mixed",
     "startLatch", "finish", "unload"}
Steps == {"idle"} \cup CheckoutSteps \cup FaultSteps \cup AdminSteps \cup StartSteps

\* The room argument of UnsettledBlocks needs four records; the code keeps 200.
ASSUME ManagerConstants ==
    /\ MaxRecords \in Nat /\ MaxRecords >= 4
    /\ {MaxAttempts, MaxGeneration, MaxPreparation, MaxRevision, MaxCrashes, MaxFailures}
         \subseteq Nat
    /\ FaultFree \subseteq Steps
    /\ CancelFree \subseteq Steps
    /\ None \notin STRING \cup State!Resolutions
    /\ None \notin State!ManualBindings \cup State!PreparationBindings

\* Attempt 0 stands for None.
NoContext ==
    [attempt |-> 0, generation |-> 0, revision |-> 0, learned |-> FALSE,
     saved |-> FALSE, succeeded |-> FALSE, resolution |-> None, marker |-> 0,
     forced |-> FALSE, then |-> "idle"]

Raised == {"refused", "fault"}      \* what a caller sees as the store's own fault
Failed == {"fault", "raised", "cancelled"}

\* How the storage call of the current step may end.
Results ==
    {"ok", "refused"} \cup
    (IF failures = MaxFailures THEN {}
     ELSE (IF pc \in FaultFree THEN {} ELSE {"fault", "raised"})
          \cup (IF pc \in CancelFree THEN {} ELSE {"cancelled"}))

Counted(r) == failures' = IF r \in Failed THEN failures + 1 ELSE failures

(***************************************************************************)
(* What the manager's properties compute.                                  *)
(***************************************************************************)
LiveGate == gate.ordering
CheckoutGate == gate.ordering /\ gate.checkout

Enabled ==
    /\ enabledFlag
    /\ ~securityFault
    /\ ~manualCheck
    /\ ~State!SafetyFault
    /\ LiveGate

IntegrityFault == securityFault \/ State!IntegrityFault

ManualCheckRequired == manualCheck \/ snap.manual # None

RecoveryRequired == ManualCheckRequired \/ snap.preparation # None \/ IntegrityFault

Guard(generation) ==
    /\ ~IntegrityFault
    /\ ~ManualCheckRequired
    /\ Enabled
    /\ generation = snap.generation

\* _bound_manual_record returns the record the durable binding names, or raises.
Bound ==
    /\ snap.manual # None
    /\ snap.manual.generation = snap.generation
    /\ snap.manual.attempt \in DOMAIN records
    /\ LET rec == records[snap.manual.attempt]
       IN  /\ rec.revision = snap.manual.revision
           /\ IF snap.manual.resolution = None
              THEN rec.state = Journal!Manual
              ELSE /\ rec.state \in Journal!Confirmed
                   /\ rec.resolution = snap.manual.resolution
                   /\ rec.evidence \in {"admin_review", "provider_response"}

(***************************************************************************)
(* How an action continues the method in progress.                         *)
(***************************************************************************)
KeepFlags == UNCHANGED flagVars

Goto(step, context) == pc' = step /\ ctx' = context

Continue(step) == Goto(step, ctx) /\ KeepFlags

Done == Goto("idle", NoContext) /\ KeepFlags

\* A subroutine returns to the step its caller left in ctx.then.
Return ==
    /\ KeepFlags
    /\ IF ctx.then = "idle"
       THEN Goto("idle", NoContext)
       ELSE Goto(ctx.then, [ctx EXCEPT !.then = "idle"])

\* Setup was cancelled: its manager is dropped.
Abort == Goto("unload", NoContext) /\ KeepFlags

ShutDown ==
    /\ securityFault' = TRUE
    /\ enabledFlag' = FALSE
    /\ challenge' = None
    /\ UNCHANGED <<up, manualCheck>>

\* _async_force_integrity_fault up to its first await.
ForceFault(attempt, then) ==
    /\ ShutDown
    /\ Goto("force", [NoContext EXCEPT !.attempt = attempt, !.forced = TRUE, !.then = then])

\* _async_bump_generation after a failed bump: a journal marker, then the fault.
MarkBumpFault(then) ==
    /\ ShutDown
    /\ Goto("markCreate", [ctx EXCEPT !.then = then])

\* _async_recover_live_ambiguity up to its first await.
Recover(attempt, then) ==
    IF /\ attempt \in DOMAIN records'
       /\ records'[attempt].mode = "live"
       /\ records'[attempt].dispatched
       /\ records'[attempt].state \in Journal!InFlight \cup {Journal!Manual}
    THEN LET inFlight == records'[attempt].state \in Journal!InFlight
             revision == records'[attempt].revision
         IN  /\ manualCheck' = TRUE
             /\ challenge' = None
             /\ UNCHANGED <<up, enabledFlag, securityFault>>
             /\ Goto(IF inFlight THEN "recover" ELSE "recoverLatch",
                     [NoContext EXCEPT
                        !.attempt = attempt, !.then = then, !.saved = ~inFlight,
                        !.revision = IF inFlight THEN revision + 1 ELSE revision])
    ELSE /\ manualCheck' = TRUE
         /\ securityFault' = TRUE
         /\ enabledFlag' = FALSE
         /\ challenge' = None
         /\ UNCHANGED up
         /\ Goto("force", [NoContext EXCEPT
                             !.attempt = attempt, !.forced = TRUE, !.then = then])

ClearChallenge ==
    challenge' = None /\ UNCHANGED <<up, enabledFlag, securityFault, manualCheck>>

SetManualCheck(value) ==
    manualCheck' = value /\ UNCHANGED <<up, enabledFlag, securityFault, challenge>>

(***************************************************************************)
(* async_execute_live_final.                                               *)
(***************************************************************************)
Seen == DOMAIN records \cup DOMAIN journal \cup posted

NewAttempt == 1 + (IF Seen = {} THEN 0 ELSE CHOOSE a \in Seen : \A b \in Seen : b <= a)

BeginCheckout ==
    /\ up = "up" /\ pc = "idle"
    /\ ~reloading /\ finalAdapter
    /\ NewAttempt <= MaxAttempts
    /\ Guard(snap.generation)
    /\ CheckoutGate
    /\ ~RecoveryRequired
    /\ Goto("create", [NoContext EXCEPT
                         !.attempt = NewAttempt, !.generation = snap.generation])
    /\ KeepFlags
    /\ UNCHANGED <<stateVars, journalVars, restVars>>

\* Neither handler has a record yet: both shut the account down.
CreateAttempt ==
    /\ pc = "create"
    /\ \E r \in Results :
         /\ Counted(r)
         /\ Journal!Create(ctx.attempt, "live", r)
         /\ IF r = "ok" THEN Continue("quoted") ELSE ForceFault(0, "idle")
    /\ UNCHANGED <<stateVars, environmentVars>>

\* The checks between the dispatch record and the POST; only a withdrawn checkout
\* consent is handled, any other refusal escapes and leaves the record in flight.
CheckedThen(step) ==
    IF ~Guard(ctx.generation) THEN Done
    ELSE IF ~CheckoutGate THEN Continue("localFail")
    ELSE Continue(step)

Target == [quoted |-> "QUOTED", reserved |-> "RESERVED", dispatching |-> "DISPATCHING"]
Following == [quoted |-> "reserved", reserved |-> "dispatching"]

\* Mutant: the dispatch is not recorded before the POST.
AdvanceUnrecorded ==
    /\ pc \in {"quoted", "reserved", "dispatching"}
    /\ IF pc = "dispatching" THEN CheckedThen("assert") ELSE Continue(Following[pc])
    /\ UNCHANGED <<stateVars, journalVars, restVars>>

AdvanceAttempt ==
    /\ pc \in {"quoted", "reserved", "dispatching"}
    /\ \E r \in Results :
         /\ Counted(r)
         /\ Journal!Transition(ctx.attempt, Target[pc], FALSE, r)
         /\ IF r # "ok" THEN ForceFault(0, "idle")
            ELSE IF pc = "dispatching" THEN CheckedThen("assert")
            ELSE Continue(Following[pc])
    /\ UNCHANGED <<stateVars, environmentVars>>

\* Mutant: only the published generation is compared.
AssertPublished ==
    /\ pc = "assert"
    /\ CheckedThen("submit")
    /\ UNCHANGED <<stateVars, journalVars, restVars>>

AssertAuthority ==
    /\ pc = "assert"
    /\ \E r \in Results :
         /\ Counted(r)
         /\ State!AssertCurrent(ctx.generation, r)
         /\ CASE r = "ok"         -> CheckedThen("submit")
              [] r \in Raised    -> Continue("unsent")
              [] r = "cancelled" -> ForceFault(0, "idle")
    /\ UNCHANGED <<journalVars, environmentVars>>

\* _async_best_effort_uncertain, then the safety fault.
RecordUnsent ==
    /\ pc = "unsent"
    /\ \E r \in Results :
         /\ Counted(r)
         /\ Journal!Transition(ctx.attempt, Journal!Manual, FALSE, r)
         /\ IF r = "cancelled" THEN Done ELSE ForceFault(0, "idle")
    /\ UNCHANGED <<stateVars, environmentVars>>

\* The checkout consent went away before the POST: a local failure, no dispatch.
FailLocally ==
    /\ pc = "localFail"
    /\ \E r \in Results :
         /\ Counted(r)
         /\ Journal!RecordTerminal(ctx.attempt, records[ctx.attempt].revision,
                                   FALSE, FALSE, r)
         /\ Done
    /\ UNCHANGED <<stateVars, environmentVars>>

\* The adapter's call: the POST leaves, or the session refuses or is cancelled first.
Submit ==
    /\ pc = "submit"
    /\ \/ /\ posted' = posted \cup {ctx.attempt}
          /\ Goto("reply", [ctx EXCEPT !.revision = records[ctx.attempt].revision])
          /\ KeepFlags
          /\ UNCHANGED <<stateVars, journalVars, gate, reloading, finalAdapter, crashes,
                         failures>>
       \/ /\ UNCHANGED <<stateVars, journalVars, restVars>>
          /\ Recover(ctx.attempt, "idle")

\* Mutant: an ambiguous answer without a checkout reference just ends the call.
ReplyLosingAmbiguity ==
    /\ pc = "reply"
    /\ Done
    /\ UNCHANGED <<stateVars, journalVars, restVars>>

\* The provider's answer, or the loss of it.  A cancelled wait is handled as an
\* ambiguity without a checkout reference, in a shielded task.
Reply ==
    /\ pc = "reply"
    /\ UNCHANGED <<stateVars, journalVars, restVars>>
    /\ \/ \E s \in BOOLEAN :
            /\ Goto("terminal", [ctx EXCEPT !.succeeded = s, !.learned = TRUE])
            /\ KeepFlags
       \/ Continue("rejected")
       \/ Goto("ambiguous", [ctx EXCEPT !.learned = TRUE]) /\ KeepFlags
       \/ Recover(ctx.attempt, "idle")

RecordAnswer ==
    /\ pc = "terminal"
    /\ \E r \in Results :
         /\ Counted(r)
         /\ Journal!RecordTerminal(ctx.attempt, ctx.revision, ctx.succeeded, TRUE, r)
         /\ CASE r = "ok"         -> Goto("finalBump", ctx) /\ ClearChallenge
              [] r \in Raised    -> /\ Goto("learn", [ctx EXCEPT !.then = "again"])
                                    /\ KeepFlags
              [] r = "cancelled" -> Continue("learn")
    /\ UNCHANGED <<stateVars, environmentVars>>

BumpAfterAnswer ==
    /\ pc = "finalBump"
    /\ \E r \in Results :
         /\ Counted(r)
         /\ State!Bump(FALSE, None, r)
         /\ UNCHANGED journalVars
         /\ CASE r = "ok"         -> Done
              [] r \in Raised    -> MarkBumpFault("persistence")
              [] r = "cancelled" -> Recover(ctx.attempt, "idle")
    /\ UNCHANGED environmentVars

\* The handler of FinalCheckoutRejected: what its own calls raise escapes.
RecordRejection ==
    /\ pc = "rejected"
    /\ \E r \in Results :
         /\ Counted(r)
         /\ Journal!RecordTerminal(ctx.attempt, records[ctx.attempt].revision,
                                   FALSE, FALSE, r)
         /\ IF r = "ok"
            THEN Goto("rejectedBump", ctx) /\ ClearChallenge
            ELSE Done
    /\ UNCHANGED <<stateVars, environmentVars>>

BumpAfterRejection ==
    /\ pc = "rejectedBump"
    /\ \E r \in Results :
         /\ Counted(r)
         /\ State!Bump(FALSE, None, r)
         /\ IF r \in Raised THEN MarkBumpFault("idle") ELSE Done
    /\ UNCHANGED <<journalVars, environmentVars>>

\* The handler of FinalCheckoutAmbiguous keeps a checkout reference first; it
\* catches a JournalFault there, not a cancellation.
LearnFromAmbiguous ==
    /\ pc = "ambiguous"
    /\ \E r \in Results :
         /\ Counted(r)
         /\ Journal!Transition(ctx.attempt, Journal!Manual, TRUE, r)
         /\ IF r = "cancelled" THEN Done ELSE Recover(ctx.attempt, "idle")
    /\ UNCHANGED <<stateVars, environmentVars>>

\* The same after a terminal answer that was not recorded.  The handler of a
\* cancellation also catches another one; that of a fault (then = "again") does not.
LearnFromAnswer ==
    /\ pc = "learn"
    /\ \E r \in Results :
         /\ Counted(r)
         /\ Journal!Transition(ctx.attempt, Journal!Manual, TRUE, r)
         /\ IF r = "cancelled" /\ ctx.then = "again" THEN Done
            ELSE Recover(ctx.attempt, ctx.then)
    /\ UNCHANGED <<stateVars, environmentVars>>

\* The fault handler when the answer is recorded and the generation is not.
PersistenceFault ==
    /\ pc = "persistence"
    /\ UNCHANGED <<stateVars, journalVars, restVars>>
    /\ Recover(ctx.attempt, "again")

(***************************************************************************)
(* _async_recover_live_ambiguity: the journal record and the exact latch.  *)
(***************************************************************************)
RecoverRecord ==
    /\ pc = "recover"
    /\ \E r \in Results :
         /\ Counted(r)
         /\ Journal!Transition(ctx.attempt, Journal!Manual, FALSE, r)
         /\ Goto("recoverLatch", [ctx EXCEPT !.saved = (r = "ok")])
         /\ KeepFlags
    /\ UNCHANGED <<stateVars, environmentVars>>

RecoverLatch ==
    /\ pc = "recoverLatch"
    /\ \E r \in Results :
         /\ Counted(r)
         /\ State!LatchManualCheck(ctx.attempt, ctx.revision, r)
         /\ IF r = "ok" /\ ctx.saved
            THEN IF securityFault \/ snap'.integrity THEN Return ELSE Done
            ELSE ForceFault(ctx.attempt, ctx.then)
    /\ UNCHANGED <<journalVars, environmentVars>>

\* The fault handler latches a second time when the recovery ended in a fault.
ForceAgain ==
    /\ pc = "again"
    /\ ForceFault(0, "idle")
    /\ UNCHANGED <<stateVars, journalVars, restVars>>

(***************************************************************************)
(* _async_force_integrity_fault and _async_write_security_marker.          *)
(***************************************************************************)
\* Without the durable latch, a marker in the journal: on the attempt if it is open.
WriteMarker ==
    IF ctx.attempt = 0 THEN Continue("markCreate")
    ELSE IF ctx.attempt \notin DOMAIN records THEN Return
    ELSE IF records[ctx.attempt].state = Journal!Integrity THEN Return
    ELSE IF records[ctx.attempt].state \in Journal!Terminal THEN Continue("markCreate")
    ELSE Continue("markAttempt")

\* Mutant: the second latch is never attempted.
ForceLatchAlone ==
    /\ pc = "force"
    /\ \E r \in Results :
         /\ Counted(r)
         /\ State!LatchFault(r) /\ Return
    /\ UNCHANGED <<journalVars, environmentVars>>

ForceLatch ==
    /\ pc = "force"
    /\ \E r \in Results :
         /\ Counted(r)
         /\ State!LatchFault(r)
         /\ IF r = "ok" THEN Return ELSE WriteMarker
    /\ UNCHANGED <<journalVars, environmentVars>>

MarkAttempt ==
    /\ pc = "markAttempt"
    /\ \E r \in Results :
         /\ Counted(r)
         /\ Journal!Transition(ctx.attempt, Journal!Integrity, FALSE, r)
    /\ Return
    /\ UNCHANGED <<stateVars, environmentVars>>

\* A cancelled marker is swallowed after a force.  After a failed bump it
\* propagates: into the handler of a cancellation when that bump followed an answer.
MarkerCancelled ==
    CASE ctx.forced                                -> Return
      [] ~ctx.forced /\ ctx.then = "persistence"   -> Recover(ctx.attempt, "idle")
      [] ~ctx.forced /\ ctx.then = "finish"        -> Abort
      [] OTHER                                     -> Done

MarkCreate ==
    /\ pc = "markCreate"
    /\ \E r \in Results :
         /\ Counted(r)
         /\ Journal!Create(NewAttempt, "mock", r)
         /\ CASE r = "ok"         -> /\ Goto("markFault", [ctx EXCEPT !.marker = NewAttempt])
                                    /\ KeepFlags
              [] r \in Raised    -> Return
              [] r = "cancelled" -> MarkerCancelled
    /\ UNCHANGED <<stateVars, environmentVars>>

MarkFault ==
    /\ pc = "markFault"
    /\ \E r \in Results :
         /\ Counted(r)
         /\ Journal!Transition(ctx.marker, Journal!Integrity, FALSE, r)
         /\ IF r = "cancelled" THEN MarkerCancelled ELSE Return
    /\ UNCHANGED <<stateVars, environmentVars>>

(***************************************************************************)
(* Disabling, and the inspection of a checkout by its learned reference.   *)
(***************************************************************************)
\* async_set_enabled(False); asked for once, as a second one only bumps again.
Disable ==
    /\ up = "up" /\ pc = "idle" /\ ~reloading
    /\ enabledFlag
    /\ snap.generation < MaxGeneration
    /\ enabledFlag' = FALSE
    /\ challenge' = None
    /\ UNCHANGED <<up, securityFault, manualCheck>>
    /\ Goto("disable", NoContext)
    /\ UNCHANGED <<stateVars, journalVars, restVars>>

\* A reload closes the manager the same way and then drops it; if it is cancelled
\* before that, the closed manager stays.
BeginReload ==
    /\ up = "up" /\ pc = "idle"
    /\ reloading
    /\ enabledFlag' = FALSE
    /\ challenge' = None
    /\ UNCHANGED <<up, securityFault, manualCheck>>
    /\ reloading' = FALSE
    /\ finalAdapter' = FALSE
    /\ Goto("disable", [NoContext EXCEPT !.then = "unload"])
    /\ UNCHANGED <<stateVars, journalVars, gate, posted, crashes, failures>>

DisableBump ==
    /\ pc = "disable"
    /\ \E r \in Results :
         /\ Counted(r)
         /\ State!Bump(FALSE, None, r)
         /\ CASE r = "ok"         -> Return
              [] r \in Raised    -> MarkBumpFault(ctx.then)
              [] r = "cancelled" -> Done
    /\ UNCHANGED <<journalVars, environmentVars>>

\* async_inspect_live_checkout_status up to its GET.
BeginInspection ==
    /\ up = "up" /\ pc = "idle" /\ ~reloading
    /\ ~IntegrityFault
    /\ ManualCheckRequired
    /\ Bound
    /\ records[snap.manual.attempt].checkout
    /\ finalAdapter
    /\ snap.generation < MaxGeneration
    /\ Goto("inspect", [NoContext EXCEPT
                          !.attempt = snap.manual.attempt,
                          !.revision = snap.manual.revision])
    /\ KeepFlags
    /\ UNCHANGED <<stateVars, journalVars, restVars>>

ProviderResolution(succeeded) ==
    IF succeeded THEN "provider_succeeded" ELSE "provider_failed"

\* A failed, cancelled or inconclusive GET changes nothing.
InspectionAnswer ==
    /\ pc = "inspect"
    /\ \/ Done
       \/ \E s \in BOOLEAN :
            /\ Goto("reconcile", [ctx EXCEPT !.succeeded = s,
                                             !.resolution = ProviderResolution(s)])
            /\ KeepFlags
    /\ UNCHANGED <<stateVars, journalVars, restVars>>

\* Mutant: an answer that could not be written is carried on with.
ReconcileIgnoringFault ==
    /\ pc = "reconcile"
    /\ \E r \in Results :
         /\ Counted(r)
         /\ Journal!RecordReconciliation(ctx.attempt, ctx.revision, ctx.succeeded, r)
         /\ Goto("inspectBind", [ctx EXCEPT !.revision = @ + 1])
         /\ KeepFlags
    /\ UNCHANGED <<stateVars, environmentVars>>

Reconcile ==
    /\ pc = "reconcile"
    /\ \E r \in Results :
         /\ Counted(r)
         /\ Journal!RecordReconciliation(ctx.attempt, ctx.revision, ctx.succeeded, r)
         /\ IF r = "ok"
            THEN Goto("inspectBind", [ctx EXCEPT !.revision = @ + 1]) /\ KeepFlags
            ELSE Done
    /\ UNCHANGED <<stateVars, environmentVars>>

InspectionBind ==
    /\ pc = "inspectBind"
    /\ \E r \in Results :
         /\ Counted(r)
         /\ State!UpdateManualBinding(ctx.attempt, ctx.revision, ctx.resolution, r)
         /\ CASE r = "ok"         -> Goto("inspectBump", ctx) /\ ClearChallenge
              [] r \in Raised    -> ForceFault(ctx.attempt, "idle")
              [] OTHER           -> Done
    /\ UNCHANGED <<journalVars, environmentVars>>

InspectionBump ==
    /\ pc = "inspectBump"
    /\ \E r \in Results :
         /\ Counted(r)
         /\ State!Bump(FALSE, None, r)
         /\ CASE r = "ok"         -> Continue("inspectClear")
              [] r \in Raised    -> MarkBumpFault("inspectFault")
              [] r = "cancelled" -> Done
    /\ UNCHANGED <<journalVars, environmentVars>>

InspectionClear ==
    /\ pc = "inspectClear"
    /\ \E r \in Results :
         /\ Counted(r)
         /\ State!ClearManualCheck(ctx.attempt, ctx.revision, ctx.resolution,
                                   snap.generation, r)
         /\ CASE r = "ok"         -> Goto("idle", NoContext) /\ SetManualCheck(FALSE)
              [] r \in Raised    -> ForceFault(ctx.attempt, "idle")
              [] r = "cancelled" -> Done
    /\ UNCHANGED <<journalVars, environmentVars>>

InspectionFault ==
    /\ pc = "inspectFault"
    /\ ForceFault(ctx.attempt, "idle")
    /\ UNCHANGED <<stateVars, journalVars, restVars>>

(***************************************************************************)
(* The administrator's resolution: prepared under a challenge, then        *)
(* consumed.                                                               *)
(***************************************************************************)
Requests == Journal!AdminResolutions \cup {"still_unknown"}

\* A record already concluded accepts only its own conclusion again.
Accepts(rec, resolution) == rec.state = Journal!Manual \/ rec.resolution = resolution

PrepareResolution ==
    /\ up = "up" /\ pc = "idle" /\ ~reloading
    /\ ~IntegrityFault
    /\ ManualCheckRequired
    /\ Bound
    /\ challenge = None
    /\ \E resolution \in Requests :
         /\ Accepts(records[snap.manual.attempt], resolution)
         /\ challenge' = [attempt |-> snap.manual.attempt,
                          revision |-> snap.manual.revision,
                          resolution |-> resolution,
                          generation |-> snap.generation]
    /\ UNCHANGED <<up, enabledFlag, securityFault, manualCheck, pc, ctx>>
    /\ UNCHANGED <<stateVars, journalVars, restVars>>

\* Expiry, or a use with another request: the challenge is gone.
LoseChallenge ==
    /\ pc = "idle"
    /\ challenge # None
    /\ challenge' = None
    /\ UNCHANGED <<up, enabledFlag, securityFault, manualCheck, pc, ctx>>
    /\ UNCHANGED <<stateVars, journalVars, restVars>>

\* What a challenge was issued for still holds when it comes back.
ChallengeCurrent ==
    /\ challenge.generation = snap.generation
    /\ Bound
    /\ challenge.attempt = snap.manual.attempt
    /\ challenge.revision = snap.manual.revision
    /\ Accepts(records[challenge.attempt], challenge.resolution)

BeginResolution ==
    /\ up = "up" /\ pc = "idle" /\ ~reloading
    /\ ~IntegrityFault
    /\ challenge # None
    /\ ChallengeCurrent
    /\ LET concluded == records[challenge.attempt].state # Journal!Manual
           unknown == challenge.resolution = "still_unknown"
       IN  /\ ~concluded /\ unknown => challenge.revision < MaxRevision
           /\ ~concluded /\ ~unknown => snap.generation < MaxGeneration
           /\ Goto(IF concluded THEN "clearAgain"
                   ELSE IF unknown THEN "review" ELSE "resolveBump",
                   [NoContext EXCEPT !.attempt = challenge.attempt,
                                     !.revision = challenge.revision,
                                     !.resolution = challenge.resolution])
    /\ ClearChallenge
    /\ UNCHANGED <<stateVars, journalVars, restVars>>

\* Finishing a clear that failed earlier.
ClearAgain ==
    /\ pc = "clearAgain"
    /\ \E r \in Results :
         /\ Counted(r)
         /\ State!ClearManualCheck(ctx.attempt, ctx.revision, ctx.resolution,
                                   snap.generation, r)
         /\ Goto("idle", NoContext)
         /\ IF r = "ok" THEN SetManualCheck(FALSE) ELSE KeepFlags
    /\ UNCHANGED <<journalVars, environmentVars>>

Review ==
    /\ pc = "review"
    /\ \E r \in Results :
         /\ Counted(r)
         /\ Journal!ReviewUnknown(ctx.attempt, ctx.revision, r)
         /\ IF r = "ok"
            THEN Goto("reviewBind", [ctx EXCEPT !.revision = @ + 1]) /\ KeepFlags
            ELSE Done
    /\ UNCHANGED <<stateVars, environmentVars>>

ReviewBind ==
    /\ pc = "reviewBind"
    /\ \E r \in Results :
         /\ Counted(r)
         /\ State!UpdateManualBinding(ctx.attempt, ctx.revision, None, r)
         /\ CASE r = "ok"         -> Goto("idle", NoContext) /\ SetManualCheck(TRUE)
              [] r \in Raised    -> ForceFault(ctx.attempt, "idle")
              [] OTHER           -> Done
    /\ UNCHANGED <<journalVars, environmentVars>>

\* The generation advances while the unresolved binding remains.
ResolveBump ==
    /\ pc = "resolveBump"
    /\ \E r \in Results :
         /\ Counted(r)
         /\ State!Bump(FALSE, None, r)
         /\ CASE r = "ok"         -> Continue("resolve")
              [] r \in Raised    -> MarkBumpFault("idle")
              [] r = "cancelled" -> Done
    /\ UNCHANGED <<journalVars, environmentVars>>

ResolveRecord ==
    /\ pc = "resolve"
    /\ \E r \in Results :
         /\ Counted(r)
         /\ Journal!Resolve(ctx.attempt, ctx.revision, ctx.resolution, r)
         /\ CASE r = "ok"         -> /\ Goto("resolveBind", [ctx EXCEPT !.revision = @ + 1])
                                    /\ KeepFlags
              [] r \in Raised    -> Goto("idle", NoContext) /\ SetManualCheck(TRUE)
              [] r = "cancelled" -> Done
    /\ UNCHANGED <<stateVars, environmentVars>>

ResolveBind ==
    /\ pc = "resolveBind"
    /\ \E r \in Results :
         /\ Counted(r)
         /\ State!UpdateManualBinding(ctx.attempt, ctx.revision, ctx.resolution, r)
         /\ CASE r = "ok" /\ Journal!UnresolvedManualChecks = {} -> Continue("clear")
              [] r = "ok" /\ Journal!UnresolvedManualChecks # {} -> ForceFault(ctx.attempt, "idle")
              [] r \in Raised    -> ForceFault(ctx.attempt, "idle")
              [] OTHER           -> Done
    /\ UNCHANGED <<journalVars, environmentVars>>

ResolveClear ==
    /\ pc = "clear"
    /\ \E r \in Results :
         /\ Counted(r)
         /\ State!ClearManualCheck(ctx.attempt, ctx.revision, ctx.resolution,
                                   snap.generation, r)
         /\ Goto("idle", NoContext)
         /\ CASE r = "ok"         -> SetManualCheck(FALSE)
              [] r \in Raised    -> SetManualCheck(TRUE)
              [] r = "cancelled" -> KeepFlags
    /\ UNCHANGED <<journalVars, environmentVars>>

(***************************************************************************)
(* Start-up: async_setup_entry's load of the safety file, then             *)
(* async_initialize.                                                       *)
(***************************************************************************)
BothConsents == [ordering |-> TRUE, checkout |-> TRUE]

Start ==
    /\ up = "down"
    /\ up' = "starting"
    /\ gate' \in {gate, BothConsents}
    /\ enabledFlag' = gate'.ordering
    /\ UNCHANGED <<securityFault, manualCheck, challenge>>
    /\ Goto("loadState", NoContext)
    /\ UNCHANGED <<stateVars, journalVars, reloading, finalAdapter, posted, crashes, failures>>

\* What a preparation authority writes (ordering_prep_authority.py): the latch of an
\* ambiguous mutation, or a permanent fault when that cannot be saved.  It waits
\* for its writes whatever is cancelled.
PreparationLatches(mayFail) ==
    /\ snap.generation < MaxPreparation
    /\ \/ \E x \in Expectations : State!LatchPreparationReconciliation(0, 1, x, "ok")
       \/ \E r \in {"ok"} \cup (IF mayFail THEN {"fault"} ELSE {}) : State!LatchFault(r)

\* The flags as a manager finds them in the loaded safety state.
ReadFlags ==
    /\ securityFault' = State!IntegrityFault'
    /\ manualCheck' = (snap'.manual # None)
    /\ UNCHANGED <<up, enabledFlag, challenge>>

LoadState ==
    /\ pc = "loadState"
    /\ \E r \in Results :
         /\ Counted(r)
         /\ State!Load(r)
         /\ CASE r = "ok"         -> Continue("preparations")
              [] r \in Raised    -> Continue("loadStateAgain")
              [] r = "cancelled" -> Abort
    /\ UNCHANGED <<journalVars, environmentVars>>

LoadStateAgain ==
    /\ pc = "loadStateAgain"
    /\ \E r \in Results :
         /\ Counted(r)
         /\ State!Load(r)
         /\ CASE r = "ok"         -> Goto("loadJournal", NoContext) /\ ReadFlags
              [] r \in Raised    -> /\ Goto("loadJournal", NoContext)
                                    /\ securityFault' = TRUE
                                    /\ enabledFlag' = FALSE
                                    /\ UNCHANGED <<up, manualCheck, challenge>>
              [] r = "cancelled" -> Abort
    /\ UNCHANGED <<journalVars, environmentVars>>

\* The preparation authority is loaded before the manager is made: it may latch a
\* mutation found in flight, or a fault.
LoadPreparations ==
    /\ pc = "preparations"
    /\ \/ UNCHANGED stateVars
       \/ PreparationLatches(pc \notin FaultFree)
    /\ Goto("loadJournal", NoContext)
    /\ ReadFlags
    /\ UNCHANGED <<journalVars, restVars>>

LoadAttempts ==
    /\ pc = "loadJournal"
    /\ \E r \in Results :
         /\ Counted(r)
         /\ Journal!LoadJournal(r)
         /\ CASE r = "ok"         -> Continue("sources")
              [] r \in Raised    -> ForceFault(0, "sources")
              [] r = "cancelled" -> Abort
    /\ UNCHANGED <<stateVars, environmentVars>>

CheckSources ==
    /\ pc = "sources"
    /\ IF Journal!JournalIntegrityFault THEN ForceFault(0, "unresolved") ELSE Continue("unresolved")
    /\ UNCHANGED <<stateVars, journalVars, restVars>>

\* The binding names the one unresolved record exactly.
BindingMatches(a) ==
    /\ snap.manual.attempt = a
    /\ snap.manual.revision = records[a].revision
    /\ snap.manual.resolution = None
    /\ snap.manual.generation = snap.generation

\* No record is unresolved but the latch is set: a conclusion whose clear is pending.
PendingClear == snap.manual.resolution # None /\ Bound

\* Mutant: start-up does not look at what the latch is bound to.
CheckUnresolvedLoosely ==
    /\ pc = "unresolved"
    /\ IF Cardinality(Journal!UnresolvedManualChecks) > 1
       THEN ForceFault(0, "finish") ELSE Continue("finish")
    /\ UNCHANGED <<stateVars, journalVars, restVars>>

CheckUnresolved ==
    /\ pc = "unresolved"
    /\ LET unresolved == Journal!UnresolvedManualChecks
       IN  IF Cardinality(unresolved) > 1 THEN ForceFault(0, "finish")
           ELSE IF securityFault THEN Continue("finish")
           ELSE IF unresolved # {}
           THEN LET a == CHOOSE b \in unresolved : TRUE
                IN  IF snap.manual = None
                    THEN /\ Goto("startLatch", [NoContext EXCEPT
                                  !.attempt = a, !.revision = records[a].revision])
                         /\ SetManualCheck(TRUE)
                    ELSE IF BindingMatches(a)
                    THEN Goto("finish", NoContext) /\ SetManualCheck(TRUE)
                    ELSE ForceFault(a, "finish")
           ELSE IF snap.manual # None /\ ~PendingClear
                THEN ForceFault(snap.manual.attempt, "finish")
                ELSE Continue("finish")
    /\ UNCHANGED <<stateVars, journalVars, restVars>>

StartLatch ==
    /\ pc = "startLatch"
    /\ \E r \in Results :
         /\ Counted(r)
         /\ State!LatchManualCheck(ctx.attempt, ctx.revision, r)
         /\ CASE r = "ok"         -> Goto("finish", NoContext) /\ KeepFlags
              [] r \in Raised    -> ForceFault(ctx.attempt, "finish")
              [] r = "cancelled" -> Abort
    /\ UNCHANGED <<journalVars, environmentVars>>

\* Initialized.  The final adapter is composed only for a manager that is enabled now.
Finish ==
    /\ pc = "finish"
    /\ IF securityFault /\ ~State!IntegrityFault /\ ~ctx.saved
       THEN /\ ShutDown
            /\ Goto("markCreate", [NoContext EXCEPT !.then = "finish", !.saved = TRUE])
            /\ UNCHANGED finalAdapter
       ELSE /\ up' = "up"
            /\ enabledFlag' = (enabledFlag /\ ~securityFault)
            /\ UNCHANGED <<securityFault, manualCheck, challenge>>
            /\ Goto("idle", NoContext)
            /\ finalAdapter' = (Enabled /\ CheckoutGate)
    /\ UNCHANGED <<stateVars, journalVars, gate, reloading, posted, crashes, failures>>

(***************************************************************************)
(* What happens around the manager.                                        *)
(***************************************************************************)
\* The object and everything volatile is gone.
Lose ==
    /\ State!Forget
    /\ Journal!ForgetJournal
    /\ up' = "down"
    /\ enabledFlag' = FALSE
    /\ securityFault' = FALSE
    /\ manualCheck' = FALSE
    /\ challenge' = None
    /\ finalAdapter' = FALSE
    /\ reloading' = FALSE
    /\ Goto("idle", NoContext)
    /\ UNCHANGED gate

Unload ==
    /\ pc = "unload"
    /\ Lose
    /\ crashes' = IF crashes < MaxCrashes THEN crashes + 1 ELSE crashes
    /\ UNCHANGED <<posted, failures>>

\* The process ends; a POST on its way out may or may not have left.
Crash ==
    /\ up # "down"
    /\ crashes < MaxCrashes
    /\ Lose
    /\ crashes' = crashes + 1
    /\ posted' \in {posted} \cup (IF pc = "submit" THEN {posted \cup {ctx.attempt}} ELSE {})
    /\ UNCHANGED failures

\* A running entry applies a withdrawn consent at once; a granted one needs its reload
\* and is granted here with the next start.
Withdraw ==
    /\ up = "up"
    /\ ~reloading
    /\ crashes < MaxCrashes
    /\ gate' \in {[gate EXCEPT !.ordering = FALSE], [gate EXCEPT !.checkout = FALSE]}
    /\ gate' # gate
    /\ reloading' = TRUE
    /\ UNCHANGED <<finalAdapter, posted, crashes, failures>>
    /\ UNCHANGED <<stateVars, journalVars, controlVars>>

\* While no checkout runs, a preparation may end ambiguously or be reconciled.
PreparationWrites ==
    /\ up = "up"
    /\ pc \notin CheckoutSteps
    /\ \/ PreparationLatches(TRUE)
       \/ \E x \in Expectations, r \in {"ok", "fault"} :
            /\ State!ClearPreparationReconciliation(0, x, r)
    /\ UNCHANGED <<journalVars, controlVars, restVars>>

(***************************************************************************)
(* The specification.                                                      *)
(***************************************************************************)
\* No process runs yet, and none has.
AtRest ==
    /\ up = "down"
    /\ enabledFlag = FALSE
    /\ securityFault = FALSE
    /\ manualCheck = FALSE
    /\ challenge = None
    /\ reloading = FALSE
    /\ finalAdapter = FALSE
    /\ pc = "idle"
    /\ ctx = NoContext
    /\ posted = {}
    /\ crashes = 0
    /\ failures = 0

Init ==
    /\ State!Init
    /\ Journal!Init
    /\ AtRest
    /\ gate = BothConsents
    /\ settled = {}

Checkout ==
    \/ CreateAttempt \/ AdvanceAttempt \/ AssertAuthority \/ RecordUnsent \/ FailLocally
    \/ Submit \/ Reply \/ RecordAnswer \/ BumpAfterAnswer
    \/ RecordRejection \/ BumpAfterRejection
    \/ LearnFromAmbiguous \/ LearnFromAnswer \/ PersistenceFault
    \/ RecoverRecord \/ RecoverLatch \/ ForceAgain

Faulting == ForceLatch \/ MarkAttempt \/ MarkCreate \/ MarkFault

Administration ==
    \/ DisableBump
    \/ InspectionAnswer \/ Reconcile \/ InspectionBind \/ InspectionBump
    \/ InspectionClear \/ InspectionFault
    \/ ClearAgain \/ Review \/ ReviewBind
    \/ ResolveBump \/ ResolveRecord \/ ResolveBind \/ ResolveClear

Starting ==
    \/ LoadState \/ LoadStateAgain \/ LoadPreparations \/ LoadAttempts
    \/ CheckSources \/ CheckUnresolved \/ StartLatch
    \/ Finish \/ Unload

\* A method in progress goes on.
Progress == Checkout \/ Faulting \/ Administration \/ Starting

Requested ==
    \/ BeginCheckout \/ Disable \/ BeginInspection
    \/ PrepareResolution \/ LoseChallenge \/ BeginResolution

Environment == Crash \/ Withdraw \/ PreparationWrites

Concluded(file) == {a \in DOMAIN file : file[a].state \in Journal!Confirmed}

Settle == settled' = settled \cup Concluded(journal')

Next ==
    /\ Progress \/ Requested \/ BeginReload \/ Start \/ Environment
    /\ Settle

Spec == Init /\ [][Next]_vars

\* A call that was started is awaited to its end: storage and HTTP calls return, fail
\* or time out.  Home Assistant sets an entry up again, and a reload it has scheduled
\* happens.  Nothing obliges a user, the provider or a crash.
Fairness ==
    /\ WF_vars(Progress /\ Settle)
    /\ WF_vars(Start /\ Settle)
    /\ WF_vars(BeginReload /\ Settle)

FairSpec == Spec /\ Fairness

(***************************************************************************)
(* Properties.                                                             *)
(***************************************************************************)

Idle == up = "up" /\ pc = "idle"

Unsettled == posted \ settled

\* The account is charged at most once per attempt, and no attempt is sent while the
\* outcome of another is unknown: through failed writes, cancellations, restarts,
\* recoveries and resolutions the manager implements the ledger.
Ledger == INSTANCE MutationLedger WITH
             Attempts <- 1..MaxAttempts, sent <- posted, concluded <- settled \cap posted

ImplementsLedger == Ledger!Spec

\* When the POST may leave, the file was re-read after the dispatch was recorded and
\* still holds the generation of the confirmed quote and no block.
AuthorityCurrentAtPost ==
    pc = "submit" =>
        /\ disk.generation = ctx.generation
        /\ disk.manual = None
        /\ disk.preparation = None
        /\ ~disk.integrity

\* The POST leaves only after its dispatch is durable: a crash right then leaves a
\* record that the next start turns into a manual check.
DispatchRecordedBeforePost ==
    pc = "submit" =>
        /\ ctx.attempt \in DOMAIN journal
        /\ journal[ctx.attempt] = records[ctx.attempt]
        /\ journal[ctx.attempt].state = "DISPATCHING"

DurablyFaulted ==
    disk.integrity \/ \E a \in DOMAIN journal : journal[a].state = Journal!Integrity

\* Whatever ended the method that sent it, a manager at rest accepts no checkout while
\* the outcome of an attempt is unknown; the attempt is on file as dispatched, or, if
\* markers of faults have pushed it out of the bounded journal, the fault is.
UnsettledBlocks ==
    /\ \A a \in Unsettled :
         (a \in DOMAIN journal /\ journal[a].dispatched) \/ DurablyFaulted
    /\ Idle /\ Unsettled # {} => ~Enabled

\* The files contradict each other or themselves: two checkouts to be checked, or a latch
\* for one that the journal does not hold.
Contradicted ==
    \/ \E a, b \in DOMAIN journal :
          a # b /\ journal[a].state = Journal!Manual /\ journal[b].state = Journal!Manual
    \/ disk.manual # None /\ disk.manual.attempt \notin DOMAIN journal

\* If the journal can still be written, a fault that closes a manager that had read
\* both files outlives it: whatever befell the latch, the marker is on file, or there is
\* no marker because the next start is bound to find the same fault again.
FaultOutlivesProcess ==
    Idle /\ loaded /\ journalLoaded /\ securityFault => DurablyFaulted \/ Contradicted

\* The manual latch goes only when the journal durably holds the very conclusion the
\* latch is bound to: the two files are written one after the other, in that order.
ClearedAgainstJournal ==
    [][disk.manual # None /\ disk'.manual = None =>
          LET a == disk.manual.attempt
          IN  /\ a \in DOMAIN journal
              /\ journal[a].state \in Journal!Confirmed
              /\ journal[a].resolution = disk.manual.resolution]_vars

\* Start-up never opens a manager that demands a manual check it cannot name.
StartupBindsOrFaults ==
    [][pc = "finish" /\ pc' = "idle" =>
          (ManualCheckRequired /\ ~IntegrityFault => Bound)']_vars

\* Every final POST ends in a manager at rest that knows its outcome or demands
\* recovery, whatever failed on the way.
EveryPostIsAccountedFor ==
    \A a \in 1..MaxAttempts :
        a \in posted ~> Idle /\ (a \in settled \/ RecoveryRequired)
=============================================================================
