------------------------ MODULE PreparationAuthority ------------------------
(***************************************************************************)
(* PreparationMutationAuthority (ordering_prep_authority.py) with the two  *)
(* callers that drive it: the facade, which brackets every remote basket   *)
(* or quote mutation with a durable record (ordering_live_api.py), and the *)
(* administrator's attestation through the manager (ordering_manager.py).  *)
(*                                                                         *)
(* `prepFile' is the preparation journal on disk, `prepRecords' the list   *)
(* in memory.  An ambiguous mutation is also latched in the safety file of *)
(* OrderingState, so the two files change one after the other.             *)
(*                                                                         *)
(* The authority's lock lets one of its operations run at a time; `pc'     *)
(* names the awaited call that operation is suspended in, or the step of   *)
(* the entry's setup.  The lock is not held while the remote call itself   *)
(* is out: that is `calling', and the flow's lock keeps it to one.  The    *)
(* manager writes the safety file under its own lock beside all of this.   *)
(*                                                                         *)
(* Only the two saves of async_acquire can be cancelled; every other write *)
(* runs under _cancel_resistant, and a cancelled setup ends like a crash.  *)
(* async_reconcile_once has no caller in the program and is left out.      *)
(***************************************************************************)
EXTENDS Integers, FiniteSets

CONSTANTS
    Expectations,       \* a mutation's purpose together with its expectation hash
    None,               \* no binding
    MaxPrepAttempts,    \* MAX_PREP_ATTEMPTS, checked by the load alone
    MaxAttempts,        \* bound on the attempts acquired
    MaxGeneration,      \* operations that bump begin below this generation
    MaxCrashes,         \* bound on the ends of the process
    MaxFailures         \* bound on the storage calls that fail or are cancelled

VARIABLES
    disk, snap, loaded, storageFault, transientFault,   \* OrderingState
    prepFile,       \* the preparation journal's file
    prepRecords,    \* self._records
    prepLoaded,     \* self.loaded
    prepFault,      \* self.integrity_fault
    enabledFlag,    \* the manager's self._enabled
    facade,         \* the runtime has published the live dispatcher
    waiting,        \* the generation of the request queued for the flow's lock, or 0
    pc, ctx,        \* the step in progress and its local variables
    calling,        \* the attempt whose remote call is to be made or is out, or 0
    sent,           \* history: the attempts whose remote call was made
    answered,       \* history: those whose outcome the provider or the administrator gave
    attempts,       \* how many attempt identities were drawn
    crashes,
    failures

stateVars == <<disk, snap, loaded, storageFault, transientFault>>
prepVars == <<prepFile, prepRecords, prepLoaded, prepFault>>
runtimeVars == <<enabledFlag, facade, waiting>>
callVars == <<calling, sent, answered, attempts>>
vars == <<stateVars, prepVars, runtimeVars, pc, ctx, callVars, crashes, failures>>

State == INSTANCE OrderingState WITH
            Attempts <- Nat, MaxRevision <- 0, MaxGeneration <- 0

StartSteps == {"state", "load", "stateAgain", "runtime", "loadAgain", "publish"}
AttestSteps == {"attest", "refresh", "clear"}
Running == pc \notin StartSteps \cup {"down"}

Attested == {"OPERATOR_ATTESTED_SUCCEEDED", "OPERATOR_ATTESTED_FAILED"}
Unknown == "OPERATOR_ATTESTED_UNKNOWN"
Required == "RECONCILIATION_REQUIRED"
ByProvider == {"PROVIDER_SUCCEEDED", "PROVIDER_FAILED"}
Open == {"DISPATCHING", Required, Unknown}

ASSUME PreparationConstants ==
    /\ {MaxPrepAttempts, MaxAttempts, MaxGeneration, MaxCrashes, MaxFailures} \subseteq Nat
    /\ None \notin STRING
    /\ None \notin State!PreparationBindings

\* then: where the latch and the fault of an outcome or a load return to.
NoContext ==
    [attempt |-> 0, state |-> "PREPARED", generation |-> 1, expectation |-> None,
     then |-> "idle"]

Failed == {"fault", "raised", "cancelled"}

\* How a storage call may end: of the safety file, and of the preparation journal.
StateResults ==
    {"ok", "refused"} \cup (IF failures < MaxFailures THEN {"fault", "raised"} ELSE {})
SaveResults == {"ok"} \cup (IF failures < MaxFailures THEN {"fault"} ELSE {})
AcquireResults == SaveResults \cup (IF failures < MaxFailures THEN {"cancelled"} ELSE {})

Counted(r) == failures' = IF r \in Failed THEN failures + 1 ELSE failures

Goto(step, context) == pc' = step /\ ctx' = context
Rest == Goto("idle", NoContext)

(***************************************************************************)
(* What the authority and the manager compute.                             *)
(***************************************************************************)
OpenRecords(recs) == {a \in DOMAIN recs : recs[a].state \in Open}

\* A record is unresolved while its outcome is unknown, and after an attestation for
\* as long as the published binding still names it.
Unresolved(recs) ==
    {a \in DOMAIN recs :
        \/ recs[a].state \in Open
        \/ /\ recs[a].state \in Attested
           /\ snap.preparation # None
           /\ snap.preparation.attempt = a}

IntegrityFault == State!IntegrityFault \/ prepFault

PreparationRecoveryRequired ==
    prepLoaded /\ (Unresolved(prepRecords) # {} \/ snap.preparation # None)

RecoveryRequired == PreparationRecoveryRequired \/ IntegrityFault

Enabled == enabledFlag /\ ~State!SafetyFault

\* _bound_preparation_record returns the record the binding names, or raises.
Bound ==
    /\ snap.preparation # None
    /\ prepLoaded
    /\ snap.preparation.attempt \in Unresolved(prepRecords)
    /\ LET rec == prepRecords[snap.preparation.attempt]
       IN  /\ rec.revision = snap.preparation.revision
           /\ rec.expectation = snap.preparation.expectation

(***************************************************************************)
(* Loading (async_load).                                                   *)
(***************************************************************************)
\* Mutant: a dispatch that was interrupted is taken for a failed one.
NormalAsFailed(rec) ==
    IF rec.state = "DISPATCHING"
    THEN [rec EXCEPT !.state = "PROVIDER_FAILED", !.revision = @ + 1]
    ELSE rec

Normal(rec) ==
    IF rec.state = "DISPATCHING"
    THEN [rec EXCEPT !.state = Required, !.revision = @ + 1]
    ELSE rec

Normalized == [a \in DOMAIN prepFile |-> Normal(prepFile[a])]

Fits(file) == Cardinality(DOMAIN file) <= MaxPrepAttempts

\* The binding names a record of the file that is, or was until attested, unresolved.
Named(file, binding) ==
    binding # None =>
        /\ binding.attempt \in DOMAIN file
        /\ file[binding.attempt].state \in Open \cup Attested
        /\ file[binding.attempt].expectation = binding.expectation

Loadable(file, binding) ==
    /\ Fits(file)
    /\ Cardinality(OpenRecords(file)) <= 1
    /\ Named(file, binding)

\* A failed load says so in memory alone.
LoadFails ==
    /\ prepFault' = TRUE
    /\ prepLoaded' = FALSE

\* The load up to its latch: read, normalise, save what changed, publish.  A record that
\* needs recovery is latched next; `then' is where the setup goes on.
ReadAndNormalize(then) ==
    \/ /\ "fault" \in SaveResults \/ ~Loadable(prepFile, snap.preparation)
       /\ LoadFails
       /\ UNCHANGED <<prepFile, prepRecords>>
       /\ failures' = IF Loadable(prepFile, snap.preparation) THEN failures + 1 ELSE failures
       /\ Goto(then, NoContext)
    \/ /\ Loadable(prepFile, snap.preparation)
       /\ prepFile' = Normalized
       /\ prepRecords' = Normalized
       /\ prepLoaded' = TRUE
       /\ UNCHANGED <<prepFault, failures>>
       /\ LET recovered == Unresolved(Normalized)
          IN  IF recovered = {}
              THEN Goto(then, NoContext)
              ELSE \E a \in recovered :
                     Goto("latch", [NoContext EXCEPT !.attempt = a, !.then = then])

(***************************************************************************)
(* Setup of the entry (__init__.py, ordering_runtime.py).                  *)
(***************************************************************************)
Start ==
    /\ pc = "down"
    /\ enabledFlag' = TRUE
    /\ Goto("state", NoContext)
    /\ UNCHANGED <<stateVars, prepVars, facade, waiting, callVars, crashes, failures>>

LoadState ==
    /\ pc = "state"
    /\ \E r \in StateResults : Counted(r) /\ State!Load(r)
    /\ Goto("load", NoContext)
    /\ UNCHANGED <<prepVars, runtimeVars, callVars, crashes>>

LoadPreparations ==
    /\ pc = "load"
    /\ ReadAndNormalize(IF loaded THEN "runtime" ELSE "stateAgain")
    /\ UNCHANGED <<stateVars, runtimeVars, callVars, crashes>>

\* The manager's own initialisation reads a safety file that could not be read before.
LoadStateAgain ==
    /\ pc = "stateAgain"
    /\ \E r \in StateResults :
         /\ Counted(r)
         /\ State!Load(r)
         /\ enabledFlag' = (enabledFlag /\ r = "ok")
    /\ Goto("runtime", NoContext)
    /\ UNCHANGED <<prepVars, facade, waiting, callVars, crashes>>

MutationReady ==
    /\ Enabled
    /\ prepLoaded
    /\ ~prepFault
    /\ Unresolved(prepRecords) = {}

\* The facade is composed only over clean authority; the runtime then loads the
\* preparation journal once more, or again if it could not be loaded.
ComposeRuntime ==
    /\ pc = "runtime"
    /\ facade' = MutationReady
    /\ IF MutationReady \/ ~prepLoaded THEN Goto("loadAgain", NoContext) ELSE Rest
    /\ UNCHANGED <<stateVars, prepVars, enabledFlag, waiting, callVars, crashes, failures>>

LoadAgain ==
    /\ pc = "loadAgain"
    /\ ReadAndNormalize("publish")
    /\ UNCHANGED <<stateVars, runtimeVars, callVars, crashes>>

\* A runtime whose load failed is disabled, which bumps the generation if it can.
Publish ==
    /\ pc = "publish"
    /\ IF prepLoaded
       THEN UNCHANGED <<stateVars, runtimeVars, failures>>
       ELSE /\ enabledFlag' = FALSE
            /\ facade' = FALSE
            /\ UNCHANGED waiting
            /\ \E r \in StateResults : Counted(r) /\ State!Bump(FALSE, None, r)
    /\ Rest
    /\ UNCHANGED <<prepVars, callVars, crashes>>

(***************************************************************************)
(* A remote mutation (_async_preparation_mutation, async_acquire).         *)
(***************************************************************************)
\* The manager's guard passes a request at the current generation, under its own lock,
\* and the request goes on to queue for the flow's lock.
Admit ==
    /\ Running /\ pc \notin AttestSteps
    /\ waiting = 0
    /\ facade /\ Enabled /\ ~IntegrityFault
    /\ attempts < MaxAttempts
    /\ snap.generation < MaxGeneration
    /\ waiting' = snap.generation
    /\ UNCHANGED <<stateVars, prepVars, enabledFlag, facade, pc, ctx, callVars, crashes,
                   failures>>

Gate == facade /\ prepLoaded /\ ~prepFault /\ Unresolved(prepRecords) = {}

\* The queued request has the lock: it goes on at the generation it was admitted with,
\* or is refused.  The flow looks at the authority and the options again, but not at the
\* manager.
BeginMutation ==
    /\ pc = "idle" /\ calling = 0
    /\ waiting # 0
    /\ waiting' = 0
    /\ \/ /\ Gate
          /\ attempts' = attempts + 1
          /\ \E x \in Expectations :
               Goto("acquire", [NoContext EXCEPT !.attempt = attempts + 1, !.expectation = x,
                                                 !.generation = waiting])
       \/ /\ ~Gate \/ ~enabledFlag
          /\ UNCHANGED <<pc, ctx, attempts>>
    /\ UNCHANGED <<stateVars, prepVars, enabledFlag, facade, calling, sent, answered,
                   crashes, failures>>

WithRecord(state, revision) ==
    [a \in DOMAIN prepRecords \cup {ctx.attempt} |->
        IF a = ctx.attempt
        THEN [state |-> state, revision |-> revision, generation |-> ctx.generation,
              expectation |-> ctx.expectation]
        ELSE prepRecords[a]]

\* A save of async_acquire: memory is published by the caller, after the last one.
AcquireSave(candidate, r) ==
    \/ r = "ok" /\ prepFile' = candidate
    \/ r = "fault" /\ UNCHANGED prepFile
    \/ r = "cancelled" /\ prepFile' \in {prepFile, candidate}

\* Mutant: an intent that was tried before is acquired again.
MayAcquireAgain ==
    /\ prepLoaded
    /\ ~prepFault
    /\ Unresolved(prepRecords) = {}

\* An intent is the generation it was confirmed in and its expectation.
MayAcquire ==
    /\ prepLoaded
    /\ ~prepFault
    /\ Unresolved(prepRecords) = {}
    /\ \A a \in DOMAIN prepRecords :
          \/ prepRecords[a].generation # ctx.generation
          \/ prepRecords[a].expectation # ctx.expectation

Acquire ==
    /\ pc = "acquire"
    /\ IF MayAcquire
       THEN \E r \in AcquireResults :
              /\ Counted(r)
              /\ AcquireSave(WithRecord("PREPARED", 1), r)
              /\ IF r = "ok" THEN Goto("dispatch", ctx) ELSE Rest
       ELSE Rest /\ UNCHANGED <<prepFile, failures>>
    /\ UNCHANGED <<stateVars, prepRecords, prepLoaded, prepFault, runtimeVars, callVars,
                   crashes>>

Dispatch ==
    /\ pc = "dispatch"
    /\ \E r \in AcquireResults :
         /\ Counted(r)
         /\ AcquireSave(WithRecord("DISPATCHING", 2), r)
         /\ IF r = "ok"
            THEN prepRecords' = WithRecord("DISPATCHING", 2) /\ calling' = ctx.attempt
            ELSE UNCHANGED <<prepRecords, calling>>
    /\ Rest
    /\ UNCHANGED <<stateVars, prepLoaded, prepFault, runtimeVars, sent, answered, attempts,
                   crashes>>

\* The sole remote call.
Call ==
    /\ calling # 0
    /\ calling \notin sent
    /\ sent' = sent \cup {calling}
    /\ UNCHANGED <<stateVars, prepVars, runtimeVars, pc, ctx, calling, answered, attempts,
                   crashes, failures>>

\* Mutant: an error of any kind is taken for the provider's rejection.
ReplyAsRejected ==
    /\ calling # 0
    /\ pc = "idle"
    /\ Goto("outcome", [NoContext EXCEPT !.attempt = calling, !.state = "PROVIDER_FAILED"])
    /\ UNCHANGED <<stateVars, prepVars, runtimeVars, callVars, crashes, failures>>

\* It ends in the provider's success or proven rejection, or in anything else, which
\* is ambiguous; a call that never left can only be the latter.
Reply ==
    /\ calling # 0
    /\ pc = "idle"
    /\ \E state \in {Required} \cup (IF calling \in sent THEN ByProvider ELSE {}) :
         /\ Goto("outcome", [NoContext EXCEPT !.attempt = calling, !.state = state])
         /\ answered' = IF state = Required THEN answered ELSE answered \cup {calling}
    /\ UNCHANGED <<stateVars, prepVars, runtimeVars, calling, sent, attempts, crashes,
                   failures>>

(***************************************************************************)
(* Recording its outcome (async_record_outcome, _latch_reconciliation).    *)
(***************************************************************************)
Replaced(a, state) ==
    [prepRecords EXCEPT ![a].state = state, ![a].revision = @ + 1]

\* The operation is over; an outcome ends the mutation.
Return ==
    /\ Goto(ctx.then, NoContext)
    /\ calling' = IF ctx.then = "idle" THEN 0 ELSE calling

RecordOutcome ==
    /\ pc = "outcome"
    /\ prepRecords[ctx.attempt].state = "DISPATCHING"
    /\ \E r \in SaveResults :
         /\ Counted(r)
         /\ IF r = "ok"
            THEN /\ prepFile' = Replaced(ctx.attempt, ctx.state)
                 /\ prepRecords' = Replaced(ctx.attempt, ctx.state)
                 /\ UNCHANGED prepFault
                 /\ IF ctx.state = Required
                    THEN Goto("latch", ctx) /\ UNCHANGED calling
                    ELSE Return
            ELSE /\ prepFault' = TRUE
                 /\ Goto("fault", ctx)
                 /\ UNCHANGED <<prepFile, prepRecords, calling>>
    /\ UNCHANGED <<stateVars, prepLoaded, runtimeVars, sent, answered, attempts, crashes>>

\* Mutant: the binding keeps the revision the record was dispatched with.
LatchRecordAsDispatched(r) ==
    State!LatchPreparationReconciliation(
        ctx.attempt, 2, prepRecords[ctx.attempt].expectation, r)

LatchRecord(r) ==
    LET rec == prepRecords[ctx.attempt]
    IN  State!LatchPreparationReconciliation(
            ctx.attempt, rec.revision, rec.expectation, r)

LatchReconciliation ==
    /\ pc = "latch"
    /\ \E r \in StateResults :
         /\ Counted(r)
         /\ LatchRecord(r)
         /\ IF r = "ok" THEN Return ELSE Goto("fault", ctx) /\ UNCHANGED calling
    /\ UNCHANGED <<prepVars, runtimeVars, sent, answered, attempts, crashes>>

\* What could not be bound becomes a permanent fault, in memory if not on file; a load
\* that comes here has failed.
LatchFault ==
    /\ pc = "fault"
    /\ \E r \in StateResults :
         /\ Counted(r)
         /\ State!LatchFault(r)
         /\ IF ctx.then = "idle"
            THEN prepFault' = (prepFault \/ r # "ok") /\ UNCHANGED prepLoaded
            ELSE LoadFails
    /\ Return
    /\ UNCHANGED <<prepFile, prepRecords, runtimeVars, sent, answered, attempts, crashes>>

(***************************************************************************)
(* The administrator's attestation (async_resolve_preparation_check,       *)
(* async_operator_attest_once).  The challenge it consumes was issued for  *)
(* this very state, revision and generation; it changes nothing else.      *)
(***************************************************************************)
\* Mutant: an attestation is recorded as if the provider had answered.
AttestationAsAnswer ==
    [found_succeeded |-> "PROVIDER_SUCCEEDED",
     found_failed_or_cancelled |-> "PROVIDER_FAILED",
     still_unknown |-> Unknown]

Attestation ==
    [found_succeeded |-> "OPERATOR_ATTESTED_SUCCEEDED",
     found_failed_or_cancelled |-> "OPERATOR_ATTESTED_FAILED",
     still_unknown |-> Unknown]

BeginAttestation ==
    /\ pc = "idle"
    /\ ~IntegrityFault
    /\ PreparationRecoveryRequired
    /\ Bound
    /\ snap.generation < MaxGeneration
    /\ LET a == snap.preparation.attempt
       IN  \E resolution \in DOMAIN Attestation :
             LET context == [NoContext EXCEPT !.attempt = a, !.state = Attestation[resolution]]
             IN  \/ /\ prepRecords[a].state = Required
                    /\ Goto("attest", context)
                    /\ answered' = IF resolution = "still_unknown" THEN answered
                                   ELSE answered \cup {a}
                 \/ /\ prepRecords[a].state \in Attested
                    /\ prepRecords[a].state = Attestation[resolution]
                    /\ Goto("refresh", context)
                    /\ UNCHANGED answered
    /\ UNCHANGED <<stateVars, prepVars, runtimeVars, calling, sent, attempts, crashes,
                   failures>>

\* Mutant: the attestation is kept in memory only.
AttestInMemory ==
    /\ pc = "attest"
    /\ prepRecords' = Replaced(ctx.attempt, ctx.state)
    /\ Goto("refresh", ctx)
    /\ UNCHANGED <<stateVars, prepFile, prepLoaded, prepFault, runtimeVars, callVars,
                   crashes, failures>>

Attest ==
    /\ pc = "attest"
    /\ \E r \in SaveResults :
         /\ Counted(r)
         /\ IF r = "ok"
            THEN /\ prepFile' = Replaced(ctx.attempt, ctx.state)
                 /\ prepRecords' = Replaced(ctx.attempt, ctx.state)
                 /\ Goto("refresh", ctx)
            ELSE UNCHANGED <<prepFile, prepRecords>> /\ Rest
    /\ UNCHANGED <<stateVars, prepLoaded, prepFault, runtimeVars, callVars, crashes>>

\* The binding follows the record to its new revision before it is cleared.
RefreshBinding ==
    /\ pc = "refresh"
    /\ \E r \in StateResults :
         /\ Counted(r)
         /\ LatchRecord(r)
         /\ IF r = "ok" /\ ctx.state # Unknown THEN Goto("clear", ctx) ELSE Rest
    /\ UNCHANGED <<prepVars, runtimeVars, callVars, crashes>>

ClearBinding ==
    /\ pc = "clear"
    /\ \E r \in StateResults :
         /\ Counted(r)
         /\ State!ClearPreparationReconciliation(
                ctx.attempt, prepRecords[ctx.attempt].expectation, r)
    /\ Rest
    /\ UNCHANGED <<prepVars, runtimeVars, callVars, crashes>>

(***************************************************************************)
(* Around it.                                                              *)
(***************************************************************************)
\* An option changed: the manager is disabled under its own lock, which an attestation
\* holds too, and bumps the generation if it can, whatever mutation is in progress.
Disable ==
    /\ Running /\ pc \notin AttestSteps
    /\ enabledFlag
    /\ snap.generation < MaxGeneration
    /\ enabledFlag' = FALSE
    /\ \E r \in StateResults : Counted(r) /\ State!Bump(FALSE, None, r)
    /\ UNCHANGED <<prepVars, facade, waiting, pc, ctx, callVars, crashes>>

\* A final checkout ends with a new generation; it holds the flow's lock.
CheckoutBumps ==
    /\ pc = "idle" /\ calling = 0
    /\ facade /\ Enabled
    /\ snap.generation < MaxGeneration
    /\ State!Bump(FALSE, None, "ok")
    /\ UNCHANGED <<prepVars, runtimeVars, pc, ctx, callVars, crashes, failures>>

End ==
    /\ State!Forget
    /\ prepRecords' = [a \in {} |-> 0]
    /\ prepLoaded' = FALSE
    /\ prepFault' = FALSE
    /\ enabledFlag' = FALSE
    /\ facade' = FALSE
    /\ waiting' = 0
    /\ calling' = 0
    /\ Goto("down", NoContext)
    /\ UNCHANGED <<prepFile, sent, answered, attempts, failures>>

\* The reload after a change of options waits for the flow's lock.
Reload ==
    /\ pc = "idle" /\ calling = 0
    /\ ~enabledFlag
    /\ End
    /\ UNCHANGED crashes

Crash ==
    /\ pc # "down"
    /\ crashes < MaxCrashes
    /\ crashes' = crashes + 1
    /\ End

(***************************************************************************)
(* The specification.                                                      *)
(***************************************************************************)
Init ==
    /\ State!Init
    /\ prepFile = [a \in {} |-> 0]
    /\ prepRecords = [a \in {} |-> 0]
    /\ prepLoaded = FALSE
    /\ prepFault = FALSE
    /\ enabledFlag = FALSE
    /\ facade = FALSE
    /\ waiting = 0
    /\ pc = "down"
    /\ ctx = NoContext
    /\ calling = 0
    /\ sent = {}
    /\ answered = {}
    /\ attempts = 0
    /\ crashes = 0
    /\ failures = 0

Starting ==
    \/ LoadState \/ LoadPreparations \/ LoadStateAgain
    \/ ComposeRuntime \/ LoadAgain \/ Publish

Mutation == Acquire \/ Dispatch \/ Call \/ Reply \/ RecordOutcome

Latching == LatchReconciliation \/ LatchFault

Attesting == Attest \/ RefreshBinding \/ ClearBinding

Progress == Starting \/ Mutation \/ Latching \/ Attesting

Next ==
    \/ Progress
    \/ Start \/ Reload
    \/ Admit \/ BeginMutation \/ BeginAttestation
    \/ Disable \/ CheckoutBumps \/ Crash

Spec == Init /\ [][Next]_vars

\* A call that was started is awaited to its end: storage calls return or fail and the
\* session times every remote call out.  Home Assistant sets the entry up again.
\* Nothing obliges the administrator.
FairSpec == Spec /\ WF_vars(Progress) /\ WF_vars(Start)

(***************************************************************************)
(* Properties.                                                             *)
(***************************************************************************)
Conclusive == Attested \cup ByProvider

\* The outcome is known, and on file.
Concluded ==
    {a \in sent \cap answered : a \in DOMAIN prepFile /\ prepFile[a].state \in Conclusive}

\* No remote mutation is made while the outcome of an earlier one is unknown on file,
\* whatever failed, was cancelled, crashed or was reloaded in between.
Ledger == INSTANCE MutationLedger WITH
             Attempts <- 1..MaxAttempts, concluded <- Concluded

ImplementsLedger == Ledger!Spec

\* A mutation that may have reached the provider is on file from before its call to the
\* end of time, and the same intent is never sent twice.
SentIsOnFileOnce ==
    \A a \in sent :
        /\ a \in DOMAIN prepFile
        /\ prepFile[a].state # "PREPARED"
        /\ \A b \in sent \ {a} :
              \/ prepFile[a].generation # prepFile[b].generation
              \/ prepFile[a].expectation # prepFile[b].expectation

\* The two files can be loaded together whenever the process ends between two writes:
\* one record is open at most, and a latched binding names a record that explains it.
AlwaysLoads ==
    /\ Cardinality(OpenRecords(prepFile)) <= 1
    /\ Named(prepFile, disk.preparation)

\* The latch of a mutation leaves the safety file only after the administrator's
\* conclusion is in the preparation journal.
ClearedOnlyAttested ==
    [][disk.preparation # None /\ disk'.preparation = None =>
          prepFile[disk.preparation.attempt].state \in Attested]_vars

\* A setup that could read the safety file leaves no unresolved mutation that the
\* administrator cannot name: it binds it again, at its present revision, or faults.
RestartRebinds ==
    [][pc # "stateAgain" /\ pc' = "runtime" =>
          (Unresolved(prepRecords) # {} /\ ~IntegrityFault => Bound)']_vars

\* Every remote mutation ends in a durable outcome or in a demand for recovery.
EveryMutationIsAccountedFor ==
    \A a \in 1..MaxAttempts :
        a \in sent ~> pc = "idle" /\ (a \in Concluded \/ RecoveryRequired)

\* The load never finds more records than it admits.
FileFits == Fits(prepFile)
=============================================================================
