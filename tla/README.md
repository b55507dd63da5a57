# Verification of the Glovo integration

This directory specifies the Home Assistant integration in
`src/custom_components/glovo` in TLA+.  Most of it is about ordering: the code
that lets a household prepare a basket and pay for it with exactly one request,
and that must never send a second payment while the fate of the first is
unknown.  The rest is the API session that everything is sent through, the
library of saved packages, and the tracking of orders.  TLC checks the modules
on small instances and TLAPS proves what the others rest on.

Paths below are relative to `src/custom_components/glovo/` unless they begin
with `src/`.

## 1. The system

### Components

| Component | Code | State | Operations | Here |
|---|---|---|---|---|
| Durable safety state | `ordering_state.py` | one file per account: schema, generation, integrity fault, a manual-check binding, a preparation binding; the file of the v1 release; its published copy in memory; two transient fault flags | `async_load`, `async_bump`, `async_latch_fault`, `async_latch_manual_check`, `async_latch_/clear_preparation_reconciliation`, `async_update_manual_binding`, `async_clear_manual_check`, `async_assert_current`; the proof of lineage and the save of the one-time repair | `OrderingState`; `LegacyRepair` for the v1 file and the repair |
| Attempt journal | `ordering_journal.py` | a bounded list of checkout attempts, on file and in memory; the file of the v1 release | create, transition, provider terminal, provider reconciliation, review, resolve, load with recovery; migration and repair of v1 records | `AttemptJournal`; `LegacyRepair` for the v1 records |
| Ordering manager | `ordering_manager.py` | enabled flag, security fault, manual check, challenges; the lock of all its methods | live final checkout, status inspection, manual resolution, preparation resolution, disabling, start-up with the repair of a v1 account, permanent fault with two markers | `OrderingManager`, `LegacyRepair`, `PreparationAuthority` (its last part) |
| Preparation authority | `ordering_prep_authority.py` | a list of basket and quote mutations on file and in memory | load with recovery, acquire (two saves), record the outcome, attest | `PreparationAuthority` |
| Entry setup and runtime | `__init__.py`, `ordering_runtime.py` | which capabilities were composed | setup, second load, publish, shutdown, unload, reload on options | both of the above |
| Live facade | `ordering_live_api.py`, `ordering_live_catalog.py` | basket authority mode and lease, handles, quote per owner | dispatch of each public operation; a durable bracket around every remote mutation | the bracket in `PreparationAuthority`, the library operations in `LiveLibrary`, the rest in `LiveFlow` |
| Basket authority store | `ordering_basket_authority_store.py` | evidence about the remote basket, one file; a transient fault | load, record unknown / absent / present / conflict | `LiveFlow` |
| Live flow | `ordering_live_flow.py` | invalidated generation, the dispatch lock | dispatch, final checkout, initialise, invalidate | `LiveFlow`; its queue also in `PreparationAuthority` |
| API session | `api_session.py` | its copy of the token, a validity flag, the lock | polls, reads with refresh, single-attempt mutations, each in a thread; saving a rotated token; invalidation | `ApiSession` |
| Final adapter | `ordering_live_checkout.py` | none | the POST and the status GET | outcomes in `OrderingManager` |
| Quote client, confirmation | `ordering_live_quote.py` | single-use confirmation | create, install, prepare, consume | `LiveFlow` |
| Selections, account | `ordering_live_selection.py`, `ordering_account.py` | expiring opaque handles | issue, resolve, capture, invalidate | `LiveLibrary`; a lapse is a choice in `LiveFlow` |
| Package library | `ordering_packages.py` | one file: a revision, the account, the packages; its image in memory; whether it may be written | load, save, delete, look up, check an account or a revision; make a recipe, reconcile it | `PackageLibrary`, `LiveLibrary` |
| Remote basket, discovery | `ordering_remote_basket*.py` | none beyond a call | provider calls with schema checks | their outcomes in `LiveFlow` |
| Mock path | `ordering_adapter.py`, `ordering_basket.py`, `ordering_catalog.py`, `ordering_quote.py`, `ordering_models.py` | offline fixtures | | not modelled |
| Surface, panel, contracts | `ordering_surface.py`, `ordering_ha.py`, `ordering_contracts.py`, `frontend/` | registrations | | not modelled |
| Tracking | `glovo.py`, `coordinator.py`, the platforms | the last summary and where it came from; the order remembered and since when it is finished; the pinned ETA | a refresh: list, probes, tracking, fallback, or fixtures | `Tracking` |
| Configuration flow | `config_flow.py` | the entry's token and options | paste a token, reauthenticate | `ApiSession` |

### How they interact

The flow serialises every dispatch of one entry under its lock.  A preparation
goes through the facade, which writes a record with the preparation authority,
makes one remote call and records the outcome; an ambiguous outcome is also
latched in the safety file.  A final checkout goes from the flow to the manager,
which records the attempt in the journal, re-reads the safety file, makes the
one POST, and writes journal and safety file again.  The administrator's
recovery calls go to the manager directly and do not take the flow's lock.
A change of options shuts the runtime down and sets the entry up again, from
the files alone.

Every remote call, of ordering as of tracking, goes through the one API session of
the entry, which sends one request at a time, refreshes the access token when it
has to and has a rotated refresh token saved in the entry before it sends a single
request; what a poll rotates is saved when its reads have ended.  A poll that fails for
want of a valid token starts a reauthentication.

There are therefore four durable files of the ordering core written one after the other without a
transaction (safety file, journal, preparation journal, basket evidence), three locks
(manager, authority, flow, beside the session's) that cover different parts, and Python's `asyncio`,
in which every `await` may be the last: the call may fail, the task may be
cancelled (once, or again inside its own exception handler), or the process
may end.  A save that is cancelled may or may not have reached the file.

### What makes each part correct

- *Safety state*: memory never claims more than the file; generations only grow;
  an integrity fault is never cleared; both bindings always carry the current
  generation, because recovery refuses any other; the manual latch is cleared
  only after a conclusion was bound to it.
- *Journal*: whatever it writes, it can load again; a record that needs
  attention is never dropped by the bound; a concluded live attempt was
  dispatched; nothing is in flight after a restart.
- *Manager*: no POST while an earlier one is unresolved; the dispatch is durable
  and the authority current when the POST leaves; a fault is permanent; every
  POST ends in a known outcome or a demand for recovery; start-up binds what it
  finds or faults.
- *An account of the v1 release*: its fault keeps it closed until the repair has looked
  at it; the repair lifts the fault of an account that has done nothing since, and only
  that; a take-over or a repair interrupted anywhere is completed by a later start.
- *Facade and flow*: a basket is written, quoted or paid for only on what the
  provider last said of it, to this process and under this generation; the
  evidence of that is on file before it is used; a reload is never held up.
- *Preparation*: the same for basket and quote mutations; the same intent is
  never sent twice; the two files can always be loaded together; a restart
  leaves nothing unresolved that the administrator cannot name.
- *Session*: one request at a time, although a cancellation does not stop the thread
  it runs in; no single request, as opposed to the reads of a poll, is sent under a token
  that a restart would not find; a session that can send nothing any more makes its poll
  ask for a new token.
- *Library*: it never writes over a file it has not read; all its packages are of the
  customer it is bound to; what is prepared is exactly what was saved, whatever
  the menu offers and preselects by then.
- *Tracking*: what the entities show is of the source they name and of the last
  refresh; a finished order stays on show for the grace period and no longer; the
  original ETA does not move while its order is shown, unless a refresh that failed had
  pinned another order's.

## 2. The modules

| Module | Models | Uses |
|---|---|---|
| `MutationLedger` | the abstract promise: a request leaves only when every earlier one is concluded | |
| `OrderingState` | `DurableOrderingState` over the v2 file | |
| `AttemptJournal` | `AttemptJournal` over the v2 file | |
| `OrderingManager` | `OrderingManager`, the adapter, setup, runtime | instances of the first three |
| `LegacyRepair` | the v1 files, their take-over by the two loads, the one-time repair at start-up | extends `OrderingManager` |
| `PreparationAuthority` | `PreparationMutationAuthority`, the facade's bracket, the manager's attestation, setup, runtime | instances of `OrderingState`, `MutationLedger` |
| `LiveFlow` | `OrderingLiveFlow`, `LiveOrderingFacade`, `DurableBasketAuthority`, `AuthoritativeConfirmationManager` | |
| `ApiSession` | `SerializedApiSession`, the entry's token, reload, the forms that paste a token, the coordinator's error categories | |
| `PackageLibrary` | `PackageLibrary`, `LibraryImage` | |
| `LiveLibrary` | the library operations of `LiveOrderingFacade`, `LiveSelectionRegistry`, `AccountClient`, recipes | extends `PackageLibrary` |
| `Tracking` | `GlovoDataUpdateCoordinator` over the reads of `glovo.py` | |
| `OrderingStateProofs`, `AttemptJournalProofs`, `PreparationAuthorityProofs`, `LiveFlowProofs` | theorems | extend the modules they are named for |
| `LiveLibraryProofs` | theorems about `PackageLibrary` and `LiveLibrary` | extends `LiveLibrary` |
| `PollProofs` | theorems about `ApiSession` and `Tracking`, the two parts every poll goes through | extends both |
| `OrderingManagerProofs`, `OrderingManagerSafety` | theorems about `OrderingManager`, the second also about `LegacyRepair` | the first extends `OrderingManager` and takes instances of the proofs of the two stores, the second extends the first and `LegacyRepair` |
| `MC...` | what TLC needs | extend the module they check |

### `OrderingState`

`disk` is the file, `snap` the published snapshot `_snapshot`, `loaded`,
`storageFault` and `transientFault` the flags of the object.  Each operation is
an operator `Op(args, r)` where `r` is how its storage call ends: `ok`;
`fault` (nothing written, the store raises its own fault); `raised` (a foreign
exception); `cancelled` (written or not, memory unchanged); `refused` (a guard
raised before the storage call).  `Persist` is `_async_save_candidate`:
memory follows only on `ok`.  Composed modules supply the arguments and `r`;
`Next` of the module itself lets any caller call anything, which is the most
general client and so what the proofs quantify over.

### `AttemptJournal`

`journal` is the file, `records` the list in memory, keyed by attempt in the order
of creation.  `Bounded` is `_bounded`: a journal above `MAX_JOURNAL_RECORDS`
(200) drops its oldest records that are neither in manual check nor integrity
faults.  `Valid` is `_validate_record_invariants` on the fields the properties
tell apart; `Loadable` says whether `async_load` accepts a file after its recovery
(`Recovered`) was applied.  Timestamps, amounts and hashes are left out.

### `OrderingManager`

`pc` names the `await` at which the method in progress is suspended and `ctx`
its local variables; an action makes one awaited call and runs the code up to
the next await, with every handler the outcome selects.  `Done`,
`ForceFault`, `Recover`, `MarkBumpFault` are the ends the handlers share.
`posted` and `settled` are histories: attempts whose POST has left, and attempts
that have been durably concluded at some time (`Settle`, conjoined to every
step).

- A checkout: `BeginCheckout`, `CreateAttempt`, three `AdvanceAttempt`s,
  `AssertAuthority`, `Submit`, `Reply`, then `RecordAnswer`/`BumpAfterAnswer`, or
  `RecordRejection`/`BumpAfterRejection`, or the ambiguity handlers
  `LearnFromAmbiguous`, `LearnFromAnswer`, `RecoverRecord`, `RecoverLatch`,
  `PersistenceFault`, `ForceAgain`.
- A permanent fault: `ForceLatch` in the safety file, then the marker in the
  journal (`MarkAttempt`, or `MarkCreate` and `MarkFault`), each tried whatever
  became of the other.
- The status inspection: `BeginInspection` to `InspectionClear`; the manual
  resolution: `PrepareResolution`, `BeginResolution` to `ResolveClear`.
- Start-up: `Start` to `Finish`, in the order of `async_setup_entry` and
  `async_initialize`.
- Around it: `Crash`, `Withdraw` (a consent is withdrawn), `BeginReload`,
  `PreparationWrites` (the authority writes the safety file without the
  manager's lock).

### `LegacyRepair`

Every step of `OrderingManager`, and those of `_async_repair_inert_legacy_mock_migration`
between the loads of the two files and the check of what they hold.  `legacy` is what
the v1 files hold, which nothing writes again.  `disk` and `journal` now are what
the next load finds, that is, for a v1 file, the image the load makes of it (`FromLegacy`,
`Migrated`); `stateFile` and `journalFile` say whether the v2 file exists yet, and
`TrackState` and `TrackJournal` how the loads, which save before they publish, and a
journal's first record make it exist.  `stateSource` and `journalSource` are the two
`load_source`s.  `TryRepair` is the chain of conditions, `ProveLineage` and `RepairState`
are the two calls of the safety state, `RepairJournal` that of the journal, and
`CheckMixed` is what `async_initialize` does when nothing was repaired.  `lifted` is a
history: a repair has changed a file.

### `PreparationAuthority`

`prepFile` and `prepRecords` are file and memory; `pc` is the awaited call of the
authority's lock holder (or the step of setup), `calling` the attempt whose
remote call is out, which happens outside that lock.  `answered` is a history:
attempts whose outcome the provider or the administrator gave; `Concluded` asks
for that outcome to be on file as well.  `waiting` is the generation of a request
that has passed the manager's guard (`Admit`) and queues for the flow's lock;
`BeginMutation` takes it as the flow does, looking at the authority again but not at
the manager.

### `LiveFlow`

A request is admitted by the manager, queues (`waiting`), is granted the flow's lock
and holds it to its end: `Deny`, `Browse`, `Adopt`, `ReadBasket`, `Mismatch`,
`ReadPayments`, `SetBasket`, `ClearBasket`, `CreateQuote`, `Prepare` and `Consume`
are what it does before its first await, each under the guards of its operation in
`async_dispatch`; the steps after them are shared: `RecordUnknown` and
`Publish` save evidence, `Discover` asks the provider, `AcquireAndCall` enters the
durable bracket, `Succeed`, `Reject` and `Lose` are its ends (`Lose` also stands for a
caller cancelled while the outcome was saved), `Finalize` is
`_async_finalize_basket_unknown_after_dispatch`, and `Conclude` is the check after
the await with which every answer ends.  `authority`, `quotes` and `evidence` are the
facade's authority, its quotes with their confirmations, and the file; one kind
of record, `Proof`, is used for authority and file so that they can be compared.
`basket` is the provider's, changed by the mutations and by `ChangeElsewhere`.
`known` is a history: what the provider last told this process of the basket,
lost with every answer that is lost.

### `ApiSession`

`entry` is the token in the config entry, `saved` the history of the tokens it has
held, `session` the session in use and `authority`, `valid` what each session holds.
A token is a record of the paste it descends from and how often it was rotated.
`call` has the call of each client and of each session's poll: `queue`d for the lock, or in a
stage that names what its thread is doing.  `Acquire` is what a call does when it gets
the lock: nothing if the session has been invalidated; `Refresh` is
`ensure_access_token` inside the thread, which may rotate the token at the provider;
`Authorized`, `Persist` and `Answered` are the stages after it.  `Cancel` marks a
caller that is gone while the thread and the lock go on.  `Setup`, `ChangeOptions`,
`Invalidate` and `Restart` are the entry's life; `Paste` and `Reauthenticate` put a new
token into it, `Replace` being the validation both begin with.  `newest` is the
provider's: which serial of each pasted token it still accepts for a refresh.

### `PackageLibrary` and `LiveLibrary`

`file` and `image` are the library on file and in memory, `writable` the flag a failed
save clears (`SaveCandidate`).  An operation holds the library's lock over its save, which is
shielded from cancellation, so it is one step.  `by` is a history: who saved a package.

`LiveLibrary` adds the requests: `pc` names the read of the provider that a request
awaits under the flow's lock (the customer, then the store, then the menu), `ctx` what it
holds meanwhile, and `shelf` the menus whose handles are live.  `Chosen` gives a
selection its defaults and `Capturable` says whether it is accepted
(`_capture_selection`), `RecipeOf` makes a recipe of it, `Reconciles` is
`reconcile_recipe` and `SelectionOf` the selection issued for a reconciled recipe.
`Bump` and `SwitchAccount` are what may change while a request waits.

### `Tracking`

`step`, `listed` and `estimate` are the provider's orders, which move between any two
requests.  A refresh is `Begin`, `List`, one `Probe` for each row looked at, then
`TrackOrder`, `Fallback` or nothing; or `ReadFixtures`.  Whichever is last runs
`Conclude`, the end of `_async_update_data` without an await: `Publish`, with
`ApplyTerminalCache` (`KeepFinished` is its grace period) and `Pin`; or `FailInterval`, when
the poll interval of an order in progress is malformed and the refresh fails after these
two.  `FailRefresh` is any failure before them, or a cancellation.  `finished` and `moved`
are histories: the time since an order out of the list was first shown finished, and
whether a failed refresh has re-pinned the ETA since the data were published.

### Abstractions

- `OrderingManager` sees preparations only through their writes to the
  safety file, at most while the generation is below `MaxPreparation`, and never
  beside a checkout (both hold the flow's lock).  The authority's own
  in-memory fault and a failed basket store, which only disable more, are not
  in its `Enabled`.
- `LegacyRepair` has one v1 record, attempt 0, which no method of the manager draws.
  `prepared` stands for the preparation file: a checkout needs a record in it, because its
  quote was asked for under one, and any record rules a repair out.  So the
  run leaves out what preparations latch in the safety file (`NoLatches`).  The
  gates start withdrawn, as `async_migrate_entry` leaves them, and any later
  start may find them granted.  An option that is missing, which the code takes for a
  gate not closed, counts as False: the model repairs more often.
- `LiveFlow` sees the preparation authority as an acquire that may refuse and an
  outcome that may be lost, and the manager as a generation, a flag and `halt`, what
  is unresolved.  A precondition that the basket client refuses by itself counts as
  a refused acquire.  The store's freshness check before a mutation is part of
  `Deny`, as it leaves everything as it was.  The content of an UNKNOWN record and
  the store's copy in memory, which nobody reads, are left out.
- One request queues for the flow's lock at a time, beside the one that holds it.
- One administrator and one challenge at a time; the expiry of a challenge is
  `LoseChallenge`, possible at any time.  In `PreparationAuthority` the challenge
  is left out: it is issued for the very state, revision and generation that the
  resolving call checks again.
- In `ApiSession` a timeout is a request that failed; how a cancelled mutation is
  reported (uncertain or cancelled) is left out, as is the delay with which Home
  Assistant writes an entry to its own store.
- In `LiveLibrary` one product stands for all of a package, its quantity is copied, and
  digests identify what they are digests of.  The provider may answer with any
  store and any menu at any time.
- In `Tracking` CANCELED is treated as DELIVERED is, a terminal step is the last one,
  time passes in ticks and saturates at the grace period, the nearest of several
  orders is any of them, and fixture files are consistent dumps.  The polling interval,
  which `_apply_dynamic_interval` adapts, is any; that it may fail is `FailInterval`.
- An unload counts as an end of the process.  A withdrawn consent may be
  granted again with the next start.
- A cancelled setup ends like a crash.
- Of the authority's writes only the two of `async_acquire` can be cancelled, as
  in the code: every other one runs under `_cancel_resistant`.

## 3. The runs

| Run | Question | Bounds |
|---|---|---|
| `state` | `OrderingState` with any caller | 2 attempts, 2 expectations (symmetric), generations to 4, revisions to 2 |
| `journal` | `AttemptJournal` with any caller | room for 2 records, 3 attempts, revisions to 6 |
| `manager` | safety of `OrderingManager` and its refinement of `MutationLedger` | 2 checkouts, 1 end, 2 failures, generations to 4 |
| `legacy` | an account of the v1 release: safety and liveness of the take-over and the repair; liveness of the manager, and faults that survive | 4 pairs of v1 files, 1 checkout, 1 end, 2 failures, journal markers always written |
| `preparation` | safety, refinement and liveness of `PreparationAuthority` | 2 attempts at one intent, 1 crash, 2 failures, generations to 5 |
| `flow` | safety and liveness of `LiveFlow` | 2 owners, 2 contents and 3 versions of a basket, generations to 3 (requests under two), 1 crash, 1 failed or cancelled save |
| `session` | safety and liveness of `ApiSession` | 1 client beside the polls, 2 sessions, 1 paste, 2 rotations, 1 failed save or request |
| `library` | safety of `LiveLibrary` over `PackageLibrary` | 2 references, 2 names, 2 accounts (symmetric), revisions to 3, 1 store, 1 group with 1 option in every menu that can be made of them, 1 live menu, 2 generations, 1 reload, 1 failed save |
| `tracking` | safety and liveness of `Tracking` | 2 orders, a grace period of 2 ticks, 2 probes, 2 estimates, 1 failed request |
| `ambiguity`, `prep_bound`, `token` | three statements of the repository that do not hold | see section 5 |

Why the bounds are enough.  The four pairs of v1 files are a fault in the safety file
without a journal, the same beside an attempt left open, a fault in the journal only, and
no fault; two failures and an end interrupt a take-over, and the repair after it.  Three attempts over room for two make the journal
prune; two checkouts are what a second POST needs; one end of the process lets
every interrupted sequence be found again by start-up, and two failures let
the handler of a first failure meet another.  Three versions let a basket be
adopted, changed from elsewhere and written; two owners let one quote while the
other writes.  Generation bounds only stop new
operations from beginning: those already begun finish.  In `state`, `MaxGeneration`
4 lets a latch, its re-stamp by a bump, its update and its clear follow each other.
Two sessions let calls of the one before a reload end beside those of the one after it,
and two rotations let a token be lost and be needed again.  A group that may be missing,
optional or demanded, with its only option preselected or not, makes every difference
between a saved and a present menu that the code tells apart; the theorems of
section 4 hold for any groups and menus.  Two orders are what a refresh can confuse, and
two ticks what a clock that is set anew has to be told from one that is not.

What the properties say:

- `OrderingState`: `MemoryNeverAhead`, `BindingsAreCurrent`,
  `SameGenerationSameBlocks` (what the re-read before the POST relies on),
  `LatchesHold`, `ManualClearedOnlyConcluded`.
- `AttemptJournal`: `EveryImageLoads`, `ProtectedIsDurable`,
  `ConcludedWasDispatched`, `RestartLeavesNothingInFlight`.
- `OrderingManager`: `ImplementsLedger` (refinement), `AuthorityCurrentAtPost`,
  `DispatchRecordedBeforePost`, `UnsettledBlocks`, `ClearedAgainstJournal`,
  `StartupBindsOrFaults`; in the `legacy` run, beside a repair, `FaultOutlivesProcess` and
  `EveryPostIsAccountedFor`.
- `LegacyRepair`: `LiftedOnlyInert`, `V1FaultBlocks`, `RepairCompletes`.
- `PreparationAuthority`: `ImplementsLedger`, `SentIsOnFileOnce`,
  `AlwaysLoads`, `ClearedOnlyAttested`,
  `RestartRebinds`, `EveryMutationIsAccountedFor`.
- `LiveFlow`: `MutationHasFreshProof`, `FinalQuoteIsOfKnownBasket`,
  `EvidencePrecedesAuthority`, `DisabledIsInvalidated`.
- `ApiSession`: `OneOnTheWire`, `WireTokenWasSaved`, `DeadSessionAsks`.
- `LiveLibrary`: `WritableMatchesFile`, `PackagesOfOneAccount`, `PreparedOrdersRecipe`.
- `Tracking`: `TrustIsFresh`, `GraceIsBounded`, `OriginalEtaStays`, `TerminalOrderLeaves`.

The types are proved with the invariants (section 4).

Deadlock is checked for the two stores only.  The others may rest: a closed account
until somebody acts, and nobody has to; the library, the session and the orders when
their bounds are used up.

`FaultFree` and `CancelFree` name steps at which the `manager` and `legacy` runs
inject no failure, because there the code is known to escape its own handlers
(section 5): the journal write of a rejection, and, for a second cancellation
only, the first writes of the ambiguity handlers.  `legacy` further assumes that
the markers can be written, and that a fault a preparation raises during start-up is
saved: if neither store can be written, only memory knows of a fault.

### Fairness

`OrderingManager.FairSpec` is weak fairness of the method in progress, of
setup and of a scheduled reload: `asyncio` resumes a suspended task when its
call ends, the storage calls of Home Assistant return or fail, the session
times every HTTP call out, and Home Assistant sets an entry up again.
`LegacyRepair.FairLegacySpec` is the same, with the repair among the steps of setup;
`RepairCompletes` speaks of a start after the last failure and the last end, since a
failure of the repair's own save is a fault for good.
`PreparationAuthority.FairSpec` is the same for the authority, and
`LiveFlow.FairSpec` for the holder of the flow's lock, the request that queues for it and
the invalidation: an `asyncio.Lock` is handed on in order, and a disabled manager
admits nothing that could get ahead.  `ApiSession.FairSpec` is weak fairness of the
calls (their threads have a timeout), of the poll (the coordinator's timer) and of a reload
that has begun; `Tracking.FairTracking` of the refresh, of time, and of the provider taking a
finished order off its list in the end.  Nothing obliges
the administrator, so recovery itself is never promised, only the demand for it.

## 4. The proofs

`OrderingStateProofs` and `AttemptJournalProofs` prove the properties of the two
stores for every set of attempts, every bound and every sequence of calls; the two
`OrderingManager...` modules the safety of the manager over them, for any number of
checkouts, failures and restarts, and that of an account with any v1 files;
`PreparationAuthorityProofs` that of the preparation
mutations, for any number of them; `LiveFlowProofs` that of the facade's evidence, for
any contents of the basket; `LiveLibraryProofs` that of the library, for every
set of packages, customers, option groups and menus; `PollProofs` that of the session,
for any number of callers and sessions, and of order tracking, for any list of orders.

*Safety state.*  The inductive invariant is `TypeOK`, `MemoryNeverAhead`,
`BindingsAreCurrent` and `SameGenerationSameBlocks` together: that a bump of a
stale memory does not lower the durable generation needs the first two, that a
clear leaves the bindings current needs the last.  Every operation is
shown to be one kind of step, a `Persist` of a candidate with a greater
generation, and the invariant is proved once for that kind.
`LatchesHold` and `ManualClearedOnlyConcluded` follow from the same lemmas.

*Journal.*  `EveryImageLoads` is not inductive as it stands, because memory could
hold something the file does not.  The invariant is that both lists are good
(every record `Valid`) and within the bound, and `ProtectedIsDurable`.  Every
operation but the load is a write of one list that `KeepsPromises` (good, in
bound, no protected record lost or set back), so each operation has a single
lemma and the invariant one proof.  `Bounded` uses a choice of the oldest record;
`OldestExists` and `BoundedMakesRoom` show it makes room without touching a
protected record.

*Manager: its calls.*  The first part of `OrderingManagerProofs` shows that the invariants of the two stores
hold under the manager (each of its calls is one of theirs, whatever the manager does in
between), and states for each call the effect its callers rely on: a finished transition
publishes the record it names, a failed one leaves memory alone, a bump gives the manual
binding the new generation in file and memory, no call of a running manager clears a fault.
The rest uses these lemmas and open no store.

*Manager: the POST.*  The invariant `Before` of `OrderingManagerProofs` is `Types`, `Control`,
`Recorded` and `Authorized`.  The fault handlers are entered from every part of the
manager and go back by `ctx.then`, so no await can be reasoned about without knowing on
whose behalf it is pending: that is `Control`.  `Recorded` says that the draft of a checkout is
the youngest record, the same in memory as on file, from its creation to the POST.
`DispatchRecordedBeforePost` needs that because the journal is bounded: a list of
`MaxRecords` protected records would drop the new draft, and what saves it is that a
manager that accepts a checkout has none in manual check.  `Authorized` says that the
read of the safety file made before the POST still describes the file when the POST
leaves, as preparations write it only while no checkout is in progress.

*Manager: failures and restarts.*  `Secure`, in the last part of `OrderingManagerProofs`, adds `FaultsKnown` (a fault
on a file that was read is known in memory), `StartUp` (what each step of the start has
established for the later ones) and `Conclusive` (a conclusion in memory is on file with
the same resolution, as long as there is no fault).  `StartupBindsOrFaults` and
`ClearedAgainstJournal` are about one step each, but that a clear meets a concluded record
takes the whole path of the recovery from which it is reached.

*Manager: the ledger.*  That the manager implements `MutationLedger` says that a POST leaves
only when every attempt sent before is durably concluded.  `UnsettledBlocks` is that for a
manager at rest, and not inductive.  `Sound`, in the first part of `OrderingManagerSafety`, follows an attempt
from its POST on: both copies of the journal keep showing it open (`Files`), a manager
without a fault has it in its durable latch or is at it (`Watch`), nothing else needs
attention meanwhile (`Focus`), and nothing does when the next POST is prepared (`Calm`).
The remaining parts, `Aloft` and `Room`, are for one corner: when the record of a sent
attempt could not be marked, it stays in flight, where the bound of the journal does not protect
it, and the markers of later faults could push it out.  `Room` counts them.  A manager that was
shut down can add three at most before the process ends (the one in progress, and one for each
reload, which takes a consent that is withdrawn and cannot come back), and a start that
finds the record in flight protects it first.  That is why the journal must have room for
four records.

*Manager: faults.*  That a manager at rest with a fault leaves it on file is
`FaultsOutliveProcesses`.  The handler of a fault tries the latch and then the marker, so
nothing about it is a matter of one step: what has to be shown is that the marker always has
a record to be written on, or that the fault needs none.  `Outliving` has seven parts.
`Closed`: a closed manager that has read both files is between the latch and its marker, or
the fault is `Lasting`.  `Marked`: a marker about to be written has its record.  That rests
on `OnHand` (a method keeps the record it is about in the journal) and `Lone` (an open manager has
at most one checkout to be checked, so the draft of a marker finds a record that the
bound may drop); on `Sound`, since a fault of a checkout must not find the record
concluded; and on `ReadIn`, what start-up has read when it finds a contradiction.  `Echo`
carries what memory shows over to the file; `Uncorrupt` says that a journal that was loaded is whole.

`Lasting` is the latch, or a journal that shuts down every manager that reads it
(`Grave`: a marker, or two checkouts to be checked), or a latch that names no record
of the journal (`Astray`).  The last two are why the property speaks of files that
contradict each other (`Contradicted`): there the handler may write no marker at all.
A journal full of checkouts to be checked has no room for a marker; a start that misses
the record of a latch has none to mark.  The latter can happen when a conclusion waits for its clear while
markers cut short by an end of the process leave drafts that push the concluded record out.  In either case the
latch in the safety file may fail as well, and then nothing new is written, but every
start finds the same contradiction and stays closed.

*Manager: the v1 account.*  `LegacyRepair` is the manager with five more steps at the start and
one save that drops the permanent latch, which no step of the manager does.  The last part of
`OrderingManagerSafety` shows of the manager's steps that they keep each invariant beside the
repair because they keep it without, and treats only the repair anew.  `Inherited` is
`(Regular \/ Parting) /\ Latent /\ Shown /\ Unlooked /\ Repairing`:
`Regular` is `Secure`, what the manager keeps.
`Parting` is the exception: a cancelled repair may have lifted on file what memory still
holds, so that memory and file disagree until the manager is dropped, which is its only next step.
`Latent`: until a repair has been at work, a fault of the v1 safety file is on file, and one of the v1
journal is on file and in every journal that was read.  With `FaultsKnown` this is `V1FaultBlocks`.
`Shown`: a posted checkout has left a record that no v1 account has; `Unlooked` and
`Repairing`: a repair looks at a journal that was read, with the same records in memory as
on file, once for each start.  `LiftedOnlyInert` takes all three: what the repair finds in memory is
all there is on file, and nothing there means nothing was posted.  The theorems hold for any
bound on the writes of preparations; that the run leaves these out (`NoLatches`) is for
`RepairCompletes` and the number of states.

With `Inherited` in hand every safety theorem of the manager also holds of an account that was taken over.
`InheritedPosts`, `InheritedStartupBinds` and `InheritedClears` need no more: a manager that
is about to be dropped takes none of the steps they are about, and the repair lifts
the permanent latch, never the binding.  For `InheritedUnsettledBlock` and
`InheritedImplementsLedger`, `Sound` is shown beside the repair: a repair changes a file only while
nothing was posted, since what was posted has left a record that stops it, and the records the
v1 release concluded are in `settled` from the start.  `InheritedFaultsOutlive` needs a third
invariant, `Enduring`: `Outliving`, except for a manager whose repair was cancelled (`Dropped`), and
`Latched`, that a manager which has read both files and is closed before its repair is closed for a latch
on file.  So the latch stands for the journal while the repair rewrites it, and is
lifted last, when the journal has no fault left.

*Library.*  `LibraryInvariant`: neither of `WritableMatchesFile` and
`PackagesOfOneAccount` is inductive, because a load takes the packages from the file;
with the types and the same demand on the file (`OneAccount(file.image)`) they are.  A
save and a delete are a `SaveCandidate` of an image that two lemmas (`SavedCandidate`,
`DeletedCandidate`) show to be of one account, and `SavePreserves` does the rest for both.

*Facade over the library.*  `LiveImplementsLibrary` is a refinement: each step of
`LiveLibrary` is one of `PackageLibrary` or leaves it alone, where `CapturedIsRecipe` shows
that what a menu lets be captured is a recipe.  So the theorems of the library hold
under the facade, word for word what the `library` run checks.  `PreparationOrdersRecipe`
needs two things: that a request in flight keeps a package of the customer it asked for
and the store of its recipe (`LiveInv`), and `ReconciledRestores`, that a selection
which mentions every group of a menu is accepted and gets back the recipe whatever the
menu's defaults are.

*Ledger.*  `OneOutcomeIsOpen`, a lemma about an instance of the ledger: at most one
mutation is of unknown outcome, for any number of attempts.  With the refinement of the
manager it becomes `OnePaymentIsOpen`: at most one payment of an account is ever of
unknown outcome.  With that of the authority it becomes `OneMutationIsOpen`, the same for
the mutations of basket and quote.

*Preparation.*  The invariant is `Typed`, `Stored` (the safety file and its copy in
memory), `Located` (what each suspended operation may rely on) and `Filed` (what the two
files say together).  Memory is not a copy of the preparation file: a save that failed or was
cancelled may have left a record there that memory never shows.  What holds is that what
matters in memory is on file, that at most one record of the file is open, that no intent has two
records, and that a binding in the safety file names a record that is open or attested.
`SentIsOnFileOnce`, `AlwaysLoads` and `ClearedOnlyAttested` follow; so does `RestartRebinds`,
because a start that finds an open record has nothing else to bind.  That the bracket
implements `MutationLedger` needs the one open record: a mutation is sent only when
the record of every earlier one is concluded on file.  Unlike for the manager, no failure and
no cancellation has to be excluded.

*Flow.*  What the facade holds as proof is what the provider last said, and is on file, and
its quotes are of that version (`Held`).  To keep that over an await the same must be
known of what a request has captured before it (`Captured`), of the steps that forget before they ask
(`Unheld`) and of the two that install what was answered (`Pending`).
`EvidencePrecedesAuthority`, `MutationHasFreshProof` and `FinalQuoteIsOfKnownBasket` read it off at the
step they are about.

*Session.*  A call that is past the queue is at the head of its session's queue, whether its task
was cancelled or not and whatever was set up since; two calls at the head of one queue are one.
That a cancelled task keeps its place until its thread has ended is what this rests on.
Every token a session or a call holds, and every one it sends as a single request, has
been in the entry; a refreshed token is neither before it is saved.  The reads of a poll
are not spoken of.

*Tracking.*  Three invariants for three properties: a refresh that has begun is trusted for nothing
until it publishes (`Trusted`), the grace period counts from the time the remembered order was
first shown finished (`Dated`), and the pinned ETA is the one on show until a
failed refresh moves it (`Pinned`).
`PublishKeeps` has all of them over the one step that publishes, `FailIntervalKeeps` over the
one that fails behind the pin; every other step of a
refresh leaves the display alone.

Assumptions: those the modules state of their constants, `StateConstants` to
`TrackingConstants` (bounds are naturals, `None` and `Nothing` are none of
the values they stand in for, the default marker is no option, menus are menus, an order has
one row, and the journal of the manager has room for four records; the code's has 200).
`UnsettledAttemptsBlock`, `ManagerImplementsLedger` and `OnePaymentIsOpen` also assume, as do
`InheritedUnsettledBlock` and `InheritedImplementsLedger`,
`Undisturbed`: the journal write of a rejection does not
fail, and neither it nor the two writes that keep a checkout reference are cancelled.
The runs `manager` and `legacy` choose `FaultFree` and `CancelFree` so; without it the
theorems are false, which `ambiguity` shows (section 5).  `FaultsOutliveProcesses` and `InheritedFaultsOutlive` assume
`Undisturbed` and `MarkersWritten`: the three writes of a marker neither fail nor are cancelled
(when latch and marker both fail, memory alone knows of the fault), and the latch of a fault
that a preparation raises during start-up is saved.  The run `legacy` satisfies both.
Everything else may fail, be
cancelled or be cut short by an end of the process, at every await and any number of times.

Only model-checked is liveness, which the proof system does not reach: `EveryPostIsAccountedFor`,
`RepairCompletes`, `EveryMutationIsAccountedFor`, `DisabledIsInvalidated`,
`DeadSessionAsks`, `TerminalOrderLeaves`.

## 5. What does not hold

Each of the first three has a run of its own that produces the trace.

1. `ambiguity`.  `src/README.md:181` promises that timeout, cancellation and
   persistence uncertainty block every later checkout.  If the ambiguous answer
   names a checkout, the handler first writes that to the journal and catches only
   `JournalFault` (`ordering_manager.py:808`); a cancellation in that write leaves
   the handler before the recovery.  The manager stays enabled and accepts
   another checkout until the next restart.
2. `prep_bound`.  A load of the preparation journal asserts at most
   `MAX_PREP_ATTEMPTS` (100) records (`ordering_prep_authority.py:393`); acquire
   appends without a bound (`:506`) and nothing prunes.  The load after the 101st
   mutation fails, and so does every later one.
3. `token`.  `src/README.md:14` and `:229` offer the options to change the refresh token.
   The token is stored in the entry, but a change of the token alone reloads nothing
   (`__init__.py:322`) and the running session keeps the token it holds itself
   (`api_session.py:368`): its next rotation is written over the pasted one.

Four more disagreements are visible in the models, and are stated here without a run:

4. The comment at `ordering_state.py:630` promises that a same-resolution recovery call
   finishes an interrupted clear.  After a status GET concluded the record, no
   recovery call accepts the resolutions `provider_succeeded` and `provider_failed`
   (`ordering_manager.py:1298`) and the inspection wants a record in manual check
   (compare `Accepts`, `PendingClear` and `BeginInspection`).
5. `src/README.md:185` and `ordering_runtime.py:40` promise one explicit status GET for a
   learned checkout after a restart.  Setup composes the adapter only when mutations
   are ready (`__init__.py:222`), and a manual check makes them not ready (`Finish`):
   the status action answers "unavailable".
6. The comment at `ordering_manager.py:700` requires the exact current generation before a
   preparatory mutation.  The comparison is made before the request queues for the
   flow's lock (`ordering_live_flow.py:280`), where only the authority and the options
   are looked at again (`Admit` and `BeginMutation` of `PreparationAuthority`): a request
   that waited while the manager was disabled, or behind a final checkout, mutates
   under an ended generation.  Only its answer is dropped (`:343`).
7. Three comments (`ordering_live_api.py:371`, `:1109`, `ordering_live_flow.py:197`)
   reserve the clearing of a transient evidence fault to the explicit adoption.
   Browsing saves UNKNOWN as well (`ordering_live_api.py:1041`), and any save that
   succeeds clears the fault.  The authority stays unknown, so no mutation follows.

Two siblings of the first are excluded from the passing runs by `FaultFree` and
`CancelFree` and are no runs of their own: the handler of a provider rejection
lets a journal fault or a cancellation of its write escape (the record stays in
flight), and so does the learning write in the fault handler.

Further behaviour that no property is about:

- Ordering.  A crash between the resolution in the journal and the update of its binding
  makes the next start a permanent integrity fault; a transient failure of the
  final clear of a status inspection forces one too, as does a cancellation before the
  dispatch; a preparation attested as still unknown has no way out (the manager's
  validation does not take that state); records in flight are not protected from
  the journal's bound; a first read of the safety file that fails, followed by one
  that succeeds, leaves an attested mutation unnamed until the next restart; when the
  last save of UNKNOWN fails in a shutdown, the update listener raises before the
  reload, and the entry stays up with ordering closed until the next change.
- The v1 account.  A fault of the v1 safety file, which its take-over turns into the
  permanent latch, is lifted again by the first start with all consents withdrawn that finds
  no journal, or both files already in v2.  So is a latch that v2 itself has set, if the
  account brought a v1 file and has done nothing since (a journal that could not be read
  at one start is enough for one).  A save of the repair that fails leaves a marker
  in the journal that no later repair accepts.
- Session.  A refresh token that the provider rejects with status 400 makes a poll fail
  with category "http" and never asks for another, although the configuration flow takes
  400 for an invalid token (`config_flow.py:54-67`); a poll that meets the invalidated
  session of an ordinary reload asks for a reauthentication that nothing needs; a token
  rotated for a call that was cancelled, or whose next request failed, is lost
  (`api_session.py:252`, `:346`), and the one on file is then the spent one; a late call of
  the session before a reload may save its token over one pasted since.
- Library.  A save goes on although its generation ended while the customer was asked
  for, and only the answer is dropped; a deletion asks for no customer; a token of
  another customer takes effect without a reload, so that every save is refused until the
  last package is deleted; a save of unknown outcome closes the library until
  the next setup.
- Tracking.  One failed request for the remembered order ends its grace period;
  scheduled orders are not looked for while one is active, so that `order_count` is not
  "the total" the docstring at `glovo.py:1644` speaks of; when two orders take turns as
  the nearest one, the original ETA starts anew with each change, though the
  comment at `coordinator.py:80` has it constant throughout an order's life, and a refresh
  that fails on its poll interval has pinned another order's already, which the order
  still shown loses for good; and, outside the
  model, `_clock_to_minutes_left` takes a time that has just passed for
  tomorrow's (`glovo.py:1270-1291`), so that an ETA missed by a minute reads as nearly a day.

## 6. Not modelled

- The mock checkout path, which production composes out.
- `async_reconcile_once` of the preparation authority: no code calls it.
- The command surface, the panel and the public contracts: registrations, browser UI and
  validation of shapes in front of the operations that are modelled.
- Parsing and schema validation of provider responses, payment handles, catalogue reads,
  entities and texts, configuration forms, release scripts: data, formatting or I/O.
- Clock time in the ordering modules: leases and challenges may expire at any
  time.  `Tracking` has a clock because the grace period is about it.

## 7. Plan

Done: the two stores, the manager, the preparation authority, the ledger, the flow
with facade, evidence and confirmations, the session, the library with its operations,
tracking, the account of the v1 release; proofs of every safety property that a
passing run checks, and of the three refinements.  Next:

`src/README.md:185` on a restart with a learned checkout (section 5, item 5) as a run of
its own, which needs the status action of a manager that start-up has disabled.
