------------------------------ MODULE Tracking ------------------------------
(***************************************************************************)
(* Order tracking: the coordinator's refresh (coordinator.py) over the     *)
(* reads of glovo.py.  A refresh asks for the list of orders, then for     *)
(* what the list does not say, one request after the other, while the      *)
(* orders move on; it publishes one summary, or fails and leaves the last  *)
(* one where it is.  A finished order drops out of the list and is shown   *)
(* for a while yet.                                                        *)
(*                                                                         *)
(* A summary is cut down to the order it is about, its step, whether the   *)
(* list or a probe found it, and the ETA text that could be pinned.        *)
(* CANCELED is treated as DELIVERED is; a terminal step is the last.       *)
(* Time passes in ticks and is only remembered up to Hold.                 *)
(***************************************************************************)
EXTENDS Integers, Sequences, SequencesExt

CONSTANTS
    Rows,           \* the rows of the orders-list, newest order first
    Nothing,        \* Python's None
    Hold,           \* CACHE_TERMINAL_HOLD_SEC in ticks
    MaxProbes,      \* rows probed at most
    MaxEstimates,   \* bound on the estimates of an order's arrival
    MaxReadFailures \* bound on the requests that fail

Orders == ToSet(Rows)

ASSUME TrackingConstants ==
    /\ IsInjective(Rows) /\ Nothing \notin Orders
    /\ {Hold, MaxProbes} \subseteq Nat \ {0}
    /\ {MaxEstimates, MaxReadFailures} \subseteq Nat

VARIABLES
    step,           \* tracking.step of each order; "NONE" before it is placed
    listed,         \* the orders that are ACTIVE_ORDER rows
    estimate,       \* the number of the current estimate of each order, from 1
    cached,         \* self._cached_order_id
    heldFor,        \* ticks since self._terminal_since, or Nothing
    eta,            \* self._original_eta_order_id and _original_eta_value
    provenance,     \* self._runtime_provenance
    data,           \* coordinator.data, and the source it came from
    pc, ctx,        \* the refresh in flight
    readFailures,
    finished,       \* history: ticks since an order that had left the list was shown finished
    moved,          \* history: since the data, a failed refresh has moved the pinned ETA
    current         \* history: data is of the refresh that began last

orderVars == <<step, listed, estimate>>
pinVars == <<cached, heldFor, eta>>
trackingVars ==
    <<orderVars, pinVars, provenance, data, pc, ctx, readFailures, finished, moved, current>>

Trackable == {"SCHEDULED", "IN_PROGRESS"}
Terminal == {"DELIVERED"}
Sources == {"live_api", "fixture"}

\* empty_active_order_summary.
Empty == [order |-> Nothing, found |-> FALSE, step |-> "NONE", text |-> Nothing]
NoPin == [order |-> Nothing, value |-> Nothing]
Shown(summary, original, source) ==
    [order |-> summary.order, found |-> summary.found, step |-> summary.step,
     original |-> original, from |-> source]

NoRefresh ==
    [source |-> Nothing, fallback |-> Nothing, rows |-> {}, ids |-> {}, order |-> Nothing]

TrackingInit ==
    /\ step = [o \in Orders |-> "NONE"]
    /\ listed = {}
    /\ estimate = [o \in Orders |-> 0]
    /\ cached = Nothing /\ heldFor = Nothing /\ eta = NoPin
    /\ provenance = "unknown"
    /\ data = Shown(Empty, Nothing, Nothing)
    /\ pc = "idle" /\ ctx = NoRefresh
    /\ readFailures = 0
    /\ finished = [o \in Orders |-> Nothing]
    /\ moved = FALSE
    /\ current = FALSE

(***************************************************************************)
(* The orders and the clock.                                               *)
(***************************************************************************)
CoordinatorIdles ==
    UNCHANGED <<pinVars, provenance, data, pc, ctx, readFailures, finished, moved, current>>

\* An order is active in the list from its start until some time after its end.
Advance(o) ==
    /\ \/ step[o] = "NONE" /\ step' = [step EXCEPT ![o] = "SCHEDULED"] /\ UNCHANGED listed
       \/ /\ step[o] \in {"NONE", "SCHEDULED"}
          /\ step' = [step EXCEPT ![o] = "IN_PROGRESS"]
          /\ listed' = listed \cup {o}
       \/ step[o] \in Trackable /\ step' = [step EXCEPT ![o] = "DELIVERED"] /\ UNCHANGED listed
    /\ UNCHANGED estimate
    /\ CoordinatorIdles

Unlist(o) ==
    /\ o \in listed /\ step[o] \in Terminal
    /\ listed' = listed \ {o}
    /\ UNCHANGED <<step, estimate>>
    /\ CoordinatorIdles

Reestimate(o) ==
    /\ step[o] \in Trackable /\ estimate[o] < MaxEstimates
    /\ estimate' = [estimate EXCEPT ![o] = @ + 1]
    /\ UNCHANGED <<step, listed>>
    /\ CoordinatorIdles

Later(age) == IF age \in {Nothing, Hold} THEN age ELSE age + 1

Tick ==
    /\ heldFor' = Later(heldFor)
    /\ finished' = [o \in Orders |-> Later(finished[o])]
    /\ UNCHANGED <<orderVars, cached, eta, provenance, data, pc, ctx, readFailures, moved,
                   current>>

(***************************************************************************)
(* What a tracking response says.                                          *)
(***************************************************************************)
\* eta_former, which a response may give when the order is late, or else eta_text; Nothing
\* where the text is missing or no minutes could be made of it.
Texts(o) ==
    {Nothing} \cup {<<o, n>> : n \in {estimate[o], estimate[o] - 1} \ {-1, 0}}

\* summarize_active_order.
Summary(o, found, text) == [order |-> o, found |-> found, step |-> step[o], text |-> text]

(***************************************************************************)
(* Publishing a summary.                                                   *)
(***************************************************************************)
ForgetCachedOrder == cached' = Nothing /\ heldFor' = Nothing

\* Mutant: every terminal summary starts the grace period.
KeepRearmed(s, shown) ==
    \/ heldFor # Hold /\ heldFor' = 0 /\ UNCHANGED cached /\ shown = s
    \/ heldFor = Hold /\ ForgetCachedOrder /\ shown = Empty

\* Mutant: the order is forgotten, and shown once more.
KeepLate(s, shown) ==
    /\ IF heldFor = Hold THEN ForgetCachedOrder
       ELSE heldFor' = (IF heldFor = Nothing THEN 0 ELSE heldFor) /\ UNCHANGED cached
    /\ shown = s

\* A finished order is shown for Hold, from the first time on.
KeepFinished(s, shown) ==
    \/ /\ heldFor # Hold
       /\ heldFor' = (IF heldFor = Nothing THEN 0 ELSE heldFor)
       /\ UNCHANGED cached
       /\ shown = s
    \/ heldFor = Hold /\ ForgetCachedOrder /\ shown = Empty

\* _apply_terminal_cache: of an order found, of the one remembered, of any other or none.
ApplyTerminalCache(s, shown) ==
    \/ s.found /\ cached' = s.order /\ heldFor' = Nothing /\ shown = s
    \/ /\ ~s.found /\ s.order # Nothing /\ s.order = cached
       /\ \/ s.step \in Terminal /\ KeepFinished(s, shown)
          \/ s.step \notin Terminal /\ heldFor' = Nothing /\ UNCHANGED cached /\ shown = s
    \/ ~s.found /\ (s.order = Nothing \/ s.order # cached) /\ ForgetCachedOrder /\ shown = Empty

\* Mutant: the pinned text outlives the order it was pinned for.
PinUnreset(s) ==
    [order |-> s.order, value |-> IF eta.value = Nothing THEN s.text ELSE eta.value]

\* _apply_original_eta: the first text seen for the order that is shown.
Pin(s) ==
    LET kept == IF s.order = eta.order THEN eta.value ELSE Nothing IN
      [order |-> s.order,
       value |-> IF s.order = Nothing \/ kept # Nothing THEN kept ELSE s.text]

\* The history of what was shown after its end, since it was found the last time.
Finish(s) ==
    finished' = IF s.order # Nothing /\ s.found THEN [finished EXCEPT ![s.order] = Nothing]
                ELSE IF s.step \in Terminal /\ finished[s.order] = Nothing
                THEN [finished EXCEPT ![s.order] = 0]
                ELSE finished

Return == pc' = "idle" /\ ctx' = NoRefresh

\* The end of _async_update_data; it awaits nothing from the validation on.
Publish(s) ==
    /\ \E shown \in {s, Empty} :
         /\ ApplyTerminalCache(s, shown)
         /\ eta' = Pin(shown)
         /\ data' = Shown(shown, Pin(shown).value, ctx.source)
         /\ Finish(shown)
    /\ provenance' = ctx.source
    /\ moved' = FALSE
    /\ current' = TRUE
    /\ Return
    /\ UNCHANGED orderVars

RequestFails == readFailures < MaxReadFailures /\ readFailures' = readFailures + 1

\* The poll interval that comes with an order in progress may be no length of time: the
\* refresh fails behind the cache and the pin, which keep what they were given.
FailInterval(s) ==
    /\ s.step = "IN_PROGRESS"
    /\ ApplyTerminalCache(s, s)
    /\ eta' = Pin(s)
    /\ moved' = (moved \/ s.order # eta.order)
    /\ RequestFails
    /\ Return
    /\ UNCHANGED <<orderVars, provenance, data, finished, current>>

Conclude(s) ==
    \/ Publish(s) /\ UNCHANGED readFailures
    \/ FailInterval(s)

(***************************************************************************)
(* A refresh.                                                              *)
(***************************************************************************)
Held == UNCHANGED <<orderVars, pinVars, data, finished, moved>>

\* Mutant: what was trusted stays so until the refresh has ended.
BeginTrusting ==
    /\ pc = "idle"
    /\ \E source \in Sources :
         ctx' = [NoRefresh EXCEPT !.source = source, !.fallback = cached]
    /\ pc' = "list"
    /\ current' = FALSE
    /\ UNCHANGED <<provenance, readFailures>>
    /\ Held

\* The source is chosen and the order to fall back on is noted.
Begin ==
    /\ pc = "idle"
    /\ \E source \in Sources :
         ctx' = [NoRefresh EXCEPT !.source = source, !.fallback = cached]
    /\ pc' = "list"
    /\ provenance' = "unavailable"
    /\ current' = FALSE
    /\ UNCHANGED readFailures
    /\ Held

Goto(next, context) ==
    /\ pc' = next /\ ctx' = context
    /\ UNCHANGED <<provenance, current>>
    /\ Held

\* One order, or the one nearest to arrival: any, as far as ETAs go that may be missing.
Track(ids) == \E o \in ids : Goto("track", [ctx EXCEPT !.rows = {}, !.ids = {}, !.order = o])

\* When nothing is left to probe: what was found, or the order to fall back on.
Probed(ids) ==
    IF ids # {} THEN Track(ids) ELSE Goto("fallback", [ctx EXCEPT !.rows = {}])

ProbeFrom(rows, ids) ==
    IF rows = {} THEN Probed(ids)
    ELSE Goto("probe", [ctx EXCEPT !.rows = rows, !.ids = ids])

\* Where an order stands in the list.
Place(o) == CHOOSE i \in DOMAIN Rows : Rows[i] = o

FirstRows ==
    LET placed == {o \in Orders : step[o] # "NONE"}
    IN  {o \in placed : Cardinality({p \in placed : Place(p) < Place(o)}) < MaxProbes}

\* get_orders_list and find_active_order_ids; without an active row the first few rows
\* of this list are probed.
List ==
    /\ pc = "list" /\ ctx.source = "live_api"
    /\ IF listed # {} THEN Track(listed) ELSE ProbeFrom(FirstRows, {})
    /\ UNCHANGED readFailures

\* find_trackable_order_ids: the next row, which may fail, be tracked, or end the search.
Probe ==
    /\ pc = "probe"
    /\ \E o \in ctx.rows :
         /\ \A p \in ctx.rows : Place(o) <= Place(p)
         /\ \/ /\ step[o] \in Trackable
               /\ ProbeFrom(ctx.rows \ {o}, ctx.ids \cup {o})
               /\ UNCHANGED readFailures
            \/ step[o] \in Terminal /\ Probed(ctx.ids) /\ UNCHANGED readFailures
            \/ RequestFails /\ ProbeFrom(ctx.rows \ {o}, ctx.ids)

\* get_order_tracking of the order to show, whatever it has become.
TrackOrder ==
    /\ pc = "track"
    /\ \E text \in Texts(ctx.order) : Conclude(Summary(ctx.order, TRUE, text))

\* get_order_summary of the order shown before.  Without one, or if it fails: nothing.
Fallback ==
    /\ pc = "fallback"
    /\ \/ /\ ctx.fallback # Nothing
          /\ \E text \in Texts(ctx.fallback) : Conclude(Summary(ctx.fallback, FALSE, text))
       \/ ctx.fallback = Nothing /\ Conclude(Empty)
       \/ ctx.fallback # Nothing /\ RequestFails /\ Publish(Empty)

\* Fixture files are dumps of the same answers about one order: an active one, else the
\* one that is shown, else any.
ReadFixtures ==
    /\ pc = "list" /\ ctx.source = "fixture"
    /\ \E o \in (IF listed # {} THEN listed
                 ELSE IF ctx.fallback # Nothing THEN {ctx.fallback} ELSE Orders) :
       \E text \in Texts(o) :
         IF o \in listed \/ step[o] \in Trackable THEN Conclude(Summary(o, TRUE, text))
         ELSE IF ctx.fallback # Nothing THEN Conclude(Summary(o, FALSE, text))
         ELSE Conclude(Empty)

\* A request or a file fails, the summary is malformed, or the refresh is cancelled.
FailRefresh ==
    /\ pc # "idle"
    /\ RequestFails
    /\ Return
    /\ UNCHANGED <<provenance, current>>
    /\ Held

\* A reload makes another coordinator.
Reload ==
    /\ cached' = Nothing /\ heldFor' = Nothing /\ eta' = NoPin
    /\ provenance' = "unknown"
    /\ data' = Shown(Empty, Nothing, Nothing)
    /\ moved' = FALSE
    /\ current' = FALSE
    /\ Return
    /\ UNCHANGED <<orderVars, readFailures, finished>>

RefreshStep == Begin \/ List \/ Probe \/ TrackOrder \/ Fallback \/ ReadFixtures

TrackingNext ==
    \/ \E o \in Orders : Advance(o) \/ Unlist(o) \/ Reestimate(o)
    \/ Tick \/ RefreshStep \/ FailRefresh \/ Reload

TrackingSpec == TrackingInit /\ [][TrackingNext]_trackingVars

\* The timer polls, requests have a timeout, time passes, the list is brought up to date.
FairTracking ==
    /\ TrackingSpec
    /\ WF_trackingVars(RefreshStep) /\ WF_trackingVars(Tick)
    /\ \A o \in Orders : WF_trackingVars(Unlist(o))

(***************************************************************************)
(* Properties.                                                             *)
(***************************************************************************)
\* The grace period is not prolonged by refreshes that fail, other orders, or being shown:
\* a summary published Hold after its order was first shown finished, having left the
\* list, is not of that order.
GraceIsBounded ==
    [][(provenance' \in Sources /\ provenance = "unavailable" /\ data'.order # Nothing
        /\ data'.step \in Terminal /\ ~data'.found)
       => finished[data'.order] # Hold]_trackingVars

\* A finished order does not stay on show for ever.
TerminalOrderLeaves ==
    \A o \in Orders :
        (data.order = o /\ data.step \in Terminal) ~> (data.order # o)

\* The original ETA is of the order shown, and does not move while that order is shown,
\* unless a refresh meanwhile pinned another order's and failed before it could show it.
OriginalEtaStays ==
    [][/\ data'.original # Nothing => data'.original[1] = data'.order
       /\ (data'.order = data.order /\ data.original # Nothing /\ ~moved)
          => data'.original = data.original]_trackingVars

\* Entities name a source only while what they show came from it, in the refresh that
\* began last: after a failed or cancelled refresh, or during one, nothing is trusted.
TrustIsFresh ==
    provenance \in Sources => pc = "idle" /\ current /\ data.from = provenance
=============================================================================
