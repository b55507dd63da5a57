------------------------------ MODULE LiveFlow ------------------------------
(***************************************************************************)
(* The live dispatcher (ordering_live_flow.py) over the facade it guards   *)
(* (ordering_live_api.py), with the store of basket evidence               *)
(* (ordering_basket_authority_store.py) and the quote confirmations        *)
(* (ordering_live_quote.py).                                               *)
(*                                                                         *)
(* The facade holds short-lived proof of what the one remote basket is:    *)
(* unknown, verified absent for one intent, adopted at one version, or in  *)
(* conflict.  Basket writes, quotes and the final checkout need that proof;*)
(* a hash of it is on file before it is used.  The basket itself is the    *)
(* provider's, and the user may change it from elsewhere at any time.      *)
(*                                                                         *)
(* The flow's lock is held for a whole request: `pc' names the awaited     *)
(* call its holder is suspended in.  The manager's guard was passed before *)
(* the lock was queued for, so the generation may change in between.       *)
(*                                                                         *)
(* The durable record around a remote mutation is PreparationAuthority's:  *)
(* here it refuses, keeps the provider's answer, or loses it and blocks.   *)
(* Handles, account and address are not told apart; that one of them has   *)
(* lapsed or differs is a choice wherever the code looks.                  *)
(***************************************************************************)
EXTENDS Integers

CONSTANTS
    Owners,         \* administrators, each with a quote of their own
    Intents,        \* contents of a basket
    None,
    MaxGeneration,  \* requests and changes of the manager begin below this generation
    MaxVersions,    \* bound on the versions of the remote basket
    MaxCrashes,     \* bound on the ends of the process
    MaxFailures     \* bound on the writes of evidence that fail or are cancelled

VARIABLES
    generation,     \* the manager's current generation
    enabled,        \* the manager's self._enabled
    halt,           \* "no", or what is unresolved: a "checkout" or a "preparation"
    active,         \* self._active: initialised and not invalidated
    waiting,        \* the generation of the request queued for the lock, or 0
    pc, ctx,        \* the step in progress and its local variables
    authority,      \* the facade's self._basket_authority
    expired,        \* the lease of that proof, captured or current, has run out
    quotes,         \* each owner's quote with its confirmation
    evidence,       \* the evidence file
    readable,       \* it was loaded, with no integrity fault
    transient,      \* self.transient_write_fault
    basket,         \* the provider's basket, or None
    versions,       \* how many versions it had
    known,          \* history: what the provider last told this process of it
    crashes,
    failures

managerVars == <<generation, enabled, halt>>
flowVars == <<active, waiting>>
facadeVars == <<authority, expired, quotes>>
storeVars == <<evidence, readable, transient>>
providerVars == <<basket, versions, known>>
vars == <<managerVars, flowVars, pc, ctx, facadeVars, storeVars, providerVars, crashes,
          failures>>

Modes == {"UNKNOWN", "ABSENT_VERIFIED", "ADOPTED", "CONFLICT"}

Proof(mode, g, intent, version) ==
    [mode |-> mode, generation |-> g, intent |-> intent, version |-> version]
Unknown == Proof("UNKNOWN", 0, None, 0)

NoQuotes == [o \in Owners |-> None]

\* proof: the authority captured at entry, then what is to be published.
\* then: where the request goes when UNKNOWN is on file; kept: a transient fault stays.
NoContext ==
    [op |-> "none", owner |-> None, generation |-> 0, intent |-> None, proof |-> Unknown,
     then |-> "raise", kept |-> FALSE]

StartSteps == {"load", "begin"}
FlowSteps == {"unknown", "answer", "discover", "mutate", "out", "publish", "finalize",
              "install", "confirm", "final", "invalidate"}

Running == pc \notin StartSteps \cup {"down"}

ASSUME LiveFlowConstants ==
    /\ {MaxGeneration, MaxVersions, MaxCrashes, MaxFailures} \subseteq Nat
    /\ None \notin Owners \cup Intents

Goto(step, context) == pc' = step /\ ctx' = context
Release == Goto("idle", NoContext)

(***************************************************************************)
(* The evidence store: a failed or cancelled save leaves a transient fault,*)
(* which the next save that succeeds clears.                               *)
(***************************************************************************)
WriteResults == {"ok"} \cup (IF failures < MaxFailures THEN {"fault"} ELSE {})
SaveResults == WriteResults \cup (IF failures < MaxFailures THEN {"cancelled"} ELSE {})

Counted(r) == failures' = IF r = "ok" THEN failures ELSE failures + 1

Save(proof, r) ==
    /\ Counted(r)
    /\ transient' = (r # "ok")
    /\ \/ r = "ok" /\ evidence' = proof
       \/ r = "fault" /\ UNCHANGED evidence
       \/ r = "cancelled" /\ evidence' \in {evidence, proof}
    /\ UNCHANGED readable

(***************************************************************************)
(* What the flow and the facade compute.                                   *)
(***************************************************************************)
\* _preparation_gate.
Gate == active /\ readable /\ halt # "preparation"

\* _post_await_dispatch_is_current.
Current(g) == Gate /\ enabled /\ generation = g

\* _active_basket_authority finds proof of this generation within its lease.
Active(g) ==
    /\ ~transient
    /\ authority.mode # "UNKNOWN"
    /\ authority.generation = g
    /\ ~expired

Adopted(g) == Active(g) /\ authority.mode = "ADOPTED"

\* Mutant: the quotes of the basket stay.
ForgetBasketOnly ==
    /\ authority' = Unknown
    /\ UNCHANGED quotes

\* invalidate_basket_mutation_authority.
Forget ==
    /\ authority' = Unknown
    /\ quotes' = NoQuotes

\* The answer is given, unless the runtime, the generation or the options changed while
\* it was awaited: then everything is forgotten.
Conclude(g, proof, kept) ==
    /\ Release
    /\ IF Current(g) THEN authority' = proof /\ quotes' = kept ELSE Forget

(***************************************************************************)
(* Setup of the entry: the evidence is read but never trusted.             *)
(***************************************************************************)
Start ==
    /\ pc = "down"
    /\ enabled' = TRUE
    /\ Goto("load", NoContext)
    /\ UNCHANGED <<generation, halt, flowVars, facadeVars, storeVars, providerVars, crashes,
                   failures>>

\* Without readable evidence, or with anything unresolved, no facade is composed.
LoadEvidence ==
    /\ pc = "load"
    /\ \E r \in WriteResults :
         /\ Counted(r)
         /\ readable' = (r = "ok")
         /\ enabled' = (r = "ok")
         /\ generation' = IF r = "ok" THEN generation ELSE generation + 1
         /\ IF r = "ok" /\ halt = "no" THEN Goto("begin", NoContext) ELSE Release
    /\ UNCHANGED <<halt, flowVars, facadeVars, evidence, transient, providerVars,
                   crashes>>

\* async_initialize of the flow: a transient fault exposes the adoption only.
Initialize ==
    /\ pc = "begin"
    /\ \E r \in WriteResults : Save(Unknown, r)
    /\ active' = TRUE
    /\ Release
    /\ UNCHANGED <<managerVars, waiting, facadeVars, providerVars, crashes>>

(***************************************************************************)
(* A request passes the manager, queues for the flow's lock and is looked  *)
(* at again.                                                               *)
(***************************************************************************)
\* The manager's lock is held while it submits the final checkout.
Admit ==
    /\ Running /\ pc # "final"
    /\ active /\ enabled /\ halt = "no"
    /\ generation < MaxGeneration
    /\ waiting = 0
    /\ waiting' = generation
    /\ UNCHANGED <<managerVars, active, pc, ctx, facadeVars, storeVars, providerVars,
                   crashes, failures>>

Granted == pc = "idle" /\ waiting # 0 /\ waiting' = 0

Take(op, owner, intent, proof, step, then) ==
    Goto(step, [NoContext EXCEPT !.op = op, !.owner = owner, !.generation = waiting,
                                 !.intent = intent, !.proof = proof, !.then = then])

OthersKept ==
    UNCHANGED <<managerVars, active, expired, storeVars, providerVars, crashes, failures>>

\* Refused by the flow, or by the facade at once: without usable proof it forgets what
\* it had.
Deny ==
    /\ Granted
    /\ \/ UNCHANGED authority
       \/ Gate /\ ~Active(waiting) /\ authority' = Unknown
    /\ UNCHANGED <<pc, ctx, quotes>>
    /\ OthersKept

\* live/addresses, live/stores, live/store_menu.
Browse ==
    /\ Granted /\ Gate
    /\ Forget
    /\ Take("browse", None, None, Unknown, "unknown", "answer")
    /\ OthersKept

\* live/basket_adopt up to its first await.
Adopt ==
    /\ Granted /\ Gate
    /\ Forget
    /\ \E i \in Intents : Take("adopt", None, i, Unknown, "unknown", "discover")
    /\ OthersKept

\* live/basket awaits nothing.
ReadBasket ==
    /\ Granted /\ Gate
    /\ authority.mode = "UNKNOWN" \/ Active(waiting)
    /\ Conclude(waiting, authority, quotes)
    /\ OthersKept

\* An operation that needs proof finds the account, the store or the address changed.
Mismatch ==
    /\ Granted /\ Gate
    /\ Active(waiting) /\ authority.mode # "CONFLICT"
    /\ authority' = Unknown
    /\ Take("mismatch", None, None, Unknown, "unknown", "raise")
    /\ UNCHANGED quotes
    /\ OthersKept

\* live/payment_methods reads only.
ReadPayments ==
    /\ Granted /\ Gate
    /\ Adopted(waiting)
    /\ Take("payments", None, None, Unknown, "answer", "raise")
    /\ UNCHANGED <<authority, quotes>>
    /\ OthersKept

\* live/basket_set: creates what is verified absent, replaces what differs, and answers
\* at once when the adopted basket is the intended one.
SetBasket ==
    /\ Granted /\ Gate
    /\ Active(waiting)
    /\ \E i \in Intents :
         \/ /\ authority.mode = "ABSENT_VERIFIED" /\ i = authority.intent
            /\ Take("set", None, i, authority, "mutate", "raise")
         \/ /\ authority.mode = "ADOPTED" /\ i # authority.intent
            /\ Take("set", None, i, authority, "mutate", "raise")
         \/ /\ authority.mode = "ADOPTED" /\ i = authority.intent
            /\ Take("set", None, i, authority, "answer", "raise")
    /\ UNCHANGED <<authority, quotes>>
    /\ OthersKept

\* live/basket_clear.
ClearBasket ==
    /\ Granted /\ Gate
    /\ Adopted(waiting)
    /\ Take("clear", None, None, authority, "mutate", "raise")
    /\ UNCHANGED <<authority, quotes>>
    /\ OthersKept

\* live/create_quote drops the owner's earlier quote before the mutation.
CreateQuote ==
    /\ Granted /\ Gate
    /\ Adopted(waiting)
    /\ \E o \in Owners :
         /\ Take("quote", o, authority.intent, authority, "mutate", "raise")
         /\ quotes' = [quotes EXCEPT ![o] = None]
    /\ UNCHANGED authority
    /\ OthersKept

\* live/prepare_confirmation awaits the store's freshness.
Prepare ==
    /\ Granted /\ Gate
    /\ Adopted(waiting)
    /\ \E o \in Owners :
         /\ quotes[o] # None /\ quotes[o].generation = waiting
         /\ Take("prepare", o, None, authority, "confirm", "raise")
    /\ UNCHANGED <<authority, quotes>>
    /\ OthersKept

\* live/execute_checkout consumes the confirmed quote; a confirmation that does not
\* match is gone, and so is a stale one.
Consume ==
    /\ Granted /\ Gate
    /\ Adopted(waiting)
    /\ \E o \in Owners :
         /\ quotes[o] # None /\ quotes[o].generation = waiting
         /\ \/ /\ quotes[o].confirmation = "prepared"
               /\ quotes' = [quotes EXCEPT ![o] = None]
               /\ Take("final", o, None,
                       Proof("ADOPTED", waiting, authority.intent, quotes[o].version),
                       "final", "raise")
            \/ /\ quotes' = [quotes EXCEPT ![o].confirmation = "gone"]
               /\ UNCHANGED <<pc, ctx>>
    /\ UNCHANGED authority
    /\ OthersKept

(***************************************************************************)
(* The awaited steps of a request.                                         *)
(***************************************************************************)
StepKept == UNCHANGED <<managerVars, flowVars, expired, crashes>>

\* UNKNOWN is put on file.
RecordUnknown ==
    /\ pc = "unknown"
    /\ \E r \in SaveResults :
         /\ Save(Unknown, r)
         /\ CASE r = "ok" /\ ctx.then = "cleared" ->
                    Conclude(ctx.generation, authority, NoQuotes)
              [] r = "ok" /\ ctx.then \in FlowSteps ->
                    Goto(ctx.then, ctx) /\ UNCHANGED <<authority, quotes>>
              [] r = "cancelled" /\ ctx.then = "cleared" ->
                    /\ Goto("finalize", [ctx EXCEPT !.kept = TRUE])
                    /\ UNCHANGED <<authority, quotes>>
              [] OTHER -> Release /\ UNCHANGED <<authority, quotes>>
    /\ UNCHANGED providerVars
    /\ StepKept

\* A read that changes nothing answers, or fails.
Answer ==
    /\ pc = "answer"
    /\ \/ Conclude(ctx.generation, authority, quotes)
       \/ Release /\ UNCHANGED <<authority, quotes>>
    /\ UNCHANGED <<storeVars, providerVars, failures>>
    /\ StepKept

\* Mutant: a failed discovery is started over.
DiscoverAgain ==
    /\ pc = "discover"
    /\ Goto("unknown", ctx)
    /\ UNCHANGED <<authority, quotes, storeVars, providerVars, failures>>
    /\ StepKept

\* The provider is asked what the basket is: none, the intended one, or something that is
\* neither.  The answer is dropped if a handle has lapsed meanwhile.
Discover ==
    /\ pc = "discover"
    /\ \/ \E mode \in Modes \ {"UNKNOWN"} :
            /\ mode = "ABSENT_VERIFIED" => basket = None
            /\ mode = "ADOPTED" => basket # None /\ basket.intent = ctx.intent
            /\ LET seen == CASE mode = "ABSENT_VERIFIED" ->
                                  Proof(mode, ctx.generation, ctx.intent, 0)
                             [] mode = "ADOPTED" ->
                                  Proof(mode, ctx.generation, ctx.intent, basket.version)
                             [] mode = "CONFLICT" -> Proof(mode, ctx.generation, None, 0)
               IN  /\ known' = seen
                   /\ Goto("publish", [ctx EXCEPT !.proof = seen])
       \/ Release /\ UNCHANGED known
    /\ UNCHANGED <<authority, quotes, storeVars, basket, versions, failures>>
    /\ StepKept

\* Mutant: what was observed is used while it is being put on file.
PublishFirst ==
    /\ pc = "publish"
    /\ authority' = ctx.proof
    /\ expired' = FALSE
    /\ \E r \in SaveResults : Save(ctx.proof, r)
    /\ Release
    /\ UNCHANGED <<managerVars, flowVars, quotes, providerVars, crashes>>

\* What was observed is put on file, then published with a new lease.
Publish ==
    /\ pc = "publish"
    /\ \E r \in SaveResults :
         /\ Save(ctx.proof, r)
         /\ \/ /\ r = "ok"
               /\ expired' = FALSE
               /\ Conclude(ctx.generation, ctx.proof,
                           IF ctx.op = "adopt" /\ ctx.proof.mode = "ADOPTED"
                           THEN quotes ELSE NoQuotes)
            \/ /\ r # "ok"
               /\ authority' = Unknown
               /\ IF r = "cancelled" /\ ctx.op = "set"
                  THEN Goto("finalize", [ctx EXCEPT !.kept = TRUE])
                  ELSE Release
               /\ UNCHANGED <<expired, quotes>>
    /\ UNCHANGED <<managerVars, flowVars, providerVars, crashes>>

(***************************************************************************)
(* A remote mutation, inside its durable record.                           *)
(***************************************************************************)
OnBasket == ctx.op \in {"set", "clear"}

\* The record is acquired and the client drops what the mutation makes stale; or it is
\* refused, as when the same intent was tried before.
AcquireAndCall ==
    /\ pc = "mutate"
    /\ \/ /\ Goto("out", ctx)
          /\ IF OnBasket THEN Forget ELSE quotes' = NoQuotes /\ UNCHANGED authority
       \/ /\ IF OnBasket
             THEN Goto("finalize", ctx) /\ authority' = Unknown
             ELSE Release /\ UNCHANGED authority
          /\ UNCHANGED quotes
    /\ UNCHANGED <<storeVars, providerVars, failures>>
    /\ StepKept

\* The provider carries the mutation out.
Executed ==
    CASE ctx.op = "set"   -> /\ versions < MaxVersions
                             /\ versions' = versions + 1
                             /\ basket' = [intent |-> ctx.intent, version |-> versions + 1]
      [] ctx.op = "clear" -> basket' = None /\ UNCHANGED versions
      [] ctx.op = "quote" -> UNCHANGED <<basket, versions>>

Succeed ==
    /\ pc = "out"
    /\ Executed
    /\ CASE ctx.op = "set" ->
              LET made == Proof("ADOPTED", ctx.generation, ctx.intent, versions + 1)
              IN  known' = made /\ Goto("publish", [ctx EXCEPT !.proof = made])
         [] ctx.op = "clear" ->
              known' = Unknown /\ Goto("unknown", [ctx EXCEPT !.then = "cleared"])
         [] ctx.op = "quote" -> UNCHANGED known /\ Goto("install", ctx)
    /\ UNCHANGED <<authority, quotes, storeVars, failures>>
    /\ StepKept

\* Mutant: a rejected creation leaves the proof of absence.
RejectKeepingProof ==
    /\ pc = "out"
    /\ authority' = IF OnBasket THEN ctx.proof ELSE authority
    /\ known' = IF ctx.op = "set" /\ ctx.proof.mode = "ABSENT_VERIFIED" THEN Unknown ELSE known
    /\ Release
    /\ UNCHANGED <<quotes, storeVars, basket, versions, failures>>
    /\ StepKept

\* A rejection proves that the adopted basket is still there, but not that there is none.
Reject ==
    /\ pc = "out"
    /\ IF ctx.op = "set" /\ ctx.proof.mode = "ABSENT_VERIFIED"
       THEN authority' = Unknown /\ known' = Unknown
       ELSE authority' = (IF OnBasket THEN ctx.proof ELSE authority) /\ UNCHANGED known
    /\ Release
    /\ UNCHANGED <<quotes, storeVars, basket, versions, failures>>
    /\ StepKept

\* The answer is lost, or cannot be recorded: preparations are blocked, mostly with a new
\* generation.  Or its outcome is on file, but the caller was cancelled while it was saved.
Lose ==
    /\ pc = "out"
    /\ Executed \/ UNCHANGED <<basket, versions>>
    /\ known' = IF OnBasket THEN Unknown ELSE known
    /\ \/ halt' = "preparation" /\ generation' \in {generation, generation + 1}
       \/ UNCHANGED <<halt, generation>>
    /\ IF OnBasket
       THEN Goto("finalize", ctx) /\ authority' = Unknown
       ELSE Release /\ UNCHANGED authority
    /\ UNCHANGED <<enabled, flowVars, expired, quotes, storeVars, crashes, failures>>

\* UNKNOWN is put on file whatever is cancelled; after a success the fault stays.
Finalize ==
    /\ pc = "finalize"
    /\ \E r \in WriteResults :
         /\ Counted(r)
         /\ transient' = (r # "ok" \/ ctx.kept)
         /\ evidence' = IF r = "ok" THEN Unknown ELSE evidence
    /\ Release
    /\ UNCHANGED <<authority, quotes, readable, providerVars>>
    /\ StepKept

\* The quote is installed when address and payment are still the provider's.
Install ==
    /\ pc = "install"
    /\ LET quote == [generation |-> ctx.generation, version |-> ctx.proof.version,
                     confirmation |-> "installed"]
       IN  \/ Conclude(ctx.generation, authority, [quotes EXCEPT ![ctx.owner] = quote])
           \/ Release /\ UNCHANGED <<authority, quotes>>
    /\ UNCHANGED <<storeVars, providerVars, failures>>
    /\ StepKept

\* A closed store takes the quote back; one that lapsed loses its confirmation.
Confirm ==
    /\ pc = "confirm"
    /\ LET confirmed == [quotes EXCEPT ![ctx.owner].confirmation = "prepared"]
           lapsed == [quotes EXCEPT ![ctx.owner].confirmation = "gone"]
           closed == [quotes EXCEPT ![ctx.owner] = None]
       IN  \/ /\ quotes[ctx.owner].confirmation # "gone"
              /\ Conclude(ctx.generation, authority, confirmed)
           \/ Release /\ quotes' \in {quotes, lapsed, closed} /\ UNCHANGED authority
    /\ UNCHANGED <<storeVars, providerVars, failures>>
    /\ StepKept

\* The manager looks at its guard again, under its own lock, and submits; the generation
\* goes on, or the checkout has to be reconciled.
Submit ==
    /\ pc = "final"
    /\ \/ /\ enabled /\ halt = "no" /\ generation = ctx.generation
          /\ halt' \in {"no", "checkout"}
          /\ generation' = generation + 1
       \/ UNCHANGED <<halt, generation>>
    /\ Release
    /\ UNCHANGED <<enabled, flowVars, facadeVars, storeVars, providerVars, crashes, failures>>

(***************************************************************************)
(* Around it.                                                              *)
(***************************************************************************)
\* The lease of a proof that is held or was captured runs out.
Expire ==
    /\ Running
    /\ ~expired
    /\ authority.mode # "UNKNOWN" \/ pc \in {"mutate", "out"}
    /\ expired' = TRUE
    /\ UNCHANGED <<managerVars, flowVars, pc, ctx, authority, quotes, storeVars,
                   providerVars, crashes, failures>>

\* The user changes the basket from elsewhere.
ChangeElsewhere ==
    /\ \/ basket # None /\ basket' = None /\ UNCHANGED versions
       \/ /\ versions < MaxVersions
          /\ versions' = versions + 1
          /\ \E i \in Intents : basket' = [intent |-> i, version |-> versions + 1]
    /\ UNCHANGED <<managerVars, flowVars, pc, ctx, facadeVars, storeVars, known, crashes,
                   failures>>

\* The administrator resolves what is unresolved.
Attest ==
    /\ Running /\ pc # "final"
    /\ halt # "no"
    /\ generation < MaxGeneration
    /\ halt' = "no"
    /\ generation' = generation + 1
    /\ UNCHANGED <<enabled, flowVars, pc, ctx, facadeVars, storeVars, providerVars, crashes,
                   failures>>

\* The options changed: the manager is disabled before the flow's lock is asked for.
Disable ==
    /\ Running /\ pc # "final"
    /\ enabled
    /\ generation < MaxGeneration
    /\ enabled' = FALSE
    /\ generation' = generation + 1
    /\ UNCHANGED <<halt, flowVars, pc, ctx, facadeVars, storeVars, providerVars, crashes,
                   failures>>

\* async_invalidate.
Invalidate ==
    /\ pc = "idle"
    /\ active /\ ~enabled
    /\ active' = FALSE
    /\ Forget
    /\ Goto("invalidate", NoContext)
    /\ UNCHANGED <<managerVars, waiting, expired, storeVars, providerVars, crashes, failures>>

\* The reload goes on only when this save succeeds.
Invalidated ==
    /\ pc = "invalidate"
    /\ \E r \in WriteResults : Save(Unknown, r)
    /\ Release
    /\ UNCHANGED <<facadeVars, providerVars>>
    /\ StepKept

End ==
    /\ enabled' = FALSE
    /\ active' = FALSE
    /\ waiting' = 0
    /\ Forget
    /\ expired' = FALSE
    /\ readable' = FALSE
    /\ transient' = FALSE
    /\ known' = Unknown
    /\ Goto("down", NoContext)
    /\ UNCHANGED <<generation, halt, evidence, basket, versions, failures>>

Reload ==
    /\ pc = "idle"
    /\ ~active /\ ~enabled
    /\ End
    /\ UNCHANGED crashes

Crash ==
    /\ pc # "down"
    /\ crashes < MaxCrashes
    /\ crashes' = crashes + 1
    /\ End

(***************************************************************************)
(* The specification.                                                      *)
(***************************************************************************)
Init ==
    /\ generation = 1
    /\ enabled = FALSE
    /\ halt = "no"
    /\ active = FALSE
    /\ waiting = 0
    /\ pc = "down"
    /\ ctx = NoContext
    /\ authority = Unknown
    /\ expired = FALSE
    /\ quotes = NoQuotes
    /\ evidence = Unknown
    /\ readable = FALSE
    /\ transient = FALSE
    /\ basket = None
    /\ versions = 0
    /\ known = Unknown
    /\ crashes = 0
    /\ failures = 0

Request ==
    \/ Deny \/ Browse \/ Adopt \/ ReadBasket \/ Mismatch \/ ReadPayments
    \/ SetBasket \/ ClearBasket \/ CreateQuote \/ Prepare \/ Consume

Step ==
    \/ LoadEvidence \/ Initialize
    \/ RecordUnknown \/ Answer \/ Discover \/ Publish
    \/ AcquireAndCall \/ Succeed \/ Reject \/ Lose \/ Finalize
    \/ Install \/ Confirm \/ Submit
    \/ Invalidated

Next ==
    \/ Start \/ Step \/ Admit \/ Request
    \/ Expire \/ ChangeElsewhere \/ Attest
    \/ Disable \/ Invalidate \/ Reload \/ Crash

Spec == Init /\ [][Next]_vars

\* Storage calls return, the session times remote calls out, and the lock is handed on in
\* the order it was asked for; with the manager disabled nothing new asks for it.
FairSpec == Spec /\ WF_vars(Step) /\ WF_vars(Request) /\ WF_vars(Invalidate)

(***************************************************************************)
(* Properties.                                                             *)
(***************************************************************************)

\* A basket is created, replaced, deleted or quoted only on what the provider itself last
\* said of it, to this process and under the generation of the request: a creation on a
\* verified absence for the same contents, the others on the very version it showed.
MutationHasFreshProof ==
    [][pc = "mutate" /\ pc' = "out" =>
          /\ known = ctx.proof
          /\ known.generation = ctx.generation
          /\ known.mode = "ABSENT_VERIFIED" =>
                ctx.op = "set" /\ known.intent = ctx.intent]_vars

\* A confirmed quote reaches the final submission only if what it priced is what the
\* provider last showed of the basket: the same version with the same contents, shown
\* under the same generation.
FinalQuoteIsOfKnownBasket ==
    [][pc # "final" /\ pc' = "final" => known = ctx'.proof]_vars

\* The facade never holds proof that is not on file first, word for word, so a restart
\* finds at least the evidence for whatever was done.
EvidencePrecedesAuthority == authority.mode # "UNKNOWN" => evidence = authority

\* Whatever request holds the lock, a disabled runtime is invalidated.
DisabledIsInvalidated == (active /\ ~enabled) ~> ~active
=============================================================================
