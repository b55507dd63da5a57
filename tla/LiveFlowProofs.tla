--------------------------- MODULE LiveFlowProofs ---------------------------
(***************************************************************************)
(* Proofs about LiveFlow, for any owners and contents of the basket, any   *)
(* number of versions, failures and crashes.  The invariant follows the    *)
(* proof the facade holds: whatever it holds is what the provider last     *)
(* said and is on file (Held), also while a request has captured it        *)
(* (Captured); and in the steps that replace it nothing is held (Unheld).  *)
(***************************************************************************)
EXTENDS LiveFlow, TLAPS

Operations ==
    {"none", "browse", "adopt", "mismatch", "payments", "set", "clear", "quote", "prepare",
     "final"}

Continuations == {"raise", "answer", "discover", "cleared"}

Proofs ==
    [mode : Modes, generation : Nat, intent : Intents \cup {None}, version : Nat]

Quotes ==
    [generation : Nat, version : Nat, confirmation : {"installed", "prepared", "gone"}]

Contexts ==
    [op : Operations, owner : Owners \cup {None}, generation : Nat,
     intent : Intents \cup {None}, proof : Proofs, then : Continuations, kept : BOOLEAN]

Typed ==
    /\ generation \in Nat /\ waiting \in Nat /\ versions \in Nat
    /\ authority \in Proofs /\ evidence \in Proofs /\ known \in Proofs
    /\ ctx \in Contexts
    /\ basket \in [intent : Intents, version : Nat] \cup {None}
    /\ quotes \in [Owners -> Quotes \cup {None}]

\* What the facade holds is on file, is what the provider last said, and its quotes are
\* of that version.
Held ==
    authority.mode # "UNKNOWN" =>
        /\ evidence = authority
        /\ known = authority
        /\ \A o \in Owners : quotes[o] # None => quotes[o].version = authority.version

\* So is what a mutation goes on, until its outcome.
Captured ==
    pc \in {"mutate", "out", "install"} =>
        /\ ctx.proof.mode # "UNKNOWN"
        /\ ctx.proof.generation = ctx.generation
        /\ ctx.proof.mode = "ABSENT_VERIFIED" => ctx.op = "set" /\ ctx.proof.intent = ctx.intent
        /\ known = ctx.proof
        /\ evidence = ctx.proof
        /\ ctx.op \in {"set", "clear", "quote"}
        /\ ctx.op = "set" => ctx.intent \in Intents
        /\ ctx.op = "quote" => ctx.owner \in Owners
        /\ pc = "install" => ctx.op = "quote"

Silent == {"down", "load", "begin", "unknown", "discover", "publish", "finalize", "invalidate"}

Unheld ==
    /\ pc \in Silent => authority = Unknown
    /\ pc = "out" /\ OnBasket => authority = Unknown
    /\ pc \in {"discover", "publish", "out"} => quotes = NoQuotes
    /\ pc = "unknown" /\ ctx.then = "discover" => quotes = NoQuotes

Pending ==
    /\ pc = "publish" => known = ctx.proof
    /\ pc = "confirm" => ctx.owner \in Owners /\ quotes[ctx.owner] # None

Inv == Typed /\ Held /\ Captured /\ Unheld /\ Pending

(***************************************************************************)
(* Values and frames.                                                      *)
(***************************************************************************)
LEMMA UnknownIsProof == Unknown \in Proofs /\ Unknown.mode = "UNKNOWN"
BY DEF Unknown, Proof, Proofs, Modes

LEMMA ProofIsProof ==
    ASSUME NEW m \in Modes, NEW g \in Nat, NEW i \in Intents \cup {None}, NEW v \in Nat
    PROVE  Proof(m, g, i, v) \in Proofs
BY DEF Proof, Proofs

LEMMA NothingQuoted ==
    /\ NoQuotes \in [Owners -> Quotes \cup {None}]
    /\ \A o \in Owners : NoQuotes[o] = None
BY DEF NoQuotes

LEMMA NoContextIsContext == NoContext \in Contexts
BY UnknownIsProof DEF NoContext, Contexts, Operations, Continuations

LEMMA Taken ==
    ASSUME Typed, NEW op \in Operations, NEW owner \in Owners \cup {None},
           NEW i \in Intents \cup {None}, NEW p \in Proofs, NEW step,
           NEW then \in Continuations, Take(op, owner, i, p, step, then)
    PROVE  /\ pc' = step
           /\ ctx' \in Contexts
           /\ ctx'.op = op /\ ctx'.owner = owner /\ ctx'.generation = waiting
           /\ ctx'.intent = i /\ ctx'.proof = p /\ ctx'.then = then
<1>1. ctx' = [op |-> op, owner |-> owner, generation |-> waiting, intent |-> i, proof |-> p,
              then |-> then, kept |-> FALSE]
  BY DEF Take, Goto, NoContext
<1>2. pc' = step
  BY DEF Take, Goto
<1>3. waiting \in Nat
  BY DEF Typed
<1>4. ctx' \in Contexts
  BY <1>1, <1>3 DEF Contexts
<1> QED
  BY <1>1, <1>2, <1>4

LEMMA TakenStep ==
    ASSUME NEW op, NEW owner, NEW i, NEW p, NEW step, NEW then,
           Take(op, owner, i, p, step, then)
    PROVE  pc' = step
BY DEF Take, Goto

LEMMA ConcludeEffect ==
    ASSUME NEW g, NEW p, NEW kept, Conclude(g, p, kept)
    PROVE  /\ pc' = "idle" /\ ctx' = NoContext
           /\ \/ authority' = p /\ quotes' = kept
              \/ authority' = Unknown /\ quotes' = NoQuotes
BY DEF Conclude, Release, Goto, Forget

\* Quotes may go, but none appears or changes its version.
QuotesKept ==
    \A o \in Owners : quotes'[o] # None => quotes[o] # None /\ quotes'[o].version = quotes[o].version

\* Nothing new is held.
LEMMA HeldStays ==
    ASSUME Held, QuotesKept,
           \/ authority' = authority /\ evidence' = evidence /\ known' = known
           \/ authority' = Unknown
    PROVE  Held'
BY UnknownIsProof DEF Held, QuotesKept

\* A request is over.
LEMMA AtIdle ==
    ASSUME Typed', Held', pc' = "idle"
    PROVE  Inv'
BY DEF Inv, Captured, Unheld, Pending, Silent

\* A step that touches none of what the invariant is about.
LEMMA Elsewhere ==
    ASSUME Inv, UNCHANGED <<pc, ctx, authority, quotes, evidence, known>>,
           (generation \in Nat /\ waiting \in Nat /\ versions \in Nat)',
           (basket \in [intent : Intents, version : Nat] \cup {None})'
    PROVE  Inv'
<1>1. Typed'
  BY DEF Inv, Typed
<1>2. Held' /\ Captured'
  BY DEF Inv, Held, Captured
<1>3. Unheld' /\ Pending'
  BY DEF Inv, Unheld, Pending, OnBasket
<1> QED
  BY <1>1, <1>2, <1>3 DEF Inv

(***************************************************************************)
(* Setup, and what goes on around a request.                               *)
(***************************************************************************)
LEMMA InitHolds == ASSUME Init PROVE Inv
<1>1. Typed
  <2>1. ctx \in Contexts
    BY NoContextIsContext DEF Init
  <2>2. quotes \in [Owners -> Quotes \cup {None}]
    BY NothingQuoted DEF Init
  <2>3. authority \in Proofs /\ evidence \in Proofs /\ known \in Proofs
    BY UnknownIsProof DEF Init
  <2> QED
    BY <2>1, <2>2, <2>3 DEF Init, Typed
<1>2. Held
  BY UnknownIsProof DEF Init, Held
<1>3. Captured /\ Unheld /\ Pending
  BY DEF Init, Captured, Unheld, Pending
<1> QED
  BY <1>1, <1>2, <1>3 DEF Inv

LEMMA AroundPreserves ==
    ASSUME Inv, Admit \/ Expire \/ ChangeElsewhere \/ Attest \/ Disable
    PROVE  Inv'
<1>1. UNCHANGED <<pc, ctx, authority, quotes, evidence, known>>
  BY DEF Admit, Expire, ChangeElsewhere, Attest, Disable, facadeVars, storeVars, providerVars
<1>2. generation' \in Nat /\ waiting' \in Nat
  BY DEF Inv, Typed, Admit, Expire, ChangeElsewhere, Attest, Disable, managerVars, flowVars
<1>3. versions' \in Nat /\ basket' \in [intent : Intents, version : Nat] \cup {None}
  <2>1. CASE ChangeElsewhere
    BY <2>1 DEF Inv, Typed, ChangeElsewhere
  <2>2. CASE Admit \/ Expire \/ Attest \/ Disable
    BY <2>2 DEF Inv, Typed, Admit, Expire, Attest, Disable, providerVars
  <2> QED
    BY <2>1, <2>2
<1> QED
  BY <1>1, <1>2, <1>3, Elsewhere

LEMMA SetupPreserves ==
    ASSUME Inv, Start \/ LoadEvidence \/ Initialize
    PROVE  Inv'
<1>1. /\ authority = Unknown /\ authority' = Unknown /\ quotes' = quotes /\ known' = known
      /\ pc' \in {"load", "begin", "idle"} /\ ctx' = NoContext
      /\ evidence' \in Proofs
  BY UnknownIsProof
     DEF Inv, Typed, Unheld, Silent, Start, LoadEvidence, Initialize, Save, Goto, Release,
         facadeVars, storeVars, providerVars, WriteResults
<1>2. generation' \in Nat /\ waiting' \in Nat /\ versions' \in Nat
  BY DEF Inv, Typed, Start, LoadEvidence, Initialize, managerVars, flowVars, providerVars
<1>3. basket' = basket
  BY DEF Start, LoadEvidence, Initialize, providerVars
<1>4. Typed'
  BY <1>1, <1>2, <1>3, NoContextIsContext, UnknownIsProof DEF Inv, Typed
<1>5. Held'
  BY <1>1, UnknownIsProof DEF Held
<1>6. Captured' /\ Unheld' /\ Pending'
  BY <1>1 DEF Captured, Unheld, Pending
<1> QED
  BY <1>4, <1>5, <1>6 DEF Inv

LEMMA EndPreserves == ASSUME Inv, End PROVE Inv'
<1>1. /\ authority' = Unknown /\ quotes' = NoQuotes /\ known' = Unknown
      /\ pc' = "down" /\ ctx' = NoContext /\ waiting' = 0
      /\ UNCHANGED <<generation, evidence, basket, versions>>
  BY DEF End, Forget, Goto
<1>2. Typed'
  BY <1>1, NoContextIsContext, UnknownIsProof, NothingQuoted DEF Inv, Typed
<1>3. Held'
  BY <1>1, UnknownIsProof DEF Held
<1>4. Captured' /\ Unheld' /\ Pending'
  BY <1>1 DEF Captured, Unheld, Pending
<1> QED
  BY <1>2, <1>3, <1>4 DEF Inv

LEMMA InvalidatePreserves == ASSUME Inv, Invalidate \/ Invalidated PROVE Inv'
<1>1. /\ authority' = Unknown
      /\ quotes' = quotes \/ quotes' = NoQuotes
      /\ pc' \in {"invalidate", "idle"} /\ ctx' = NoContext
      /\ evidence' \in Proofs
      /\ UNCHANGED <<generation, waiting, basket, versions, known>>
  BY UnknownIsProof
     DEF Inv, Typed, Unheld, Silent, Invalidate, Invalidated, Save, Forget, Goto, Release,
         StepKept, managerVars, flowVars, facadeVars, storeVars, providerVars
<1>2. Typed'
  BY <1>1, NoContextIsContext, UnknownIsProof, NothingQuoted DEF Inv, Typed
<1>3. Held'
  BY <1>1, UnknownIsProof DEF Held
<1>4. Captured' /\ Unheld' /\ Pending'
  BY <1>1 DEF Captured, Unheld, Pending
<1> QED
  BY <1>2, <1>3, <1>4 DEF Inv

(***************************************************************************)
(* Requests, up to their first await.                                      *)
(***************************************************************************)
LEMMA RequestTyped ==
    ASSUME Inv, Granted, OthersKept,
           authority' \in Proofs, quotes' \in [Owners -> Quotes \cup {None}], ctx' \in Contexts
    PROVE  Typed'
BY DEF Inv, Typed, Granted, OthersKept, managerVars, storeVars, providerVars

\* With nothing held a request may go on to any step that does not rely on proof.
LEMMA NothingHeld ==
    ASSUME Typed', authority' = Unknown, quotes' = NoQuotes \/ ctx'.then # "discover",
           pc' \in {"unknown", "invalidate", "finalize", "idle"}
    PROVE  Inv'
<1>1. Held'
  BY UnknownIsProof DEF Held
<1>2. Captured' /\ Unheld' /\ Pending'
  BY DEF Captured, Unheld, Pending
<1> QED
  BY <1>1, <1>2 DEF Inv

LEMMA DenyPreserves == ASSUME Inv, Deny PROVE Inv'
<1>1. /\ authority' = authority \/ authority' = Unknown
      /\ pc' = "idle" /\ ctx' = ctx /\ quotes' = quotes
      /\ evidence' = evidence /\ known' = known
  BY DEF Deny, Granted, OthersKept, storeVars, providerVars
<1>2. Typed'
  BY <1>1, RequestTyped, UnknownIsProof DEF Inv, Typed, Deny
<1>3. Held'
  BY <1>1, HeldStays DEF Inv, QuotesKept
<1> QED
  BY <1>1, <1>2, <1>3, AtIdle

LEMMA ForgettingPreserves ==
    ASSUME Inv, Browse \/ Adopt \/ Mismatch
    PROVE  Inv'
<1>1. Typed /\ Granted /\ OthersKept
  BY DEF Inv, Browse, Adopt, Mismatch
<1>2. CASE Browse
  <2>1. authority' = Unknown /\ quotes' = NoQuotes
    BY <1>2 DEF Browse, Forget
  <2>2. pc' = "unknown" /\ ctx' \in Contexts
    BY <1>1, <1>2, Taken, UnknownIsProof DEF Browse, Operations, Continuations
  <2>3. Typed'
    BY <1>1, <2>1, <2>2, RequestTyped, UnknownIsProof, NothingQuoted
  <2> QED
    BY <2>1, <2>2, <2>3, NothingHeld
<1>3. CASE Adopt
  <2>1. authority' = Unknown /\ quotes' = NoQuotes
    BY <1>3 DEF Adopt, Forget
  <2>2. pc' = "unknown" /\ ctx' \in Contexts
    BY <1>1, <1>3, Taken, UnknownIsProof DEF Adopt, Operations, Continuations
  <2>3. Typed'
    BY <1>1, <2>1, <2>2, RequestTyped, UnknownIsProof, NothingQuoted
  <2> QED
    BY <2>1, <2>2, <2>3, NothingHeld
<1>4. CASE Mismatch
  <2>1. authority' = Unknown /\ quotes' = quotes
    BY <1>4 DEF Mismatch
  <2>2. pc' = "unknown" /\ ctx' \in Contexts /\ ctx'.then = "raise"
    BY <1>1, <1>4, Taken, UnknownIsProof DEF Mismatch, Operations, Continuations
  <2>3. Typed'
    BY <1>1, <2>1, <2>2, RequestTyped, UnknownIsProof DEF Typed
  <2> QED
    BY <2>1, <2>2, <2>3, NothingHeld
<1> QED
  BY <1>2, <1>3, <1>4

LEMMA ReadBasketPreserves == ASSUME Inv, ReadBasket PROVE Inv'
<1>1. /\ pc' = "idle" /\ ctx' = NoContext
      /\ \/ authority' = authority /\ quotes' = quotes
         \/ authority' = Unknown /\ quotes' = NoQuotes
  BY ConcludeEffect DEF ReadBasket
<1>2. Typed'
  BY <1>1, RequestTyped, UnknownIsProof, NothingQuoted, NoContextIsContext
     DEF Inv, Typed, ReadBasket
<1>3. evidence' = evidence /\ known' = known
  BY DEF ReadBasket, OthersKept, storeVars, providerVars
<1>4. Held'
  BY <1>1, <1>3, HeldStays, NothingQuoted DEF Inv, QuotesKept
<1> QED
  BY <1>1, <1>2, <1>4, AtIdle

\* Proof that is active is of the request's generation, and is held.
LEMMA ActiveIsHeld ==
    ASSUME Inv, Active(waiting)
    PROVE  /\ authority.mode # "UNKNOWN" /\ authority.generation = waiting
           /\ evidence = authority /\ known = authority
BY DEF Inv, Held, Active

\* A request that keeps the proof, and at most gives up quotes.
LEMMA ProofStays ==
    ASSUME Inv, OthersKept, Granted, authority' = authority, QuotesKept,
           quotes' \in [Owners -> Quotes \cup {None}], ctx' \in Contexts
    PROVE  Typed' /\ Held'
<1>1. authority' \in Proofs
  BY DEF Inv, Typed
<1>2. Typed'
  BY <1>1, RequestTyped
<1>3. evidence' = evidence /\ known' = known
  BY DEF OthersKept, storeVars, providerVars
<1>4. Held'
  BY <1>3, HeldStays DEF Inv
<1> QED
  BY <1>2, <1>4

\* A mutation captures the active proof it goes on.
LEMMA CapturePreserves ==
    ASSUME Inv, Granted, Active(waiting), OthersKept, authority' = authority, QuotesKept,
           quotes' \in [Owners -> Quotes \cup {None}],
           NEW op \in {"set", "clear", "quote"}, NEW o \in Owners \cup {None},
           op = "quote" => o \in Owners,
           NEW i \in Intents \cup {None}, op = "set" => i \in Intents,
           Take(op, o, i, authority, "mutate", "raise"),
           authority.mode = "ABSENT_VERIFIED" => op = "set" /\ authority.intent = i
    PROVE  Inv'
<1>1. Typed /\ authority \in Proofs
  BY DEF Inv, Typed
<1>2. /\ pc' = "mutate" /\ ctx' \in Contexts
      /\ ctx'.op = op /\ ctx'.owner = o /\ ctx'.generation = waiting
      /\ ctx'.intent = i /\ ctx'.proof = authority
  BY <1>1, Taken DEF Operations, Continuations
<1>3. Typed' /\ Held'
  BY <1>2, ProofStays
<1>4. /\ authority.mode # "UNKNOWN" /\ authority.generation = waiting
      /\ evidence = authority /\ known = authority
  BY ActiveIsHeld
<1>5. evidence' = evidence /\ known' = known
  BY DEF OthersKept, storeVars, providerVars
<1>6. Captured'
  BY <1>2, <1>4, <1>5 DEF Captured
<1>7. Unheld' /\ Pending'
  BY <1>2 DEF Unheld, Pending, Silent
<1> QED
  BY <1>3, <1>6, <1>7 DEF Inv

\* A request that goes on to read, and relies on nothing it captured.
LEMMA ReadingPreserves ==
    ASSUME Inv, Granted, OthersKept, UNCHANGED <<authority, quotes>>,
           ctx' \in Contexts, pc' = "answer"
    PROVE  Inv'
<1>1. QuotesKept /\ quotes' \in [Owners -> Quotes \cup {None}]
  BY DEF QuotesKept, Inv, Typed
<1>2. Typed' /\ Held'
  BY <1>1, ProofStays
<1>3. Captured' /\ Unheld' /\ Pending'
  BY DEF Captured, Unheld, Pending, Silent
<1> QED
  BY <1>2, <1>3 DEF Inv

LEMMA ReadPaymentsPreserves == ASSUME Inv, ReadPayments PROVE Inv'
<1>1. pc' = "answer" /\ ctx' \in Contexts
  BY Taken, UnknownIsProof DEF Inv, ReadPayments, Operations, Continuations
<1> QED
  BY <1>1, ReadingPreserves DEF ReadPayments

LEMMA SetBasketPreserves == ASSUME Inv, SetBasket PROVE Inv'
<1>1. /\ Granted /\ Active(waiting) /\ OthersKept /\ authority' = authority
      /\ quotes' = quotes
  BY DEF SetBasket
<1>2. QuotesKept /\ quotes' \in [Owners -> Quotes \cup {None}]
  BY <1>1 DEF QuotesKept, Inv, Typed
<1>3. PICK i \in Intents :
         \/ /\ authority.mode = "ABSENT_VERIFIED" /\ i = authority.intent
            /\ Take("set", None, i, authority, "mutate", "raise")
         \/ /\ authority.mode = "ADOPTED" /\ i # authority.intent
            /\ Take("set", None, i, authority, "mutate", "raise")
         \/ /\ authority.mode = "ADOPTED" /\ i = authority.intent
            /\ Take("set", None, i, authority, "answer", "raise")
  BY DEF SetBasket
<1>4. CASE /\ authority.mode = "ABSENT_VERIFIED" => i = authority.intent
           /\ Take("set", None, i, authority, "mutate", "raise")
  BY <1>1, <1>2, <1>4, CapturePreserves
<1>5. CASE Take("set", None, i, authority, "answer", "raise")
  <2>1. pc' = "answer" /\ ctx' \in Contexts
    BY <1>5, Taken DEF Inv, Typed, Operations, Continuations
  <2> QED
    BY <1>1, <2>1, ReadingPreserves
<1> QED
  BY <1>3, <1>4, <1>5

LEMMA ClearBasketPreserves == ASSUME Inv, ClearBasket PROVE Inv'
<1>1. QuotesKept /\ quotes' \in [Owners -> Quotes \cup {None}]
  BY DEF QuotesKept, Inv, Typed, ClearBasket
<1> QED
  BY <1>1, CapturePreserves DEF ClearBasket, Adopted

LEMMA CreateQuotePreserves == ASSUME Inv, CreateQuote PROVE Inv'
<1>1. PICK o \in Owners :
         /\ Take("quote", o, authority.intent, authority, "mutate", "raise")
         /\ quotes' = [quotes EXCEPT ![o] = None]
  BY DEF CreateQuote
<1>2. QuotesKept /\ quotes' \in [Owners -> Quotes \cup {None}]
  BY <1>1 DEF QuotesKept, Inv, Typed
<1>3. authority.intent \in Intents \cup {None}
  BY DEF Inv, Typed, Proofs
<1> QED
  BY <1>1, <1>2, <1>3, CapturePreserves DEF CreateQuote, Adopted

LEMMA PreparePreserves == ASSUME Inv, Prepare PROVE Inv'
<1>1. PICK o \in Owners :
         /\ quotes[o] # None
         /\ Take("prepare", o, None, authority, "confirm", "raise")
  BY DEF Prepare
<1>2. Granted /\ OthersKept /\ authority' = authority /\ quotes' = quotes
  BY DEF Prepare
<1>3. QuotesKept /\ quotes' \in [Owners -> Quotes \cup {None}]
  BY <1>2 DEF QuotesKept, Inv, Typed
<1>4. pc' = "confirm" /\ ctx' \in Contexts /\ ctx'.owner = o
  BY <1>1, Taken DEF Inv, Typed, Operations, Continuations
<1>5. Typed' /\ Held'
  BY <1>2, <1>3, <1>4, ProofStays
<1>6. Captured' /\ Unheld' /\ Pending'
  BY <1>1, <1>2, <1>4 DEF Captured, Unheld, Pending, Silent
<1> QED
  BY <1>5, <1>6 DEF Inv

\* The quote that is consumed is of the version that is held, which the provider showed.
LEMMA ConsumeIsOfKnown ==
    ASSUME Inv, NEW o \in Owners, quotes[o] # None, Adopted(waiting)
    PROVE  /\ quotes[o].version = authority.version
           /\ known = Proof("ADOPTED", waiting, authority.intent, quotes[o].version)
           /\ known \in Proofs
<1>1. /\ authority.mode = "ADOPTED" /\ authority.generation = waiting
      /\ known = authority
  BY ActiveIsHeld DEF Adopted
<1>2. quotes[o].version = authority.version
  BY <1>1 DEF Inv, Held
<1>3. authority \in Proofs
  BY DEF Inv, Typed
<1>4. authority = Proof("ADOPTED", waiting, authority.intent, authority.version)
  BY <1>1, <1>3 DEF Proofs, Proof
<1> QED
  BY <1>1, <1>2, <1>3, <1>4

LEMMA ConsumePreserves == ASSUME Inv, Consume PROVE Inv'
<1>1. /\ Granted /\ OthersKept /\ Adopted(waiting) /\ authority' = authority
      /\ Typed
  BY DEF Consume, Inv
<1>2. PICK o \in Owners :
         /\ quotes[o] # None
         /\ \/ /\ quotes' = [quotes EXCEPT ![o] = None]
               /\ Take("final", o, None,
                       Proof("ADOPTED", waiting, authority.intent, quotes[o].version),
                       "final", "raise")
            \/ /\ quotes' = [quotes EXCEPT ![o].confirmation = "gone"]
               /\ UNCHANGED <<pc, ctx>>
  BY DEF Consume
<1>3. QuotesKept /\ quotes' \in [Owners -> Quotes \cup {None}]
  BY <1>1, <1>2 DEF QuotesKept, Typed, Quotes
<1>4. CASE /\ Take("final", o, None,
                   Proof("ADOPTED", waiting, authority.intent, quotes[o].version),
                   "final", "raise")
  <2>1. Proof("ADOPTED", waiting, authority.intent, quotes[o].version) \in Proofs
    BY <1>1, <1>2, ConsumeIsOfKnown
  <2>2. pc' = "final" /\ ctx' \in Contexts
    BY <1>1, <1>4, <2>1, Taken DEF Operations, Continuations
  <2>3. Typed' /\ Held'
    BY <1>1, <1>3, <2>2, ProofStays
  <2>4. Captured' /\ Unheld' /\ Pending'
    BY <2>2 DEF Captured, Unheld, Pending, Silent
  <2> QED
    BY <2>3, <2>4 DEF Inv
<1>5. CASE UNCHANGED <<pc, ctx>>
  <2>1. pc' = "idle" /\ ctx' \in Contexts
    BY <1>1, <1>5 DEF Granted, Typed
  <2>2. Typed' /\ Held'
    BY <1>1, <1>3, <2>1, ProofStays
  <2> QED
    BY <2>1, <2>2, AtIdle
<1> QED
  BY <1>2, <1>4, <1>5

(***************************************************************************)
(* The awaited steps.                                                      *)
(***************************************************************************)
LEMMA StepTyped ==
    ASSUME Inv, UNCHANGED <<generation, waiting>>,
           authority' \in Proofs, quotes' \in [Owners -> Quotes \cup {None}],
           ctx' \in Contexts, evidence' \in Proofs, known' \in Proofs,
           (versions \in Nat)', (basket \in [intent : Intents, version : Nat] \cup {None})'
    PROVE  Typed'
BY DEF Inv, Typed

LEMMA StepKeeps ==
    ASSUME StepKept
    PROVE  UNCHANGED <<generation, waiting>>
BY DEF StepKept, managerVars, flowVars

LEMMA ProviderKept ==
    ASSUME Inv, UNCHANGED providerVars
    PROVE  /\ known' = known /\ known' \in Proofs /\ versions' \in Nat
           /\ basket' \in [intent : Intents, version : Nat] \cup {None}
BY DEF Inv, Typed, providerVars

LEMMA SaveEffect ==
    ASSUME Inv, NEW p \in Proofs, NEW r, Save(p, r)
    PROVE  /\ evidence' \in Proofs
           /\ r = "ok" => evidence' = p
BY DEF Inv, Typed, Save

\* A request ends, or goes on, with nothing new held.
LEMMA EndsUnheld ==
    ASSUME Inv, Typed', authority = Unknown, pc' = "idle" /\ ctx' = NoContext,
           authority' \in {authority, Unknown}
    PROVE  Inv'
<1>1. Held'
  BY UnknownIsProof DEF Held
<1> QED
  BY <1>1, AtIdle

LEMMA RecordUnknownPreserves == ASSUME Inv, RecordUnknown PROVE Inv'
<1>1. authority = Unknown /\ pc = "unknown"
  BY DEF RecordUnknown, Inv, Unheld, Silent
<1>2. PICK r \in SaveResults :
         /\ Save(Unknown, r)
         /\ CASE r = "ok" /\ ctx.then = "cleared" ->
                    Conclude(ctx.generation, authority, NoQuotes)
              [] r = "ok" /\ ctx.then \in FlowSteps ->
                    Goto(ctx.then, ctx) /\ UNCHANGED <<authority, quotes>>
              [] r = "cancelled" /\ ctx.then = "cleared" ->
                    /\ Goto("finalize", [ctx EXCEPT !.kept = TRUE])
                    /\ UNCHANGED <<authority, quotes>>
              [] OTHER -> Release /\ UNCHANGED <<authority, quotes>>
  BY DEF RecordUnknown
<1>3. UNCHANGED <<generation, waiting>> /\ UNCHANGED providerVars
  BY StepKeeps DEF RecordUnknown
<1>4. evidence' \in Proofs
  BY <1>2, SaveEffect, UnknownIsProof
<1>5. ctx.then \in Continuations /\ quotes \in [Owners -> Quotes \cup {None}]
      /\ ctx \in Contexts
  BY DEF Inv, Typed, Contexts
<1>6. \/ Conclude(ctx.generation, authority, NoQuotes)
      \/ /\ ctx.then \in {"answer", "discover"}
         /\ Goto(ctx.then, ctx) /\ UNCHANGED <<authority, quotes>>
      \/ /\ Goto("finalize", [ctx EXCEPT !.kept = TRUE])
         /\ UNCHANGED <<authority, quotes>>
      \/ Release /\ UNCHANGED <<authority, quotes>>
  BY <1>2, <1>5 DEF Continuations, FlowSteps
<1>7. CASE Conclude(ctx.generation, authority, NoQuotes)
  <2>1. pc' = "idle" /\ ctx' = NoContext /\ authority' = Unknown /\ quotes' = NoQuotes
    BY <1>1, <1>7, ConcludeEffect
  <2>2. Typed'
    BY <1>3, <1>4, <2>1, StepTyped, ProviderKept, NothingQuoted, NoContextIsContext,
       UnknownIsProof
  <2> QED
    BY <1>1, <2>1, <2>2, EndsUnheld
<1>8. CASE Release /\ UNCHANGED <<authority, quotes>>
  <2>1. pc' = "idle" /\ ctx' = NoContext
    BY <1>8 DEF Release, Goto
  <2>2. Typed'
    BY <1>1, <1>3, <1>4, <1>5, <1>8, <2>1, StepTyped, ProviderKept, NoContextIsContext,
       UnknownIsProof
  <2> QED
    BY <1>1, <1>8, <2>1, <2>2, EndsUnheld
<1>9. CASE /\ Goto("finalize", [ctx EXCEPT !.kept = TRUE])
           /\ UNCHANGED <<authority, quotes>>
  <2>1. pc' = "finalize" /\ ctx' = [ctx EXCEPT !.kept = TRUE]
    BY <1>9 DEF Goto
  <2>2. ctx' \in Contexts
    BY <1>5, <2>1 DEF Contexts
  <2>3. Typed'
    BY <1>1, <1>3, <1>4, <1>5, <1>9, <2>2, StepTyped, ProviderKept, UnknownIsProof
  <2>4. Held' /\ Captured' /\ Unheld' /\ Pending'
    BY <1>1, <1>9, <2>1, UnknownIsProof DEF Held, Captured, Unheld, Pending
  <2> QED
    BY <2>3, <2>4 DEF Inv
<1>10. CASE /\ ctx.then \in {"answer", "discover"}
            /\ Goto(ctx.then, ctx) /\ UNCHANGED <<authority, quotes>>
  <2>1. pc' = ctx.then /\ ctx' = ctx
    BY <1>10 DEF Goto
  <2>2. Typed'
    BY <1>1, <1>3, <1>4, <1>5, <1>10, <2>1, StepTyped, ProviderKept, UnknownIsProof
  <2>3. ctx.then = "discover" => quotes' = NoQuotes
    BY <1>1, <1>10 DEF Inv, Unheld
  <2>4. Held' /\ Captured' /\ Unheld' /\ Pending'
    BY <1>1, <1>10, <2>1, <2>3, UnknownIsProof DEF Held, Captured, Unheld, Pending
  <2> QED
    BY <2>2, <2>4 DEF Inv
<1> QED
  BY <1>6, <1>7, <1>8, <1>9, <1>10

\* Answers, and quotes that are installed or confirmed, end the request: the proof is
\* kept, or everything is forgotten; a quote that appears is of the version held.
LEMMA ConcludingPreserves ==
    ASSUME Inv, StepKept, UNCHANGED <<storeVars, providerVars>>,
           NEW kept \in [Owners -> Quotes \cup {None}],
           authority.mode # "UNKNOWN" =>
               \A o \in Owners : kept[o] # None => kept[o].version = authority.version,
           \/ Conclude(ctx.generation, authority, kept)
           \/ Release /\ authority' = authority /\ quotes' = kept
    PROVE  Inv'
<1>1. /\ pc' = "idle" /\ ctx' = NoContext
      /\ \/ authority' = authority /\ quotes' = kept
         \/ authority' = Unknown /\ quotes' = NoQuotes
  BY ConcludeEffect DEF Release, Goto
<1>2. authority \in Proofs /\ evidence \in Proofs
  BY DEF Inv, Typed
<1>3. evidence' = evidence
  BY DEF storeVars
<1>4. UNCHANGED <<generation, waiting>>
  BY StepKeeps
<1>5. Typed'
  BY <1>1, <1>2, <1>3, <1>4, StepTyped, ProviderKept, NoContextIsContext, NothingQuoted,
     UnknownIsProof
<1>6. known' = known
  BY ProviderKept
<1>7. Held'
  BY <1>1, <1>3, <1>6, UnknownIsProof DEF Inv, Held
<1> QED
  BY <1>1, <1>5, <1>7, AtIdle

LEMMA AnswerPreserves == ASSUME Inv, Answer PROVE Inv'
<1>1. /\ StepKept /\ UNCHANGED <<storeVars, providerVars>>
      /\ \/ Conclude(ctx.generation, authority, quotes)
         \/ Release /\ authority' = authority /\ quotes' = quotes
  BY DEF Answer
<1>2. quotes \in [Owners -> Quotes \cup {None}]
  BY DEF Inv, Typed
<1>3. authority.mode # "UNKNOWN" =>
         \A o \in Owners : quotes[o] # None => quotes[o].version = authority.version
  BY DEF Inv, Held
<1> QED
  BY <1>1, <1>2, <1>3, ConcludingPreserves

\* Nothing is held while the provider is asked, so whatever it says replaces nothing.
LEMMA DiscoverPreserves == ASSUME Inv, Discover PROVE Inv'
<1>1. /\ authority = Unknown /\ quotes = NoQuotes /\ authority' = authority
      /\ quotes' = quotes /\ evidence' = evidence /\ basket' = basket
      /\ versions' = versions /\ ctx \in Contexts
      /\ UNCHANGED <<generation, waiting>>
  BY StepKeeps DEF Inv, Typed, Unheld, Silent, Discover, storeVars
<1>2. CASE Release /\ UNCHANGED known
  <2>1. pc' = "idle" /\ ctx' = NoContext
    BY <1>2 DEF Release, Goto
  <2>2. Typed'
    BY <1>1, <1>2, <2>1, NoContextIsContext DEF Inv, Typed
  <2> QED
    BY <1>1, <2>1, <2>2, EndsUnheld
<1>3. CASE \E mode \in Modes \ {"UNKNOWN"} :
              /\ mode = "ABSENT_VERIFIED" => basket = None
              /\ mode = "ADOPTED" => basket # None /\ basket.intent = ctx.intent
              /\ LET seen == CASE mode = "ABSENT_VERIFIED" ->
                                    Proof(mode, ctx.generation, ctx.intent, 0)
                               [] mode = "ADOPTED" ->
                                    Proof(mode, ctx.generation, ctx.intent, basket.version)
                               [] mode = "CONFLICT" -> Proof(mode, ctx.generation, None, 0)
                 IN  /\ known' = seen
                     /\ Goto("publish", [ctx EXCEPT !.proof = seen])
  <2>1. PICK seen \in Proofs : known' = seen /\ Goto("publish", [ctx EXCEPT !.proof = seen])
    <3>1. PICK mode \in Modes \ {"UNKNOWN"} :
             /\ mode = "ADOPTED" => basket # None
             /\ LET seen == CASE mode = "ABSENT_VERIFIED" ->
                                   Proof(mode, ctx.generation, ctx.intent, 0)
                              [] mode = "ADOPTED" ->
                                   Proof(mode, ctx.generation, ctx.intent, basket.version)
                              [] mode = "CONFLICT" -> Proof(mode, ctx.generation, None, 0)
                IN  /\ known' = seen
                    /\ Goto("publish", [ctx EXCEPT !.proof = seen])
      BY <1>3
    <3>2. ctx.generation \in Nat /\ ctx.intent \in Intents \cup {None}
      BY <1>1 DEF Contexts
    <3>3. basket # None => basket.version \in Nat
      BY DEF Inv, Typed
    <3>4. CASE mode = "ABSENT_VERIFIED"
      BY <3>1, <3>2, <3>4, ProofIsProof
    <3>5. CASE mode = "ADOPTED"
      BY <3>1, <3>2, <3>3, <3>5, ProofIsProof
    <3>6. CASE mode = "CONFLICT"
      BY <3>1, <3>2, <3>6, ProofIsProof
    <3> QED
      BY <3>4, <3>5, <3>6 DEF Modes
  <2>2. pc' = "publish" /\ ctx' \in Contexts /\ ctx'.proof = seen
    BY <1>1, <2>1 DEF Goto, Contexts
  <2>3. Typed'
    BY <1>1, <2>1, <2>2 DEF Inv, Typed
  <2>4. Held' /\ Captured' /\ Unheld' /\ Pending'
    BY <1>1, <2>1, <2>2, UnknownIsProof DEF Held, Captured, Unheld, Pending
  <2> QED
    BY <2>3, <2>4 DEF Inv
<1> QED
  BY <1>2, <1>3 DEF Discover

\* What is published is on file, and what the provider said.
LEMMA PublishPreserves == ASSUME Inv, Publish PROVE Inv'
<1>1. /\ authority = Unknown /\ quotes = NoQuotes /\ known = ctx.proof
      /\ ctx \in Contexts /\ ctx.proof \in Proofs
  BY DEF Inv, Typed, Unheld, Silent, Pending, Publish, Contexts
<1>2. UNCHANGED <<generation, waiting>> /\ UNCHANGED providerVars
  BY DEF Publish, managerVars, flowVars
<1>3. PICK r \in SaveResults :
         /\ Save(ctx.proof, r)
         /\ \/ /\ r = "ok"
               /\ Conclude(ctx.generation, ctx.proof,
                           IF ctx.op = "adopt" /\ ctx.proof.mode = "ADOPTED"
                           THEN quotes ELSE NoQuotes)
            \/ /\ r # "ok"
               /\ authority' = Unknown
               /\ IF r = "cancelled" /\ ctx.op = "set"
                  THEN Goto("finalize", [ctx EXCEPT !.kept = TRUE])
                  ELSE Release
               /\ UNCHANGED quotes
  BY DEF Publish
<1>4. evidence' \in Proofs /\ (r = "ok" => evidence' = ctx.proof)
  BY <1>1, <1>3, SaveEffect
<1>5. CASE r = "ok"
  <2>1. Conclude(ctx.generation, ctx.proof, NoQuotes)
    BY <1>1, <1>3, <1>5
  <2>2. /\ pc' = "idle" /\ ctx' = NoContext /\ quotes' = NoQuotes
        /\ authority' = ctx.proof \/ authority' = Unknown
    BY <2>1, ConcludeEffect
  <2>3. Typed'
    BY <1>1, <1>2, <1>4, <2>2, StepTyped, ProviderKept, NoContextIsContext, NothingQuoted,
       UnknownIsProof
  <2>4. known' = known
    BY <1>2, ProviderKept
  <2>5. Held'
    BY <1>1, <1>4, <1>5, <2>2, <2>4, NothingQuoted, UnknownIsProof DEF Held
  <2> QED
    BY <2>2, <2>3, <2>5, AtIdle
<1>6. CASE r # "ok"
  <2>1. /\ authority' = Unknown /\ quotes' = quotes
        /\ \/ Goto("finalize", [ctx EXCEPT !.kept = TRUE])
           \/ Release
    BY <1>3, <1>6
  <2>2. pc' \in {"finalize", "idle"} /\ ctx' \in Contexts
    BY <1>1, <2>1, NoContextIsContext DEF Release, Goto, Contexts
  <2>3. Typed'
    BY <1>1, <1>2, <1>4, <2>1, <2>2, StepTyped, ProviderKept, NothingQuoted, UnknownIsProof
  <2>4. Held' /\ Captured' /\ Unheld' /\ Pending'
    BY <1>1, <2>1, <2>2, UnknownIsProof DEF Held, Captured, Unheld, Pending
  <2> QED
    BY <2>3, <2>4 DEF Inv
<1> QED
  BY <1>5, <1>6

LEMMA AcquireAndCallPreserves == ASSUME Inv, AcquireAndCall PROVE Inv'
<1>1. /\ ctx.op \in {"set", "clear", "quote"} /\ ctx \in Contexts
      /\ UNCHANGED <<generation, waiting, evidence, known, basket, versions>>
      /\ Typed
  BY DEF Inv, Typed, Captured, AcquireAndCall, StepKept, managerVars, flowVars, storeVars,
         providerVars
<1>2. CASE /\ Goto("out", ctx)
           /\ IF OnBasket THEN Forget ELSE quotes' = NoQuotes /\ UNCHANGED authority
  <2>1. /\ pc' = "out" /\ ctx' = ctx /\ quotes' = NoQuotes
        /\ authority' = IF OnBasket THEN Unknown ELSE authority
    BY <1>2 DEF Goto, Forget
  <2>2. Typed'
    BY <1>1, <2>1, NothingQuoted, UnknownIsProof DEF Typed
  <2>3. Held'
    BY <1>1, <2>1, HeldStays, NothingQuoted DEF Inv, QuotesKept
  <2>4. Captured'
    BY <1>1, <2>1 DEF Inv, Captured, AcquireAndCall
  <2>5. Unheld' /\ Pending'
    BY <2>1 DEF Unheld, Pending, Silent, OnBasket
  <2> QED
    BY <2>2, <2>3, <2>4, <2>5 DEF Inv
<1>3. CASE /\ IF OnBasket
              THEN Goto("finalize", ctx) /\ authority' = Unknown
              ELSE Release /\ UNCHANGED authority
           /\ UNCHANGED quotes
  <2>1. /\ quotes' = quotes
        /\ \/ pc' = "finalize" /\ ctx' = ctx /\ authority' = Unknown
           \/ pc' = "idle" /\ ctx' = NoContext /\ authority' = authority
    BY <1>3 DEF Goto, Release
  <2>2. Typed'
    BY <1>1, <2>1, NoContextIsContext, UnknownIsProof DEF Typed
  <2>3. Held'
    BY <1>1, <2>1, HeldStays DEF Inv, QuotesKept
  <2>4. Captured' /\ Unheld' /\ Pending'
    BY <2>1 DEF Captured, Unheld, Pending, Silent
  <2> QED
    BY <2>2, <2>3, <2>4 DEF Inv
<1> QED
  BY <1>2, <1>3 DEF AcquireAndCall

\* What the mutation makes of the basket.
LEMMA ExecutedTyped ==
    ASSUME Inv, pc = "out", Executed \/ UNCHANGED <<basket, versions>>
    PROVE  versions' \in Nat /\ basket' \in [intent : Intents, version : Nat] \cup {None}
<1>1. /\ ctx.op \in {"set", "clear", "quote"}
      /\ ctx.op = "set" => ctx.intent \in Intents
  BY DEF Inv, Captured
<1>2. versions \in Nat /\ basket \in [intent : Intents, version : Nat] \cup {None}
  BY DEF Inv, Typed
<1>3. CASE Executed /\ ctx.op = "set"
  <2>1. versions' = versions + 1 /\ basket' = [intent |-> ctx.intent, version |-> versions + 1]
    BY <1>3 DEF Executed
  <2> QED
    BY <1>1, <1>2, <1>3, <2>1
<1>4. CASE Executed /\ ctx.op = "clear"
  <2>1. versions' = versions /\ basket' = None
    BY <1>4 DEF Executed
  <2> QED
    BY <1>2, <2>1
<1>5. CASE Executed /\ ctx.op = "quote"
  <2>1. versions' = versions /\ basket' = basket
    BY <1>5 DEF Executed
  <2> QED
    BY <1>2, <2>1
<1> QED
  BY <1>1, <1>2, <1>3, <1>4, <1>5

LEMMA SucceedPreserves == ASSUME Inv, Succeed PROVE Inv'
<1>1. /\ pc = "out" /\ ctx.op \in {"set", "clear", "quote"} /\ ctx \in Contexts
      /\ quotes = NoQuotes /\ (OnBasket => authority = Unknown)
      /\ authority' = authority /\ quotes' = quotes /\ evidence' = evidence
      /\ UNCHANGED <<generation, waiting>>
  BY StepKeeps DEF Inv, Typed, Captured, Unheld, Succeed, storeVars
<1>2. versions' \in Nat /\ basket' \in [intent : Intents, version : Nat] \cup {None}
  BY <1>1, ExecutedTyped DEF Succeed
<1>3. CASE ctx.op = "set"
  <2>1. PICK made \in Proofs : known' = made /\ Goto("publish", [ctx EXCEPT !.proof = made])
    <3>1. /\ known' = Proof("ADOPTED", ctx.generation, ctx.intent, versions + 1)
          /\ Goto("publish", [ctx EXCEPT !.proof =
                     Proof("ADOPTED", ctx.generation, ctx.intent, versions + 1)])
      BY <1>3 DEF Succeed
    <3>2. ctx.generation \in Nat /\ ctx.intent \in Intents \cup {None} /\ versions + 1 \in Nat
      BY <1>1 DEF Inv, Typed, Contexts
    <3>3. "ADOPTED" \in Modes
      BY DEF Modes
    <3> QED
      BY <3>1, <3>2, <3>3, ProofIsProof
  <2>2. pc' = "publish" /\ ctx' \in Contexts /\ ctx'.proof = made
    BY <1>1, <2>1 DEF Goto, Contexts
  <2>3. authority = Unknown
    BY <1>1, <1>3 DEF OnBasket
  <2>4. Typed'
    BY <1>1, <1>2, <2>1, <2>2 DEF Inv, Typed
  <2>5. Held' /\ Captured' /\ Unheld' /\ Pending'
    BY <1>1, <2>1, <2>2, <2>3, UnknownIsProof DEF Held, Captured, Unheld, Pending
  <2> QED
    BY <2>4, <2>5 DEF Inv
<1>4. CASE ctx.op = "clear"
  <2>1. /\ known' = Unknown /\ pc' = "unknown" /\ ctx' = [ctx EXCEPT !.then = "cleared"]
        /\ authority = Unknown
    BY <1>1, <1>4 DEF Succeed, Goto, OnBasket
  <2>2. ctx' \in Contexts
    BY <1>1, <2>1 DEF Contexts, Continuations
  <2>3. Typed'
    BY <1>1, <1>2, <2>1, <2>2, UnknownIsProof DEF Inv, Typed
  <2> QED
    BY <1>1, <2>1, <2>3, NothingHeld
<1>5. CASE ctx.op = "quote"
  <2>1. known' = known /\ pc' = "install" /\ ctx' = ctx
    BY <1>5 DEF Succeed, Goto
  <2>2. Typed'
    BY <1>1, <1>2, <2>1 DEF Inv, Typed
  <2>3. Held'
    BY <1>1, <2>1 DEF Inv, Held
  <2>4. Captured'
    BY <1>1, <1>5, <2>1 DEF Inv, Captured
  <2>5. Unheld' /\ Pending'
    BY <2>1 DEF Unheld, Pending, Silent
  <2> QED
    BY <2>2, <2>3, <2>4, <2>5 DEF Inv
<1> QED
  BY <1>1, <1>3, <1>4, <1>5

LEMMA RejectPreserves == ASSUME Inv, Reject PROVE Inv'
<1>1. /\ pc = "out" /\ quotes = NoQuotes /\ known = ctx.proof /\ evidence = ctx.proof
      /\ quotes' = quotes /\ evidence' = evidence /\ basket' = basket
      /\ versions' = versions /\ UNCHANGED <<generation, waiting>>
      /\ pc' = "idle" /\ ctx' = NoContext
  BY StepKeeps DEF Inv, Captured, Unheld, Reject, storeVars, Release, Goto
<1>2. authority \in Proofs /\ ctx.proof \in Proofs /\ known \in Proofs
  BY DEF Inv, Typed, Contexts
<1>3. \/ authority' = Unknown /\ known' = Unknown
      \/ authority' \in {ctx.proof, authority} /\ known' = known
  BY DEF Reject
<1>4. Typed'
  BY <1>1, <1>2, <1>3, NoContextIsContext, UnknownIsProof DEF Inv, Typed
<1>5. Held'
  BY <1>1, <1>3, NothingQuoted, UnknownIsProof DEF Inv, Held
<1> QED
  BY <1>1, <1>4, <1>5, AtIdle

LEMMA LosePreserves == ASSUME Inv, Lose PROVE Inv'
<1>1. /\ pc = "out" /\ quotes' = quotes /\ evidence' = evidence /\ waiting' = waiting
      /\ generation' \in Nat
  BY DEF Inv, Typed, Lose, storeVars, flowVars
<1>2. versions' \in Nat /\ basket' \in [intent : Intents, version : Nat] \cup {None}
  BY <1>1, ExecutedTyped DEF Lose
<1>3. \/ /\ known' = Unknown /\ authority' = Unknown
         /\ pc' = "finalize" /\ ctx' = ctx
      \/ /\ known' = known /\ authority' = authority
         /\ pc' = "idle" /\ ctx' = NoContext
  BY DEF Lose, Release, Goto
<1>4. Typed'
  BY <1>1, <1>2, <1>3, NoContextIsContext, UnknownIsProof DEF Inv, Typed
<1>5. Held'
  BY <1>1, <1>3, HeldStays DEF Inv, QuotesKept
<1>6. Captured' /\ Unheld' /\ Pending'
  BY <1>3 DEF Captured, Unheld, Pending, Silent
<1> QED
  BY <1>4, <1>5, <1>6 DEF Inv

LEMMA FinalizePreserves == ASSUME Inv, Finalize PROVE Inv'
<1>1. /\ authority = Unknown /\ authority' = authority /\ quotes' = quotes
      /\ evidence' \in Proofs /\ UNCHANGED <<generation, waiting>>
      /\ UNCHANGED providerVars /\ pc' = "idle" /\ ctx' = NoContext
  BY StepKeeps, UnknownIsProof
     DEF Inv, Typed, Unheld, Silent, Finalize, Release, Goto
<1>2. Typed'
  BY <1>1, StepTyped, ProviderKept, NoContextIsContext, UnknownIsProof DEF Inv, Typed
<1> QED
  BY <1>1, <1>2, EndsUnheld

\* The quote is of the version captured before the mutation, which is the one still held.
LEMMA InstallPreserves == ASSUME Inv, Install PROVE Inv'
<1> DEFINE quote == [generation |-> ctx.generation, version |-> ctx.proof.version,
                     confirmation |-> "installed"]
           kept == [quotes EXCEPT ![ctx.owner] = quote]
<1>1. /\ ctx.owner \in Owners /\ known = ctx.proof /\ ctx \in Contexts
      /\ quotes \in [Owners -> Quotes \cup {None}]
  BY DEF Inv, Typed, Captured, Install
<1>2. quote \in Quotes
  BY <1>1 DEF Contexts, Proofs, Quotes
<1>3. kept \in [Owners -> Quotes \cup {None}]
  BY <1>1, <1>2
<1>4. authority.mode # "UNKNOWN" =>
         /\ known = authority
         /\ \A o \in Owners : quotes[o] # None => quotes[o].version = authority.version
  BY DEF Inv, Held
<1>5. authority.mode # "UNKNOWN" =>
         \A o \in Owners : kept[o] # None => kept[o].version = authority.version
  BY <1>1, <1>4
<1>6. authority.mode # "UNKNOWN" =>
         \A o \in Owners : quotes[o] # None => quotes[o].version = authority.version
  BY <1>4
<1>7. StepKept /\ UNCHANGED <<storeVars, providerVars>>
  BY DEF Install
<1>8. \/ Conclude(ctx.generation, authority, kept)
      \/ Release /\ authority' = authority /\ quotes' = quotes
  BY DEF Install
<1>9. CASE Conclude(ctx.generation, authority, kept)
  <2> HIDE DEF kept
  <2> QED
    BY <1>3, <1>5, <1>7, <1>9, ConcludingPreserves
<1>10. CASE Release /\ authority' = authority /\ quotes' = quotes
  BY <1>1, <1>6, <1>7, <1>10, ConcludingPreserves
<1> QED
  BY <1>8, <1>9, <1>10

LEMMA ConfirmPreserves == ASSUME Inv, Confirm PROVE Inv'
<1> DEFINE confirmed == [quotes EXCEPT ![ctx.owner].confirmation = "prepared"]
           lapsed == [quotes EXCEPT ![ctx.owner].confirmation = "gone"]
           closed == [quotes EXCEPT ![ctx.owner] = None]
<1>1. /\ ctx.owner \in Owners /\ quotes[ctx.owner] \in Quotes
      /\ quotes \in [Owners -> Quotes \cup {None}]
  BY DEF Inv, Typed, Pending, Confirm
<1>2. \A c \in {"prepared", "gone"} :
         /\ [quotes[ctx.owner] EXCEPT !.confirmation = c] \in Quotes
         /\ [quotes[ctx.owner] EXCEPT !.confirmation = c].version = quotes[ctx.owner].version
  BY <1>1 DEF Quotes
<1>3. PICK kept \in {quotes, confirmed, lapsed, closed} :
         \/ Conclude(ctx.generation, authority, kept)
         \/ Release /\ authority' = authority /\ quotes' = kept
  BY DEF Confirm
<1>4. /\ kept \in [Owners -> Quotes \cup {None}]
      /\ \A o \in Owners :
            kept[o] # None => quotes[o] # None /\ kept[o].version = quotes[o].version
  <2>1. CASE kept = quotes
    BY <1>1, <2>1
  <2>2. quotes[ctx.owner] # None
    BY DEF Inv, Pending, Confirm
  <2>3. ASSUME NEW c \in {"prepared", "gone"},
               kept = [quotes EXCEPT ![ctx.owner] =
                          [quotes[ctx.owner] EXCEPT !.confirmation = c]]
        PROVE  <1>4
    BY <1>1, <1>2, <2>3, <2>2
  <2>4. CASE kept = closed
    BY <1>1, <2>4
  <2> QED
    BY <1>3, <2>1, <2>3, <2>4
<1>5. authority.mode # "UNKNOWN" =>
         \A o \in Owners : kept[o] # None => kept[o].version = authority.version
  BY <1>4 DEF Inv, Held
<1>6. StepKept /\ UNCHANGED <<storeVars, providerVars>>
  BY DEF Confirm
<1> HIDE DEF confirmed, lapsed, closed
<1> QED
  BY <1>3, <1>4, <1>5, <1>6, ConcludingPreserves

LEMMA SubmitPreserves == ASSUME Inv, Submit PROVE Inv'
<1>1. /\ generation' \in Nat /\ pc' = "idle" /\ ctx' = NoContext
      /\ UNCHANGED <<waiting, authority, quotes, evidence, known, basket, versions>>
  BY DEF Inv, Typed, Submit, Release, Goto, flowVars, facadeVars, storeVars, providerVars
<1>2. Typed'
  BY <1>1, NoContextIsContext DEF Inv, Typed
<1>3. Held'
  BY <1>1 DEF Inv, Held
<1> QED
  BY <1>1, <1>2, <1>3, AtIdle

(***************************************************************************)
(* Every step.                                                             *)
(***************************************************************************)
LEMMA NextPreserves == ASSUME Inv, [Next]_vars PROVE Inv'
<1>1. CASE Request
  BY <1>1, DenyPreserves, ForgettingPreserves, ReadBasketPreserves, ReadPaymentsPreserves,
     SetBasketPreserves, ClearBasketPreserves, CreateQuotePreserves, PreparePreserves,
     ConsumePreserves DEF Request
<1>2. CASE Step
  BY <1>2, SetupPreserves, RecordUnknownPreserves, AnswerPreserves, DiscoverPreserves,
     PublishPreserves, AcquireAndCallPreserves, SucceedPreserves, RejectPreserves,
     LosePreserves, FinalizePreserves, InstallPreserves, ConfirmPreserves, SubmitPreserves,
     InvalidatePreserves DEF Step
<1>3. CASE Start \/ Invalidate \/ Reload \/ Crash
  BY <1>3, SetupPreserves, InvalidatePreserves, EndPreserves DEF Reload, Crash
<1>4. CASE Admit \/ Expire \/ ChangeElsewhere \/ Attest \/ Disable
  BY <1>4, AroundPreserves
<1>5. CASE UNCHANGED vars
  <2>1. UNCHANGED <<pc, ctx, authority, quotes, evidence, known, generation, waiting, versions,
                    basket>>
    BY <1>5 DEF vars, managerVars, flowVars, facadeVars, storeVars, providerVars
  <2> QED
    BY <2>1, Elsewhere DEF Inv, Typed
<1> QED
  BY <1>1, <1>2, <1>3, <1>4, <1>5 DEF Next

\* In every state of the flow: what the facade holds is what the provider last said, it is
\* on file, the quotes it keeps are of that version, and a mutation in flight goes on it.
THEOREM FlowInvariant == Spec => []Inv
<1>1. Init => Inv
  BY InitHolds
<1>2. Inv /\ [Next]_vars => Inv'
  BY NextPreserves
<1> QED
  BY <1>1, <1>2, PTL DEF Spec

\* The facade never holds proof that the evidence file does not hold (async_publish saves
\* before it publishes; what the flow rejects or forgets is UNKNOWN), for any owners,
\* contents, crashes and failed or cancelled writes.
THEOREM EvidenceIsOnFile == Spec => []EvidencePrecedesAuthority
<1>1. Inv => EvidencePrecedesAuthority
  BY DEF Inv, Held, EvidencePrecedesAuthority
<1> QED
  BY <1>1, FlowInvariant, PTL

(***************************************************************************)
(* What a step may never do.                                               *)
(***************************************************************************)
\* A basket is created, replaced, deleted or quoted only on what the provider last said of
\* it to this process, under the request's generation (_capture_basket_authority and the
\* calls of the preparation authority), whatever happened at the lock and the awaits before.
THEOREM MutationsHaveFreshProof == Spec => MutationHasFreshProof
<1>1. Inv /\ [Next]_vars =>
         [pc = "mutate" /\ pc' = "out" =>
             /\ known = ctx.proof
             /\ known.generation = ctx.generation
             /\ known.mode = "ABSENT_VERIFIED" =>
                   ctx.op = "set" /\ known.intent = ctx.intent]_vars
  BY DEF Inv, Captured
<1> QED
  BY <1>1, FlowInvariant, PTL DEF Spec, MutationHasFreshProof

\* Only consuming a confirmed quote leads to the final submission.
LEMMA OnlyConsumeSubmits ==
    ASSUME Inv, [Next]_vars, pc # "final", pc' = "final"
    PROVE  Consume
<1>1. Inv'
  BY NextPreserves
<1>2. Request => Consume
  BY ConcludeEffect, TakenStep
     DEF Request, Granted, Deny, Browse, Adopt, ReadBasket, Mismatch, ReadPayments,
         SetBasket, ClearBasket, CreateQuote, Prepare
<1>3. ~Step
  <2>1. ~(Answer \/ Publish \/ Install \/ Confirm)
    BY ConcludeEffect DEF Answer, Publish, Install, Confirm, Release, Goto
  <2>2. ~RecordUnknown
    BY ConcludeEffect DEF RecordUnknown, Release, Goto, Inv, Typed, Contexts, Continuations
  <2>3. ~(LoadEvidence \/ Initialize \/ Discover \/ AcquireAndCall \/ Succeed)
    BY DEF LoadEvidence, Initialize, Discover, AcquireAndCall, Succeed, Release, Goto,
           Inv, Captured
  <2>4. ~(Reject \/ Lose \/ Finalize \/ Submit \/ Invalidated)
    BY DEF Reject, Lose, Finalize, Submit, Invalidated, Release, Goto
  <2> QED
    BY <2>1, <2>2, <2>3, <2>4 DEF Step
<1>4. ~(Start \/ Invalidate \/ Reload \/ Crash)
  BY DEF Start, Invalidate, Reload, Crash, End, Goto
<1>5. ~(Admit \/ Expire \/ ChangeElsewhere \/ Attest \/ Disable)
  BY DEF Admit, Expire, ChangeElsewhere, Attest, Disable
<1>6. ~UNCHANGED vars
  BY DEF vars
<1> QED
  BY <1>2, <1>3, <1>4, <1>5, <1>6 DEF Next

\* A confirmed quote reaches the final submission only while the basket it priced is the
\* one the provider last showed: of every quote kept beside held proof the version is the
\* held one.
THEOREM FinalQuotesAreOfKnownBasket == Spec => FinalQuoteIsOfKnownBasket
<1>1. ASSUME Inv, [Next]_vars, pc # "final", pc' = "final" PROVE known = ctx'.proof
  <2>1. Consume
    BY <1>1, OnlyConsumeSubmits
  <2>2. PICK o \in Owners :
           /\ quotes[o] # None
           /\ Take("final", o, None,
                   Proof("ADOPTED", waiting, authority.intent, quotes[o].version),
                   "final", "raise")
    BY <1>1, <2>1 DEF Consume
  <2>3. known = Proof("ADOPTED", waiting, authority.intent, quotes[o].version)
    BY <1>1, <2>1, <2>2, ConsumeIsOfKnown DEF Consume
  <2>4. ctx'.proof = Proof("ADOPTED", waiting, authority.intent, quotes[o].version)
    BY <2>2 DEF Take, Goto, NoContext
  <2> QED
    BY <2>3, <2>4
<1>2. Inv /\ [Next]_vars => [pc # "final" /\ pc' = "final" => known = ctx'.proof]_vars
  BY <1>1
<1> QED
  BY <1>2, FlowInvariant, PTL DEF Spec, FinalQuoteIsOfKnownBasket
=============================================================================
