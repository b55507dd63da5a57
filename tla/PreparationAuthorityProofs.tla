--------------------- MODULE PreparationAuthorityProofs ---------------------
(***************************************************************************)
(* Proofs about PreparationAuthority, for any intents and any number of    *)
(* attempts, failures, crashes and setups.  The inductive invariant has    *)
(* four parts: the types (Typed), what the safety file and its copy in     *)
(* memory owe each other (Stored), what each suspended operation may rely  *)
(* on (Located), and what the two files say together (Filed).              *)
(***************************************************************************)
EXTENDS PreparationAuthority, FiniteSetTheorems, TLAPS

Positive == Nat \ {0}

RecordStates == {"PREPARED", "PROVIDER_SUCCEEDED", "PROVIDER_FAILED"} \cup Open \cup Attested

Records ==
    [state : RecordStates, revision : Positive, generation : Positive,
     expectation : Expectations]

Continuations == {"idle", "stateAgain", "runtime", "publish"}

Contexts ==
    [attempt : 0..MaxAttempts, state : RecordStates, generation : Positive,
     expectation : Expectations \cup {None}, then : Continuations]

Images ==
    [generation : Positive, integrity : BOOLEAN, manual : {None},
     preparation : State!PreparationBindings \cup {None}]

\* A journal of mutations that were acquired.
Listed(list) == DOMAIN list \subseteq 1..attempts /\ list \in [DOMAIN list -> Records]

Typed ==
    /\ disk \in Images /\ snap \in Images
    /\ Listed(prepFile) /\ Listed(prepRecords)
    /\ attempts \in 0..MaxAttempts /\ calling \in 0..MaxAttempts
    /\ waiting \in Nat
    /\ waiting # 0 => attempts < MaxAttempts
    /\ ctx \in Contexts
    /\ sent \subseteq 1..MaxAttempts

\* Memory shows the safety file once it was read, and a facade needs it read.
Stored ==
    /\ loaded => snap = disk
    /\ ~loaded => snap.preparation = None
    /\ ~loaded /\ pc \notin {"down", "state"} => storageFault
    /\ facade => loaded
    /\ pc \in {"down", "state", "stateAgain"} => ~loaded
    /\ pc \in {"latch", "fault"} /\ ctx.then = "stateAgain" => ~loaded

SameIntent(r, s) == r.generation = s.generation /\ r.expectation = s.expectation

\* Until its outcome is recorded a mutation is the only open one, and nothing is bound.
Acquiring ==
    /\ pc \in {"acquire", "dispatch"} =>
         /\ prepLoaded /\ calling = 0 /\ disk.preparation = None
         /\ ctx.attempt = attempts /\ attempts # 0 /\ attempts \notin DOMAIN prepRecords
         /\ ctx.expectation \in Expectations
         /\ ctx.then = "idle"
         /\ OpenRecords(prepRecords) = {}
    /\ pc = "dispatch" =>
         \A a \in DOMAIN prepRecords : ~SameIntent(prepRecords[a], ctx)

Outstanding ==
    calling # 0 =>
         /\ pc \in {"idle", "outcome", "latch", "fault"} /\ prepLoaded
         /\ calling \in DOMAIN prepRecords
         /\ prepRecords[calling].state \in {"DISPATCHING", Required}
         /\ disk.preparation = None
         /\ pc \in {"idle", "outcome"} => prepRecords[calling].state = "DISPATCHING"
         /\ pc # "idle" => ctx.attempt = calling /\ ctx.then = "idle"

Recovering ==
    /\ pc = "outcome" =>
         /\ calling # 0
         /\ ctx.state \in {Required} \cup ByProvider
         /\ ctx.state \in ByProvider => ctx.attempt \in answered
    /\ pc = "latch" =>
         /\ prepLoaded /\ ctx.attempt \in DOMAIN prepRecords
         /\ prepRecords[ctx.attempt].state \in Open \cup Attested
    /\ pc \in {"latch", "fault"} /\ ctx.then = "idle" => calling # 0

Resolving ==
    /\ pc \in AttestSteps =>
         /\ prepLoaded /\ ctx.then = "idle"
         /\ ctx.attempt \in DOMAIN prepRecords
         /\ ctx.state \in Attested \cup {Unknown}
    /\ pc = "attest" =>
         /\ prepRecords[ctx.attempt].state = Required
         /\ ctx.state \in Attested => ctx.attempt \in answered
    /\ pc \in {"refresh", "clear"} => prepRecords[ctx.attempt].state = ctx.state
    /\ pc = "clear" => ctx.state \in Attested

Located == Acquiring /\ Outstanding /\ Recovering /\ Resolving

\* The list in memory, once loaded, is what matters of the file: a save that failed or
\* was cancelled may have left more there.
Mirrored ==
    prepLoaded =>
        /\ \A a \in DOMAIN prepRecords : a \in DOMAIN prepFile /\ prepFile[a] = prepRecords[a]
        /\ sent \subseteq DOMAIN prepRecords
        /\ disk.preparation # None => disk.preparation.attempt \in DOMAIN prepRecords

OneOpen(list) == \A a, b \in OpenRecords(list) : a = b
OneIntent(list) == \A a, b \in DOMAIN list : SameIntent(list[a], list[b]) => a = b

Kept ==
    /\ \A a \in sent : a \in DOMAIN prepFile /\ prepFile[a].state # "PREPARED"
    /\ \A a \in DOMAIN prepFile : prepFile[a].state \in Conclusive => a \in answered
    /\ OneOpen(prepFile)
    /\ OneIntent(prepFile)
    /\ Named(prepFile, disk.preparation)

Filed == Mirrored /\ Kept

Inv == Typed /\ Stored /\ Located /\ Filed

(***************************************************************************)
(* The calls of the safety state, as their callers see them.               *)
(***************************************************************************)
\* A call that failed, or was refused.
Unmoved ==
    /\ disk' = disk /\ snap' = snap /\ loaded' = loaded
    /\ storageFault => storageFault'

\* One that was saved: the file is published.
Moved ==
    /\ loaded /\ loaded' = loaded
    /\ disk' \in Images /\ snap' = disk'
    /\ storageFault' = storageFault

\* What the file binds then, and that it binds what it did.
Binds(a, v, x) ==
    /\ disk'.preparation # None
    /\ disk'.preparation.attempt = a
    /\ disk'.preparation.revision = v
    /\ disk'.preparation.expectation = x

Carries ==
    LET b == disk.preparation
    IN  IF b = None THEN disk'.preparation = None
                    ELSE Binds(b.attempt, b.revision, b.expectation)

StateOutcomes == {"ok", "refused", "fault", "raised"}

LEMMA ResultsAreOutcomes == StateResults \subseteq StateOutcomes
BY DEF StateResults, StateOutcomes

LEMMA ImageAt ==
    ASSUME Typed, NEW i \in BOOLEAN, NEW b \in State!PreparationBindings \cup {None}
    PROVE  /\ State!NextGeneration \in Positive
           /\ State!AtGeneration(b, State!NextGeneration)
                 \in State!PreparationBindings \cup {None}
           /\ [generation |-> State!NextGeneration, integrity |-> i,
               manual |-> None, preparation |-> b] \in Images
<1>1. State!NextGeneration \in Positive
  BY DEF Typed, Images, Positive, State!NextGeneration, State!Larger
<1>2. State!AtGeneration(b, State!NextGeneration) \in State!PreparationBindings \cup {None}
  BY <1>1 DEF State!AtGeneration, State!PreparationBindings, State!Positive, Positive
<1> QED
  BY <1>1, <1>2 DEF Images

\* A save of a candidate with binding b.
LEMMA PersistEffect ==
    ASSUME Typed, NEW c \in Images, NEW permanent \in BOOLEAN, NEW r \in StateOutcomes,
           State!Persist(c, permanent, r)
    PROVE  \/ r = "ok" /\ disk' = c /\ Moved
           \/ r # "ok" /\ Unmoved
<1>1. CASE ~(loaded /\ ~storageFault)
  BY <1>1 DEF State!Persist, State!Refuse, State!stateVars, Unmoved
<1>2. CASE loaded /\ ~storageFault
  <2>1. CASE r = "ok"
    BY <1>2, <2>1 DEF State!Persist, Moved
  <2>2. CASE r # "ok"
    BY <1>2, <2>2 DEF State!Persist, StateOutcomes, Unmoved
  <2> QED
    BY <2>1, <2>2
<1> QED
  BY <1>1, <1>2

\* A bump carries the binding, whether or not it sets the permanent fault.
LEMMA BumpEffect ==
    ASSUME Typed, Stored, NEW permanent \in BOOLEAN, NEW r \in StateOutcomes,
           State!Bump(permanent, None, r)
    PROVE  \/ r = "ok" /\ Moved /\ Carries
           \/ r # "ok" /\ Unmoved
<1> DEFINE c == State!BumpCandidate(permanent, None)
<1>1. CASE State!ReadFails(r) \/ State!CancelRead(r)
  BY <1>1 DEF State!ReadFails, State!CancelRead, State!FaultForever, State!stateVars,
              StateOutcomes, Unmoved
<1>2. ~State!BindingChanged
  BY DEF State!BindingChanged, Typed, Images
<1>3. CASE State!Persist(c, TRUE, r)
  <2>1. c \in Images
    <3> DEFINE b == State!FirstPresent(disk.preparation, snap.preparation)
    <3>1. b \in State!PreparationBindings \cup {None}
      BY DEF Typed, Images, State!FirstPresent
    <3>2. snap.integrity \/ disk.integrity \/ permanent \in BOOLEAN
      OBVIOUS
    <3>3. State!AtGeneration(State!FirstPresent(None, State!FirstPresent(disk.manual,
                             snap.manual)), State!NextGeneration) = None
      BY DEF State!AtGeneration, State!FirstPresent, Typed, Images
    <3> QED
      BY <3>1, <3>2, <3>3, ImageAt DEF State!BumpCandidate
  <2>2. CASE r # "ok"
    BY <1>3, <2>1, <2>2, PersistEffect
  <2>3. CASE r = "ok"
    <3>1. disk' = c /\ Moved
      BY <1>3, <2>1, <2>3, PersistEffect
    <3>2. snap = disk
      BY <3>1 DEF Moved, Stored
    <3>3. c.preparation = State!AtGeneration(disk.preparation, State!NextGeneration)
      BY <3>2 DEF State!BumpCandidate, State!FirstPresent
    <3>4. CASE disk.preparation = None
      BY <2>3, <3>1, <3>3, <3>4 DEF State!AtGeneration, Carries
    <3>5. CASE disk.preparation # None
      <4>1. disk.preparation \in State!PreparationBindings
        BY <3>5 DEF Typed, Images
      <4>2. /\ c.preparation \in State!PreparationBindings
            /\ c.preparation.attempt = disk.preparation.attempt
            /\ c.preparation.revision = disk.preparation.revision
            /\ c.preparation.expectation = disk.preparation.expectation
        BY ZenonT(60), <3>3, <3>5, <4>1, ImageAt
           DEF State!AtGeneration, State!PreparationBindings, State!Positive, Positive
      <4>3. c.preparation # None
        BY <4>2, PreparationConstants
      <4> QED
        BY <2>3, <3>1, <3>5, <4>2, <4>3 DEF Carries, Binds
    <3> QED
      BY <3>4, <3>5
  <2> QED
    BY <2>2, <2>3
<1> QED
  BY <1>1, <1>2, <1>3 DEF State!Bump

LEMMA LatchEffect ==
    ASSUME Typed, Stored, NEW a \in Nat, NEW v \in Positive, NEW x \in Expectations,
           NEW r \in StateOutcomes,
           State!LatchPreparationReconciliation(a, v, x, r)
    PROVE  \/ r = "ok" /\ Moved /\ Binds(a, v, x)
           \/ r # "ok" /\ Unmoved
<1> DEFINE b == [attempt |-> a, revision |-> v,
                 generation |-> State!NextGeneration, expectation |-> x]
           c == [generation |-> State!NextGeneration, integrity |-> disk.integrity,
                 manual |-> State!AtGeneration(disk.manual, State!NextGeneration),
                 preparation |-> b]
<1>1. \/ State!ReadRaises(r) \/ State!CancelRead(r) \/ State!RefuseForever(r)
      \/ State!Persist(c, TRUE, r)
  BY DEF State!LatchPreparationReconciliation
<1>2. CASE State!ReadRaises(r) \/ State!CancelRead(r) \/ State!RefuseForever(r)
  BY <1>2 DEF State!ReadRaises, State!CancelRead, State!RefuseForever, State!FaultForever,
              State!stateVars, StateOutcomes, Unmoved
<1>3. CASE State!Persist(c, TRUE, r)
  <2>1. State!NextGeneration \in Positive
    BY ImageAt
  <2>2. b \in State!PreparationBindings
    BY <2>1 DEF State!PreparationBindings, State!Positive, Positive
  <2>3. State!AtGeneration(disk.manual, State!NextGeneration) = None
    BY DEF State!AtGeneration, Typed, Images
  <2>4. c \in Images
    BY <2>1, <2>2, <2>3 DEF Typed, Images
  <2>5. b # None
    BY <2>2, PreparationConstants
  <2>6. \/ r = "ok" /\ disk' = c /\ Moved
        \/ r # "ok" /\ Unmoved
    BY <1>3, <2>4, PersistEffect
  <2>7. disk' = c => Binds(a, v, x)
    BY <2>5 DEF Binds
  <2> QED
    BY <2>6, <2>7
<1> QED
  BY <1>1, <1>2, <1>3

LEMMA ClearEffect ==
    ASSUME Typed, Stored, NEW a \in Nat, NEW x, NEW r \in StateOutcomes,
           State!ClearPreparationReconciliation(a, x, r)
    PROVE  \/ /\ Moved /\ disk'.preparation = None
              /\ disk.preparation # None /\ disk.preparation.attempt = a
           \/ Unmoved
<1> DEFINE c == [generation |-> State!NextGeneration, integrity |-> disk.integrity,
                 manual |-> State!AtGeneration(disk.manual, State!NextGeneration),
                 preparation |-> None]
<1>1. \/ State!ReadRaises(r) \/ State!CancelRead(r) \/ State!Refuse(r)
      \/ /\ State!Persist(c, FALSE, r)
         /\ disk.preparation # None /\ disk.preparation.attempt = a
  BY DEF State!ClearPreparationReconciliation, State!PreparationDiffers
<1>2. CASE State!ReadRaises(r) \/ State!CancelRead(r) \/ State!Refuse(r)
  BY <1>2 DEF State!ReadRaises, State!CancelRead, State!Refuse, State!stateVars, Unmoved
<1>3. CASE /\ State!Persist(c, FALSE, r)
           /\ disk.preparation # None /\ disk.preparation.attempt = a
  <2>1. c \in Images
    BY ImageAt DEF State!AtGeneration, Typed, Images
  <2>2. (disk' = c /\ Moved) \/ Unmoved
    BY <1>3, <2>1, PersistEffect
  <2>3. disk' = c => disk'.preparation = None
    OBVIOUS
  <2> QED
    BY <1>3, <2>2, <2>3
<1> QED
  BY <1>1, <1>2, <1>3

\* A first read either publishes the file or leaves the fault set.
LEMMA LoadEffect ==
    ASSUME ~loaded, NEW r \in StateOutcomes, State!Load(r)
    PROVE  /\ disk' = disk
           /\ \/ r = "ok" /\ snap' = disk /\ loaded'
              \/ r # "ok" /\ snap' = snap /\ ~loaded' /\ storageFault'
BY DEF State!Load, State!CancelRead, StateOutcomes

(***************************************************************************)
(* The lists the authority writes.                                         *)
(***************************************************************************)
LEMMA RecordEdited ==
    ASSUME NEW old \in Records, NEW s \in RecordStates
    PROVE  /\ [old EXCEPT !.state = s, !.revision = @ + 1] \in Records
           /\ [old EXCEPT !.state = s, !.revision = @ + 1].state = s
           /\ SameIntent([old EXCEPT !.state = s, !.revision = @ + 1], old)
<1> DEFINE new == [old EXCEPT !.state = s, !.revision = @ + 1]
<1>1. new = [state |-> s, revision |-> old.revision + 1, generation |-> old.generation,
             expectation |-> old.expectation]
  <2> DEFINE mid == [old EXCEPT !.state = s]
  <2>1. mid = [state |-> s, revision |-> old.revision, generation |-> old.generation,
               expectation |-> old.expectation]
    BY DEF Records
  <2>2. new = [mid EXCEPT !.revision = old.revision + 1]
    OBVIOUS
  <2> HIDE DEF mid, new
  <2> QED
    BY <2>1, <2>2
<1>2. old.revision + 1 \in Positive
  BY DEF Records, Positive
<1> HIDE DEF new
<1>3. new \in Records
  BY <1>1, <1>2 DEF Records
<1>4. new.state = s /\ SameIntent(new, old)
  BY <1>1 DEF SameIntent
<1> QED
  BY <1>3, <1>4 DEF new

\* A new state of one record moves no other and keeps its intent.
LEMMA ReplacedList ==
    ASSUME Listed(prepRecords), NEW a \in DOMAIN prepRecords, NEW s \in RecordStates
    PROVE  /\ DOMAIN Replaced(a, s) = DOMAIN prepRecords
           /\ Listed(Replaced(a, s))
           /\ Replaced(a, s)[a].state = s
           /\ SameIntent(Replaced(a, s)[a], prepRecords[a])
           /\ \A b \in DOMAIN prepRecords \ {a} : Replaced(a, s)[b] = prepRecords[b]
<1> DEFINE old == prepRecords[a]
           new == [old EXCEPT !.state = s, !.revision = @ + 1]
<1>1. Replaced(a, s) = [prepRecords EXCEPT ![a] = new]
  BY DEF Replaced
<1>2. old \in Records
  BY DEF Listed
<1>3. new \in Records /\ new.state = s /\ SameIntent(new, old)
  BY <1>2, RecordEdited
<1> HIDE DEF new
<1>4. /\ DOMAIN Replaced(a, s) = DOMAIN prepRecords
      /\ Replaced(a, s)[a] = new
      /\ \A b \in DOMAIN prepRecords \ {a} : Replaced(a, s)[b] = prepRecords[b]
      /\ Replaced(a, s) \in [DOMAIN prepRecords -> Records]
  BY <1>1, <1>3 DEF Listed
<1> QED
  BY <1>3, <1>4 DEF Listed

\* The list with the record of the mutation being acquired.
LEMMA WithRecordList ==
    ASSUME Typed, Acquiring, pc \in {"acquire", "dispatch"},
           NEW s \in RecordStates, NEW v \in Positive
    PROVE  /\ DOMAIN WithRecord(s, v) = DOMAIN prepRecords \cup {attempts}
           /\ Listed(WithRecord(s, v))
           /\ WithRecord(s, v)[attempts].state = s
           /\ SameIntent(WithRecord(s, v)[attempts], ctx)
           /\ \A b \in DOMAIN prepRecords : WithRecord(s, v)[b] = prepRecords[b]
<1>1. ctx.attempt = attempts /\ attempts \in 1..attempts /\ attempts \notin DOMAIN prepRecords
  BY DEF Acquiring, Typed
<1>2. [state |-> s, revision |-> v, generation |-> ctx.generation,
       expectation |-> ctx.expectation] \in Records
  BY DEF Acquiring, Typed, Contexts, Records
<1>3. DOMAIN WithRecord(s, v) = DOMAIN prepRecords \cup {attempts}
  BY <1>1 DEF WithRecord
<1>4. \A b \in DOMAIN prepRecords : WithRecord(s, v)[b] = prepRecords[b]
  BY <1>1 DEF WithRecord
<1>5. WithRecord(s, v)[attempts] = [state |-> s, revision |-> v,
                                    generation |-> ctx.generation,
                                    expectation |-> ctx.expectation]
  BY <1>1 DEF WithRecord
<1>6. WithRecord(s, v) \in [DOMAIN prepRecords \cup {attempts} -> Records]
  BY <1>1, <1>2 DEF WithRecord, Typed, Listed
<1> QED
  BY <1>1, <1>3, <1>4, <1>5, <1>6 DEF Typed, Listed, SameIntent

\* What a load makes of the file.
LEMMA NormalizedList ==
    ASSUME Typed
    PROVE  /\ DOMAIN Normalized = DOMAIN prepFile
           /\ Listed(Normalized)
           /\ \A a \in DOMAIN prepFile :
                /\ SameIntent(Normalized[a], prepFile[a])
                /\ Normalized[a].state = IF prepFile[a].state = "DISPATCHING"
                                         THEN Required ELSE prepFile[a].state
<1>1. \A a \in DOMAIN prepFile : prepFile[a] \in Records
  BY DEF Typed, Listed
<1>2. ASSUME NEW a \in DOMAIN prepFile
      PROVE  /\ Normal(prepFile[a]) \in Records
             /\ SameIntent(Normal(prepFile[a]), prepFile[a])
             /\ Normal(prepFile[a]).state = IF prepFile[a].state = "DISPATCHING"
                                            THEN Required ELSE prepFile[a].state
  <2>1. prepFile[a] \in Records
    BY <1>1
  <2>2. CASE prepFile[a].state = "DISPATCHING"
    <3>1. Required \in RecordStates
      BY DEF RecordStates, Open
    <3> QED
      <4> DEFINE new == [prepFile[a] EXCEPT !.state = Required, !.revision = @ + 1]
      <4>1. new \in Records /\ new.state = Required /\ SameIntent(new, prepFile[a])
        BY <2>1, <3>1, RecordEdited
      <4>2. Normal(prepFile[a]) = new
        BY <2>2 DEF Normal
      <4> HIDE DEF new
      <4> QED
        BY <2>2, <4>1, <4>2
  <2>3. CASE prepFile[a].state # "DISPATCHING"
    BY <2>1, <2>3 DEF Normal, SameIntent
  <2> QED
    BY <2>2, <2>3
<1> QED
  BY <1>2 DEF Normalized, Typed, Listed

(***************************************************************************)
(* The two files together.                                                 *)
(***************************************************************************)
\* Nothing was written to the preparation journal, and memory kept or dropped.
LEMMA FiledStays ==
    ASSUME Filed, prepFile' = prepFile, sent' = sent, answered \subseteq answered',
           prepLoaded' => prepLoaded /\ prepRecords' = prepRecords,
           disk' = disk \/ Carries \/ disk'.preparation = None
    PROVE  Filed'
<1>1. Mirrored'
  BY DEF Filed, Mirrored, Carries, Binds
<1>2. Named(prepFile, disk.preparation)'
  BY DEF Filed, Kept, Named, Carries, Binds
<1>3. Kept'
  BY <1>2 DEF Filed, Kept, OneOpen, OneIntent
<1> QED
  BY <1>1, <1>3 DEF Filed

\* A record was bound.
LEMMA FiledBound ==
    ASSUME Filed, UNCHANGED <<prepFile, prepRecords, prepLoaded, sent, answered>>, prepLoaded,
           NEW a \in DOMAIN prepRecords, prepRecords[a].state \in Open \cup Attested, NEW v,
           Binds(a, v, prepRecords[a].expectation)
    PROVE  Filed'
<1>1. Mirrored'
  BY DEF Filed, Mirrored, Binds
<1>2. Named(prepFile, disk.preparation)'
  BY DEF Filed, Mirrored, Named, Binds
<1>3. Kept'
  BY <1>2 DEF Filed, Kept, OneOpen, OneIntent
<1> QED
  BY <1>1, <1>3 DEF Filed

\* The outcome of the open mutation was saved and published.
LEMMA FiledReplaced ==
    ASSUME Typed, Filed, prepLoaded, NEW a \in DOMAIN prepRecords,
           prepRecords[a].state \in Open,
           NEW s \in RecordStates, s # "PREPARED", s \in Conclusive => a \in answered,
           disk.preparation = None \/ s \in Open \cup Attested,
           prepFile' = Replaced(a, s), prepRecords' = Replaced(a, s),
           UNCHANGED <<disk, sent, answered, prepLoaded>>
    PROVE  Filed'
<1> DEFINE new == Replaced(a, s)
<1>1. /\ DOMAIN new = DOMAIN prepRecords
      /\ new[a].state = s /\ SameIntent(new[a], prepRecords[a])
      /\ \A b \in DOMAIN prepRecords \ {a} : new[b] = prepRecords[b]
  BY ReplacedList DEF Typed
<1> HIDE DEF new
<1>2. \A b \in DOMAIN prepRecords : b \in DOMAIN prepFile /\ prepFile[b] = prepRecords[b]
  BY DEF Filed, Mirrored
<1>3. Mirrored'
  BY <1>1 DEF Filed, Mirrored, new
<1>4. \A b \in sent : b \in DOMAIN new /\ new[b].state # "PREPARED"
  BY <1>1, <1>2 DEF Filed, Mirrored, Kept
<1>5. \A b \in DOMAIN new : new[b].state \in Conclusive => b \in answered
  BY <1>1, <1>2 DEF Filed, Kept
<1>6. OneOpen(new)
  <2>1. \A b \in DOMAIN prepRecords : prepRecords[b].state \in Open => b = a
    BY <1>2 DEF Filed, Kept, OneOpen, OpenRecords
  <2> QED
    BY <1>1, <2>1 DEF OneOpen, OpenRecords
<1>7. OneIntent(new)
  <2>1. \A b \in DOMAIN new : SameIntent(new[b], prepFile[b]) /\ b \in DOMAIN prepFile
    BY <1>1, <1>2 DEF SameIntent
  <2> QED
    BY <2>1 DEF OneIntent, SameIntent, Filed, Kept
<1>8. Named(new, disk.preparation)
  BY <1>1, <1>2 DEF Named, Filed, Mirrored, Kept, SameIntent
<1> QED
  BY <1>3, <1>4, <1>5, <1>6, <1>7, <1>8 DEF Filed, Kept, new

\* The record of the mutation being acquired was saved, or perhaps not.
LEMMA FiledAcquired ==
    ASSUME Typed, Acquiring, Filed, pc \in {"acquire", "dispatch"},
           NEW s \in {"PREPARED", "DISPATCHING"}, NEW v \in Positive,
           \A a \in DOMAIN prepRecords : ~SameIntent(prepRecords[a], ctx),
           \/ prepFile' = prepFile /\ prepRecords' = prepRecords
           \/ /\ prepFile' = WithRecord(s, v)
              /\ prepRecords' = prepRecords \/ prepRecords' = WithRecord(s, v),
           UNCHANGED <<disk, sent, answered, prepLoaded>>
    PROVE  Filed'
<1>1. CASE prepFile' = prepFile /\ prepRecords' = prepRecords
  BY <1>1, FiledStays
<1>2. CASE /\ prepFile' = WithRecord(s, v)
           /\ prepRecords' = prepRecords \/ prepRecords' = WithRecord(s, v)
  <2> DEFINE new == WithRecord(s, v)
  <2>1. /\ DOMAIN new = DOMAIN prepRecords \cup {attempts}
        /\ new[attempts].state = s /\ SameIntent(new[attempts], ctx)
        /\ \A b \in DOMAIN prepRecords : new[b] = prepRecords[b]
    <3>1. s \in RecordStates
      BY DEF RecordStates, Open
    <3> QED
      BY <3>1, WithRecordList
  <2>2. /\ prepLoaded /\ disk.preparation = None
        /\ OpenRecords(prepRecords) = {}
        /\ attempts \notin DOMAIN prepRecords
    BY DEF Acquiring
  <2>3. \A b \in DOMAIN prepRecords : b \in DOMAIN prepFile /\ prepFile[b] = prepRecords[b]
    BY <2>2 DEF Filed, Mirrored
  <2>4. sent \subseteq DOMAIN prepRecords
    BY <2>2 DEF Filed, Mirrored
  <2> HIDE DEF new
  <2>5. prepFile' = new /\ (prepRecords' = prepRecords \/ prepRecords' = new)
    BY <1>2 DEF new
  <2>6. Mirrored'
    BY <2>1, <2>2, <2>4, <2>5 DEF Mirrored
  <2>7. \A b \in sent : b \in DOMAIN new /\ new[b].state # "PREPARED"
    BY <2>1, <2>3, <2>4 DEF Filed, Kept
  <2>8. \A b \in DOMAIN new : new[b].state \in Conclusive => b \in answered
    <3>1. s \notin Conclusive
      BY DEF Conclusive, Attested, ByProvider
    <3> QED
      BY <2>1, <2>3, <3>1 DEF Filed, Kept
  <2>9. OneOpen(new)
    BY <2>1, <2>2 DEF OneOpen, OpenRecords
  <2>10. OneIntent(new)
    <3>1. \A b, c \in DOMAIN prepRecords : SameIntent(new[b], new[c]) => b = c
      BY <2>1, <2>3 DEF Filed, Kept, OneIntent
    <3>2. \A b \in DOMAIN prepRecords : /\ ~SameIntent(new[b], new[attempts])
                                        /\ ~SameIntent(new[attempts], new[b])
      BY <2>1 DEF SameIntent
    <3> QED
      BY <2>1, <3>1, <3>2 DEF OneIntent
  <2>11. Named(new, disk.preparation)
    BY <2>2 DEF Named
  <2> QED
    BY <2>5, <2>6, <2>7, <2>8, <2>9, <2>10, <2>11 DEF Filed, Kept
<1> QED
  BY <1>1, <1>2

\* A load was saved and published.
LEMMA FiledNormalized ==
    ASSUME Typed, Filed, prepFile' = Normalized, prepRecords' = Normalized,
           UNCHANGED <<disk, sent, answered>>
    PROVE  Filed'
<1> DEFINE new == Normalized
<1>1. /\ DOMAIN new = DOMAIN prepFile
      /\ \A a \in DOMAIN prepFile :
            /\ SameIntent(new[a], prepFile[a])
            /\ new[a].state = IF prepFile[a].state = "DISPATCHING"
                              THEN Required ELSE prepFile[a].state
  BY NormalizedList
<1> HIDE DEF new
<1>2. Mirrored'
  BY <1>1 DEF Mirrored, Filed, Kept, Named, new
<1>3. \A b \in sent : b \in DOMAIN new /\ new[b].state # "PREPARED"
  BY <1>1 DEF Filed, Kept, Required
<1>4. \A b \in DOMAIN new : new[b].state \in Conclusive => b \in answered
  BY <1>1 DEF Filed, Kept, Required, Conclusive, Attested, ByProvider
<1>5. OneOpen(new)
  BY <1>1 DEF Filed, Kept, OneOpen, OpenRecords, Open
<1>6. OneIntent(new)
  BY <1>1 DEF Filed, Kept, OneIntent, SameIntent
<1>7. Named(new, disk.preparation)
  BY SMTT(60), <1>1 DEF Filed, Kept, Named, SameIntent, Open
<1> QED
  BY <1>2, <1>3, <1>4, <1>5, <1>6, <1>7 DEF Filed, Kept, new

(***************************************************************************)
(* Each action keeps the invariant.                                        *)
(***************************************************************************)
\* The local variables an operation begins with.
LEMMA ContextsMade ==
    /\ NoContext \in Contexts
    /\ \A a \in 0..MaxAttempts, s \in RecordStates :
          LET c == [NoContext EXCEPT !.attempt = a, !.state = s]
          IN  c \in Contexts /\ c.attempt = a /\ c.state = s /\ c.then = "idle"
    /\ \A a \in 0..MaxAttempts, t \in Continuations :
          LET c == [NoContext EXCEPT !.attempt = a, !.then = t]
          IN  c \in Contexts /\ c.attempt = a /\ c.then = t
<1>1. /\ "PREPARED" \in RecordStates /\ 1 \in Positive /\ "idle" \in Continuations
      /\ 0 \in 0..MaxAttempts /\ None \in Expectations \cup {None}
  BY PreparationConstants DEF RecordStates, Positive, Continuations
<1>2. NoContext \in Contexts
  BY <1>1 DEF NoContext, Contexts
<1>3. ASSUME NEW a \in 0..MaxAttempts, NEW s \in RecordStates
      PROVE  LET c == [NoContext EXCEPT !.attempt = a, !.state = s]
             IN  c \in Contexts /\ c.attempt = a /\ c.state = s /\ c.then = "idle"
  <2> DEFINE c == [NoContext EXCEPT !.attempt = a, !.state = s]
  <2>1. c = [attempt |-> a, state |-> s, generation |-> 1, expectation |-> None,
             then |-> "idle"]
    <3> DEFINE d == [NoContext EXCEPT !.attempt = a]
    <3>1. d = [attempt |-> a, state |-> "PREPARED", generation |-> 1, expectation |-> None,
                 then |-> "idle"]
      BY DEF NoContext
    <3>2. c = [d EXCEPT !.state = s]
      BY DEF NoContext
    <3> HIDE DEF c, d
    <3> QED
      BY <3>1, <3>2
  <2> HIDE DEF c
  <2>2. c \in Contexts
    BY <1>1, <2>1 DEF Contexts
  <2>3. c.attempt = a /\ c.state = s /\ c.then = "idle"
    BY <2>1
  <2> QED
    BY <2>2, <2>3 DEF c
<1>4. ASSUME NEW a \in 0..MaxAttempts, NEW t \in Continuations
      PROVE  LET c == [NoContext EXCEPT !.attempt = a, !.then = t]
             IN  c \in Contexts /\ c.attempt = a /\ c.then = t
  <2> DEFINE c == [NoContext EXCEPT !.attempt = a, !.then = t]
  <2>1. c = [attempt |-> a, state |-> "PREPARED", generation |-> 1, expectation |-> None,
             then |-> t]
    <3> DEFINE d == [NoContext EXCEPT !.attempt = a]
    <3>1. d = [attempt |-> a, state |-> "PREPARED", generation |-> 1, expectation |-> None,
                 then |-> "idle"]
      BY DEF NoContext
    <3>2. c = [d EXCEPT !.then = t]
      BY DEF NoContext
    <3> HIDE DEF c, d
    <3> QED
      BY <3>1, <3>2
  <2> HIDE DEF c
  <2>2. c \in Contexts
    BY <1>1, <2>1 DEF Contexts
  <2>3. c.attempt = a /\ c.then = t
    BY <2>1
  <2> QED
    BY <2>2, <2>3 DEF c
<1> QED
  BY <1>2, <1>3, <1>4

\* What a call of the safety state leaves true, however it ends.
LEMMA StoredMoves ==
    ASSUME Typed, Stored, Unmoved \/ Moved
    PROVE  /\ disk' \in Images /\ snap' \in Images
           /\ loaded' => snap' = disk'
           /\ ~loaded' => snap'.preparation = None
           /\ loaded' = loaded
           /\ storageFault => storageFault'
BY DEF Typed, Stored, Unmoved, Moved

LEMMA InitHolds == Init => Inv
<1> SUFFICES ASSUME Init PROVE Inv
  OBVIOUS
<1>1. disk \in Images /\ snap \in Images
  BY DEF Init, State!Init, State!FreshSnapshot, Images, Positive
<1>2. Listed(prepFile) /\ Listed(prepRecords)
  BY DEF Init, Listed
<1>3. ctx \in Contexts
  BY ContextsMade DEF Init
<1>4. Typed
  BY <1>1, <1>2, <1>3, PreparationConstants DEF Init, Typed
<1>5. Stored
  BY DEF Init, State!Init, State!FreshSnapshot, Stored
<1>6. Located
  BY DEF Init, Located, Acquiring, Outstanding, Recovering, Resolving, AttestSteps
<1>7. Filed
  BY DEF Init, State!Init, State!FreshSnapshot, Filed, Mirrored, Kept, OneOpen, OneIntent,
         OpenRecords, Named
<1> QED
  BY <1>4, <1>5, <1>6, <1>7 DEF Inv

LEMMA StartPreserves == ASSUME Inv, Start PROVE Inv'
<1>1. Typed'
  BY ContextsMade DEF Inv, Typed, Start, Listed, Goto, stateVars, prepVars, callVars
<1>2. Stored'
  BY DEF Inv, Stored, Start, Goto, stateVars
<1>3. Located'
  BY DEF Inv, Start, Goto, callVars, Located, Acquiring, Outstanding, Recovering, Resolving,
         AttestSteps
<1>4. Filed'
  BY FiledStays DEF Inv, Start, stateVars, prepVars, callVars
<1> QED
  BY <1>1, <1>2, <1>3, <1>4 DEF Inv

LEMMA LoadStatePreserves == ASSUME Inv, LoadState PROVE Inv'
<1>1. /\ disk' = disk
      /\ (snap' = disk /\ loaded') \/ (snap' = snap /\ ~loaded' /\ storageFault')
  BY LoadEffect, ResultsAreOutcomes DEF Inv, Stored, LoadState
<1>2. Typed'
  BY <1>1, ContextsMade DEF Inv, Typed, LoadState, Listed, Goto, prepVars, runtimeVars, callVars
<1>3. Stored'
  BY <1>1 DEF Inv, Stored, LoadState, Goto, runtimeVars
<1>4. Located'
  BY DEF Inv, LoadState, Goto, callVars, Located, Acquiring, Outstanding, Recovering,
         Resolving, AttestSteps
<1>5. Filed'
  BY <1>1, FiledStays DEF Inv, LoadState, prepVars, callVars
<1> QED
  BY <1>2, <1>3, <1>4, <1>5 DEF Inv

LEMMA LoadStateAgainPreserves == ASSUME Inv, LoadStateAgain PROVE Inv'
<1>1. /\ disk' = disk
      /\ (snap' = disk /\ loaded') \/ (snap' = snap /\ ~loaded' /\ storageFault')
  BY LoadEffect, ResultsAreOutcomes DEF Inv, Stored, LoadStateAgain
<1>2. Typed'
  BY ZenonT(60), <1>1, ContextsMade
     DEF Inv, Typed, LoadStateAgain, Listed, Goto, prepVars, runtimeVars, callVars
<1>3. Stored'
  BY <1>1 DEF Inv, Stored, LoadStateAgain, Goto, runtimeVars
<1>4. Located'
  BY DEF Inv, LoadStateAgain, Goto, callVars, Located, Acquiring, Outstanding, Recovering,
         Resolving, AttestSteps
<1>5. Filed'
  BY <1>1, FiledStays DEF Inv, LoadStateAgain, prepVars, callVars
<1> QED
  BY <1>2, <1>3, <1>4, <1>5 DEF Inv

\* Both loads of the preparation journal.
LEMMA ReadPreserves ==
    ASSUME Inv, pc \in {"load", "loadAgain"},
           NEW then \in Continuations, then # "idle", then = "stateAgain" => ~loaded,
           ReadAndNormalize(then),
           UNCHANGED <<stateVars, runtimeVars, callVars>>
    PROVE  Inv'
<1>1. calling = 0
  BY DEF Inv, Located, Outstanding
<1>2. CASE /\ LoadFails
           /\ UNCHANGED <<prepFile, prepRecords>>
           /\ Goto(then, NoContext)
  <2>1. Typed'
    BY <1>2, ContextsMade DEF Inv, Typed, Listed, Goto, stateVars, runtimeVars, callVars
  <2>2. Stored'
    BY <1>2 DEF Inv, Stored, Goto, Continuations, stateVars, runtimeVars
  <2>3. Located'
    BY <1>1, <1>2 DEF Goto, Continuations, callVars, Located, Acquiring, Outstanding,
                      Recovering, Resolving, AttestSteps
  <2>4. Filed'
    BY <1>2, FiledStays DEF Inv, LoadFails, stateVars, callVars
  <2> QED
    BY <2>1, <2>2, <2>3, <2>4 DEF Inv
<1>3. CASE /\ prepFile' = Normalized /\ prepRecords' = Normalized
           /\ prepLoaded' = TRUE
           /\ \/ Goto(then, NoContext)
              \/ \E a \in Unresolved(Normalized) :
                    Goto("latch", [NoContext EXCEPT !.attempt = a, !.then = then])
  <2>1. Listed(Normalized)
    BY NormalizedList DEF Inv
  <2>2. Filed'
    BY <1>3, FiledNormalized DEF Inv, stateVars, callVars
  <2>3. \A a \in Unresolved(Normalized) :
          /\ a \in 0..MaxAttempts /\ a \in DOMAIN Normalized
          /\ Normalized[a].state \in Open \cup Attested
    BY <2>1, PreparationConstants DEF Unresolved, Listed, Inv, Typed
  <2>4. /\ \/ pc' = then /\ ctx' = NoContext
           \/ /\ pc' = "latch" /\ ctx'.attempt \in Unresolved(Normalized)
              /\ ctx'.then = then
        /\ ctx' \in Contexts
    <3>1. CASE Goto(then, NoContext)
      BY <3>1, ContextsMade DEF Goto
    <3>2. CASE \E a \in Unresolved(Normalized) :
                  Goto("latch", [NoContext EXCEPT !.attempt = a, !.then = then])
      <4>1. PICK a \in Unresolved(Normalized) :
                  Goto("latch", [NoContext EXCEPT !.attempt = a, !.then = then])
        BY <3>2
      <4>2. a \in 0..MaxAttempts
        BY <2>3
      <4>3. ctx'.attempt = a /\ ctx'.then = then /\ ctx' \in Contexts /\ pc' = "latch"
        BY <4>1, <4>2, ContextsMade DEF Goto
      <4> QED
        BY <4>3
    <3> QED
      BY <1>3, <3>1, <3>2
  <2>5. Typed'
    BY <1>3, <2>1, <2>4 DEF Inv, Typed, Listed, stateVars, runtimeVars, callVars
  <2>6. Stored'
    BY <2>4 DEF Inv, Stored, Continuations, stateVars, runtimeVars
  <2>7. Located'
    BY <1>1, <1>3, <2>3, <2>4
       DEF Continuations, callVars, Located, Acquiring, Outstanding, Recovering, Resolving,
           AttestSteps
  <2> QED
    BY <2>2, <2>5, <2>6, <2>7 DEF Inv
<1> QED
  BY <1>2, <1>3 DEF ReadAndNormalize

LEMMA LoadPreparationsPreserves == ASSUME Inv, LoadPreparations PROVE Inv'
BY ReadPreserves DEF LoadPreparations, Continuations

LEMMA LoadAgainPreserves == ASSUME Inv, LoadAgain PROVE Inv'
BY ReadPreserves DEF LoadAgain, Continuations

LEMMA ComposeRuntimePreserves == ASSUME Inv, ComposeRuntime PROVE Inv'
<1>1. facade' => loaded
  BY DEF ComposeRuntime, MutationReady, Enabled, State!SafetyFault, State!IntegrityFault,
         Inv, Stored
<1>2. Typed'
  BY ContextsMade
     DEF Inv, Typed, ComposeRuntime, Listed, Goto, Rest, stateVars, prepVars, callVars
<1>3. Stored'
  BY <1>1 DEF Inv, Stored, ComposeRuntime, Goto, Rest, stateVars
<1>4. Located'
  BY DEF Inv, ComposeRuntime, Goto, Rest, callVars, Located, Acquiring, Outstanding,
         Recovering, Resolving, AttestSteps
<1>5. Filed'
  BY FiledStays DEF Inv, ComposeRuntime, stateVars, prepVars, callVars
<1> QED
  BY <1>2, <1>3, <1>4, <1>5 DEF Inv

LEMMA PublishPreserves == ASSUME Inv, Publish PROVE Inv'
<1>1. CASE UNCHANGED <<stateVars, runtimeVars>>
  <2>1. Typed'
    BY <1>1, ContextsMade
       DEF Inv, Typed, Publish, Listed, Goto, Rest, stateVars, prepVars, runtimeVars, callVars
  <2>2. Stored'
    BY <1>1 DEF Inv, Stored, Publish, Goto, Rest, stateVars, runtimeVars
  <2>3. Located'
    BY DEF Inv, Publish, Goto, Rest, callVars, Located, Acquiring, Outstanding, Recovering,
           Resolving, AttestSteps
  <2>4. Filed'
    BY <1>1, FiledStays DEF Inv, Publish, stateVars, prepVars, callVars
  <2> QED
    BY <2>1, <2>2, <2>3, <2>4 DEF Inv
<1>2. CASE /\ facade' = FALSE /\ UNCHANGED waiting
           /\ \E r \in StateResults : State!Bump(FALSE, None, r)
  <2>1. (Moved /\ Carries) \/ Unmoved
    BY <1>2, BumpEffect, ResultsAreOutcomes DEF Inv
  <2>2. Typed'
    BY <1>2, <2>1, StoredMoves, ContextsMade
       DEF Inv, Typed, Publish, Listed, Goto, Rest, prepVars, callVars
  <2>3. Stored'
    BY <1>2, <2>1, StoredMoves DEF Inv, Stored, Publish, Goto, Rest
  <2>4. Located'
    BY DEF Inv, Publish, Goto, Rest, callVars, Located, Acquiring, Outstanding, Recovering,
           Resolving, AttestSteps
  <2>5. Filed'
    BY <2>1, FiledStays DEF Inv, Unmoved, Publish, prepVars, callVars
  <2> QED
    BY <2>2, <2>3, <2>4, <2>5 DEF Inv
<1> QED
  BY <1>1, <1>2 DEF Publish

LEMMA AdmitPreserves == ASSUME Inv, Admit PROVE Inv'
<1>1. Typed'
  BY DEF Inv, Typed, Admit, Listed, Images, Positive, stateVars, prepVars, callVars
<1>2. Stored'
  BY DEF Inv, Stored, Admit, stateVars
<1>3. Located'
  BY DEF Inv, Admit, stateVars, prepVars, callVars, Located, Acquiring, Outstanding,
         Recovering, Resolving, OpenRecords
<1>4. Filed'
  BY FiledStays DEF Inv, Admit, stateVars, prepVars, callVars
<1> QED
  BY <1>1, <1>2, <1>3, <1>4 DEF Inv

\* The gate passes only while nothing is bound: a binding names a record that is open,
\* or attested and still named.
LEMMA GateMeansUnbound ==
    ASSUME Inv, Gate
    PROVE  /\ prepLoaded
           /\ disk.preparation = None
           /\ OpenRecords(prepRecords) = {}
<1>1. prepLoaded /\ Unresolved(prepRecords) = {} /\ snap = disk
  BY DEF Gate, Inv, Stored
<1>2. OpenRecords(prepRecords) = {}
  BY <1>1 DEF Unresolved, OpenRecords
<1>3. ASSUME disk.preparation # None PROVE FALSE
  <2> DEFINE a == disk.preparation.attempt
  <2>1. a \in DOMAIN prepRecords /\ prepRecords[a].state \in Open \cup Attested
    BY <1>1, <1>3 DEF Inv, Filed, Mirrored, Kept, Named
  <2> QED
    BY <1>1, <1>3, <2>1 DEF Unresolved
<1> QED
  BY <1>1, <1>2, <1>3

LEMMA BeginMutationPreserves == ASSUME Inv, BeginMutation PROVE Inv'
<1>1. Filed'
  BY FiledStays DEF Inv, BeginMutation, stateVars, prepVars
<1>2. CASE UNCHANGED <<pc, ctx, attempts>>
  <2>1. Typed'
    BY <1>2 DEF Inv, Typed, BeginMutation, Listed, stateVars, prepVars
  <2>2. Stored'
    BY <1>2 DEF Inv, Stored, BeginMutation, stateVars
  <2>3. Located'
    BY <1>2 DEF Inv, BeginMutation, stateVars, prepVars, Located, Acquiring, Outstanding,
                Recovering, Resolving, OpenRecords
  <2> QED
    BY <1>1, <2>1, <2>2, <2>3 DEF Inv
<1>3. CASE /\ Gate
           /\ attempts' = attempts + 1
           /\ \E x \in Expectations :
                Goto("acquire", [NoContext EXCEPT !.attempt = attempts + 1, !.expectation = x,
                                                  !.generation = waiting])
  <2>1. attempts' \in 1..MaxAttempts /\ attempts \in 0..MaxAttempts
    <3>1. attempts \in 0..MaxAttempts /\ waiting # 0 /\ attempts < MaxAttempts
      BY DEF Inv, Typed, BeginMutation
    <3>2. MaxAttempts \in Nat
      BY PreparationConstants
    <3> QED
      BY <1>3, <3>1, <3>2
  <2>2. PICK x \in Expectations :
          Goto("acquire", [NoContext EXCEPT !.attempt = attempts + 1, !.expectation = x,
                                            !.generation = waiting])
    BY <1>3
  <2>3. /\ pc' = "acquire"
        /\ ctx' = [attempt |-> attempts', state |-> "PREPARED", generation |-> waiting,
                   expectation |-> x, then |-> "idle"]
    BY <1>3, <2>2 DEF Goto, NoContext
  <2>4. ctx' \in Contexts
    <3>1. waiting \in Positive
      BY DEF Inv, Typed, BeginMutation, Positive
    <3>2. "PREPARED" \in RecordStates /\ "idle" \in Continuations
      BY DEF RecordStates, Continuations
    <3> QED
      BY <2>1, <2>3, <3>1, <3>2 DEF Contexts
  <2>5. Listed(prepFile)' /\ Listed(prepRecords)'
    <3>1. 1..attempts \subseteq 1..attempts'
      BY <1>3, <2>1
    <3>2. Listed(prepFile) /\ Listed(prepRecords)
      BY DEF Inv, Typed
    <3>3. UNCHANGED <<prepFile, prepRecords>>
      BY DEF BeginMutation, prepVars
    <3> QED
      BY <3>1, <3>2, <3>3 DEF Listed
  <2>6. Typed'
    <3>1. attempts' \in 0..MaxAttempts
      BY <2>1, PreparationConstants
    <3>2. waiting' = 0 /\ UNCHANGED <<disk, snap, calling, sent>>
      BY DEF BeginMutation, stateVars
    <3> QED
      BY <2>4, <2>5, <3>1, <3>2 DEF Inv, Typed
  <2>7. Stored'
    BY <2>3 DEF Inv, Stored, BeginMutation, stateVars
  <2>8. /\ prepLoaded' /\ (disk.preparation = None)' /\ (OpenRecords(prepRecords) = {})'
    BY <1>3, GateMeansUnbound DEF BeginMutation, stateVars, prepVars, OpenRecords
  <2>9. attempts' \notin DOMAIN prepRecords'
    <3>1. DOMAIN prepRecords \subseteq 1..attempts
      BY DEF Inv, Typed, Listed
    <3>2. prepRecords' = prepRecords
      BY DEF BeginMutation, prepVars
    <3>3. attempts + 1 \notin 1..attempts
      BY <2>1, PreparationConstants
    <3> QED
      BY <1>3, <3>1, <3>2, <3>3
  <2>10. Located'
    <3>1. calling' = 0
      BY DEF BeginMutation
    <3>2. /\ ctx'.attempt = attempts' /\ attempts' # 0 /\ ctx'.expectation \in Expectations
          /\ ctx'.then = "idle"
      BY <2>1, <2>3
    <3>3. Acquiring'
      BY <2>3, <2>8, <2>9, <3>1, <3>2 DEF Acquiring
    <3>4. Outstanding' /\ Recovering' /\ Resolving'
      BY <2>3, <3>1 DEF Outstanding, Recovering, Resolving, AttestSteps
    <3> QED
      BY <3>3, <3>4 DEF Located
  <2> QED
    BY <1>1, <2>6, <2>7, <2>10 DEF Inv
<1> QED
  BY <1>2, <1>3 DEF BeginMutation

LEMMA AcquirePreserves == ASSUME Inv, Acquire PROVE Inv'
<1> DEFINE new == WithRecord("PREPARED", 1)
<1>1. Listed(new)
  BY WithRecordList DEF Inv, Located, Acquire, RecordStates, Positive
<1>2. CASE ~MayAcquire
  <2>1. Typed'
    BY <1>2, ContextsMade
       DEF Inv, Typed, Acquire, Listed, Goto, Rest, stateVars, runtimeVars, callVars
  <2>2. Located'
    BY <1>2 DEF Inv, Acquire, Goto, Rest, stateVars, callVars, Located, Acquiring,
                Outstanding, Recovering, Resolving, AttestSteps
  <2>3. Filed'
    BY <1>2, FiledStays DEF Inv, Acquire, stateVars, callVars
  <2>4. Stored'
    BY <1>2 DEF Inv, Stored, Acquire, Goto, Rest, stateVars, runtimeVars
  <2> QED
    BY <2>1, <2>2, <2>3, <2>4 DEF Inv
<1>3. CASE MayAcquire
  <2>1. \A a \in DOMAIN prepRecords : ~SameIntent(prepRecords[a], ctx)
    BY <1>3 DEF MayAcquire, SameIntent
  <2>2. PICK r \in AcquireResults :
          /\ AcquireSave(new, r)
          /\ IF r = "ok" THEN Goto("dispatch", ctx) ELSE Rest
    BY <1>3 DEF Acquire
  <2>3. prepFile' = prepFile \/ prepFile' = new
    BY <2>2 DEF AcquireSave
  <2>4. (pc' = "dispatch" /\ ctx' = ctx) \/ (pc' = "idle" /\ ctx' = NoContext)
    BY <2>2 DEF Goto, Rest
  <2> HIDE DEF new
  <2>5. Typed'
    <3>1. Listed(prepFile)' /\ Listed(prepRecords)'
      BY <1>1, <2>3 DEF Inv, Typed, Listed, Acquire, callVars
    <3>2. ctx' \in Contexts
      BY <2>4, ContextsMade DEF Inv, Typed
    <3> QED
      BY <3>1, <3>2 DEF Inv, Typed, Acquire, stateVars, runtimeVars, callVars
  <2>6. Stored'
    BY <2>4 DEF Inv, Stored, Acquire, stateVars, runtimeVars
  <2>7. Located'
    BY <2>1, <2>4 DEF Inv, Acquire, stateVars, callVars, Located, Acquiring, Outstanding,
                      Recovering, Resolving, AttestSteps, OpenRecords
  <2>8. Filed'
    BY <2>1, <2>3, FiledAcquired
       DEF Inv, Located, Acquire, stateVars, callVars, new, Positive
  <2> QED
    BY <2>5, <2>6, <2>7, <2>8 DEF Inv
<1> QED
  BY <1>2, <1>3

LEMMA DispatchPreserves == ASSUME Inv, Dispatch PROVE Inv'
<1> DEFINE new == WithRecord("DISPATCHING", 2)
<1>1. /\ DOMAIN new = DOMAIN prepRecords \cup {attempts}
      /\ Listed(new)
      /\ new[attempts].state = "DISPATCHING"
  BY WithRecordList DEF Inv, Located, Dispatch, RecordStates, Open, Positive
<1>2. \A a \in DOMAIN prepRecords : ~SameIntent(prepRecords[a], ctx)
  BY DEF Inv, Located, Acquiring, Dispatch
<1>3. PICK r \in AcquireResults :
        /\ AcquireSave(new, r)
        /\ IF r = "ok" THEN prepRecords' = new /\ calling' = ctx.attempt
                       ELSE UNCHANGED <<prepRecords, calling>>
  BY DEF Dispatch
<1>4. \/ /\ prepFile' = new /\ prepRecords' = new /\ calling' = attempts
      \/ /\ prepFile' = prepFile \/ prepFile' = new
         /\ UNCHANGED <<prepRecords, calling>>
  BY <1>3 DEF AcquireSave, Inv, Located, Acquiring, Dispatch
<1>5. Filed'
  <2>1. "DISPATCHING" \in {"PREPARED", "DISPATCHING"} /\ 2 \in Positive
    BY DEF Positive
  <2>2. UNCHANGED <<disk, sent, answered, prepLoaded>> /\ pc = "dispatch"
    BY DEF Dispatch, stateVars
  <2>3. \/ prepFile' = prepFile /\ prepRecords' = prepRecords
        \/ prepFile' = new /\ (prepRecords' = prepRecords \/ prepRecords' = new)
    BY <1>4
  <2> QED
    BY <1>2, <2>1, <2>2, <2>3, FiledAcquired DEF Inv, Located
<1> HIDE DEF new
<1>6. pc' = "idle" /\ ctx' = NoContext
  BY DEF Dispatch, Rest, Goto
<1>7. Typed'
  <2>1. Listed(prepFile)' /\ Listed(prepRecords)'
    BY <1>1, <1>4 DEF Inv, Typed, Listed, Dispatch
  <2>2. ctx' \in Contexts
    BY <1>6, ContextsMade
  <2>3. calling' \in 0..MaxAttempts
    BY <1>4 DEF Inv, Typed
  <2> QED
    BY <2>1, <2>2, <2>3 DEF Inv, Typed, Dispatch, stateVars, runtimeVars
<1>8. Stored'
  BY <1>6 DEF Inv, Stored, Dispatch, stateVars, runtimeVars
<1>9. Located'
  BY <1>1, <1>4, <1>6 DEF Inv, Dispatch, stateVars, Located, Acquiring, Outstanding,
                          Recovering, Resolving, AttestSteps
<1> QED
  BY <1>5, <1>7, <1>8, <1>9 DEF Inv

LEMMA CallPreserves == ASSUME Inv, Call PROVE Inv'
<1>1. /\ prepLoaded
      /\ calling \in DOMAIN prepRecords
      /\ prepRecords[calling].state # "PREPARED"
      /\ calling \in DOMAIN prepFile /\ prepFile[calling] = prepRecords[calling]
  BY DEF Inv, Located, Outstanding, Filed, Mirrored, Call, Required
<1>2. calling \in 1..MaxAttempts
  BY <1>1, PreparationConstants DEF Inv, Typed, Listed
<1>3. Typed'
  BY <1>2 DEF Inv, Typed, Call, Listed, stateVars, prepVars, runtimeVars
<1>4. Stored'
  BY DEF Inv, Stored, Call, stateVars, runtimeVars
<1>5. Located'
  BY DEF Inv, Call, stateVars, prepVars, Located, Acquiring, Outstanding, Recovering,
         Resolving, OpenRecords
<1>6. Mirrored'
  BY <1>1 DEF Inv, Filed, Mirrored, Call, stateVars, prepVars
<1>7. Kept'
  BY <1>1 DEF Inv, Filed, Kept, OneOpen, OneIntent, OpenRecords, Named, Call, stateVars,
              prepVars
<1> QED
  BY <1>3, <1>4, <1>5, <1>6, <1>7 DEF Inv, Filed

LEMMA ReplyPreserves == ASSUME Inv, Reply PROVE Inv'
<1>1. PICK s \in {Required} \cup (IF calling \in sent THEN ByProvider ELSE {}) :
        /\ Goto("outcome", [NoContext EXCEPT !.attempt = calling, !.state = s])
        /\ answered' = IF s = Required THEN answered ELSE answered \cup {calling}
  BY DEF Reply
<1>2. s \in RecordStates /\ s \in {Required} \cup ByProvider /\ calling \in 0..MaxAttempts
  BY DEF RecordStates, Open, ByProvider, Inv, Typed
<1>3. /\ pc' = "outcome" /\ ctx' \in Contexts
      /\ ctx'.attempt = calling /\ ctx'.state = s /\ ctx'.then = "idle"
  BY ZenonT(60), <1>1, <1>2, ContextsMade DEF Goto
<1>4. answered \subseteq answered' /\ (s \in ByProvider => calling \in answered')
  BY <1>1 DEF Required, ByProvider
<1>5. Typed'
  BY <1>3 DEF Inv, Typed, Reply, Listed, stateVars, prepVars, runtimeVars
<1>6. Stored'
  BY <1>3 DEF Inv, Stored, Reply, stateVars, runtimeVars
<1>7. Located'
  BY <1>2, <1>3, <1>4 DEF Inv, Reply, stateVars, prepVars, Located, Acquiring, Outstanding,
                          Recovering, Resolving, AttestSteps
<1>8. Filed'
  BY <1>4, FiledStays DEF Inv, Reply, stateVars, prepVars
<1> QED
  BY <1>5, <1>6, <1>7, <1>8 DEF Inv

\* The end of an operation, back to where it was called from.
LEMMA ReturnLocated ==
    ASSUME Inv, pc \in {"outcome", "latch", "fault"}, Return
    PROVE  Located'
<1>1. pc' \in Continuations /\ pc' = ctx.then
  BY DEF Return, Goto, Inv, Typed, Contexts
<1>2. calling' = 0
  BY DEF Return, Inv, Located, Outstanding
<1> QED
  BY <1>1, <1>2 DEF Continuations, Located, Acquiring, Outstanding, Recovering, Resolving,
                    AttestSteps

LEMMA ReturnTyped ==
    ASSUME Inv, Return
    PROVE  /\ ctx' \in Contexts /\ calling' \in 0..MaxAttempts
           /\ pc' \in Continuations /\ pc' = ctx.then
<1>1. ctx' = NoContext /\ pc' = ctx.then
  BY DEF Return, Goto
<1>2. calling' = 0 \/ calling' = calling
  BY DEF Return
<1>3. ctx.then \in Continuations
  BY DEF Inv, Typed, Contexts
<1>4. 0 \in 0..MaxAttempts
  BY PreparationConstants
<1> QED
  BY <1>1, <1>2, <1>3, <1>4, ContextsMade DEF Inv, Typed

LEMMA RecordOutcomePreserves == ASSUME Inv, RecordOutcome PROVE Inv'
<1> DEFINE a == ctx.attempt
           s == ctx.state
           new == Replaced(a, s)
<1>1. /\ calling # 0 /\ a = calling /\ prepLoaded
      /\ ctx.then = "idle"
      /\ a \in DOMAIN prepRecords /\ prepRecords[a].state = "DISPATCHING"
      /\ disk.preparation = None
      /\ s \in {Required} \cup ByProvider
      /\ s \in ByProvider => a \in answered
  BY DEF Inv, Located, Outstanding, Recovering, RecordOutcome
<1>2. s \in RecordStates /\ s # "PREPARED" /\ (s \in Conclusive => a \in answered)
  BY <1>1 DEF RecordStates, Open, ByProvider, Required, Conclusive, Attested
<1>3. /\ DOMAIN new = DOMAIN prepRecords /\ Listed(new)
      /\ new[a].state = s
  BY <1>1, <1>2, ReplacedList DEF Inv, Typed
<1>4. UNCHANGED <<disk, snap, loaded, storageFault, facade, waiting, prepLoaded, sent,
                  answered, attempts>>
  BY DEF RecordOutcome, stateVars, runtimeVars
<1>5. CASE prepFile' = new /\ prepRecords' = new
  <2>1. \/ s = Required /\ pc' = "latch" /\ ctx' = ctx /\ calling' = calling
        \/ s # Required /\ Return
        \/ /\ prepFile' = prepFile /\ prepRecords' = prepRecords
           /\ pc' = "fault" /\ ctx' = ctx /\ calling' = calling
    BY DEF RecordOutcome, Goto
  <2>2. ctx' \in Contexts /\ calling' \in 0..MaxAttempts
    BY <2>1, ReturnTyped DEF Inv, Typed
  <2>3. Filed'
    BY <1>1, <1>2, <1>4, <1>5, FiledReplaced DEF Inv, Open
  <2> HIDE DEF new
  <2>4. Typed'
    <3>1. Listed(prepFile)' /\ Listed(prepRecords)'
      BY <1>3, <1>4, <1>5 DEF Listed
    <3> QED
      BY <1>4, <2>2, <3>1 DEF Inv, Typed
  <2>5. Stored'
    BY <1>1, <1>4, <2>1, ReturnTyped DEF Inv, Stored, RecordOutcome
  <2>6. Located'
    <3>1. CASE Return
      BY <3>1, ReturnLocated DEF RecordOutcome
    <3>2. CASE s = Required /\ pc' = "latch" /\ ctx' = ctx /\ calling' = calling
      BY <1>1, <1>3, <1>4, <1>5, <3>2
         DEF Located, Acquiring, Outstanding, Recovering, Resolving, AttestSteps, Open
    <3>3. CASE /\ prepRecords' = prepRecords
               /\ pc' = "fault" /\ ctx' = ctx /\ calling' = calling
      BY <1>1, <1>4, <3>3 DEF Located, Acquiring, Outstanding, Recovering, Resolving,
                              AttestSteps
    <3> QED
      BY <2>1, <3>1, <3>2, <3>3
  <2> QED
    BY <2>3, <2>4, <2>5, <2>6 DEF Inv
<1>6. CASE UNCHANGED <<prepFile, prepRecords, calling>> /\ Goto("fault", ctx)
  <2>1. Typed'
    BY <1>4, <1>6 DEF Inv, Typed, Listed, Goto
  <2>2. Stored'
    BY <1>1, <1>4, <1>6 DEF Inv, Stored, Goto, RecordOutcome
  <2>3. Located'
    BY <1>1, <1>4, <1>6 DEF Goto, Located, Acquiring, Outstanding, Recovering, Resolving,
                            AttestSteps
  <2>4. Filed'
    BY <1>4, <1>6, FiledStays DEF Inv
  <2> QED
    BY <2>1, <2>2, <2>3, <2>4 DEF Inv
<1> QED
  BY <1>5, <1>6 DEF RecordOutcome

\* The latch, for its three callers: an outcome, a load, an attestation.
LEMMA RecordLatched ==
    ASSUME Inv, pc \in {"latch", "refresh"}, NEW r \in StateResults, LatchRecord(r)
    PROVE  /\ prepLoaded /\ ctx.attempt \in DOMAIN prepRecords
           /\ prepRecords[ctx.attempt].state \in Open \cup Attested
           /\ prepRecords[ctx.attempt] \in Records
           /\ \/ /\ r = "ok" /\ Moved
                 /\ Binds(ctx.attempt, prepRecords[ctx.attempt].revision,
                          prepRecords[ctx.attempt].expectation)
              \/ r # "ok" /\ Unmoved
<1>1. /\ prepLoaded /\ ctx.attempt \in DOMAIN prepRecords
      /\ prepRecords[ctx.attempt].state \in Open \cup Attested
  BY DEF Inv, Located, Recovering, Resolving, AttestSteps, Open, Unknown
<1>2. prepRecords[ctx.attempt] \in Records
  BY <1>1 DEF Inv, Typed, Listed
<1>3. /\ prepRecords[ctx.attempt].revision \in Positive
      /\ prepRecords[ctx.attempt].expectation \in Expectations
  BY <1>2 DEF Records
<1>4. ctx.attempt \in Nat
  BY PreparationConstants DEF Inv, Typed, Contexts
<1>5. r \in StateOutcomes
  BY ResultsAreOutcomes
<1>6. State!LatchPreparationReconciliation(
          ctx.attempt, prepRecords[ctx.attempt].revision,
          prepRecords[ctx.attempt].expectation, r)
  BY DEF LatchRecord
<1>7. \/ /\ r = "ok" /\ Moved
         /\ Binds(ctx.attempt, prepRecords[ctx.attempt].revision,
                  prepRecords[ctx.attempt].expectation)
      \/ r # "ok" /\ Unmoved
  BY <1>3, <1>4, <1>5, <1>6, LatchEffect DEF Inv
<1> QED
  BY <1>1, <1>2, <1>7

LEMMA LatchFiled ==
    ASSUME Inv, pc \in {"latch", "refresh"}, NEW r \in StateResults, LatchRecord(r),
           UNCHANGED <<prepFile, prepRecords, prepLoaded, sent, answered>>
    PROVE  Filed'
<1>1. CASE r = "ok"
  <2>1. /\ prepLoaded /\ ctx.attempt \in DOMAIN prepRecords
        /\ prepRecords[ctx.attempt].state \in Open \cup Attested
        /\ Binds(ctx.attempt, prepRecords[ctx.attempt].revision,
                 prepRecords[ctx.attempt].expectation)
    BY <1>1, RecordLatched
  <2> QED
    BY <2>1, FiledBound DEF Inv
<1>2. CASE r # "ok"
  <2>1. disk' = disk
    BY <1>2, RecordLatched DEF Unmoved
  <2> QED
    BY <2>1, FiledStays DEF Inv
<1> QED
  BY <1>1, <1>2

LEMMA LatchReconciliationPreserves == ASSUME Inv, LatchReconciliation PROVE Inv'
<1>1. PICK r \in StateResults :
        /\ LatchRecord(r)
        /\ IF r = "ok" THEN Return ELSE Goto("fault", ctx) /\ UNCHANGED calling
  BY DEF LatchReconciliation
<1>2. \/ r = "ok" /\ Moved
      \/ r # "ok" /\ Unmoved
  BY <1>1, RecordLatched DEF LatchReconciliation
<1>3. UNCHANGED <<prepFile, prepRecords, prepLoaded, facade, waiting, sent, answered,
                  attempts>>
  BY DEF LatchReconciliation, prepVars, runtimeVars
<1>4. Filed'
  BY <1>1, <1>3, LatchFiled DEF LatchReconciliation
<1>5. /\ disk' \in Images /\ snap' \in Images
      /\ loaded' => snap' = disk'
      /\ ~loaded' => snap'.preparation = None
      /\ loaded' = loaded
      /\ storageFault => storageFault'
  BY <1>2, StoredMoves DEF Inv
<1>6. CASE r = "ok"
  <2>1. Return /\ loaded
    BY <1>1, <1>2, <1>6 DEF Moved
  <2>2. Typed'
    BY <1>3, <1>5, <2>1, ReturnTyped DEF Inv, Typed, Listed
  <2>3. pc' # "stateAgain" /\ pc' \in Continuations
    BY <2>1, ReturnTyped DEF Inv, Stored, LatchReconciliation
  <2>4. Stored'
    BY <1>3, <1>5, <2>1, <2>3 DEF Inv, Stored, Continuations
  <2>5. Located'
    BY <2>1, ReturnLocated DEF LatchReconciliation
  <2> QED
    BY <1>4, <2>2, <2>4, <2>5 DEF Inv
<1>7. CASE r # "ok"
  <2>1. pc' = "fault" /\ ctx' = ctx /\ calling' = calling /\ disk' = disk
    BY <1>1, <1>2, <1>7 DEF Goto, Unmoved
  <2>2. Typed'
    BY <1>3, <1>5, <2>1 DEF Inv, Typed, Listed
  <2>3. Stored'
    BY <1>3, <1>5, <2>1 DEF Inv, Stored, LatchReconciliation
  <2>4. Located'
    BY <1>3, <2>1 DEF Inv, LatchReconciliation, Located, Acquiring, Outstanding, Recovering,
                      Resolving, AttestSteps
  <2> QED
    BY <1>4, <2>2, <2>3, <2>4 DEF Inv
<1> QED
  BY <1>6, <1>7

LEMMA LatchFaultPreserves == ASSUME Inv, LatchFault PROVE Inv'
<1>1. (Moved /\ Carries) \/ Unmoved
  BY BumpEffect, ResultsAreOutcomes DEF LatchFault, State!LatchFault, Inv
<1>2. /\ disk' \in Images /\ snap' \in Images
      /\ loaded' => snap' = disk'
      /\ ~loaded' => snap'.preparation = None
      /\ loaded' = loaded
      /\ storageFault => storageFault'
  BY <1>1, StoredMoves DEF Inv
<1>3. Return /\ pc = "fault"
  BY DEF LatchFault
<1>4. /\ UNCHANGED <<prepFile, prepRecords, facade, waiting, sent, answered, attempts>>
      /\ prepLoaded' => prepLoaded
  BY DEF LatchFault, LoadFails, runtimeVars
<1>5. Typed'
  BY <1>2, <1>3, <1>4, ReturnTyped DEF Inv, Typed, Listed
<1>6. Stored'
  BY <1>2, <1>3, <1>4, ReturnTyped DEF Inv, Stored, Continuations
<1>7. Located'
  BY <1>3, ReturnLocated
<1>8. Filed'
  BY <1>1, <1>4, FiledStays DEF Inv, Unmoved
<1> QED
  BY <1>5, <1>6, <1>7, <1>8 DEF Inv

LEMMA BeginAttestationPreserves == ASSUME Inv, BeginAttestation PROVE Inv'
<1> DEFINE a == snap.preparation.attempt
<1>1. PICK k \in DOMAIN Attestation :
        LET context == [NoContext EXCEPT !.attempt = a, !.state = Attestation[k]]
        IN  \/ /\ prepRecords[a].state = Required
               /\ Goto("attest", context)
               /\ answered' = IF k = "still_unknown" THEN answered ELSE answered \cup {a}
            \/ /\ prepRecords[a].state \in Attested
               /\ prepRecords[a].state = Attestation[k]
               /\ Goto("refresh", context)
               /\ UNCHANGED answered
  BY DEF BeginAttestation
<1> DEFINE s == Attestation[k]
<1>2. /\ snap.preparation # None /\ prepLoaded
      /\ a \in DOMAIN prepRecords
  BY DEF BeginAttestation, Bound, Unresolved
<1>3. calling = 0
  BY <1>2 DEF Inv, Stored, Located, Outstanding, BeginAttestation
<1>4. /\ s \in Attested \cup {Unknown} /\ s \in RecordStates
      /\ s \in Attested => k # "still_unknown"
  BY DEF Attestation, Attested, Unknown, RecordStates, Open
<1>5. a \in 0..MaxAttempts
  BY <1>2, PreparationConstants DEF Inv, Typed, Listed
<1>6. \/ /\ prepRecords[a].state = Required
         /\ Goto("attest", [NoContext EXCEPT !.attempt = a, !.state = s])
         /\ answered' = IF k = "still_unknown" THEN answered ELSE answered \cup {a}
      \/ /\ prepRecords[a].state = s
         /\ Goto("refresh", [NoContext EXCEPT !.attempt = a, !.state = s])
         /\ UNCHANGED answered
  BY <1>1
<1>7. UNCHANGED <<stateVars, prepVars, runtimeVars, calling, sent, attempts>>
  BY DEF BeginAttestation
<1> HIDE DEF a, s
<1>8. LET c == [NoContext EXCEPT !.attempt = a, !.state = s]
      IN  c \in Contexts /\ c.attempt = a /\ c.state = s /\ c.then = "idle"
  BY <1>4, <1>5, ContextsMade
<1>9. /\ answered \subseteq answered'
       /\ ctx' \in Contexts /\ ctx'.attempt = a /\ ctx'.state = s /\ ctx'.then = "idle"
       /\ \/ /\ pc' = "attest" /\ prepRecords[a].state = Required
             /\ s \in Attested => a \in answered'
          \/ pc' = "refresh" /\ prepRecords[a].state = s
  BY <1>4, <1>6, <1>8 DEF Goto
<1>10. Typed'
  BY <1>7, <1>9 DEF Inv, Typed, Listed, stateVars, prepVars, runtimeVars
<1>11. Stored'
  BY <1>7, <1>9 DEF Inv, Stored, BeginAttestation, stateVars, runtimeVars
<1>12. Located'
  BY <1>2, <1>3, <1>4, <1>7, <1>9
     DEF stateVars, prepVars, Located, Acquiring, Outstanding, Recovering, Resolving,
         AttestSteps
<1>13. Filed'
  BY <1>7, <1>9, FiledStays DEF Inv, stateVars, prepVars
<1> QED
  BY SMTT(60), <1>10, <1>11, <1>12, <1>13 DEF Inv

LEMMA AttestPreserves == ASSUME Inv, Attest PROVE Inv'
<1> DEFINE a == ctx.attempt
           s == ctx.state
           new == Replaced(a, s)
<1>1. /\ calling = 0 /\ prepLoaded /\ ctx.then = "idle"
      /\ a \in DOMAIN prepRecords /\ prepRecords[a].state = Required
      /\ s \in Attested \cup {Unknown}
      /\ s \in Attested => a \in answered
  BY DEF Inv, Located, Outstanding, Resolving, AttestSteps, Attest
<1>2. /\ s \in RecordStates /\ s # "PREPARED" /\ s \in Open \cup Attested
      /\ s \in Conclusive => a \in answered
  BY <1>1 DEF RecordStates, Open, ByProvider, Unknown, Conclusive, Attested
<1>3. /\ DOMAIN new = DOMAIN prepRecords /\ Listed(new)
      /\ new[a].state = s
  BY <1>1, <1>2, ReplacedList DEF Inv, Typed
<1>4. UNCHANGED <<disk, snap, loaded, storageFault, facade, waiting, prepLoaded, calling,
                  sent, answered, attempts>>
  BY DEF Attest, stateVars, runtimeVars, callVars
<1>5. CASE prepFile' = new /\ prepRecords' = new /\ Goto("refresh", ctx)
  <2>1. Filed'
    BY <1>1, <1>2, <1>4, <1>5, FiledReplaced DEF Inv, Open
  <2> HIDE DEF new
  <2>2. Typed'
    <3>1. Listed(prepFile)' /\ Listed(prepRecords)'
      BY <1>3, <1>4, <1>5 DEF Listed
    <3> QED
      BY <1>4, <1>5, <3>1 DEF Inv, Typed, Goto
  <2>3. Stored'
    BY <1>4, <1>5 DEF Inv, Stored, Attest, Goto
  <2>4. Located'
    BY <1>1, <1>3, <1>4, <1>5
       DEF Goto, Located, Acquiring, Outstanding, Recovering, Resolving, AttestSteps
  <2> QED
    BY <2>1, <2>2, <2>3, <2>4 DEF Inv
<1>6. CASE UNCHANGED <<prepFile, prepRecords>> /\ Rest
  <2>1. Typed'
    BY <1>4, <1>6, ContextsMade DEF Inv, Typed, Listed, Goto, Rest
  <2>2. Stored'
    BY <1>4, <1>6 DEF Inv, Stored, Attest, Goto, Rest
  <2>3. Located'
    BY <1>1, <1>4, <1>6 DEF Goto, Rest, Located, Acquiring, Outstanding, Recovering,
                            Resolving, AttestSteps
  <2>4. Filed'
    BY <1>4, <1>6, FiledStays DEF Inv
  <2> QED
    BY <2>1, <2>2, <2>3, <2>4 DEF Inv
<1> QED
  BY <1>5, <1>6 DEF Attest

LEMMA RefreshBindingPreserves == ASSUME Inv, RefreshBinding PROVE Inv'
<1>1. PICK r \in StateResults :
        /\ LatchRecord(r)
        /\ IF r = "ok" /\ ctx.state # Unknown THEN Goto("clear", ctx) ELSE Rest
  BY DEF RefreshBinding
<1>2. UNCHANGED <<prepFile, prepRecords, prepLoaded, facade, waiting, calling, sent,
                  answered, attempts>>
  BY DEF RefreshBinding, prepVars, runtimeVars, callVars
<1>3. Filed'
  BY <1>1, <1>2, LatchFiled DEF RefreshBinding
<1>4. /\ disk' \in Images /\ snap' \in Images
      /\ loaded' => snap' = disk'
      /\ ~loaded' => snap'.preparation = None
      /\ loaded' = loaded
      /\ storageFault => storageFault'
  <2>1. Moved \/ Unmoved
    BY <1>1, RecordLatched DEF RefreshBinding
  <2> QED
    BY <2>1, StoredMoves DEF Inv
<1>5. \/ pc' = "clear" /\ ctx' = ctx /\ ctx.state # Unknown
      \/ pc' = "idle" /\ ctx' = NoContext
  BY <1>1 DEF Goto, Rest
<1>6. Typed'
  BY ZenonT(60), <1>2, <1>4, <1>5, ContextsMade DEF Inv, Typed, Listed
<1>7. Stored'
  BY <1>2, <1>4, <1>5 DEF Inv, Stored, RefreshBinding
<1>8. Located'
  BY <1>2, <1>5 DEF Inv, RefreshBinding, Located, Acquiring, Outstanding, Recovering,
                    Resolving, AttestSteps
<1> QED
  BY <1>3, <1>6, <1>7, <1>8 DEF Inv

LEMMA ClearBindingPreserves == ASSUME Inv, ClearBinding PROVE Inv'
<1>1. (Moved /\ disk'.preparation = None) \/ Unmoved
  <2>1. ctx.attempt \in Nat
    BY PreparationConstants DEF Inv, Typed, Contexts
  <2> QED
    BY <2>1, ClearEffect, ResultsAreOutcomes DEF ClearBinding, Inv
<1>2. /\ disk' \in Images /\ snap' \in Images
      /\ loaded' => snap' = disk'
      /\ ~loaded' => snap'.preparation = None
      /\ loaded' = loaded
      /\ storageFault => storageFault'
  BY <1>1, StoredMoves DEF Inv
<1>3. Typed'
  BY <1>2, ContextsMade
     DEF Inv, Typed, ClearBinding, Rest, Goto, Listed, prepVars, runtimeVars, callVars
<1>4. Stored'
  BY <1>2 DEF Inv, Stored, ClearBinding, Rest, Goto, runtimeVars
<1>5. Located'
  BY DEF Inv, ClearBinding, Rest, Goto, callVars, Located, Acquiring, Outstanding,
         Recovering, Resolving, AttestSteps
<1>6. Filed'
  BY <1>1, FiledStays DEF Inv, Unmoved, ClearBinding, prepVars, callVars
<1> QED
  BY <1>3, <1>4, <1>5, <1>6 DEF Inv

\* A bump beside whatever the authority is doing.
LEMMA BumpPreserves ==
    ASSUME Inv, pc \notin StartSteps \cup {"down"},
           NEW r \in StateOutcomes, State!Bump(FALSE, None, r),
           UNCHANGED <<prepVars, facade, waiting, pc, ctx, callVars>>
    PROVE  Inv'
<1>1. (Moved /\ Carries) \/ Unmoved
  BY BumpEffect DEF Inv
<1>2. /\ disk' \in Images /\ snap' \in Images
      /\ loaded' => snap' = disk'
      /\ ~loaded' => snap'.preparation = None
      /\ loaded' = loaded
      /\ storageFault => storageFault'
  BY <1>1, StoredMoves DEF Inv
<1>3. disk.preparation = None => disk'.preparation = None
  BY <1>1 DEF Carries, Unmoved
<1>4. Typed'
  BY <1>2 DEF Inv, Typed, Listed, prepVars, callVars
<1>5. Stored'
  BY <1>2 DEF Inv, Stored, StartSteps
<1>6. Located'
  BY <1>3 DEF Inv, Located, Acquiring, Outstanding, Recovering, Resolving, OpenRecords,
              prepVars, callVars
<1>7. Filed'
  BY <1>1, FiledStays DEF Inv, Unmoved, prepVars, callVars
<1> QED
  BY <1>4, <1>5, <1>6, <1>7 DEF Inv

LEMMA DisablePreserves == ASSUME Inv, Disable PROVE Inv'
BY BumpPreserves, ResultsAreOutcomes DEF Disable, Running

LEMMA CheckoutBumpsPreserves == ASSUME Inv, CheckoutBumps PROVE Inv'
BY BumpPreserves DEF CheckoutBumps, StateOutcomes, StartSteps, runtimeVars

\* A reload or a crash: what is left is what the files hold.
LEMMA EndPreserves == ASSUME Inv, End PROVE Inv'
<1>1. Typed'
  <2>1. disk' \in Images /\ snap' \in Images
    <3>1. State!FreshSnapshot \in Images
      BY DEF State!FreshSnapshot, Images, Positive
    <3>2. disk' = disk /\ snap' = State!FreshSnapshot
      BY DEF End, State!Forget
    <3> QED
      BY <3>1, <3>2 DEF Inv, Typed
  <2>2. Listed(prepFile)' /\ Listed(prepRecords)'
    BY DEF End, Inv, Typed, Listed
  <2>3. ctx' \in Contexts /\ waiting' \in Nat /\ waiting' = 0 /\ calling' \in 0..MaxAttempts
    <3>1. ctx' = NoContext /\ waiting' = 0 /\ calling' = 0
      BY DEF End, Goto
    <3>2. 0 \in 0..MaxAttempts
      BY PreparationConstants
    <3> QED
      BY <3>1, <3>2, ContextsMade
  <2> QED
    BY <2>1, <2>2, <2>3 DEF End, Inv, Typed
<1>2. Stored'
  BY DEF End, State!Forget, State!FreshSnapshot, Goto, Stored
<1>3. Located'
  BY DEF End, Goto, Located, Acquiring, Outstanding, Recovering, Resolving, AttestSteps
<1>4. Filed'
  BY FiledStays DEF End, State!Forget, Inv
<1> QED
  BY <1>1, <1>2, <1>3, <1>4 DEF Inv

LEMMA NextPreserves == ASSUME Inv, [Next]_vars PROVE Inv'
<1>1. CASE Next
  <2>1. CASE Starting
    BY <2>1, LoadStatePreserves, LoadPreparationsPreserves, LoadStateAgainPreserves,
       ComposeRuntimePreserves, LoadAgainPreserves, PublishPreserves DEF Starting
  <2>2. CASE Mutation
    BY <2>2, AcquirePreserves, DispatchPreserves, CallPreserves, ReplyPreserves,
       RecordOutcomePreserves DEF Mutation
  <2>3. CASE Latching
    BY <2>3, LatchReconciliationPreserves, LatchFaultPreserves DEF Latching
  <2>4. CASE Attesting
    BY <2>4, AttestPreserves, RefreshBindingPreserves, ClearBindingPreserves DEF Attesting
  <2>5. CASE Start \/ Reload \/ Crash
    BY <2>5, StartPreserves, EndPreserves DEF Reload, Crash
  <2>6. CASE Admit \/ BeginMutation \/ BeginAttestation
    BY <2>6, AdmitPreserves, BeginMutationPreserves, BeginAttestationPreserves
  <2>7. CASE Disable \/ CheckoutBumps
    BY <2>7, DisablePreserves, CheckoutBumpsPreserves
  <2> QED
    BY <1>1, <2>1, <2>2, <2>3, <2>4, <2>5, <2>6, <2>7 DEF Next, Progress
<1>2. CASE UNCHANGED vars
  <2>1. Typed' /\ Stored'
    BY <1>2 DEF Inv, Typed, Stored, Listed, vars, stateVars, prepVars, runtimeVars, callVars
  <2>2. Located'
    BY <1>2 DEF Inv, Located, Acquiring, Outstanding, Recovering, Resolving, OpenRecords,
                vars, stateVars, prepVars, callVars
  <2>3. Filed'
    BY <1>2, FiledStays DEF Inv, vars, stateVars, prepVars, callVars
  <2> QED
    BY <2>1, <2>2, <2>3 DEF Inv
<1> QED
  BY <1>1, <1>2

\* The invariant holds in every reachable state.
THEOREM PreparationInvariant == Spec => []Inv
<1>1. Inv /\ [Next]_vars => Inv'
  BY NextPreserves
<1> QED
  BY <1>1, InitHolds, PTL DEF Spec

(***************************************************************************)
(* What it gives.                                                          *)
(***************************************************************************)
\* Every mutation that may have reached the provider is on file, and no intent twice.
THEOREM SentStaysOnFile == Spec => []SentIsOnFileOnce
<1>1. Inv => SentIsOnFileOnce
  BY DEF Inv, Filed, Kept, OneIntent, SameIntent, SentIsOnFileOnce
<1> QED
  BY <1>1, PreparationInvariant, PTL

\* Both files can be loaded whenever the process ends.
THEOREM FilesAlwaysLoad == Spec => []AlwaysLoads
<1>1. Inv => AlwaysLoads
  <2> SUFFICES ASSUME Inv PROVE AlwaysLoads
    OBVIOUS
  <2>1. CASE OpenRecords(prepFile) = {}
    <3>1. Cardinality(OpenRecords(prepFile)) = 0
      BY <2>1, FS_EmptySet
    <3> QED
      BY <3>1 DEF AlwaysLoads, Inv, Filed, Kept
  <2>2. CASE OpenRecords(prepFile) # {}
    <3>1. PICK a : OpenRecords(prepFile) = {a}
      BY <2>2 DEF Inv, Filed, Kept, OneOpen
    <3>2. Cardinality(OpenRecords(prepFile)) = 1
      BY <3>1, FS_Singleton
    <3> QED
      BY <3>2 DEF AlwaysLoads, Inv, Filed, Kept
  <2> QED
    BY <2>1, <2>2
<1> QED
  BY <1>1, PreparationInvariant, PTL

\* Which actions move the binding on file: those that call the safety state.
LEMMA BindingChanges ==
    ASSUME Inv, Next, disk.preparation # None, disk'.preparation = None
    PROVE  /\ pc = "clear"
           /\ disk.preparation.attempt = ctx.attempt
<1>1. ~Unmoved
  BY DEF Unmoved
<1>2. ~Carries
  BY DEF Carries, Binds
<1>3. disk' # disk
  OBVIOUS
<1>4. \A v, x : ~Binds(ctx.attempt, v, x)
  BY DEF Binds
<1>5. ~Start /\ ~Reload /\ ~Crash /\ ~Admit /\ ~BeginMutation /\ ~BeginAttestation
  BY <1>3 DEF Start, Reload, Crash, End, State!Forget, Admit, BeginMutation,
              BeginAttestation, stateVars
<1>6. ~Mutation
  BY <1>3 DEF Mutation, Acquire, Dispatch, Call, Reply, RecordOutcome, stateVars
<1>7. ~LoadPreparations /\ ~ComposeRuntime /\ ~LoadAgain /\ ~Attest
  BY <1>3 DEF LoadPreparations, ComposeRuntime, LoadAgain, Attest, stateVars
<1>8. ~LoadState /\ ~LoadStateAgain
  BY <1>3 DEF LoadState, LoadStateAgain, State!Load, State!CancelRead, State!stateVars
<1>9. \A r \in StateResults : ~State!Bump(FALSE, None, r) /\ ~State!Bump(TRUE, None, r)
  BY <1>1, <1>2, BumpEffect, ResultsAreOutcomes DEF Inv
<1>10. ~Publish /\ ~Disable /\ ~LatchFault
  BY <1>3, <1>9 DEF Publish, Disable, LatchFault, State!LatchFault, stateVars
<1>11. ~CheckoutBumps
  BY <1>1, <1>2, BumpEffect DEF CheckoutBumps, StateOutcomes, Inv
<1>12. ~LatchReconciliation /\ ~RefreshBinding
  BY <1>1, <1>4, RecordLatched DEF LatchReconciliation, RefreshBinding
<1>13. ClearBinding
  BY <1>5, <1>6, <1>7, <1>8, <1>10, <1>11, <1>12
     DEF Next, Progress, Starting, Latching, Attesting
<1>14. ctx.attempt \in Nat
  BY PreparationConstants DEF Inv, Typed, Contexts
<1> QED
  BY <1>1, <1>13, <1>14, ClearEffect, ResultsAreOutcomes DEF ClearBinding, Inv

\* A binding leaves the safety file only after its conclusion is in the journal.
THEOREM ClearsFollowAttestation == Spec => ClearedOnlyAttested
<1>1. ASSUME Inv, [Next]_vars, disk.preparation # None, disk'.preparation = None
      PROVE  prepFile[disk.preparation.attempt].state \in Attested
  <2>1. Next
    BY <1>1 DEF vars, stateVars
  <2>2. pc = "clear" /\ disk.preparation.attempt = ctx.attempt
    BY <1>1, <2>1, BindingChanges
  <2> QED
    BY <1>1, <2>2 DEF Inv, Located, Resolving, AttestSteps, Filed, Mirrored
<1> QED
  BY <1>1, PreparationInvariant, PTL DEF Spec, ClearedOnlyAttested

\* The actions after which the setup goes on to compose its runtime.
LEMMA ReachesRuntime ==
    ASSUME Inv, Next, pc # "stateAgain", pc' = "runtime"
    PROVE  LoadPreparations \/ LatchReconciliation \/ LatchFault
<1>1. ~Start /\ ~Reload /\ ~Crash
  BY DEF Start, Reload, Crash, End, Goto
<1>2. ~Admit /\ ~Disable /\ ~CheckoutBumps
  BY DEF Admit, Disable, CheckoutBumps, Running, StartSteps
<1>3. ~BeginMutation /\ ~BeginAttestation
  BY DEF BeginMutation, BeginAttestation, Goto
<1>4. ~LoadState /\ ~LoadStateAgain /\ ~ComposeRuntime /\ ~Publish
  BY DEF LoadState, LoadStateAgain, ComposeRuntime, Publish, Goto, Rest
<1>5. ~LoadAgain
  BY DEF LoadAgain, ReadAndNormalize, Goto
<1>6. ~Acquire /\ ~Dispatch /\ ~Reply
  BY DEF Acquire, Dispatch, Reply, Goto, Rest
<1>7. ~Call
  BY DEF Call, Inv, Located, Outstanding
<1>8. ~RecordOutcome
  BY DEF RecordOutcome, Return, Goto, Inv, Located, Outstanding, Recovering
<1>9. ~Attesting
  BY DEF Attesting, Attest, RefreshBinding, ClearBinding, Goto, Rest
<1> QED
  BY <1>1, <1>2, <1>3, <1>4, <1>5, <1>6, <1>7, <1>8, <1>9
     DEF Next, Progress, Starting, Mutation, Latching

\* A setup leaves nothing unresolved that is not bound at its present revision, or faults.
THEOREM SetupRebinds == Spec => RestartRebinds
<1>1. ASSUME Inv, Next, pc # "stateAgain", pc' = "runtime"
      PROVE  (Unresolved(prepRecords) # {} /\ ~IntegrityFault => Bound)'
  <2>1. prepFault' => IntegrityFault'
    BY DEF IntegrityFault
  <2>2. CASE LoadPreparations
    <3>1. CASE LoadFails
      BY <2>1, <3>1 DEF LoadFails
    <3>2. CASE prepRecords' = Normalized /\ Unresolved(Normalized) = {}
      BY <2>2, <3>2 DEF LoadPreparations, Unresolved, stateVars
    <3> QED
      BY <1>1, <2>2, <3>1, <3>2 DEF LoadPreparations, ReadAndNormalize, Goto
  <2>3. CASE LatchReconciliation
    <3> DEFINE a == ctx.attempt
               rec == prepRecords[ctx.attempt]
    <3>1. PICK r \in StateResults : LatchRecord(r) /\ (r # "ok" => pc' = "fault")
      BY <2>3 DEF LatchReconciliation, Goto
    <3>2. /\ prepLoaded /\ a \in DOMAIN prepRecords
          /\ rec.state \in Open \cup Attested
          /\ Moved /\ Binds(a, rec.revision, rec.expectation)
      BY <1>1, <2>3, <3>1, RecordLatched DEF LatchReconciliation
    <3>3. prepLoaded' /\ prepRecords' = prepRecords /\ snap' = disk'
      BY <2>3, <3>2 DEF LatchReconciliation, prepVars, Moved
    <3>4. /\ snap'.preparation # None /\ snap'.preparation.attempt = a
          /\ snap'.preparation.revision = rec.revision
          /\ snap'.preparation.expectation = rec.expectation
      BY <3>2, <3>3 DEF Binds
    <3>5. a \in Unresolved(prepRecords)'
      BY <3>2, <3>3, <3>4 DEF Unresolved
    <3> QED
      BY <3>3, <3>4, <3>5 DEF Bound
  <2>4. CASE LatchFault
    <3>1. prepFault'
      BY <1>1, <2>4 DEF LatchFault, Return, Goto, LoadFails
    <3> QED
      BY <2>1, <3>1
  <2> QED
    BY <1>1, <2>2, <2>3, <2>4, ReachesRuntime
<1>2. Inv /\ [Next]_vars =>
         [pc # "stateAgain" /\ pc' = "runtime" =>
             (Unresolved(prepRecords) # {} /\ ~IntegrityFault => Bound)']_vars
  BY <1>1
<1> QED
  BY <1>2, PreparationInvariant, PTL DEF Spec, RestartRebinds

(***************************************************************************)
(* The refinement of the ledger.                                           *)
(***************************************************************************)
\* What the file says of a mutation that was sent is what the ledger says of it.
Settled == {a \in sent : prepFile[a].state \in Conclusive}

LEMMA ConcludedIsSettled == ASSUME Inv PROVE Concluded = Settled
BY DEF Inv, Filed, Kept, Concluded, Settled

LEMMA ConcludedIsSettledNext == ASSUME Inv' PROVE Concluded' = Settled'
BY DEF Inv, Filed, Kept, Concluded, Settled

\* An outcome that the provider or the administrator gave is entered once.
LEMMA ReplacingConcludes ==
    ASSUME Inv, Inv', prepLoaded, NEW a \in DOMAIN prepRecords,
           prepRecords[a].state \in {"DISPATCHING", Required}, NEW s \in RecordStates,
           prepFile' = Replaced(a, s), sent' = sent
    PROVE  \/ UNCHANGED <<sent, Concluded>>
           \/ Ledger!Conclude(a)
<1> DEFINE new == Replaced(a, s)
<1>1. /\ new[a].state = s
      /\ \A b \in DOMAIN prepRecords \ {a} : new[b] = prepRecords[b]
  BY ReplacedList DEF Inv, Typed
<1>2. \A b \in sent : b \in DOMAIN prepRecords /\ prepFile[b] = prepRecords[b]
  BY DEF Inv, Filed, Mirrored
<1>3. prepRecords[a].state \notin Conclusive
  BY DEF Conclusive, Attested, ByProvider, Required
<1> HIDE DEF new
<1>4. prepFile' = new
  BY DEF new
<1>5. CASE a \in sent /\ s \in Conclusive
  <2>1. a \in sent \ Settled
    BY <1>2, <1>3, <1>5 DEF Settled
  <2>2. Settled' = Settled \cup {a}
    BY <1>1, <1>2, <1>4, <1>5 DEF Settled
  <2> QED
    BY <2>1, <2>2, ConcludedIsSettled, ConcludedIsSettledNext DEF Ledger!Conclude
<1>6. CASE ~(a \in sent /\ s \in Conclusive)
  <2>1. Settled' = Settled
    BY <1>1, <1>2, <1>3, <1>4, <1>6 DEF Settled
  <2> QED
    BY <2>1, ConcludedIsSettled, ConcludedIsSettledNext
<1> QED
  BY <1>5, <1>6

\* A call leaves only when every earlier mutation is concluded on file.
LEMMA CallSends == ASSUME Inv, Inv', Call PROVE Ledger!Send(calling)
<1>1. /\ calling \in DOMAIN prepFile /\ prepFile[calling].state \in {"DISPATCHING", Required}
      /\ calling \notin sent
  BY DEF Inv, Located, Outstanding, Filed, Mirrored, Call
<1>2. ASSUME NEW a \in sent PROVE prepFile[a].state \in Conclusive
  <2>1. a \in DOMAIN prepFile /\ prepFile[a].state # "PREPARED" /\ a # calling
    BY <1>1 DEF Inv, Filed, Kept
  <2>2. prepFile[a].state \in RecordStates
    BY <2>1 DEF Inv, Typed, Listed, Records
  <2>3. prepFile[a].state \notin Open
    BY <1>1, <2>1 DEF Inv, Filed, Kept, OneOpen, OpenRecords, Open
  <2> QED
    BY <2>1, <2>2, <2>3 DEF RecordStates, Conclusive, ByProvider
<1>3. sent \subseteq Concluded
  BY <1>2, ConcludedIsSettled DEF Settled
<1>4. Settled' = Settled
  BY <1>1 DEF Settled, Call, prepVars, Conclusive, Attested, ByProvider, Required
<1> QED
  BY <1>1, <1>3, <1>4, ConcludedIsSettled, ConcludedIsSettledNext DEF Ledger!Send, Call

LEMMA FileStays ==
    ASSUME Inv, Inv', prepFile' = prepFile, sent' = sent
    PROVE  UNCHANGED <<sent, Concluded>>
BY ConcludedIsSettled, ConcludedIsSettledNext DEF Settled

LEMMA LoadStays ==
    ASSUME Inv, Inv', prepFile' = Normalized, sent' = sent
    PROVE  UNCHANGED <<sent, Concluded>>
<1>1. \A a \in sent : Normalized[a].state \in Conclusive <=> prepFile[a].state \in Conclusive
  <2>1. \A a \in sent : a \in DOMAIN prepFile
    BY DEF Inv, Filed, Kept
  <2>2. "DISPATCHING" \notin Conclusive /\ Required \notin Conclusive
    BY DEF Conclusive, Attested, ByProvider, Required
  <2> QED
    BY <2>1, <2>2, NormalizedList DEF Inv
<1> QED
  BY <1>1, ConcludedIsSettled, ConcludedIsSettledNext DEF Settled

LEMMA AcquireStays ==
    ASSUME Inv, Inv', pc \in {"acquire", "dispatch"},
           NEW s \in RecordStates, NEW v \in Positive,
           prepFile' = prepFile \/ prepFile' = WithRecord(s, v), sent' = sent
    PROVE  UNCHANGED <<sent, Concluded>>
<1>1. \A a \in sent : WithRecord(s, v)[a] = prepFile[a]
  <2>1. \A a \in sent : a \in DOMAIN prepRecords /\ prepFile[a] = prepRecords[a]
    BY DEF Inv, Filed, Mirrored, Located, Acquiring
  <2> QED
    BY <2>1, WithRecordList DEF Inv, Located
<1>2. \A a \in sent : prepFile'[a] = prepFile[a]
  BY <1>1
<1> QED
  BY <1>2, ConcludedIsSettled, ConcludedIsSettledNext DEF Settled

LEMMA StepsOfTheLedger == ASSUME Inv, Next PROVE [Ledger!Next]_(Ledger!vars)
<1>1. Inv'
  BY NextPreserves
<1>2. ctx.attempt \in 0..MaxAttempts /\ ctx.state \in RecordStates
  BY DEF Inv, Typed, Contexts
<1>3. CASE Call
  <2>1. calling \in 1..MaxAttempts
    BY <1>3, PreparationConstants DEF Call, Inv, Typed
  <2> QED
    BY <1>1, <1>3, <2>1, CallSends DEF Ledger!Next
<1>4. CASE RecordOutcome \/ Attest
  <2> DEFINE a == ctx.attempt
  <2>1. /\ prepLoaded /\ a \in DOMAIN prepRecords
        /\ prepRecords[a].state \in {"DISPATCHING", Required}
    BY <1>4 DEF RecordOutcome, Attest, Inv, Located, Outstanding, Recovering, Resolving,
                AttestSteps
  <2>2. a \in 1..MaxAttempts
    BY <2>1, PreparationConstants DEF Inv, Typed, Listed
  <2>3. sent' = sent
    BY <1>4 DEF RecordOutcome, Attest, callVars
  <2>4. prepFile' = prepFile \/ prepFile' = Replaced(a, ctx.state)
    BY <1>4 DEF RecordOutcome, Attest
  <2>5. UNCHANGED <<sent, Concluded>> \/ Ledger!Conclude(a)
    BY <1>1, <1>2, <2>1, <2>3, <2>4, FileStays, ReplacingConcludes
  <2> QED
    BY <2>2, <2>5 DEF Ledger!Next, Ledger!vars
<1>5. CASE LoadPreparations \/ LoadAgain
  <2>1. sent' = sent /\ (prepFile' = prepFile \/ prepFile' = Normalized)
    BY <1>5 DEF LoadPreparations, LoadAgain, ReadAndNormalize, callVars
  <2> QED
    BY <1>1, <2>1, FileStays, LoadStays DEF Ledger!vars
<1>6. CASE Acquire \/ Dispatch
  <2>1. PICK s \in {"PREPARED", "DISPATCHING"}, v \in {1, 2} :
          prepFile' = prepFile \/ prepFile' = WithRecord(s, v)
    BY <1>6 DEF Acquire, Dispatch, AcquireSave
  <2>2. s \in RecordStates /\ v \in Positive
    BY DEF RecordStates, Open, Positive
  <2>3. sent' = sent /\ pc \in {"acquire", "dispatch"}
    BY <1>6 DEF Acquire, Dispatch, callVars
  <2> QED
    BY <1>1, <2>1, <2>2, <2>3, AcquireStays DEF Ledger!vars
<1>7. CASE \/ LoadState \/ LoadStateAgain \/ ComposeRuntime \/ Publish
           \/ Reply \/ Latching \/ RefreshBinding \/ ClearBinding
           \/ Start \/ Reload \/ Admit \/ BeginMutation \/ BeginAttestation
           \/ Disable \/ CheckoutBumps \/ Crash
  <2>1. CASE \/ LoadState \/ LoadStateAgain \/ ComposeRuntime \/ Publish
             \/ Reply \/ Latching \/ RefreshBinding \/ ClearBinding
    BY ZenonT(60), <1>1, <2>1, FileStays
       DEF LoadState, LoadStateAgain, ComposeRuntime, Publish, Reply, Latching,
           LatchReconciliation, LatchFault, RefreshBinding, ClearBinding, prepVars, callVars,
           Ledger!vars
  <2>2. CASE \/ Start \/ Reload \/ Admit \/ BeginMutation \/ BeginAttestation
             \/ Disable \/ CheckoutBumps \/ Crash
    BY <1>1, <2>2, FileStays
       DEF Start, Reload, Crash, End, Admit, BeginMutation, BeginAttestation, Disable,
           CheckoutBumps, prepVars, callVars, Ledger!vars
  <2> QED
    BY <1>7, <2>1, <2>2
<1> QED
  BY <1>3, <1>4, <1>5, <1>6, <1>7 DEF Next, Progress, Starting, Mutation, Attesting

\* The bracket implements the ledger: a remote mutation is made only when the outcome of
\* every earlier one is on file, and each is concluded at most once and for good.
THEOREM PreparationImplementsLedger == Spec => ImplementsLedger
<1>1. Init => Ledger!Init
  BY DEF Init, Concluded, Ledger!Init
<1>2. UNCHANGED vars => UNCHANGED Ledger!vars
  BY DEF vars, prepVars, callVars, Concluded, Ledger!vars
<1>3. Inv /\ [Next]_vars => [Ledger!Next]_(Ledger!vars)
  BY <1>2, StepsOfTheLedger
<1> QED
  BY <1>1, <1>3, PreparationInvariant, PTL DEF Spec, ImplementsLedger, Ledger!Spec

\* A request leaves only while no outcome is open, and a conclusion closes one for good.
LEMMA OneOutcomeIsOpen == Ledger!Spec => []Ledger!AtMostOneOpen
<1>1. Ledger!Init => Ledger!AtMostOneOpen
  BY DEF Ledger!Init, Ledger!AtMostOneOpen
<1>2. Ledger!AtMostOneOpen /\ [Ledger!Next]_(Ledger!vars) => Ledger!AtMostOneOpen'
  BY DEF Ledger!AtMostOneOpen, Ledger!Next, Ledger!Send, Ledger!Conclude, Ledger!vars
<1> QED
  BY <1>1, <1>2, PTL DEF Ledger!Spec

\* At most one basket or quote mutation is ever of unknown outcome.
THEOREM OneMutationIsOpen == Spec => []Ledger!AtMostOneOpen
BY PreparationImplementsLedger, OneOutcomeIsOpen, PTL DEF ImplementsLedger
=============================================================================
