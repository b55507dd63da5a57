----------------------------- MODULE PollProofs -----------------------------
(***************************************************************************)
(* Proofs about the two components every poll of the coordinator goes      *)
(* through: the serialized API session its requests wait for, and the      *)
(* order tracking that publishes what they answered.                       *)
(*                                                                         *)
(* ApiSession, for any clients, sessions, pastes, rotations and failures.  *)
(* The invariant has two parts beside the types: a call that is past the   *)
(* queue is at the head of it, whoever is cancelled and whichever session  *)
(* it belongs to; and no token that a session or a call may send under has *)
(* escaped the entry.  Tracking follows it.                                *)
(***************************************************************************)
EXTENDS ApiSession, Tracking, TLAPS

TypeOK ==
    /\ entry \in Tokens /\ saved \subseteq Tokens
    /\ pastes \in Families
    /\ reload \in {"no", "due", "down"}
    /\ session \in Sessions
    /\ valid \in [Sessions -> BOOLEAN]
    /\ authority \in [Sessions -> Tokens \cup {None}]
    /\ queue \in [Sessions -> Seq(Callers)]
    /\ call \in [Callers -> Calls \cup {None}]
    /\ newest \in [Families -> 0..MaxRotations]
    /\ reauth \in BOOLEAN
    /\ failures \in 0..MaxFailures

\* Every call has a place in its session's queue, the first one if it goes on.
InQueue(c, q) == \E i \in 1..Len(q) : q[i] = c
Placed(c) ==
    call[c] # None =>
        LET q == queue[call[c].session]
        IN  /\ InQueue(c, q)
            /\ call[c].stage # "queued" => q[1] = c

\* What a call holds was in the entry, and so is what it sends.
Known(c) ==
    call[c] # None =>
        /\ call[c].held \in saved
        /\ call[c].stage = "send" => call[c].fresh \in saved

Queued == \A c \in Callers : Placed(c)
Saved ==
    /\ {First, entry} \subseteq saved
    /\ \A s \in Sessions : authority[s] \in saved \cup {None}
    /\ \A c \in Callers : Known(c)

Inv == TypeOK /\ Queued /\ Saved

(***************************************************************************)
(* The queue of a lock.                                                    *)
(***************************************************************************)
\* Taking out one entry leaves every other one in the queue, and the first one first.
LEMMA RemoveAtKeeps ==
    ASSUME NEW S, NEW q \in Seq(S), NEW i \in 1..Len(q)
    PROVE  /\ RemoveAt(q, i) \in Seq(S)
           /\ \A j \in 1..Len(q) : j # i => InQueue(q[j], RemoveAt(q, i))
           /\ i # 1 => RemoveAt(q, i)[1] = q[1]
<1> DEFINE r == RemoveAt(q, i)
<1>1. /\ r \in Seq(S)
      /\ Len(r) = Len(q) - 1
      /\ \A k \in 1..(i - 1) : r[k] = q[k]
      /\ \A k \in i..(Len(q) - 1) : r[k] = q[k + 1]
  <2> DEFINE a == SubSeq(q, 1, i - 1)
             b == SubSeq(q, i + 1, Len(q))
  <2>1. a \in Seq(S) /\ Len(a) = i - 1 /\ \A k \in 1..(i - 1) : a[k] = q[k]
    OBVIOUS
  <2>2. b \in Seq(S) /\ Len(b) = Len(q) - i /\ \A k \in 1..(Len(q) - i) : b[k] = q[i + k]
    OBVIOUS
  <2>3. r = a \o b
    BY DEF RemoveAt
  <2> HIDE DEF a, b
  <2>4. r \in Seq(S) /\ Len(r) = Len(q) - 1
    BY <2>1, <2>2, <2>3
  <2>5. \A k \in 1..(i - 1) : r[k] = q[k]
    BY <2>1, <2>2, <2>3
  <2>6. ASSUME NEW k \in i..(Len(q) - 1)
        PROVE  r[k] = q[k + 1]
    <3>1. k - (i - 1) \in 1..(Len(q) - i)
      OBVIOUS
    <3>2. r[k] = b[k - (i - 1)]
      BY <2>1, <2>2, <2>3, <3>1
    <3>3. b[k - (i - 1)] = q[i + (k - (i - 1))]
      BY <2>2, <3>1
    <3> QED
      BY <3>2, <3>3
  <2> QED
    BY <2>4, <2>5, <2>6
<1>2. ASSUME NEW j \in 1..Len(q), j # i
      PROVE  InQueue(q[j], r)
  <2>1. CASE j < i
    <3>1. j \in 1..Len(r) /\ r[j] = q[j]
      BY <1>1, <2>1
    <3> QED
      BY <3>1 DEF InQueue
  <2>2. CASE j > i
    <3>1. j - 1 \in 1..Len(r) /\ j - 1 \in i..(Len(q) - 1)
      BY <1>1, <2>2
    <3>2. r[j - 1] = q[(j - 1) + 1]
      BY <1>1, <3>1
    <3>3. r[j - 1] = q[j]
      BY <3>2
    <3> QED
      BY <3>1, <3>3 DEF InQueue
  <2> QED
    BY <1>2, <2>1, <2>2
<1>3. i # 1 => r[1] = q[1]
  BY <1>1
<1> HIDE DEF r
<1>4. r \in Seq(S) /\ (\A j \in 1..Len(q) : j # i => InQueue(q[j], r)) /\ (i # 1 => r[1] = q[1])
  BY <1>1, <1>2, <1>3
<1> QED
  BY <1>4 DEF r

\* So does a task that leaves its queue.
LEMMA WithoutKeeps ==
    ASSUME NEW S, NEW q \in Seq(S), NEW c, InQueue(c, q)
    PROVE  /\ Without(q, c) \in Seq(S)
           /\ \A d : d # c /\ InQueue(d, q) => InQueue(d, Without(q, c))
           /\ \A d : d # c /\ q[1] = d => Without(q, c)[1] = d
<1> DEFINE i == CHOOSE k \in DOMAIN q : q[k] = c
<1>1. DOMAIN q = 1..Len(q)
  OBVIOUS
<1>2. i \in 1..Len(q) /\ q[i] = c
  BY <1>1 DEF InQueue
<1>3. Without(q, c) = RemoveAt(q, i)
  <2>1. c \in Range(q)
    BY <1>1, <1>2 DEF Range
  <2> QED
    BY <2>1 DEF Without
<1> HIDE DEF i
<1>4. RemoveAt(q, i) \in Seq(S)
  BY <1>2, RemoveAtKeeps
<1>5. ASSUME NEW d, d # c, InQueue(d, q)
      PROVE  InQueue(d, RemoveAt(q, i))
  <2>1. PICK j \in 1..Len(q) : q[j] = d
    BY <1>5 DEF InQueue
  <2>2. j # i
    BY <1>2, <1>5, <2>1
  <2>3. InQueue(q[j], RemoveAt(q, i))
    BY <1>2, <2>2, RemoveAtKeeps
  <2> QED
    BY <2>1, <2>3
<1>6. ASSUME NEW d, d # c, q[1] = d
      PROVE  RemoveAt(q, i)[1] = d
  BY <1>2, <1>6, RemoveAtKeeps
<1> QED
  BY <1>3, <1>4, <1>5, <1>6

\* One that joins it does not disturb those before it either.
LEMMA AppendKeeps ==
    ASSUME NEW S, NEW q \in Seq(S), NEW c \in S
    PROVE  /\ Append(q, c) \in Seq(S)
           /\ InQueue(c, Append(q, c))
           /\ \A d : InQueue(d, q) => InQueue(d, Append(q, c)) /\ Append(q, c)[1] = q[1]
<1> DEFINE r == Append(q, c)
<1>1. /\ r \in Seq(S)
      /\ Len(r) = Len(q) + 1
      /\ r[Len(q) + 1] = c
      /\ \A k \in 1..Len(q) : r[k] = q[k]
  OBVIOUS
<1> HIDE DEF r
<1>2. Len(q) \in Nat
  OBVIOUS
<1>3. InQueue(c, r)
  BY <1>1, <1>2 DEF InQueue
<1>4. ASSUME NEW d, InQueue(d, q)
      PROVE  InQueue(d, r) /\ r[1] = q[1]
  <2>1. PICK j \in 1..Len(q) : q[j] = d
    BY <1>4 DEF InQueue
  <2>2. j \in 1..Len(r) /\ r[j] = d /\ 1 \in 1..Len(q)
    BY <1>1, <1>2, <2>1
  <2> QED
    BY <1>1, <2>2 DEF InQueue
<1>5. r \in Seq(S) /\ InQueue(c, r) /\ \A d : InQueue(d, q) => InQueue(d, r) /\ r[1] = q[1]
  BY <1>1, <1>3, <1>4
<1> QED
  BY <1>5 DEF r

(***************************************************************************)
(* What a step does to the calls.                                          *)
(***************************************************************************)
\* A task that has something in hand has a call.
LEMMA CallTyped ==
    ASSUME TypeOK, NEW c \in Callers, call[c] # None
    PROVE  /\ call[c] \in Calls
           /\ call[c].session \in Sessions
           /\ call[c].held \in Tokens /\ call[c].fresh \in Tokens
           /\ queue[call[c].session] \in Seq(Callers)
  BY DEF TypeOK, Calls

\* A task ends: the others keep their calls and places.
LEMMA LeaveKeeps ==
    ASSUME TypeOK, Queued, NEW c \in Callers, call[c] # None, Leave(c)
    PROVE  /\ queue' \in [Sessions -> Seq(Callers)]
           /\ call' \in [Callers -> Calls \cup {None}]
           /\ Queued'
           /\ \A d \in Callers : call'[d] # None => d # c /\ call'[d] = call[d]
<1> DEFINE s == call[c].session
<1>1. s \in Sessions /\ queue[s] \in Seq(Callers)
  BY CallTyped
<1>2. InQueue(c, queue[s])
  BY DEF Queued, Placed
<1>3. /\ Without(queue[s], c) \in Seq(Callers)
      /\ \A d : d # c /\ InQueue(d, queue[s]) => InQueue(d, Without(queue[s], c))
      /\ \A d : d # c /\ queue[s][1] = d => Without(queue[s], c)[1] = d
  BY <1>1, <1>2, WithoutKeeps
<1>4. queue' = [queue EXCEPT ![s] = Without(queue[s], c)] /\ call' = [call EXCEPT ![c] = None]
  BY DEF Leave
<1>5. queue \in [Sessions -> Seq(Callers)] /\ call \in [Callers -> Calls \cup {None}]
  BY DEF TypeOK
<1>6. queue' \in [Sessions -> Seq(Callers)] /\ call' \in [Callers -> Calls \cup {None}]
  BY <1>1, <1>3, <1>4, <1>5
<1>7. \A d \in Callers : call'[d] # None => d # c /\ call'[d] = call[d]
  BY <1>4, <1>5
<1>8. ASSUME NEW d \in Callers, call'[d] # None
      PROVE  Placed(d)'
  <2>1. d # c /\ call'[d] = call[d] /\ call[d] # None
    BY <1>7, <1>8
  <2>2. call[d].session \in Sessions
    BY <2>1, CallTyped
  <2>3. /\ InQueue(d, queue[call[d].session])
        /\ call[d].stage # "queued" => queue[call[d].session][1] = d
    BY <2>1 DEF Queued, Placed
  <2>4. CASE call[d].session = s
    <3>1. queue'[call[d].session] = Without(queue[s], c)
      BY <1>1, <1>4, <1>5, <2>4
    <3> QED
      BY <1>3, <2>1, <2>3, <2>4, <3>1 DEF Placed
  <2>5. CASE call[d].session # s
    <3>1. queue'[call[d].session] = queue[call[d].session]
      BY <1>4, <1>5, <2>2, <2>5
    <3> QED
      BY <2>1, <2>3, <3>1 DEF Placed
  <2> QED
    BY <2>4, <2>5
<1>9. Queued'
  BY <1>8 DEF Queued, Placed
<1> QED
  BY <1>6, <1>7, <1>9

\* A task that is first in the queue goes on, and no other one moves.
LEMMA AdvanceKeeps ==
    ASSUME TypeOK, Queued, NEW c \in Callers, call[c] # None,
           queue[call[c].session][1] = c, UNCHANGED queue,
           NEW x \in Calls, x.session = call[c].session, call' = [call EXCEPT ![c] = x]
    PROVE  /\ call' \in [Callers -> Calls \cup {None}]
           /\ Queued'
           /\ call'[c] = x
           /\ \A d \in Callers : d # c => call'[d] = call[d]
<1>1. call \in [Callers -> Calls \cup {None}]
  BY DEF TypeOK
<1>2. call' \in [Callers -> Calls \cup {None}] /\ call'[c] = x
      /\ \A d \in Callers : d # c => call'[d] = call[d]
  BY <1>1
<1>3. ASSUME NEW d \in Callers
      PROVE  Placed(d)'
  <2>1. CASE d = c
    BY <1>2, <2>1 DEF Queued, Placed
  <2>2. CASE d # c
    BY <1>2, <2>2 DEF Queued, Placed
  <2> QED
    BY <2>1, <2>2
<1> QED
  BY <1>2, <1>3 DEF Queued

\* The first in a queue is at its place.
LEMMA HolderIsFirst ==
    ASSUME TypeOK, Queued, NEW c \in Callers, call[c] # None,
           Holds(c) \/ call[c].stage # "queued"
    PROVE  queue[call[c].session][1] = c
<1>1. queue[call[c].session] \in Seq(Callers)
  BY CallTyped
<1> QED
  BY <1>1 DEF Holds, Queued, Placed

\* What was known of a call stays so while it does and nothing is forgotten.
LEMMA KnownStays ==
    ASSUME saved \subseteq saved', NEW d \in Callers, Known(d), call'[d] = call[d]
    PROVE  Known(d)'
  BY DEF Known

(***************************************************************************)
(* One call.                                                               *)
(***************************************************************************)
\* A request or a poll joins the queue of the runtime's session.
LEMMA RequestPreserves ==
    ASSUME Inv, NEW c \in Callers, NEW kind \in {"request", "poll"}, Request(c, kind)
    PROVE  Inv'
<1> DEFINE x == [kind |-> kind, session |-> session, stage |-> "queued",
                 held |-> First, fresh |-> First, cancelled |-> FALSE]
<1>1. TypeOK /\ Queued /\ Saved
  BY DEF Inv
<1>2. /\ call[c] = None /\ call' = [call EXCEPT ![c] = x]
      /\ queue' = [queue EXCEPT ![session] = Append(queue[session], c)]
      /\ UNCHANGED <<entryVars, reload, sessionVars, newest, reauth, failures>>
  BY DEF Request
<1>3. /\ call \in [Callers -> Calls \cup {None}] /\ queue \in [Sessions -> Seq(Callers)]
      /\ session \in Sessions
  BY <1>1 DEF TypeOK
<1>4. x \in Calls
  BY <1>1, <1>3 DEF Calls, Saved, TypeOK
<1>5. /\ Append(queue[session], c) \in Seq(Callers)
      /\ InQueue(c, Append(queue[session], c))
      /\ \A d : InQueue(d, queue[session]) =>
            /\ InQueue(d, Append(queue[session], c))
            /\ Append(queue[session], c)[1] = queue[session][1]
  BY <1>3, AppendKeeps
<1>6. x.session = session /\ x.stage = "queued" /\ x.held = First
  OBVIOUS
<1> HIDE DEF x
<1>7. call'[c] = x /\ \A d \in Callers : d # c => call'[d] = call[d]
  BY <1>2, <1>3
<1>8. TypeOK'
  BY <1>1, <1>2, <1>3, <1>4, <1>5 DEF TypeOK, entryVars, sessionVars
<1>9. ASSUME NEW d \in Callers
      PROVE  Placed(d)' /\ Known(d)'
  <2>1. CASE d = c
    <3>1. InQueue(c, queue'[session])
      BY <1>2, <1>3, <1>5
    <3> QED
      BY <1>1, <1>2, <1>6, <1>7, <2>1, <3>1
         DEF Placed, Known, Saved, entryVars, sessionVars
  <2>2. CASE d # c
    <3>1. Known(d)'
      BY <1>1, <1>2, <1>7, <2>2, KnownStays DEF Saved, entryVars
    <3>2. CASE call[d] # None /\ call[d].session = session
      BY <1>1, <1>2, <1>3, <1>5, <1>7, <2>2, <3>1, <3>2 DEF Queued, Placed
    <3>3. CASE call[d] # None /\ call[d].session # session
      BY <1>1, <1>2, <1>3, <1>7, <2>2, <3>1, <3>3 DEF Queued, Placed
    <3> QED
      BY <1>7, <2>2, <3>1, <3>2, <3>3 DEF Placed
  <2> QED
    BY <2>1, <2>2
<1> QED
  BY <1>1, <1>2, <1>8, <1>9 DEF Inv, Queued, Saved, entryVars, sessionVars

\* A call that ends takes no token with it that another one needs.
LEMMA EndingPreserves ==
    ASSUME Inv, NEW c \in Callers, call[c] # None, Leave(c),
           entry' \in Tokens /\ saved' \subseteq Tokens, pastes' \in Families,
           saved \subseteq saved', entry' \in saved', UNCHANGED <<reload, session, newest>>,
           valid' \in [Sessions -> BOOLEAN], reauth' \in BOOLEAN,
           failures' \in 0..MaxFailures,
           authority' \in [Sessions -> Tokens \cup {None}],
           \A s \in Sessions : authority'[s] \in saved' \cup {None}
    PROVE  Inv'
<1>1. TypeOK /\ Queued /\ Saved
  BY DEF Inv
<1>2. /\ queue' \in [Sessions -> Seq(Callers)]
      /\ call' \in [Callers -> Calls \cup {None}]
      /\ Queued'
      /\ \A d \in Callers : call'[d] # None => d # c /\ call'[d] = call[d]
  BY <1>1, LeaveKeeps
<1>3. TypeOK'
  BY <1>1, <1>2 DEF TypeOK
<1>4. ASSUME NEW d \in Callers
      PROVE  Known(d)'
  BY <1>1, <1>2 DEF Saved, Known
<1>5. Saved'
  BY <1>1, <1>4 DEF Saved
<1> QED
  BY <1>2, <1>3, <1>5 DEF Inv

\* A call that goes on is known of if what it holds now is.
LEMMA AdvancePreserves ==
    ASSUME Inv, NEW c \in Callers, call[c] # None, queue[call[c].session][1] = c,
           UNCHANGED queue,
           NEW x \in Calls, x.session = call[c].session, call' = [call EXCEPT ![c] = x],
           x.held \in saved', x.stage = "send" => x.fresh \in saved',
           entry' \in Tokens /\ saved' \subseteq Tokens, pastes' \in Families,
           saved \subseteq saved', entry' \in saved', UNCHANGED <<reload, session, valid>>,
           newest' \in [Families -> 0..MaxRotations],
           reauth' \in BOOLEAN, failures' \in 0..MaxFailures,
           authority' \in [Sessions -> Tokens \cup {None}],
           \A s \in Sessions : authority'[s] \in saved' \cup {None}
    PROVE  Inv'
<1>1. TypeOK /\ Queued /\ Saved
  BY DEF Inv
<1>2. /\ call' \in [Callers -> Calls \cup {None}]
      /\ Queued'
      /\ call'[c] = x
      /\ \A d \in Callers : d # c => call'[d] = call[d]
  BY <1>1, AdvanceKeeps
<1>3. TypeOK'
  BY <1>1, <1>2 DEF TypeOK
<1>4. ASSUME NEW d \in Callers
      PROVE  Known(d)'
  BY <1>1, <1>2 DEF Saved, Known
<1>5. Saved'
  BY <1>1, <1>4 DEF Saved
<1> QED
  BY <1>2, <1>3, <1>5 DEF Inv

\* The call has the lock: it takes the session's token, or ends.
LEMMA AcquirePreserves ==
    ASSUME Inv, NEW c \in Callers, Acquire(c)
    PROVE  Inv'
<1> DEFINE s == call[c].session
           token == IF authority[s] # None THEN authority[s] ELSE entry
           x == [call[c] EXCEPT
                   !.stage = IF call[c].kind = "poll" THEN "poll" ELSE "authorize",
                   !.held = token, !.fresh = token]
<1>1. TypeOK /\ Queued /\ Saved
  BY DEF Inv
<1>2. /\ call[c] # None /\ Holds(c)
      /\ \/ call' = [call EXCEPT ![c] = x] /\ UNCHANGED <<queue, reauth>>
         \/ Fail(c, "auth")
      /\ UNCHANGED <<entryVars, reload, sessionVars, newest, failures>>
  BY <1>1, CallTyped DEF Acquire, Holds, Calls, TypeOK
<1>3. queue[s][1] = c /\ call[c] \in Calls /\ s \in Sessions
  BY <1>1, <1>2, HolderIsFirst, CallTyped
<1>4. token \in saved /\ token \in Tokens
  BY <1>1, <1>3 DEF Saved, TypeOK
<1>5. CASE Fail(c, "auth")
  <2>1. Leave(c) /\ reauth' \in BOOLEAN
    BY <1>5 DEF Fail
  <2> QED
    BY <1>1, <1>2, <2>1, EndingPreserves DEF TypeOK, Saved, entryVars, sessionVars
<1>6. CASE call' = [call EXCEPT ![c] = x] /\ UNCHANGED <<queue, reauth>>
  <2>1. /\ x \in Calls /\ x.session = call[c].session
        /\ x.held \in saved /\ x.stage # "send"
    BY <1>3, <1>4 DEF Calls
  <2> HIDE DEF x, s, token
  <2> QED
    BY <1>1, <1>2, <1>3, <1>6, <2>1, AdvancePreserves
       DEF TypeOK, Saved, entryVars, sessionVars, s
<1> QED
  BY <1>2, <1>5, <1>6

\* The provider's rotation stays with the call.
LEMMA RefreshPreserves ==
    ASSUME Inv, NEW c \in Callers, Refresh(c)
    PROVE  Inv'
<1> DEFINE f == call[c].fresh.family
           x == [call[c] EXCEPT !.fresh.serial = @ + 1]
<1>1. TypeOK /\ Queued /\ Saved
  BY DEF Inv
<1>2. /\ call[c] # None /\ call[c].stage \in {"authorize", "poll"}
      /\ call[c].fresh.serial = newest[f] /\ newest[f] < MaxRotations
      /\ newest' = [newest EXCEPT ![f] = @ + 1]
      /\ call' = [call EXCEPT ![c].fresh.serial = @ + 1]
      /\ UNCHANGED <<entryVars, reload, sessionVars, queue, reauth, failures>>
  BY DEF Refresh, InThread
<1>3. call[c] \in Calls /\ f \in Families /\ queue[call[c].session][1] = c
  BY <1>1, <1>2, CallTyped, HolderIsFirst DEF Tokens
<1>4. newest[f] + 1 \in 0..MaxRotations
  BY SMTT(60), <1>1, <1>2, <1>3, ApiSessionConstants DEF TypeOK
<1>5. newest' \in [Families -> 0..MaxRotations]
  BY <1>1, <1>2, <1>3, <1>4 DEF TypeOK
<1>6. [call[c].fresh EXCEPT !.serial = @ + 1] \in Tokens
  BY <1>2, <1>3, <1>4 DEF Tokens, Calls
<1>7. /\ x \in Calls /\ x.session = call[c].session
      /\ x.held = call[c].held /\ x.stage = call[c].stage
  BY <1>3, <1>6 DEF Calls
<1>8. call' = [call EXCEPT ![c] = x]
  BY <1>1, <1>2, <1>3 DEF TypeOK
<1>9. x.held \in saved /\ x.stage # "send"
  BY <1>1, <1>2, <1>7 DEF Saved, Known
<1> HIDE DEF x, f
<1> QED
  BY <1>1, <1>2, <1>3, <1>5, <1>7, <1>8, <1>9, AdvancePreserves
     DEF TypeOK, Saved, entryVars, sessionVars

\* The thread's result is dropped, or kept by the session, or goes on to be saved.
LEMMA AuthorizedPreserves ==
    ASSUME Inv, NEW c \in Callers, Authorized(c)
    PROVE  Inv'
<1> DEFINE s == call[c].session
           sending == [call[c] EXCEPT !.stage = "send"]
           saving == [call[c] EXCEPT !.stage = "persist"]
<1>1. TypeOK /\ Queued /\ Saved
  BY DEF Inv
<1>2. /\ call[c] # None /\ call[c].stage \in {"authorize", "poll"}
      /\ UNCHANGED <<entryVars, reload, session, valid, newest, failures>>
  BY DEF Authorized, InThread
<1>3. /\ queue[s][1] = c /\ call[c] \in Calls /\ s \in Sessions
      /\ call[c].held \in saved /\ call[c].held \in Tokens
  BY <1>1, <1>2, HolderIsFirst, CallTyped DEF Saved, Known
<1>4. /\ sending \in Calls /\ sending.session = s
      /\ sending.held = call[c].held /\ sending.fresh = call[c].fresh
      /\ saving \in Calls /\ saving.session = s
      /\ saving.held = call[c].held /\ saving.stage = "persist"
  BY <1>3 DEF Calls
<1>5. CASE Leave(c) /\ UNCHANGED authority /\ reauth' \in BOOLEAN
  BY <1>1, <1>2, <1>5, EndingPreserves DEF TypeOK, Saved, entryVars
<1>6. CASE /\ call[c].fresh = call[c].held
           /\ authority' = [authority EXCEPT ![s] = call[c].held]
           /\ Proceed(c)
           /\ UNCHANGED reauth
  <2>1. /\ authority' \in [Sessions -> Tokens \cup {None}]
        /\ \A t \in Sessions : authority'[t] \in saved \cup {None}
    BY <1>1, <1>3, <1>6 DEF TypeOK, Saved
  <2>2. CASE Leave(c)
    BY <1>1, <1>2, <1>6, <2>1, <2>2, EndingPreserves DEF TypeOK, Saved, entryVars
  <2>3. CASE call' = [call EXCEPT ![c] = sending] /\ UNCHANGED queue
    <3>1. sending.held \in saved /\ sending.fresh \in saved
      BY <1>3, <1>4, <1>6
    <3> HIDE DEF sending
    <3> QED
      BY <1>1, <1>2, <1>3, <1>4, <1>6, <2>1, <2>3, <3>1, AdvancePreserves
         DEF TypeOK, Saved, entryVars
  <2> QED
    BY <1>6, <2>2, <2>3 DEF Proceed
<1>7. CASE /\ call' = [call EXCEPT ![c] = saving]
           /\ UNCHANGED <<authority, queue, reauth>>
  <2>1. saving.held \in saved /\ saving.stage # "send"
    BY <1>3, <1>4
  <2> HIDE DEF saving
  <2> QED
    BY <1>1, <1>2, <1>3, <1>4, <1>7, <2>1, AdvancePreserves DEF TypeOK, Saved, entryVars
<1>8. \/ Leave(c) /\ UNCHANGED authority /\ reauth' \in BOOLEAN
      \/ /\ call[c].fresh = call[c].held
         /\ authority' = [authority EXCEPT ![s] = call[c].held]
         /\ Proceed(c)
         /\ UNCHANGED reauth
      \/ /\ call' = [call EXCEPT ![c] = saving]
         /\ UNCHANGED <<authority, queue, reauth>>
  BY <1>1 DEF Authorized, Fail, TypeOK
<1> QED
  BY <1>5, <1>6, <1>7, <1>8

\* What is saved is in the entry before anything is sent under it.
LEMMA PersistPreserves ==
    ASSUME Inv, NEW c \in Callers, Persist(c)
    PROVE  Inv'
<1> DEFINE s == call[c].session
           sending == [call[c] EXCEPT !.stage = "send"]
<1>1. TypeOK /\ Queued /\ Saved
  BY DEF Inv
<1>2. /\ call[c] # None /\ call[c].stage = "persist"
      /\ UNCHANGED <<pastes, reload, session, newest, reauth>>
  BY DEF Persist
<1>3. /\ queue[s][1] = c /\ call[c] \in Calls /\ s \in Sessions
      /\ call[c].held \in saved /\ call[c].fresh \in Tokens
  BY <1>1, <1>2, HolderIsFirst, CallTyped DEF Saved, Known
<1>4. /\ sending \in Calls /\ sending.session = s
      /\ sending.held = call[c].held /\ sending.fresh = call[c].fresh
  BY <1>3 DEF Calls
<1>5. CASE /\ entry' = call[c].fresh
           /\ saved' = saved \cup {entry'}
           /\ authority' = [authority EXCEPT ![s] = call[c].fresh]
           /\ Proceed(c)
           /\ UNCHANGED <<valid, failures>>
  <2>1. /\ entry' \in Tokens /\ saved' \subseteq Tokens
        /\ saved \subseteq saved' /\ entry' \in saved'
        /\ authority' \in [Sessions -> Tokens \cup {None}]
        /\ \A t \in Sessions : authority'[t] \in saved' \cup {None}
    BY <1>1, <1>3, <1>5 DEF TypeOK, Saved
  <2>2. /\ pastes' \in Families /\ newest' \in [Families -> 0..MaxRotations]
        /\ valid' \in [Sessions -> BOOLEAN] /\ reauth' \in BOOLEAN
        /\ failures' \in 0..MaxFailures
    BY <1>1, <1>2, <1>5 DEF TypeOK
  <2>3. CASE Leave(c)
    BY <1>1, <1>2, <2>1, <2>2, <2>3, EndingPreserves
  <2>4. CASE call' = [call EXCEPT ![c] = sending] /\ UNCHANGED queue
    <3>1. sending.held \in saved' /\ sending.fresh \in saved'
      BY <1>3, <1>4, <1>5
    <3> HIDE DEF sending
    <3> QED
      BY <1>1, <1>2, <1>3, <1>4, <1>5, <2>1, <2>2, <2>4, <3>1, AdvancePreserves
  <2> QED
    BY <1>5, <2>3, <2>4 DEF Proceed
<1>6. CASE /\ failures < MaxFailures
           /\ failures' = failures + 1
           /\ valid' = [valid EXCEPT ![s] = FALSE]
           /\ Leave(c)
           /\ UNCHANGED <<entry, saved, authority>>
  <2>1. failures' \in 0..MaxFailures
    BY <1>1, <1>6, ApiSessionConstants DEF TypeOK
  <2>2. valid' \in [Sessions -> BOOLEAN]
    BY <1>1, <1>6 DEF TypeOK
  <2> QED
    BY <1>1, <1>2, <1>6, <2>1, <2>2, EndingPreserves DEF TypeOK, Saved
<1> QED
  BY <1>5, <1>6 DEF Persist

\* The answer ends the call.
LEMMA AnsweredPreserves ==
    ASSUME Inv, NEW c \in Callers, Answered(c)
    PROVE  Inv'
  BY EndingPreserves DEF Inv, Answered, InThread, TypeOK, Saved, entryVars, sessionVars

\* A thread goes on without its task, and keeps the lock.
LEMMA CancelPreserves ==
    ASSUME Inv, NEW c \in Callers, Cancel(c)
    PROVE  Inv'
<1> DEFINE x == [call[c] EXCEPT !.cancelled = TRUE]
<1>1. TypeOK /\ Queued /\ Saved
  BY DEF Inv
<1>2. /\ call[c] # None
      /\ UNCHANGED <<entryVars, reload, sessionVars, newest, reauth, failures>>
  BY DEF Cancel
<1>3. call[c] \in Calls /\ call[c].held \in saved
  BY <1>1, <1>2, CallTyped DEF Saved, Known
<1>4. CASE Leave(c)
  BY <1>1, <1>2, <1>4, EndingPreserves DEF TypeOK, Saved, entryVars, sessionVars
<1>5. CASE InThread(c) /\ call' = [call EXCEPT ![c] = x] /\ UNCHANGED queue
  <2>1. /\ x \in Calls /\ x.session = call[c].session
        /\ x.held = call[c].held /\ x.stage = call[c].stage /\ x.fresh = call[c].fresh
    BY <1>3 DEF Calls
  <2>2. x.held \in saved /\ (x.stage = "send" => x.fresh \in saved)
    BY <1>1, <1>2, <1>3, <2>1 DEF Saved, Known
  <2>3. queue[call[c].session][1] = c
    BY <1>1, <1>2, <1>5, HolderIsFirst DEF InThread
  <2> HIDE DEF x
  <2> QED
    BY <1>1, <1>2, <1>5, <2>1, <2>2, <2>3, AdvancePreserves
       DEF TypeOK, Saved, entryVars, sessionVars
<1> QED
  BY <1>4, <1>5 DEF Cancel

(***************************************************************************)
(* The entry and its sessions.                                             *)
(***************************************************************************)
\* What leaves the calls, their queues and the sessions' tokens alone only has to keep
\* the entry among the saved tokens.
LEMMA EntryPreserves ==
    ASSUME Inv, UNCHANGED <<authority, queue, call>>, TypeOK',
           saved \subseteq saved', entry' \in saved'
    PROVE  Inv'
<1>1. Queued'
  BY DEF Inv, Queued, Placed
<1>2. Saved'
  BY DEF Inv, Saved, Known
<1> QED
  BY <1>1, <1>2 DEF Inv

\* A pasted token is another saved one.
LEMMA ReplaceEffect ==
    ASSUME TypeOK, Replace
    PROVE  /\ entry' \in Tokens /\ pastes' \in Families
           /\ saved' \subseteq Tokens /\ saved \subseteq saved' /\ entry' \in saved'
<1>1. pastes + 1 \in Families
  BY ApiSessionConstants DEF Replace, TypeOK, Families
<1>2. [family |-> pastes + 1, serial |-> 0] \in Tokens
  BY <1>1, ApiSessionConstants DEF Tokens
<1> QED
  BY <1>1, <1>2 DEF Replace, TypeOK

\* The life of the entry.
LEMMA EntryStepPreserves ==
    ASSUME Inv, Setup \/ ChangeOptions \/ Invalidate \/ Paste \/ Reauthenticate
    PROVE  Inv'
<1>1. TypeOK /\ entry \in saved
  BY DEF Inv, Saved
<1>2. CASE Setup
  <2>1. session' \in Sessions
    BY <1>1, <1>2, ApiSessionConstants DEF Setup, TypeOK, Sessions
  <2> QED
    BY <1>1, <1>2, <2>1, EntryPreserves DEF Setup, TypeOK, entryVars
<1>3. CASE ChangeOptions
  BY <1>1, <1>3, EntryPreserves DEF ChangeOptions, TypeOK, entryVars, sessionVars
<1>4. CASE Invalidate
  BY <1>1, <1>4, EntryPreserves DEF Invalidate, TypeOK, entryVars
<1>5. CASE Paste
  BY <1>1, <1>5, ReplaceEffect, EntryPreserves DEF Paste, TypeOK, sessionVars
<1>6. CASE Reauthenticate
  BY <1>1, <1>6, ReplaceEffect, EntryPreserves DEF Reauthenticate, TypeOK, sessionVars
<1> QED
  BY <1>2, <1>3, <1>4, <1>5, <1>6

\* A restart ends every call and reads the entry again.
LEMMA RestartPreserves ==
    ASSUME Inv, Restart
    PROVE  Inv'
<1>1. TypeOK /\ Saved
  BY DEF Inv
<1>2. queue' \in [Sessions -> Seq(Callers)] /\ \A c \in Callers : call'[c] = None
  BY DEF Restart
<1>3. TypeOK'
  BY <1>1, <1>2 DEF Restart, TypeOK, entryVars
<1>4. Queued'
  BY <1>2 DEF Queued, Placed
<1>5. Saved'
  BY <1>1, <1>2 DEF Saved, Known, Restart, entryVars
<1> QED
  BY <1>3, <1>4, <1>5 DEF Inv

(***************************************************************************)
(* The theorems.                                                           *)
(***************************************************************************)
\* Before anything has run there is one token, in the entry.
LEMMA InvInit == Init => Inv
<1> SUFFICES ASSUME Init
             PROVE  Inv
  OBVIOUS
<1>1. First \in Tokens /\ 0 \in Families /\ 0 \in 0..MaxFailures /\ 0 \in 0..MaxRotations
  <2>1. MaxPastes \in Nat /\ MaxRotations \in Nat /\ MaxFailures \in Nat
    BY ApiSessionConstants
  <2>2. 0 \in Families /\ 0 \in 0..MaxFailures /\ 0 \in 0..MaxRotations
    BY <2>1 DEF Families
  <2> QED
    BY <2>2 DEF First, Tokens
<1>2. 1 \in Sessions
  BY ApiSessionConstants DEF Sessions
<1>3. TypeOK
  <2>1. /\ entry \in Tokens /\ saved \subseteq Tokens
        /\ pastes \in Families /\ session \in Sessions /\ failures \in 0..MaxFailures
        /\ newest \in [Families -> 0..MaxRotations]
    BY <1>1, <1>2 DEF Init
  <2>2. /\ valid \in [Sessions -> BOOLEAN] /\ authority \in [Sessions -> Tokens \cup {None}]
        /\ reload \in {"no", "due", "down"} /\ reauth \in BOOLEAN
    BY DEF Init
  <2>3. queue \in [Sessions -> Seq(Callers)]
    BY DEF Init
  <2>4. call \in [Callers -> Calls \cup {None}]
    BY DEF Init
  <2> QED
    BY <2>1, <2>2, <2>3, <2>4 DEF TypeOK
<1>4. Queued /\ Saved
  BY DEF Init, Queued, Placed, Saved, Known
<1> QED
  BY <1>3, <1>4 DEF Inv

\* Every step preserves the invariant.
LEMMA InvNext == Inv /\ [Next]_vars => Inv'
<1> SUFFICES ASSUME Inv, [Next]_vars
             PROVE  Inv'
  OBVIOUS
<1>1. session \in Callers
  BY DEF Inv, TypeOK, Callers
<1>2. ASSUME NEW c \in Clients, Request(c, "request")
      PROVE  Inv'
  BY <1>2, RequestPreserves DEF Callers
<1>3. CASE Poll
  BY <1>1, <1>3, RequestPreserves DEF Poll
<1>4. ASSUME NEW c \in Callers, Step(c)
      PROVE  Inv'
  BY <1>4, AcquirePreserves, RefreshPreserves, AuthorizedPreserves, PersistPreserves,
     AnsweredPreserves DEF Step
<1>5. ASSUME NEW c \in Callers, Cancel(c)
      PROVE  Inv'
  BY <1>5, CancelPreserves
<1>6. CASE Setup \/ ChangeOptions \/ Invalidate \/ Paste \/ Reauthenticate
  BY <1>6, EntryStepPreserves
<1>7. CASE Restart
  BY <1>7, RestartPreserves
<1>8. CASE UNCHANGED vars
  <2>1. TypeOK'
    BY <1>8 DEF vars, entryVars, sessionVars, Inv, TypeOK
  <2> QED
    BY <1>8, <2>1, EntryPreserves DEF vars, entryVars, sessionVars, Inv, Saved
<1> QED
  BY <1>2, <1>3, <1>4, <1>5, <1>6, <1>7, <1>8 DEF Next

\* The invariant holds: types, places in the queues, and tokens that the entry knows.
THEOREM SessionInvariant == Spec => []Inv
  BY InvInit, InvNext, PTL DEF Spec

\* At most one call of a session is on the wire or refreshing, whatever is cancelled:
\* SerializedApiSession gives its lock up only when the thread has ended.
THEOREM OneCallOnTheWire == Spec => []OneOnTheWire
<1>1. Inv => OneOnTheWire
  <2> SUFFICES ASSUME Inv, NEW c \in Callers, NEW d \in Callers,
                      InThread(c), InThread(d), call[c].session = call[d].session
               PROVE  c = d
    BY DEF OneOnTheWire
  <2>1. queue[call[c].session][1] = c /\ queue[call[d].session][1] = d
    BY DEF Inv, Queued, Placed, InThread
  <2> QED
    BY <2>1
<1> QED
  BY <1>1, SessionInvariant, PTL

\* A single request leaves only under a token that the entry has held: what a refresh
\* rotates is saved first, by this call or by an earlier one of the session.
THEOREM RequestsUseSavedTokens == Spec => []WireTokenWasSaved
<1>1. Inv => WireTokenWasSaved
  BY DEF Inv, Saved, Known, WireTokenWasSaved
<1> QED
  BY <1>1, SessionInvariant, PTL

(***************************************************************************)
(* Tracking, for any list of orders, any grace period and any number of    *)
(* estimates and failures.                                                 *)
(***************************************************************************)
Optional(set) == set \cup {Nothing}

Refreshes ==
    [source : Optional(Sources), fallback : Optional(Orders),
     rows : SUBSET Orders, ids : SUBSET Orders, order : Optional(Orders)]

Tracked ==
    /\ step = [o \in Orders |-> step[o]]
    /\ finished = [o \in Orders |-> finished[o]]
    /\ listed \subseteq Orders
    /\ cached \in Optional(Orders)
    /\ ctx \in Refreshes
    /\ pc = "track" => ctx.order \in Orders

\* A refresh that has begun and not ended is trusted for nothing.
Trusted ==
    /\ pc # "idle" => provenance = "unavailable" /\ ctx.source \in Sources
    /\ provenance \in Sources => current /\ data.from = provenance

\* The grace period runs since the order remembered was first shown finished.
Dated ==
    /\ \A o \in Orders : finished[o] # Nothing => step[o] \in Terminal
    /\ cached # Nothing => heldFor = finished[cached]

\* What is pinned and what is shown are texts about their orders, and the pinned ETA is
\* the one that is shown until a refresh that fails moves it; one that fails without
\* doing so may pin what the data have no text for yet.
Pinned ==
    /\ eta.value # Nothing => eta.order # Nothing /\ eta.value[1] = eta.order
    /\ data.original # Nothing => data.order # Nothing /\ data.original[1] = data.order
    /\ ~moved => /\ data.order = eta.order
                 /\ data.original # Nothing => data.original = eta.value

TrackingInv == Tracked /\ Trusted /\ Dated /\ Pinned

\* What an answer says of an order.
Summarises(s) ==
    /\ s.order \in Optional(Orders)
    /\ s.order # Nothing => s.step = step[s.order]
    /\ s.order = Nothing => ~s.found /\ s.step = "NONE"
    /\ s.text # Nothing => s.order # Nothing /\ s.text[1] = s.order

LEMMA OrdersAreNamed == Nothing \notin Orders
BY TrackingConstants

LEMMA NothingSummarised == Summarises(Empty)
BY DEF Summarises, Empty, Optional

LEMMA OrderSummarised ==
    ASSUME NEW o \in Orders, NEW found, NEW text \in Texts(o)
    PROVE  Summarises(Summary(o, found, text))
<1>1. text = Nothing \/ text[1] = o
  BY DEF Texts
<1> QED
  BY <1>1, OrdersAreNamed DEF Summarises, Summary, Optional

\* What is shown of a summary, and what the coordinator then remembers.
LEMMA CacheApplied ==
    ASSUME TrackingInv, NEW s, Summarises(s),
           NEW shown \in {s, Empty}, ApplyTerminalCache(s, shown),
           Finish(shown)
    PROVE  /\ Summarises(shown)
           /\ finished' = [o \in Orders |-> finished'[o]]
           /\ cached' \in Optional(Orders)
           /\ \A o \in Orders : finished'[o] # Nothing => step[o] \in Terminal
           /\ cached' # Nothing => heldFor' = finished'[cached']
           /\ shown.order # Nothing /\ shown.step \in Terminal /\ ~shown.found =>
                finished[shown.order] # Hold
<1>1. Summarises(shown)
  BY NothingSummarised
<1>2. /\ finished = [o \in Orders |-> finished[o]]
      /\ cached \in Optional(Orders)
      /\ \A o \in Orders : finished[o] # Nothing => step[o] \in Terminal
      /\ cached # Nothing => heldFor = finished[cached]
  BY DEF TrackingInv, Tracked, Dated
<1>3. /\ shown.order \in Optional(Orders)
      /\ shown.order # Nothing => shown.step = step[shown.order]
  BY <1>1 DEF Summarises
<1>4. /\ finished' = [o \in Orders |-> finished'[o]]
      /\ \A o \in Orders :
            \/ finished'[o] = finished[o]
            \/ o = shown.order /\ shown.found /\ finished'[o] = Nothing
            \/ o = shown.order /\ ~shown.found /\ shown.step \in Terminal
                 /\ finished[o] = Nothing /\ finished'[o] = 0
  <2>1. CASE shown.order # Nothing /\ shown.found
    BY <1>2, <1>3, <2>1 DEF Finish, Optional
  <2>2. CASE ~shown.found /\ shown.step \in Terminal /\ finished[shown.order] = Nothing
    <3>1. shown.order \in Orders
      BY <1>1, <1>3, <2>2 DEF Summarises, Optional, Terminal
    <3>2. finished' = [finished EXCEPT ![shown.order] = 0]
      BY <2>2 DEF Finish
    <3> QED
      BY <1>2, <2>2, <3>1, <3>2
  <2>3. CASE finished' = finished
    BY <1>2, <2>3
  <2>4. shown.order = Nothing => ~shown.found
    BY <1>1 DEF Summarises
  <2> QED
    BY <2>1, <2>2, <2>3, <2>4 DEF Finish
<1>5. \A o \in Orders : finished'[o] # Nothing => step[o] \in Terminal
  BY <1>2, <1>3, <1>4, OrdersAreNamed
<1>6. CASE s.found /\ cached' = s.order /\ heldFor' = Nothing /\ shown = s
  <2>1. s.order \in Orders /\ finished' = [finished EXCEPT ![s.order] = Nothing]
    BY <1>3, <1>6 DEF Finish, Summarises, Optional
  <2> QED
    BY <1>1, <1>2, <1>4, <1>5, <1>6, <2>1 DEF Optional
<1>7. CASE /\ ~s.found /\ s.order # Nothing /\ s.order = cached
           /\ s.step \in Terminal
           /\ heldFor # Hold
           /\ heldFor' = (IF heldFor = Nothing THEN 0 ELSE heldFor)
           /\ cached' = cached
           /\ shown = s
  <2>1. cached \in Orders /\ heldFor = finished[cached]
    BY <1>2, <1>7 DEF Optional
  <2>2. finished' = IF finished[cached] = Nothing THEN [finished EXCEPT ![cached] = 0] ELSE finished
    BY <1>7 DEF Finish
  <2>3. heldFor' = finished'[cached']
    BY <1>2, <1>7, <2>1, <2>2
  <2> QED
    BY <1>1, <1>2, <1>4, <1>5, <1>7, <2>1, <2>3
<1>8. CASE /\ ~s.found /\ s.order # Nothing /\ s.order = cached
           /\ s.step \notin Terminal
           /\ heldFor' = Nothing /\ cached' = cached /\ shown = s
  <2>1. cached \in Orders /\ step[cached] \notin Terminal
    BY <1>2, <1>3, <1>8 DEF Optional
  <2>2. finished'[cached'] = Nothing
    BY <1>5, <1>8, <2>1
  <2> QED
    BY <1>1, <1>2, <1>4, <1>5, <1>8, <2>2
<1>9. CASE cached' = Nothing /\ heldFor' = Nothing /\ shown = Empty
  BY <1>1, <1>4, <1>5, <1>9 DEF Empty, Optional
<1> QED
  BY <1>6, <1>7, <1>8, <1>9
     DEF ApplyTerminalCache, KeepFinished, ForgetCachedOrder

LEMMA PinKept ==
    ASSUME Pinned, NEW s, Summarises(s)
    PROVE  LET pin == Pin(s)
           IN  /\ pin.order = s.order
               /\ pin.value # Nothing => pin.order # Nothing /\ pin.value[1] = pin.order
               /\ s.order = eta.order /\ eta.value # Nothing => pin.value = eta.value
BY DEF Pinned, Summarises, Pin

\* The end of a refresh.
LEMMA PublishKeeps ==
    ASSUME TrackingInv, NEW s, Summarises(s), pc # "idle",
           Publish(s)
    PROVE  /\ TrackingInv' /\ pc' = "idle"
           /\ data'.original # Nothing => data'.original[1] = data'.order
           /\ data'.order = data.order /\ data.original # Nothing /\ ~moved =>
                data'.original = data.original
           /\ data'.order # Nothing /\ data'.step \in Terminal /\ ~data'.found =>
                finished[data'.order] # Hold
<1>1. PICK shown \in {s, Empty} :
         /\ ApplyTerminalCache(s, shown)
         /\ eta' = Pin(shown)
         /\ data' = Shown(shown, Pin(shown).value, ctx.source)
         /\ Finish(shown)
  BY DEF Publish
<1>2. /\ Summarises(shown)
      /\ finished' = [o \in Orders |-> finished'[o]]
      /\ cached' \in Optional(Orders)
      /\ \A o \in Orders : finished'[o] # Nothing => step[o] \in Terminal
      /\ cached' # Nothing => heldFor' = finished'[cached']
      /\ shown.order # Nothing /\ shown.step \in Terminal /\ ~shown.found =>
           finished[shown.order] # Hold
  BY <1>1, CacheApplied
<1>3. /\ pc' = "idle" /\ ctx' = NoRefresh /\ provenance' = ctx.source /\ current'
      /\ ~moved'
      /\ UNCHANGED <<step, listed>>
  BY DEF Publish, Return, orderVars
<1>4. /\ data'.order = shown.order /\ data'.found = shown.found /\ data'.step = shown.step
      /\ data'.original = Pin(shown).value /\ data'.from = ctx.source
  BY <1>1 DEF Shown
<1>5. /\ Pin(shown).order = shown.order
      /\ Pin(shown).value # Nothing =>
            shown.order # Nothing /\ Pin(shown).value[1] = shown.order
      /\ shown.order = eta.order /\ eta.value # Nothing =>
            Pin(shown).value = eta.value
  BY <1>2, PinKept DEF TrackingInv
<1>6. Tracked'
  BY <1>2, <1>3 DEF TrackingInv, Tracked, Refreshes, Optional, NoRefresh
<1>7. Trusted'
  BY <1>3, <1>4 DEF TrackingInv, Trusted
<1>8. Dated'
  BY <1>2, <1>3 DEF Dated
<1>9. Pinned'
  BY <1>1, <1>3, <1>4, <1>5 DEF Pinned
<1>10. ~moved => data.order = eta.order /\ (data.original # Nothing => data.original = eta.value)
  BY DEF TrackingInv, Pinned
<1> QED
  BY <1>2, <1>3, <1>4, <1>5, <1>6, <1>7, <1>8, <1>9, <1>10 DEF TrackingInv

\* The end of one whose poll interval is malformed: the data stay, cache and pin do not.
LEMMA FailIntervalKeeps ==
    ASSUME TrackingInv, NEW s, Summarises(s), pc # "idle", FailInterval(s)
    PROVE  TrackingInv' /\ data' = data /\ provenance' = provenance
<1>1. /\ pc' = "idle" /\ ctx' = NoRefresh /\ eta' = Pin(s)
      /\ moved' = (moved \/ s.order # eta.order)
      /\ UNCHANGED <<step, listed, provenance, data, finished, current>>
  BY DEF FailInterval, Return, orderVars
<1>2. s.step = "IN_PROGRESS" /\ s.order \in Orders /\ step[s.order] = "IN_PROGRESS"
  BY DEF FailInterval, Summarises, Optional
<1>3. heldFor' = Nothing /\ cached' = s.order
  <2>1. s # Empty /\ s.step \notin Terminal
    BY <1>2 DEF Empty, Terminal
  <2> QED
    BY <2>1 DEF FailInterval, ApplyTerminalCache
<1>4. finished[s.order] = Nothing
  BY <1>2 DEF TrackingInv, Dated, Terminal
<1>5. /\ Pin(s).order = s.order
      /\ Pin(s).value # Nothing => Pin(s).order # Nothing /\ Pin(s).value[1] = Pin(s).order
      /\ s.order = eta.order /\ eta.value # Nothing => Pin(s).value = eta.value
  BY PinKept DEF TrackingInv
<1>6. Tracked'
  BY <1>1, <1>2, <1>3 DEF TrackingInv, Tracked, Refreshes, Optional, NoRefresh
<1>7. Trusted'
  BY <1>1 DEF TrackingInv, Trusted
<1>8. Dated'
  BY <1>1, <1>3, <1>4 DEF TrackingInv, Dated
<1>9. Pinned'
  BY <1>1, <1>5 DEF TrackingInv, Pinned
<1> QED
  BY <1>1, <1>6, <1>7, <1>8, <1>9 DEF TrackingInv

(***************************************************************************)
(* Every step.                                                             *)
(***************************************************************************)
LEMMA TrackingBegins == TrackingInit => TrackingInv
<1> SUFFICES ASSUME TrackingInit PROVE TrackingInv
  OBVIOUS
<1>1. /\ step = [o \in Orders |-> "NONE"] /\ finished = [o \in Orders |-> Nothing]
      /\ listed = {} /\ cached = Nothing /\ ctx = NoRefresh /\ pc = "idle"
      /\ provenance = "unknown" /\ eta = NoPin
      /\ data = Shown(Empty, Nothing, Nothing) /\ ~moved
  BY DEF TrackingInit, Orders
<1>2. Tracked
  BY <1>1 DEF Tracked, Refreshes, Optional, NoRefresh
<1>3. Trusted
  BY <1>1 DEF Trusted, Sources
<1>4. Dated
  BY <1>1 DEF Dated
<1>5. Pinned
  BY <1>1 DEF Pinned, Shown, Empty, NoPin
<1> QED
  BY <1>2, <1>3, <1>4, <1>5 DEF TrackingInv

\* The orders move on, or time does: a terminal step is the last.
LEMMA WorldKeeps ==
    ASSUME TrackingInv,
           \/ \E o \in Orders : \/ Advance(o) \/ Unlist(o)
                                \/ Reestimate(o)
           \/ Tick
    PROVE  TrackingInv' /\ UNCHANGED <<data, provenance>>
<1>1. /\ UNCHANGED <<cached, ctx, pc, provenance, data, eta, moved, current>>
      /\ listed' \subseteq Orders
  BY DEF TrackingInv, Tracked, Advance, Unlist, Reestimate,
         Tick, CoordinatorIdles, pinVars, orderVars
<1>2. /\ step' = [o \in Orders |-> step'[o]]
      /\ \A o \in Orders : step[o] \in Terminal => step'[o] \in Terminal
  BY DEF TrackingInv, Tracked, Advance, Unlist, Reestimate,
         Tick, orderVars, Terminal, Trackable
<1>3. \/ UNCHANGED <<finished, heldFor>>
      \/ /\ heldFor' = Later(heldFor)
         /\ finished' = [o \in Orders |-> Later(finished[o])]
  BY DEF Advance, Unlist, Reestimate, Tick,
         CoordinatorIdles, pinVars, Orders
<1>4. Tracked'
  BY <1>1, <1>2, <1>3 DEF TrackingInv, Tracked
<1>5. Dated'
  <2>1. \A o \in Orders : finished'[o] # Nothing => finished[o] # Nothing
    BY <1>3 DEF Later
  <2>2. cached # Nothing => cached \in Orders /\ heldFor = finished[cached]
    BY DEF TrackingInv, Tracked, Dated, Optional
  <2>3. cached # Nothing => heldFor' = finished'[cached]
    BY <1>3, <2>2
  <2> QED
    BY <1>1, <1>2, <2>1, <2>3 DEF TrackingInv, Dated
<1>6. Trusted' /\ Pinned'
  BY <1>1 DEF TrackingInv, Trusted, Pinned
<1> QED
  BY <1>1, <1>4, <1>5, <1>6 DEF TrackingInv

\* The awaits of a refresh between its first and its last.
LEMMA GoesOn ==
    ASSUME TrackingInv, NEW next, next # "idle", NEW context \in Refreshes,
           context.source \in Sources,
           next = "track" => context.order \in Orders,
           pc' = next, ctx' = context, provenance' = "unavailable", Held
    PROVE  TrackingInv' /\ data' = data
<1>1. UNCHANGED <<step, listed, cached, heldFor, eta, data, finished, moved>>
  BY DEF Held, orderVars, pinVars
<1>2. Tracked'
  BY <1>1 DEF TrackingInv, Tracked
<1>3. Trusted'
  BY DEF Trusted, Sources
<1>4. Dated' /\ Pinned'
  BY <1>1 DEF TrackingInv, Dated, Pinned
<1> QED
  BY <1>1, <1>2, <1>3, <1>4 DEF TrackingInv

LEMMA GotoKeeps ==
    ASSUME TrackingInv, pc # "idle", NEW next \in {"track", "fallback", "probe"},
           NEW rows \in SUBSET Orders, NEW ids \in SUBSET Orders, NEW o \in Optional(Orders),
           next = "track" => o \in Orders,
           Goto(next, [ctx EXCEPT !.rows = rows, !.ids = ids, !.order = o])
    PROVE  TrackingInv' /\ data' = data /\ provenance' = provenance
<1>1. /\ ctx \in Refreshes /\ ctx.source \in Sources
      /\ provenance = "unavailable"
  BY DEF TrackingInv, Tracked, Trusted
<1>2. /\ [ctx EXCEPT !.rows = rows, !.ids = ids, !.order = o] \in Refreshes
      /\ [ctx EXCEPT !.rows = rows, !.ids = ids, !.order = o].source = ctx.source
      /\ [ctx EXCEPT !.rows = rows, !.ids = ids, !.order = o].order = o
  BY <1>1 DEF Refreshes
<1>3. /\ pc' = next /\ ctx' = [ctx EXCEPT !.rows = rows, !.ids = ids, !.order = o]
      /\ provenance' = provenance /\ Held
  BY DEF Goto
<1> QED
  BY <1>1, <1>2, <1>3, GoesOn

LEMMA TrackKeeps ==
    ASSUME TrackingInv, pc # "idle", NEW ids \in SUBSET Orders, Track(ids)
    PROVE  TrackingInv' /\ data' = data /\ provenance' = provenance
BY GotoKeeps DEF Track, Optional

LEMMA ProbedKeeps ==
    ASSUME TrackingInv, pc # "idle", NEW ids \in SUBSET Orders, Probed(ids)
    PROVE  TrackingInv' /\ data' = data /\ provenance' = provenance
<1>1. CASE Track(ids)
  BY <1>1, TrackKeeps
<1>2. CASE Goto("fallback", [ctx EXCEPT !.rows = {}])
  <2>1. /\ ctx \in Refreshes /\ ctx.ids \in SUBSET Orders /\ ctx.order \in Optional(Orders)
        /\ [ctx EXCEPT !.rows = {}] = [ctx EXCEPT !.rows = {}, !.ids = ctx.ids, !.order = ctx.order]
    BY DEF TrackingInv, Tracked, Refreshes
  <2> QED
    BY <1>2, <2>1, GotoKeeps
<1> QED
  BY <1>1, <1>2 DEF Probed

LEMMA ProbeFromKeeps ==
    ASSUME TrackingInv, pc # "idle", NEW ids \in SUBSET Orders, NEW rows \in SUBSET Orders,
           ProbeFrom(rows, ids)
    PROVE  TrackingInv' /\ data' = data /\ provenance' = provenance
<1>1. CASE Probed(ids)
  BY <1>1, ProbedKeeps
<1>2. CASE Goto("probe", [ctx EXCEPT !.rows = rows, !.ids = ids])
  <2>1. /\ ctx \in Refreshes /\ ctx.order \in Optional(Orders)
        /\ [ctx EXCEPT !.rows = rows, !.ids = ids] =
              [ctx EXCEPT !.rows = rows, !.ids = ids, !.order = ctx.order]
    BY DEF TrackingInv, Tracked, Refreshes
  <2> QED
    BY <1>2, <2>1, GotoKeeps
<1> QED
  BY <1>1, <1>2 DEF ProbeFrom

\* A step that ends in a summary of an order, or of none.
Publishes == pc # "idle" /\ \E s : Summarises(s) /\ Publish(s)

\* Every other step leaves what is shown alone, or shows nothing of any source.
Silent ==
    \/ data' = data /\ (provenance' = provenance \/ provenance' = "unavailable")
    \/ data' = Shown(Empty, Nothing, Nothing) /\ provenance' = "unknown"

LEMMA ConcludeKeeps ==
    ASSUME TrackingInv, pc # "idle", NEW s, Summarises(s), Conclude(s)
    PROVE  Publishes \/ (TrackingInv' /\ Silent)
BY FailIntervalKeeps DEF Conclude, Publishes, Silent

LEMMA StepIs ==
    ASSUME TrackingInv, [TrackingNext]_trackingVars
    PROVE  Publishes \/ (TrackingInv' /\ Silent)
<1>1. CASE \/ \E o \in Orders : \/ Advance(o) \/ Unlist(o)
                                \/ Reestimate(o)
           \/ Tick
  BY <1>1, WorldKeeps DEF Silent
<1>2. CASE Begin
  <2>1. PICK source \in Sources :
           ctx' = [NoRefresh EXCEPT !.source = source, !.fallback = cached]
    BY <1>2 DEF Begin
  <2>2. ctx' \in Refreshes /\ ctx'.source = source
    BY <2>1 DEF TrackingInv, Tracked, Refreshes, Optional, NoRefresh
  <2>3. pc' = "list" /\ provenance' = "unavailable" /\ Held
    BY <1>2 DEF Begin
  <2> QED
    BY <2>2, <2>3, GoesOn DEF Silent
<1>3. CASE List
  <2>1. listed \in SUBSET Orders /\ FirstRows \in SUBSET Orders
    BY DEF TrackingInv, Tracked, FirstRows, Orders
  <2> QED
    BY <1>3, <2>1, TrackKeeps, ProbeFromKeeps DEF List, Silent
<1>4. CASE Probe
  <2>1. PICK o \in ctx.rows :
           \/ ProbeFrom(ctx.rows \ {o}, ctx.ids \cup {o})
           \/ Probed(ctx.ids)
           \/ ProbeFrom(ctx.rows \ {o}, ctx.ids)
    BY <1>4 DEF Probe
  <2>2. ctx.rows \in SUBSET Orders /\ ctx.ids \in SUBSET Orders
    BY DEF TrackingInv, Tracked, Refreshes
  <2>3. /\ ctx.rows \ {o} \in SUBSET Orders /\ ctx.ids \cup {o} \in SUBSET Orders
    BY <2>2
  <2> QED
    BY <1>4, <2>1, <2>2, <2>3, ProbeFromKeeps, ProbedKeeps DEF Probe, Silent
<1>5. CASE TrackOrder
  <2>1. ctx.order \in Orders
    BY <1>5 DEF TrackingInv, Tracked, TrackOrder
  <2> QED
    BY <1>5, <2>1, OrderSummarised, ConcludeKeeps DEF TrackOrder
<1>6. CASE Fallback
  <2>1. ctx.fallback \in Optional(Orders)
    BY DEF TrackingInv, Tracked, Refreshes
  <2>2. CASE Publish(Empty)
    BY <1>6, <2>2, NothingSummarised DEF Fallback, Publishes
  <2> QED
    BY <1>6, <2>1, <2>2, OrderSummarised, NothingSummarised, ConcludeKeeps
       DEF Fallback, Optional
<1>7. CASE ReadFixtures
  <2>1. PICK o \in (IF listed # {} THEN listed
                    ELSE IF ctx.fallback # Nothing THEN {ctx.fallback} ELSE Orders) :
        \E text \in Texts(o) :
           \/ \E found \in BOOLEAN : Conclude(Summary(o, found, text))
           \/ Conclude(Empty)
    BY <1>7 DEF ReadFixtures, Orders
  <2>2. o \in Orders
    BY <2>1 DEF TrackingInv, Tracked, Refreshes, Optional
  <2> QED
    BY <1>7, <2>1, <2>2, OrderSummarised, NothingSummarised, ConcludeKeeps DEF ReadFixtures
<1>8. CASE FailRefresh
  <2>1. /\ pc' = "idle" /\ ctx' = NoRefresh
        /\ UNCHANGED <<provenance, current, step, listed, cached, heldFor, eta, data, finished,
                        moved>>
    BY <1>8 DEF FailRefresh, Return, Held, orderVars,
                pinVars
  <2>2. Tracked'
    BY <2>1 DEF TrackingInv, Tracked, Refreshes, Optional, NoRefresh
  <2>3. Trusted' /\ Dated' /\ Pinned'
    BY <2>1 DEF TrackingInv, Trusted, Dated, Pinned
  <2> QED
    BY <2>1, <2>2, <2>3 DEF TrackingInv, Silent
<1>9. CASE Reload
  <2>1. /\ pc' = "idle" /\ ctx' = NoRefresh /\ cached' = Nothing
        /\ eta' = NoPin /\ provenance' = "unknown"
        /\ data' = Shown(Empty, Nothing, Nothing) /\ ~moved'
        /\ UNCHANGED <<step, listed, finished>>
    BY <1>9 DEF Reload, Return, orderVars
  <2>2. Tracked'
    BY <2>1 DEF TrackingInv, Tracked, Refreshes, Optional, NoRefresh
  <2>3. Trusted'
    BY <2>1 DEF Trusted, Sources
  <2>4. Dated'
    BY <2>1 DEF TrackingInv, Dated
  <2>5. Pinned'
    BY <2>1 DEF Pinned, Shown, Empty, NoPin
  <2> QED
    BY <2>1, <2>2, <2>3, <2>4, <2>5 DEF TrackingInv, Silent
<1>10. CASE UNCHANGED trackingVars
  <2>1. UNCHANGED <<step, listed, cached, heldFor, eta, provenance, data, pc, ctx, finished,
                    moved, current>>
    BY <1>10 DEF trackingVars, orderVars, pinVars
  <2>2. Tracked' /\ Trusted'
    BY <2>1 DEF TrackingInv, Tracked, Trusted
  <2>3. Dated' /\ Pinned'
    BY <2>1 DEF TrackingInv, Dated, Pinned
  <2> QED
    BY <2>1, <2>2, <2>3 DEF TrackingInv, Silent
<1> QED
  BY <1>1, <1>2, <1>3, <1>4, <1>5, <1>6, <1>7, <1>8, <1>9, <1>10
     DEF TrackingNext, RefreshStep, Orders

LEMMA TrackingKept ==
    ASSUME TrackingInv, [TrackingNext]_trackingVars
    PROVE  TrackingInv'
BY StepIs, PublishKeeps DEF Publishes

THEOREM TrackingInvariant == TrackingSpec => []TrackingInv
<1>1. TrackingInv /\ [TrackingNext]_trackingVars => TrackingInv'
  BY TrackingKept
<1> QED
  BY <1>1, TrackingBegins, PTL DEF TrackingSpec

\* Entities name a source only while what they show came from it, in the refresh that
\* began last (_async_update_data withdraws its provenance before its first await).
THEOREM TrustStaysFresh == TrackingSpec => []TrustIsFresh
<1>1. TrackingInv => TrustIsFresh
  BY DEF TrackingInv, Trusted, TrustIsFresh, Sources
<1> QED
  BY <1>1, TrackingInvariant, PTL

\* The original ETA is of the order shown and does not move while that order is shown
\* (_apply_original_eta), whatever is found, lost, reloaded or estimated anew, unless a
\* refresh meanwhile pinned another order's and failed before it could show it.
THEOREM PinnedEtaStays == TrackingSpec => OriginalEtaStays
<1>1. ASSUME TrackingInv, [TrackingNext]_trackingVars
      PROVE  /\ data'.original # Nothing => data'.original[1] = data'.order
             /\ data'.order = data.order /\ data.original # Nothing /\ ~moved =>
                  data'.original = data.original
  <2>1. CASE Publishes
    BY <1>1, <2>1, PublishKeeps DEF Publishes
  <2>2. CASE TrackingInv' /\ Silent
    <3>1. data.original # Nothing => data.order # Nothing /\ data.original[1] = data.order
      BY <1>1 DEF TrackingInv, Pinned
    <3>2. data' = data \/ (data'.order = Nothing /\ data'.original = Nothing)
      BY <2>2 DEF Silent, Shown, Empty
    <3> QED
      BY <3>1, <3>2
  <2> QED
    BY <1>1, <2>1, <2>2, StepIs
<1>2. TrackingInv /\ [TrackingNext]_trackingVars =>
         [/\ data'.original # Nothing => data'.original[1] = data'.order
          /\ (data'.order = data.order /\ data.original # Nothing /\ ~moved)
               => data'.original = data.original]_trackingVars
  BY <1>1
<1> QED
  BY <1>2, TrackingInvariant, PTL DEF TrackingSpec, OriginalEtaStays

\* A finished order leaves the display a grace period after it was first shown so, however
\* many refreshes failed or showed another order (_apply_terminal_cache).
THEOREM GraceEnds == TrackingSpec => GraceIsBounded
<1>1. ASSUME TrackingInv, [TrackingNext]_trackingVars,
             provenance' \in Sources, provenance = "unavailable", data'.order # Nothing,
             data'.step \in Terminal, ~data'.found
      PROVE  finished[data'.order] # Hold
  <2>1. Publishes
    BY <1>1, StepIs DEF Silent, Sources
  <2> QED
    BY <1>1, <2>1, PublishKeeps DEF Publishes
<1>2. TrackingInv /\ [TrackingNext]_trackingVars =>
         [(provenance' \in Sources /\ provenance = "unavailable" /\ data'.order # Nothing
           /\ data'.step \in Terminal /\ ~data'.found)
          => finished[data'.order] # Hold]_trackingVars
  BY <1>1
<1> QED
  BY <1>2, TrackingInvariant, PTL DEF TrackingSpec, GraceIsBounded

=============================================================================
