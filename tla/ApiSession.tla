----------------------------- MODULE ApiSession -----------------------------
(***************************************************************************)
(* The serialized API session (api_session.py): one lock per session under *)
(* which a call refreshes the token, saves what the provider rotated, and  *)
(* sends its one request; with what surrounds it: the config entry that    *)
(* keeps the token (__init__.py), the forms that replace it                *)
(* (config_flow.py), the poll that answers a rejection by asking for a new *)
(* one (coordinator.py) and the refresh itself (glovo.py).                 *)
(*                                                                         *)
(* Synchronous calls run in threads no cancellation can stop.  A reload    *)
(* makes a new session while calls and threads of the old one may still    *)
(* run.  A token stands for the stored JSON: the refresh token and its     *)
(* access token.  Whether the latter has expired is a choice.              *)
(***************************************************************************)
EXTENDS Integers, Sequences, SequencesExt

CONSTANTS
    Clients,        \* tasks that read and write through the session
    None,
    MaxSessions,    \* bound on the sessions, made by setup
    MaxPastes,      \* bound on the refresh tokens the user pastes
    MaxRotations,   \* bound on the refreshes of the token family of one paste
    MaxFailures     \* bound on the saves of the entry that fail

VARIABLES
    entry,          \* entry.data[CONF_TOKEN]
    pastes,
    reload,         \* "no"; "due" after a change of options; "down" once invalidated
    session,        \* the session of the runtime
    valid,          \* its self._valid, for every session
    authority,      \* its self._token_authority
    queue,          \* its lock: the owner and those who wait, in order
    call,           \* what each task is doing
    newest,         \* external: the serial the provider accepts for a refresh
    reauth,         \* the user has been asked for a new token
    saved,          \* history: the tokens that were in the entry
    failures

entryVars == <<entry, pastes, saved>>
sessionVars == <<session, valid, authority>>
vars == <<entryVars, reload, sessionVars, queue, call, newest, reauth, failures>>

Sessions == 1..MaxSessions
\* The task of a session's own number is the poll of its coordinator.
Callers == Clients \cup Sessions
Families == 0..MaxPastes
Tokens == [family: Families, serial: 0..MaxRotations]

First == [family |-> 0, serial |-> 0]

\* A request is one read or one mutation; a poll is a transaction of several reads.
\* held: current_token; fresh: the token the thread has, or returned.
\* cancelled: the task was cancelled, its thread runs on.
Calls == [kind: {"request", "poll"}, session: Sessions,
          stage: {"queued", "authorize", "poll", "persist", "send"},
          held: Tokens, fresh: Tokens, cancelled: BOOLEAN]

ASSUME ApiSessionConstants ==
    /\ MaxSessions \in Nat \ {0}
    /\ {MaxPastes, MaxRotations, MaxFailures} \subseteq Nat
    /\ None \notin Calls \cup Tokens

InThread(c) == call[c] # None /\ call[c].stage \in {"authorize", "poll", "send"}
Holds(c) ==
    call[c] # None /\ LET q == queue[call[c].session] IN q # <<>> /\ Head(q) = c

\* An owner or a waiting task is out of the lock's queue, where a task has one place.
Without(q, c) ==
    IF c \in Range(q) THEN RemoveAt(q, CHOOSE i \in DOMAIN q : q[i] = c) ELSE q

\* The task ends, and with it its hold of the lock or its place in the queue.
Leave(c) ==
    /\ call' = [call EXCEPT ![c] = None]
    /\ LET s == call[c].session IN queue' = [queue EXCEPT ![s] = Without(@, c)]

\* Category "auth" of a poll starts a reauthentication; any other caller only fails.
Fail(c, category) ==
    /\ Leave(c)
    /\ reauth' = (reauth \/ (category = "auth" /\ call[c].kind = "poll"))

(***************************************************************************)
(* One call.                                                               *)
(***************************************************************************)
Init ==
    /\ entry = First
    /\ pastes = 0
    /\ saved = {entry}
    /\ reload = "no"
    /\ session = 1
    /\ valid = [s \in Sessions |-> TRUE]
    /\ authority = [s \in Sessions |-> None]
    /\ queue = [s \in Sessions |-> <<>>]
    /\ call = [c \in Callers |-> None]
    /\ newest = [f \in Families |-> 0]
    /\ reauth = FALSE
    /\ failures = 0

\* A request of an approved shape queues for the lock.
Request(c, kind) ==
    /\ call[c] = None
    /\ call' = [call EXCEPT ![c] = [kind |-> kind, session |-> session, stage |-> "queued",
                                    held |-> First, fresh |-> First, cancelled |-> FALSE]]
    /\ queue' = [queue EXCEPT ![session] = Append(@, c)]
    /\ UNCHANGED <<entryVars, reload, sessionVars, newest, reauth, failures>>

Poll == Request(session, "poll")

\* Mutant: an invalid session answers with a category of its own.
AcquireUnasked(c) ==
    /\ Holds(c) /\ call[c].stage = "queued"
    /\ LET s == call[c].session
           token == IF authority[s] # None THEN authority[s] ELSE entry
       IN  IF valid[s]
           THEN /\ call' = [call EXCEPT
                     ![c].stage = IF call[c].kind = "poll" THEN "poll" ELSE "authorize",
                     ![c].held = token, ![c].fresh = token]
                /\ UNCHANGED <<queue, reauth>>
           ELSE Fail(c, "persistence")
    /\ UNCHANGED <<entryVars, reload, sessionVars, newest, failures>>

\* Validity is looked at here, and never again during the call.
Acquire(c) ==
    /\ Holds(c) /\ call[c].stage = "queued"
    /\ LET s == call[c].session
           token == IF authority[s] # None THEN authority[s] ELSE entry
       IN  IF valid[s]
           THEN /\ call' = [call EXCEPT
                     ![c].stage = IF call[c].kind = "poll" THEN "poll" ELSE "authorize",
                     ![c].held = token, ![c].fresh = token]
                /\ UNCHANGED <<queue, reauth>>
           ELSE Fail(c, "auth")
    /\ UNCHANGED <<entryVars, reload, sessionVars, newest, failures>>

\* In the thread: the provider takes the refresh token and issues the next one.  An
\* authorisation refreshes at most once, a poll before each of its GETs.
Refresh(c) ==
    /\ InThread(c)
    /\ \/ call[c].stage = "poll"
       \/ call[c].stage = "authorize" /\ call[c].fresh = call[c].held
    /\ LET f == call[c].fresh.family IN
         /\ call[c].fresh.serial = newest[f]
         /\ newest[f] < MaxRotations
         /\ newest' = [newest EXCEPT ![f] = @ + 1]
         /\ call' = [call EXCEPT ![c].fresh.serial = @ + 1]
    /\ UNCHANGED <<entryVars, reload, sessionVars, queue, reauth, failures>>

\* What follows once the token is on file.
Proceed(c) ==
    IF call[c].kind = "poll"
    THEN Leave(c)
    ELSE /\ call' = [call EXCEPT ![c].stage = "send"]
         /\ UNCHANGED queue

\* The thread has ended.  Its result is dropped when the task was cancelled meanwhile,
\* and a token it rotated is lost with it; so it is when a later GET of a poll fails.
Authorized(c) ==
    /\ InThread(c) /\ call[c].stage # "send"
    /\ LET s == call[c].session IN
         \/ /\ call[c].cancelled
            /\ Leave(c)
            /\ UNCHANGED <<authority, reauth>>
         \/ /\ ~call[c].cancelled
            /\ \E category \in {"auth"} \cup (IF call[c].kind = "poll" THEN {"http"} ELSE {}) :
                 Fail(c, category)
            /\ UNCHANGED authority
         \/ /\ ~call[c].cancelled
            /\ call[c].fresh = call[c].held
            /\ authority' = [authority EXCEPT ![s] = call[c].held]
            /\ Proceed(c)
            /\ UNCHANGED reauth
         \/ /\ ~call[c].cancelled
            /\ call[c].fresh # call[c].held
            /\ call' = [call EXCEPT ![c].stage = "persist"]
            /\ UNCHANGED <<authority, queue, reauth>>
    /\ UNCHANGED <<entryVars, reload, session, valid, newest, failures>>

\* Mutant: a failed save is logged and the call goes on.
PersistOrGoOn(c) ==
    /\ call[c] # None /\ call[c].stage = "persist"
    /\ LET s == call[c].session IN
         \/ /\ entry' = call[c].fresh
            /\ saved' = saved \cup {entry'}
            /\ authority' = [authority EXCEPT ![s] = call[c].fresh]
            /\ Proceed(c)
            /\ UNCHANGED <<valid, failures>>
         \/ /\ failures < MaxFailures
            /\ failures' = failures + 1
            /\ authority' = [authority EXCEPT ![s] = call[c].fresh]
            /\ Proceed(c)
            /\ UNCHANGED <<entry, saved, valid>>
    /\ UNCHANGED <<pastes, reload, session, newest, reauth>>

\* _persist_if_changed: over whatever the entry holds by now; a save that fails or is
\* cancelled ends the session.
Persist(c) ==
    /\ call[c] # None /\ call[c].stage = "persist"
    /\ LET s == call[c].session IN
         \/ /\ entry' = call[c].fresh
            /\ saved' = saved \cup {entry'}
            /\ authority' = [authority EXCEPT ![s] = call[c].fresh]
            /\ Proceed(c)
            /\ UNCHANGED <<valid, failures>>
         \/ /\ failures < MaxFailures
            /\ failures' = failures + 1
            /\ valid' = [valid EXCEPT ![s] = FALSE]
            /\ Leave(c)
            /\ UNCHANGED <<entry, saved, authority>>
    /\ UNCHANGED <<pastes, reload, session, newest, reauth>>

\* The one request is answered or lost.
Answered(c) ==
    /\ InThread(c) /\ call[c].stage = "send"
    /\ Leave(c)
    /\ UNCHANGED <<entryVars, reload, sessionVars, newest, reauth, failures>>

\* Mutant: the lock is given up with the task, as a plain await would.
CancelAtOnce(c) ==
    /\ call[c] # None /\ call[c].stage # "persist" /\ ~call[c].cancelled
    /\ LET s == call[c].session IN
         /\ queue' = [queue EXCEPT ![s] = Without(@, c)]
         /\ call' = [call EXCEPT ![c] = IF InThread(c) THEN [@ EXCEPT !.cancelled = TRUE]
                                                       ELSE None]
    /\ UNCHANGED <<entryVars, reload, sessionVars, newest, reauth, failures>>

\* Cancelled in the queue a task is gone; with a thread it keeps the lock until that ends.
Cancel(c) ==
    /\ call[c] # None /\ call[c].stage # "persist" /\ ~call[c].cancelled
    /\ IF InThread(c)
       THEN call' = [call EXCEPT ![c].cancelled = TRUE] /\ UNCHANGED queue
       ELSE Leave(c)
    /\ UNCHANGED <<entryVars, reload, sessionVars, newest, reauth, failures>>

(***************************************************************************)
(* The entry and its sessions.                                             *)
(***************************************************************************)
\* Setup makes a session that has no token of its own yet.
Setup ==
    /\ reload = "down"
    /\ session < MaxSessions
    /\ session' = session + 1
    /\ reload' = "no"
    /\ UNCHANGED <<entryVars, valid, authority, queue, call, newest, reauth, failures>>

\* The listener sees options other than those of the runtime.
ChangeOptions ==
    /\ reload = "no" /\ session < MaxSessions
    /\ reload' = "due"
    /\ UNCHANGED <<entryVars, sessionVars, queue, call, newest, reauth, failures>>

\* _async_shutdown_ordering.
Invalidate ==
    /\ reload = "due"
    /\ valid' = [valid EXCEPT ![session] = FALSE]
    /\ reload' = "down"
    /\ UNCHANGED <<entryVars, session, authority, queue, call, newest, reauth, failures>>

\* A pasted token passes a refresh and is what the entry holds.
Replace ==
    /\ pastes < MaxPastes
    /\ pastes' = pastes + 1
    /\ entry' = [family |-> pastes', serial |-> 0]
    /\ saved' = saved \cup {entry'}

\* In the options form: alone it is no change of options.
Paste ==
    /\ Replace
    /\ UNCHANGED <<reload, sessionVars, queue, call, newest, reauth, failures>>

\* In the reauthentication form, which reloads.
Reauthenticate ==
    /\ reauth /\ reload = "no" /\ session < MaxSessions
    /\ Replace
    /\ reauth' = FALSE
    /\ reload' = "due"
    /\ UNCHANGED <<sessionVars, queue, call, newest, failures>>

\* The process ends with its tasks and threads; setup reads the entry again.
Restart ==
    /\ session < MaxSessions
    /\ call' = [c \in Callers |-> None]
    /\ queue' = [s \in Sessions |-> <<>>]
    /\ valid' = [valid EXCEPT ![session] = FALSE]
    /\ reload' = "down"
    /\ reauth' = FALSE
    /\ UNCHANGED <<entryVars, session, authority, newest, failures>>

\* A poll is cancelled with the coordinator it belongs to.
Cancellable(c) == c \in Clients \/ c # session \/ reload = "down"

Step(c) == Acquire(c) \/ Refresh(c) \/ Authorized(c) \/ Persist(c) \/ Answered(c)

Next ==
    \/ \E c \in Clients : Request(c, "request")
    \/ Poll
    \/ \E c \in Callers : Step(c)
    \/ \E c \in Callers : Cancellable(c) /\ Cancel(c)
    \/ Setup \/ ChangeOptions \/ Invalidate \/ Paste \/ Reauthenticate \/ Restart

Spec == Init /\ [][Next]_vars

\* The coordinator polls; the loop runs what is ready; a thread ends, its calls having a
\* timeout; a reload that has begun goes on.
Fairness ==
    /\ WF_vars(Poll)
    /\ \A c \in Callers :
         WF_vars(Acquire(c)) /\ WF_vars(Authorized(c)) /\ WF_vars(Persist(c)) /\ WF_vars(Answered(c))
    /\ WF_vars(Invalidate) /\ WF_vars(Setup)

FairSpec == Spec /\ Fairness

(***************************************************************************)
(* Properties.                                                             *)
(***************************************************************************)

\* Whatever is cancelled, at most one call of a session is on the wire or refreshing: no
\* write starts while an earlier one whose caller gave up is still being sent.
OneOnTheWire ==
    \A c, d \in Callers :
        (InThread(c) /\ InThread(d) /\ call[c].session = call[d].session) => c = d

\* A single request leaves only under a token that was saved in the entry before: a
\* rotation is never spent on it and then lost.  The reads of a poll may go out under one
\* that is saved when the poll has ended.
WireTokenWasSaved ==
    \A c \in Callers : (call[c] # None /\ call[c].stage = "send") => call[c].fresh \in saved

\* A session that ended because its token could not be saved does not stay in place
\* silently: the user is asked for a token, or a new session takes over.
DeadSessionAsks ==
    \A s \in Sessions : (session = s /\ ~valid[s]) ~> (reauth \/ session # s)

\* README: a token the user has pasted replaces the one in use.
PastedTokenStays == [][entry'.family >= entry.family]_vars
=============================================================================
