---------------------------- MODULE TokenRefresh ----------------------------
(***************************************************************************)
(* The forge tokens of one user: logins, requests that need an access      *)
(* token, and the refresh_tokens job of the queue.                         *)
(*                                                                         *)
(* A step is a transaction, a request to the forge, or a wait for the      *)
(* user's mutex.  The mutex is held from before the stored tokens are read *)
(* until after the new ones are stored and the next job is scheduled; a    *)
(* login does not take it.  The forge takes the strict view of OAuth: a    *)
(* refresh token is good once, and any new one, from a refresh or a login, *)
(* supersedes it; tokens are numbered as the forge issues them.  The queue *)
(* is that of WebhookSetup, with a job that waits for its run_at first.    *)
(***************************************************************************)
EXTENDS Naturals

CONSTANTS
    Requests,      \* calls of getForgeWithUser
    Logins,        \* callbacks of the forge's login page
    NoOne,         \* holder of the mutex when it is free
    MaxJobs,       \* bound on the rows of the queue at a time
    MaxAttempts,   \* of a job, by the queue
    MaxExpiries,   \* bound on how often a token comes to its time
    MaxCrashes,    \* bound on the crashes of the server
    Scenarios      \* who takes part in a run, and the faults that may happen
                   \* together in it: requests to the "forge" and "db" transactions
                   \* fail, the refresh token expires because the queue is "late",
                   \* the server may "crash"

Jobs == 1 .. MaxJobs
NoJob == 0
Procs == Requests \cup Logins \cup Jobs

ASSUME TokenAssumption ==
    /\ MaxJobs \in Nat \ { 0 } /\ MaxAttempts \in Nat \ { 0 }
    /\ MaxExpiries \in Nat /\ MaxCrashes \in Nat
    /\ Scenarios \subseteq [actors : SUBSET (Requests \cup Logins),
                             faults : SUBSET { "forge", "db", "late", "crash" }]
    /\ Requests \cap Logins = {} /\ (Requests \cup Logins) \cap Jobs = {}
    /\ NoOne \notin Procs

NoToken == 0

VARIABLES
    faults,        \* the faults that may happen in this run
    user,          \* the user has a row in users
    stored,        \* forge_access_tokens.refresh_token
    access,        \* its access_token_expires_at, against the threshold
    refresh,       \* its refresh_token_expires_at, against run_at and now
    issued,        \* the latest token the forge has issued: the only good one
    mutex,         \* who holds userTokenMutexes for the user
    pc,            \* the next call of each handler
    token,         \* the refresh token it read, then the one it was issued
    found,         \* the login's transaction found the user
    keyed,         \* the job that holds the user's job_key
    job,           \* state of each row of the queue
    attempts,      \* how often the job was started
    expiries, crashes,
    spoiled,       \* a token was lost, or a login overlapped a refresh or another
                   \* login: a history, which an undisturbed login starts anew
    unscheduled    \* tokens were stored without scheduling their refresh (history)

tokens == << user, stored, access, refresh >>
local == << token, found >>
queue == << keyed, job, attempts >>
bounds == << expiries, crashes >>
history == << spoiled, unscheduled >>
vars == << faults, tokens, issued, mutex, pc, local, queue, bounds, history >>

TypeOK ==
    /\ \E s \in Scenarios : faults = s.faults
    /\ user \in BOOLEAN
    /\ issued \in Nat /\ stored \in 0 .. issued
    /\ stored # NoToken => user
    /\ access \in { "fresh", "expiring" }
    /\ refresh \in { "fresh", "due", "expired" }
    /\ mutex \in { NoOne } \cup Requests \cup Jobs
    /\ pc \in [Procs -> { "idle", "lock", "read", "refresh", "store", "schedule",
                          "find", "end", "done" }]
    /\ token \in [Procs -> 0 .. issued]
    /\ found \in [Logins -> BOOLEAN]
    /\ keyed \in Jobs \cup { NoJob }
    /\ job \in [Jobs -> { "none", "waiting", "queued", "running", "stuck" }]
    /\ attempts \in [Jobs -> 0 .. MaxAttempts]
    /\ expiries \in 0 .. MaxExpiries /\ crashes \in 0 .. MaxCrashes
    /\ spoiled \in BOOLEAN /\ unscheduled \in BOOLEAN

\* Either nobody has logged in yet, or a login of earlier is all there is.
Init ==
    /\ \E s \in Scenarios :
       /\ faults = s.faults
       /\ pc = [p \in Procs |-> IF p \in Jobs \cup s.actors THEN "idle" ELSE "done"]
    /\ \/ user = FALSE /\ stored = NoToken /\ keyed = NoJob /\ job = [j \in Jobs |-> "none"]
       \/ /\ user = TRUE /\ stored = 1 /\ keyed = 1
          /\ job = [j \in Jobs |-> IF j = 1 THEN "waiting" ELSE "none"]
    /\ issued = stored
    /\ access = "fresh" /\ refresh = "fresh"
    /\ mutex = NoOne
    /\ token = [p \in Procs |-> NoToken] /\ found = [l \in Logins |-> FALSE]
    /\ attempts = [j \in Jobs |-> 0]
    /\ expiries = 0 /\ crashes = 0
    /\ spoiled = FALSE /\ unscheduled = FALSE

Goto(p, from, to) == /\ pc[p] = from
                     /\ pc' = [pc EXCEPT ![p] = to]

\* A login that has its tokens from the forge and has not stored them.
LoggingIn(p) == p \in Logins /\ pc[p] \in { "find", "store" }

\* A refresh between reading the old token and storing the new one.
Refreshing(p) == p \in Requests \cup Jobs /\ pc[p] \in { "refresh", "store" }

-----------------------------------------------------------------------------
(* The queue.                                                              *)

Live(j) ==
    \/ job[j] = "running"
    \/ job[j] \in { "waiting", "queued", "stuck" } /\ attempts[j] < MaxAttempts

\* A row that is not there, or that nothing will look at again.
Free(j) == job[j] = "none" \/ (keyed # j /\ ~Live(j))

\* add_job with the user's job_key and a run_at.  A new row takes the first
\* place that is free.
AddJob ==
    IF keyed # NoJob /\ job[keyed] \in { "waiting", "queued" }
    THEN /\ job' = [job EXCEPT ![keyed] = "waiting"]
         /\ attempts' = [attempts EXCEPT ![keyed] = 0]
         /\ UNCHANGED keyed
    ELSE \E j \in Jobs :
         /\ Free(j) /\ \A k \in 1 .. j - 1 : ~Free(k)
         /\ keyed' = j
         /\ job' = [job EXCEPT ![j] = "waiting"]
         /\ attempts' = [k \in Jobs |-> CASE k = j -> 0
                                          [] k = keyed -> MaxAttempts
                                          [] OTHER -> attempts[k]]

\* run_at has come: it is set by the expiry of the token it was scheduled for.
Elapse(j) ==
    /\ job[j] = "waiting"
    /\ refresh # "fresh" \/ unscheduled
    /\ job' = [job EXCEPT ![j] = "queued"]
    /\ UNCHANGED << faults, tokens, issued, mutex, pc, local, keyed, attempts, bounds, history >>

MutantTakeJob(j) ==      \* without a limit on the attempts
    /\ job[j] = "queued"
    /\ job' = [job EXCEPT ![j] = "running"]
    /\ attempts' = [attempts EXCEPT ![j] = @ + 1]
    /\ pc' = [pc EXCEPT ![j] = "lock"]
    /\ UNCHANGED << faults, tokens, issued, mutex, local, keyed, bounds, history >>

TakeJob(j) ==
    /\ job[j] = "queued" /\ attempts[j] < MaxAttempts
    /\ job' = [job EXCEPT ![j] = "running"]
    /\ attempts' = [attempts EXCEPT ![j] = @ + 1]
    /\ pc' = [pc EXCEPT ![j] = "lock"]
    /\ UNCHANGED << faults, tokens, issued, mutex, local, keyed, bounds, history >>

\* The lock of a dead worker expires.
Unlock(j) ==
    /\ job[j] = "stuck"
    /\ job' = [job EXCEPT ![j] = "queued"]
    /\ UNCHANGED << faults, tokens, issued, mutex, pc, local, keyed, attempts, bounds, history >>

-----------------------------------------------------------------------------
(* Handlers.                                                               *)

MutantFinish(p, success) ==      \* an error leaves the mutex locked
    /\ mutex' = IF mutex = p /\ success THEN NoOne ELSE mutex
    /\ token' = [token EXCEPT ![p] = NoToken]
    /\ found' = [l \in Logins |-> l # p /\ found[l]]
    /\ IF p \in Jobs
       THEN /\ pc' = [pc EXCEPT ![p] = "idle"]
            /\ job' = [job EXCEPT ![p] = IF success THEN "none" ELSE "queued"]
            /\ keyed' = IF success /\ keyed = p THEN NoJob ELSE keyed
            /\ attempts' = [attempts EXCEPT ![p] = IF success THEN 0 ELSE @]
       ELSE /\ pc' = [pc EXCEPT ![p] = "done"]
            /\ UNCHANGED queue

\* The handler returns or throws, which releases the mutex; the queue deletes the
\* row of a job that returned and keeps that of one that threw for another attempt.
Finish(p, success) ==
    /\ mutex' = IF mutex = p THEN NoOne ELSE mutex
    /\ token' = [token EXCEPT ![p] = NoToken]
    /\ found' = [l \in Logins |-> l # p /\ found[l]]
    /\ IF p \in Jobs
       THEN /\ pc' = [pc EXCEPT ![p] = "idle"]
            /\ job' = [job EXCEPT ![p] = IF success THEN "none" ELSE "queued"]
            /\ keyed' = IF success /\ keyed = p THEN NoJob ELSE keyed
            /\ attempts' = [attempts EXCEPT ![p] = IF success THEN 0 ELSE @]
       ELSE /\ pc' = [pc EXCEPT ![p] = "done"]
            /\ UNCHANGED queue

\* A request of the user arrives.
Begin(r) ==
    /\ Goto(r, "idle", "lock")
    /\ UNCHANGED << faults, tokens, issued, mutex, local, queue, bounds, history >>

MutantLock(p) ==      \* nobody waits for the other
    /\ Goto(p, "lock", "read")
    /\ UNCHANGED << faults, tokens, issued, mutex, local, queue, bounds, history >>

Lock(p) ==
    /\ mutex = NoOne
    /\ Goto(p, "lock", "read")
    /\ mutex' = p
    /\ UNCHANGED << faults, tokens, issued, local, queue, bounds, history >>

\* getTokenInfo, and the decision to refresh: a job always does.
Read(p) ==
    /\ stored # NoToken /\ refresh # "expired"
    /\ p \in Requests => access = "expiring"
    /\ Goto(p, "read", "refresh")
    /\ token' = [token EXCEPT ![p] = stored]
    /\ spoiled' = (spoiled \/ \E l \in Logins : LoggingIn(l))
    /\ UNCHANGED << faults, tokens, issued, mutex, found, queue, bounds, unscheduled >>

\* No user or no tokens: a request is refused, but a job returns.  And a request
\* whose access token is good for a while uses it.
ReadSuffices(p) ==
    /\ pc[p] = "read"
    /\ \/ stored = NoToken \/ refresh = "expired"
       \/ p \in Requests /\ access = "fresh"
    /\ Finish(p, TRUE)
    /\ UNCHANGED << faults, tokens, issued, bounds, history >>

ReadFails(p) ==
    /\ "db" \in faults
    /\ pc[p] = "read"
    /\ Finish(p, FALSE)
    /\ UNCHANGED << faults, tokens, issued, bounds, history >>

\* refreshAccessToken
Refresh(p) ==
    /\ token[p] = issued
    /\ Goto(p, "refresh", "store")
    /\ issued' = issued + 1
    /\ token' = [token EXCEPT ![p] = issued']
    /\ UNCHANGED << faults, tokens, mutex, found, queue, bounds, history >>

\* The forge does not take a token that has been superseded.
Refused(p) ==
    /\ pc[p] = "refresh"
    /\ token[p] # issued
    /\ Finish(p, FALSE)
    /\ UNCHANGED << faults, tokens, issued, bounds, history >>

\* The forge cannot be reached, or issues a token in an answer that is lost.
RefreshFails(p, lost) ==
    /\ "forge" \in faults
    /\ pc[p] = "refresh"
    /\ token[p] = issued
    /\ Finish(p, FALSE)
    /\ issued' = IF lost THEN issued + 1 ELSE issued
    /\ spoiled' = (spoiled \/ lost)
    /\ UNCHANGED << faults, tokens, bounds, unscheduled >>

MutantStoreTokens(p) ==      \* a refresh keeps the old refresh token
    /\ stored' = IF p \in Logins THEN token[p] ELSE stored
    /\ access' = "fresh"
    /\ refresh' = "fresh"

StoreTokens(p) ==
    /\ stored' = token[p]
    /\ access' = "fresh"
    /\ refresh' = "fresh"

\* updateTokens: the first of its transactions.  For a login, that of
\* getOrCreateUser, which fails if another login has created the user meanwhile.
Store(p) ==
    /\ Goto(p, "store", "schedule")
    /\ p \in Logins => found[p] = user
    /\ user' = TRUE
    /\ StoreTokens(p)
    /\ UNCHANGED << faults, issued, mutex, local, queue, bounds, history >>

UserTaken(l) ==
    /\ pc[l] = "store"
    /\ ~found[l] /\ user
    /\ Finish(l, FALSE)
    /\ UNCHANGED << faults, tokens, issued, bounds, history >>

StoreFails(p) ==
    /\ "db" \in faults
    /\ pc[p] = "store"
    /\ Finish(p, FALSE)
    /\ spoiled' = TRUE
    /\ UNCHANGED << faults, tokens, issued, bounds, unscheduled >>

StoreAckLost(p) ==
    /\ "db" \in faults
    /\ pc[p] = "store"
    /\ p \in Logins => found[p] = user
    /\ Finish(p, FALSE)
    /\ user' = TRUE
    /\ StoreTokens(p)
    /\ unscheduled' = TRUE
    /\ UNCHANGED << faults, issued, bounds, spoiled >>

MutantSchedule(p) ==      \* only a login schedules
    /\ Goto(p, "schedule", "end")
    /\ IF p \in Logins THEN AddJob ELSE UNCHANGED queue
    /\ unscheduled' = FALSE
    /\ UNCHANGED << faults, tokens, issued, mutex, local, bounds, spoiled >>

\* scheduleRefreshTokenJob, in a transaction of its own.
Schedule(p) ==
    /\ Goto(p, "schedule", "end")
    /\ AddJob
    /\ unscheduled' = FALSE
    /\ UNCHANGED << faults, tokens, issued, mutex, local, bounds, spoiled >>

ScheduleFails(p) ==
    /\ "db" \in faults
    /\ pc[p] = "schedule"
    /\ Finish(p, FALSE)
    /\ unscheduled' = TRUE
    /\ UNCHANGED << faults, tokens, issued, bounds, spoiled >>

End(p) ==
    /\ pc[p] = "end"
    /\ Finish(p, TRUE)
    /\ UNCHANGED << faults, tokens, issued, bounds, history >>

-----------------------------------------------------------------------------
(* Logins.                                                                 *)

\* The callback has its state and cookie, and the forge exchanges its code.
Exchange(l) ==
    /\ Goto(l, "idle", "find")
    /\ issued' = issued + 1
    /\ token' = [token EXCEPT ![l] = issued']
    /\ spoiled' = \E p \in Procs \ { l } : LoggingIn(p) \/ Refreshing(p)
    /\ UNCHANGED << faults, tokens, mutex, found, queue, bounds, unscheduled >>

\* The answer of the exchange, the user's details or their row do not come.
LoginFails(l) ==
    /\ faults \cap { "forge", "db" } # {}
    /\ pc[l] = "find"
    /\ Finish(l, FALSE)
    /\ spoiled' = TRUE
    /\ UNCHANGED << faults, tokens, issued, bounds, unscheduled >>

\* getUserInfo, and then findUserByForge in getOrCreateUser.
FindUser(l) ==
    /\ Goto(l, "find", "store")
    /\ found' = [found EXCEPT ![l] = user]
    /\ UNCHANGED << faults, tokens, issued, mutex, token, queue, bounds, history >>

-----------------------------------------------------------------------------
(* Time and crashes.                                                       *)

\* The access token comes within its threshold of expiring, the refresh token
\* within its own, or it expires because no job was in time.
Expire ==
    /\ expiries < MaxExpiries
    /\ expiries' = expiries + 1
    /\ stored # NoToken
    /\ \/ access = "fresh" /\ access' = "expiring" /\ UNCHANGED refresh
       \/ refresh = "fresh" /\ refresh' = "due" /\ UNCHANGED access
       \/ "late" \in faults /\ refresh = "due" /\ refresh' = "expired" /\ UNCHANGED access
    /\ UNCHANGED << faults, user, stored, issued, mutex, pc, local, queue, crashes, history >>

\* The server dies: its jobs stay locked, its requests are gone.
Crash ==
    /\ "crash" \in faults /\ crashes < MaxCrashes
    /\ crashes' = crashes + 1
    /\ job' = [j \in Jobs |-> IF job[j] = "running" THEN "stuck" ELSE job[j]]
    /\ pc' = [p \in Procs |-> IF p \in Jobs \/ pc[p] = "idle" THEN "idle" ELSE "done"]
    /\ mutex' = NoOne
    /\ token' = [p \in Procs |-> NoToken] /\ found' = [l \in Logins |-> FALSE]
    /\ spoiled' = (spoiled \/ \E p \in Procs : LoggingIn(p) \/ pc[p] = "store")
    /\ unscheduled' = (unscheduled \/ \E p \in Procs : pc[p] = "schedule")
    /\ UNCHANGED << faults, tokens, issued, keyed, attempts, expiries >>

-----------------------------------------------------------------------------
Step(p) ==
    \/ Lock(p) \/ Read(p) \/ ReadSuffices(p)
    \/ Refresh(p) \/ Refused(p)
    \/ Store(p) \/ Schedule(p) \/ End(p)

LoginStep(l) == FindUser(l) \/ UserTaken(l)

QueueStep(j) == Elapse(j) \/ TakeJob(j) \/ Unlock(j)

Fault(p) ==
    \/ \E lost \in BOOLEAN : RefreshFails(p, lost)
    \/ ReadFails(p) \/ StoreFails(p) \/ StoreAckLost(p) \/ ScheduleFails(p)

Next ==
    \/ \E p \in Procs : Step(p) \/ Fault(p)
    \/ \E r \in Requests : Begin(r)
    \/ \E l \in Logins : Exchange(l) \/ LoginStep(l) \/ LoginFails(l)
    \/ \E j \in Jobs : QueueStep(j)
    \/ Expire
    \/ Crash

Spec == Init /\ [][Next]_vars

\* Calls are answered, the mutex is handed on, and the queue's workers run; no
\* request or login has to come.
Fairness ==
    /\ \A p \in Procs : WF_vars(Step(p))
    /\ \A l \in Logins : WF_vars(LoginStep(l))
    /\ \A j \in Jobs : WF_vars(QueueStep(j))

FairSpec == Spec /\ Fairness

-----------------------------------------------------------------------------
(* Properties.                                                             *)

\* "Lock the user's tokens so that e.g. the background job doesn't refresh
\* concurrently with us": what is stored is the token that the forge will take
\* next, unless one was lost on the way or a login, which does not lock, came
\* between; whatever the requests and the job do.
StoredIsGood ==
    stored # NoToken /\ ~spoiled /\ (\A p \in Procs : ~LoggingIn(p) /\ pc[p] # "store") =>
        stored = issued

\* For the same reason no handler is turned away with a token that another has
\* already used.
NoneTurnedAway == [][ \A p \in Procs : Refused(p) => spoiled ]_vars

\* Whoever stores tokens sees to the refresh after the next: tokens that have not
\* expired have a job that will run, or that has used up its attempts, unless it
\* could not be scheduled.  A job that runs gives up its key to its successor.
RefreshScheduled ==
    /\ stored # NoToken /\ refresh # "expired" /\ ~unscheduled
    /\ \A p \in Procs : pc[p] # "schedule"
    => /\ keyed # NoJob
       /\ Live(keyed) \/ attempts[keyed] = MaxAttempts

\* Unless requests fail, tokens that are due are refreshed, even across a crash
\* (a job has more attempts than the server crashes here), unless one was spoiled
\* by it or by a login.
DueIsRefreshed ==
    faults \subseteq { "crash" } /\ refresh = "due" ~> refresh = "fresh" \/ spoiled \/ unscheduled
=============================================================================
