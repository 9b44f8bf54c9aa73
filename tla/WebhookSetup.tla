---------------------------- MODULE WebhookSetup ----------------------------
(***************************************************************************)
(* Setting up the webhook of one repository: the requests that configure   *)
(* it, the setup_webhooks jobs they queue, the hooks on the forge and the  *)
(* secret in the database.  Repositories share none of this.               *)
(*                                                                         *)
(* A step is a transaction or a request to the forge.  The job queue is    *)
(* graphile-worker's, with the options the code gives it: add_job with a   *)
(* job_key replaces a job that waits; a job that runs cannot be replaced,  *)
(* so it loses the key and its further attempts, and a second job is       *)
(* queued.  A job whose worker died stays locked until the queue gives up  *)
(* waiting for it.                                                         *)
(***************************************************************************)
EXTENDS Naturals, FiniteSets

CONSTANTS
    MaxRequests,   \* bound on the requests that configure the repository
    MaxAttempts,   \* of a job, by the queue
    MaxCrashes,    \* bound on the crashes of the server
    Scenarios      \* sets of faults that may happen together in a run:
                   \* requests to the "forge" and "db" transactions may fail

ASSUME SetupAssumption ==
    /\ MaxRequests \in Nat /\ MaxCrashes \in Nat
    /\ MaxAttempts \in Nat \ { 0 }
    /\ Scenarios \subseteq SUBSET { "forge", "db" }

Jobs == 1 .. MaxRequests
NoJob == 0

\* Every attempt makes a secret of its own (a request allows at most MaxAttempts
\* further ones), and a hook is known by the secret it was given.
Secrets == 1 .. MaxRequests * MaxAttempts
NoSecret == 0

VARIABLES
    faults,      \* the faults that may happen in this run
    hasToken,    \* the repository's owner has an access token
    requests,    \* how often the repository was configured
    keyed,       \* the job that holds the repository's job_key
    job,         \* state of each row of the queue
    attempts,    \* how often the job was started
    pc,          \* the next call of the running job
    listed,      \* the hooks it listed and has not tried to delete
    mine,        \* the secret it made
    made,        \* how many minting were made
    hooks,       \* the repository's hooks on the forge that are CorncrakeCI's
    secret,      \* repositories.webhook_secret
    crashes,
    lastEnd,     \* how the latest attempt to end did: a history
    overlapped   \* two attempts ran at once at some time: a history

queue == << requests, keyed, job, attempts >>
minting == << mine, made >>
local == << pc, listed, minting >>
fixed == << faults, hasToken >>
history == << crashes, lastEnd, overlapped >>
vars == << fixed, queue, local, hooks, secret, history >>

TypeOK ==
    /\ faults \in Scenarios
    /\ hasToken \in BOOLEAN
    /\ requests \in 0 .. MaxRequests
    /\ keyed \in Jobs \cup { NoJob }
    /\ job \in [Jobs -> { "none", "queued", "running", "stuck", "gone" }]
    /\ attempts \in [Jobs -> 0 .. MaxAttempts]
    /\ pc \in [Jobs -> { "idle", "read", "list", "delete", "create", "store", "revoke" }]
    /\ listed \in [Jobs -> SUBSET Secrets]
    /\ mine \in [Jobs -> Secrets \cup { NoSecret }]
    /\ made \in Secrets \cup { 0 }
    /\ hooks \subseteq Secrets
    /\ secret \in Secrets \cup { NoSecret }
    /\ crashes \in 0 .. MaxCrashes
    /\ lastEnd \in { "none", "stored", "revoked", "unknown" }
    /\ overlapped \in BOOLEAN

Init ==
    /\ faults \in Scenarios
    /\ hasToken \in BOOLEAN
    /\ requests = 0
    /\ keyed = NoJob
    /\ job = [j \in Jobs |-> "none"]
    /\ attempts = [j \in Jobs |-> 0]
    /\ pc = [j \in Jobs |-> "idle"]
    /\ listed = [j \in Jobs |-> {}]
    /\ mine = [j \in Jobs |-> NoSecret]
    /\ made = 0
    /\ hooks = {}
    /\ secret = NoSecret
    /\ crashes = 0
    /\ lastEnd = "none"
    /\ overlapped = FALSE

Locked(j) == job[j] \in { "running", "stuck" }

\* The queue may still start it, now or when its lock expires.
Live(j) ==
    \/ job[j] = "running"
    \/ job[j] \in { "queued", "stuck" } /\ attempts[j] < MaxAttempts

-----------------------------------------------------------------------------
(* The queue.                                                              *)

AddJob(j) ==
    /\ keyed' = j
    /\ job' = [job EXCEPT ![j] = "queued"]

\* The row, which keeps its first owner, and add_job in the same transaction.
CreateOrUpdateRepository ==
    /\ requests < MaxRequests
    /\ requests' = requests + 1
    /\ \/ /\ keyed = NoJob
          /\ AddJob(requests')
          /\ UNCHANGED attempts
       \/ /\ keyed # NoJob /\ ~Locked(keyed)
          /\ attempts' = [attempts EXCEPT ![keyed] = 0]
          /\ UNCHANGED << keyed, job >>
       \/ /\ keyed # NoJob /\ Locked(keyed)
          /\ attempts' = [attempts EXCEPT ![keyed] = MaxAttempts]
          /\ AddJob(requests')
    /\ UNCHANGED << fixed, local, hooks, secret, history >>

\* Both requests ask the forge for admin access and the repository's details
\* first, and change nothing when it refuses.
ConfigureRepo == CreateOrUpdateRepository

\* The repository is in the database.
ReconfigureRepo == requests > 0 /\ CreateOrUpdateRepository

MutantTakeJob(j) ==     \* tries forever
    /\ job[j] = "queued"
    /\ job' = [job EXCEPT ![j] = "running"]
    /\ attempts' = [attempts EXCEPT ![j] = @ + 1]
    /\ pc' = [pc EXCEPT ![j] = "read"]
    /\ UNCHANGED << fixed, requests, keyed, listed, minting, hooks, secret, history >>

\* One of the runner's five workers takes a job that waits.
TakeJob(j) ==
    /\ job[j] = "queued" /\ attempts[j] < MaxAttempts
    /\ job' = [job EXCEPT ![j] = "running"]
    /\ attempts' = [attempts EXCEPT ![j] = @ + 1]
    /\ pc' = [pc EXCEPT ![j] = "read"]
    /\ overlapped' = (overlapped \/ \E k \in Jobs : job[k] = "running")
    /\ UNCHANGED << fixed, requests, keyed, listed, minting, hooks, secret,
                     crashes, lastEnd >>

\* The lock of a dead worker expires.
Unlock(j) ==
    /\ job[j] = "stuck"
    /\ job' = [job EXCEPT ![j] = "queued"]
    /\ UNCHANGED << fixed, requests, keyed, attempts, local, hooks, secret, history >>

\* The task returns: the row is deleted, and its key with it.
Return(j) ==
    /\ pc' = [pc EXCEPT ![j] = "idle"]
    /\ job' = [job EXCEPT ![j] = "gone"]
    /\ keyed' = IF keyed = j THEN NoJob ELSE keyed
    /\ UNCHANGED << requests, attempts >>

\* It throws: the queue keeps the row for another attempt.
Throw(j) ==
    /\ pc' = [pc EXCEPT ![j] = "idle"]
    /\ job' = [job EXCEPT ![j] = "queued"]
    /\ UNCHANGED << requests, keyed, attempts >>

-----------------------------------------------------------------------------
(* setup_webhooks.                                                         *)

Goto(j, from, to) == /\ pc[j] = from
                     /\ pc' = [pc EXCEPT ![j] = to]

\* The hook, with a new secret, is on the forge.
MakeHook(j) ==
    /\ made' = made + 1
    /\ mine' = [mine EXCEPT ![j] = made']
    /\ hooks' = hooks \cup { made' }

Read(j) ==
    /\ hasToken
    /\ Goto(j, "read", "list")
    /\ UNCHANGED << fixed, queue, listed, minting, hooks, secret, history >>

\* Without a token the job just returns, as if it were done.
ReadNoToken(j) ==
    /\ ~hasToken
    /\ pc[j] = "read"
    /\ Return(j)
    /\ UNCHANGED << fixed, listed, minting, hooks, secret, history >>

\* cleanupExistingWebhooks
ListHooks(j) ==
    /\ Goto(j, "list", "delete")
    /\ listed' = [listed EXCEPT ![j] = hooks]
    /\ UNCHANGED << fixed, queue, minting, hooks, secret, history >>

DeleteHook(j) == \E h \in listed[j] :
    /\ Goto(j, "delete", "delete")
    /\ listed' = [listed EXCEPT ![j] = @ \ { h }]
    /\ hooks' = hooks \ { h }
    /\ UNCHANGED << fixed, queue, minting, secret, history >>

\* The hook stays where it is.
DeleteHookFails(j) == \E h \in listed[j] :
    /\ "forge" \in faults
    /\ Goto(j, "delete", "delete")
    /\ listed' = [listed EXCEPT ![j] = @ \ { h }]
    /\ UNCHANGED << fixed, queue, minting, hooks, secret, history >>

CleanedUp(j) ==
    /\ listed[j] = {}
    /\ Goto(j, "delete", "create")
    /\ UNCHANGED << fixed, queue, listed, minting, hooks, secret, history >>

ListHooksFails(j) ==
    /\ "forge" \in faults
    /\ Goto(j, "list", "create")
    /\ UNCHANGED << fixed, queue, listed, minting, hooks, secret, history >>

CreateHook(j) ==
    /\ Goto(j, "create", "store")
    /\ MakeHook(j)
    /\ UNCHANGED << fixed, queue, listed, secret, history >>

\* The forge made the hook, but its answer is lost.
CreateHookLost(j) ==
    /\ "forge" \in faults
    /\ Goto(j, "create", "revoke")
    /\ MakeHook(j)
    /\ UNCHANGED << fixed, queue, listed, secret, history >>

MutantStoreSecret(j) ==     \* only a repository without a secret gets one
    /\ pc[j] = "store"
    /\ Return(j)
    /\ secret' = IF secret = NoSecret THEN mine[j] ELSE secret
    /\ lastEnd' = "stored"
    /\ UNCHANGED << fixed, listed, minting, hooks, crashes, overlapped >>

StoreSecret(j) ==
    /\ pc[j] = "store"
    /\ Return(j)
    /\ secret' = mine[j]
    /\ lastEnd' = "stored"
    /\ UNCHANGED << fixed, listed, minting, hooks, crashes, overlapped >>

StoreSecretAckLost(j) ==
    /\ "db" \in faults
    /\ Goto(j, "store", "revoke")
    /\ secret' = mine[j]
    /\ UNCHANGED << fixed, queue, listed, minting, hooks, history >>

\* Control passes to the catch.
CallFails(j) ==
    /\ \/ "db" \in faults /\ (Goto(j, "read", "revoke") \/ Goto(j, "store", "revoke"))
       \/ "forge" \in faults /\ Goto(j, "create", "revoke")
    /\ UNCHANGED << fixed, queue, listed, minting, hooks, secret, history >>

MutantRevokeSecret(j) ==     \* the catch does not clear the secret
    /\ pc[j] = "revoke"
    /\ Throw(j)
    /\ lastEnd' = "revoked"
    /\ UNCHANGED << fixed, listed, minting, hooks, secret, crashes, overlapped >>

MutantRevokeAndReturn(j) ==     \* the catch does not throw again
    /\ pc[j] = "revoke"
    /\ Return(j)
    /\ secret' = NoSecret
    /\ lastEnd' = "revoked"
    /\ UNCHANGED << fixed, listed, minting, hooks, crashes, overlapped >>

RevokeSecret(j) ==
    /\ pc[j] = "revoke"
    /\ Throw(j)
    /\ secret' = NoSecret
    /\ lastEnd' = "revoked"
    /\ UNCHANGED << fixed, listed, minting, hooks, crashes, overlapped >>

RevokeSecretFails(j) ==
    /\ "db" \in faults
    /\ pc[j] = "revoke"
    /\ Throw(j)
    /\ lastEnd' = "unknown"
    /\ UNCHANGED << fixed, listed, minting, hooks, secret, crashes, overlapped >>

\* The server dies: its jobs stay locked.
Crash ==
    /\ crashes < MaxCrashes
    /\ crashes' = crashes + 1
    /\ job' = [j \in Jobs |-> IF job[j] = "running" THEN "stuck" ELSE job[j]]
    /\ pc' = [j \in Jobs |-> "idle"]
    /\ listed' = [j \in Jobs |-> {}]
    /\ lastEnd' = IF \E j \in Jobs : job[j] = "running" THEN "unknown" ELSE lastEnd
    /\ UNCHANGED << fixed, requests, keyed, attempts, minting, hooks, secret, overlapped >>

-----------------------------------------------------------------------------
Step(j) ==
    \/ TakeJob(j) \/ Unlock(j)
    \/ Read(j) \/ ReadNoToken(j)
    \/ ListHooks(j) \/ DeleteHook(j) \/ CleanedUp(j)
    \/ CreateHook(j) \/ StoreSecret(j) \/ RevokeSecret(j)

Fault(j) ==
    \/ ListHooksFails(j) \/ DeleteHookFails(j) \/ CreateHookLost(j)
    \/ StoreSecretAckLost(j) \/ RevokeSecretFails(j)
    \/ CallFails(j)

Next ==
    \/ ConfigureRepo
    \/ ReconfigureRepo
    \/ \E j \in Jobs : Step(j) \/ Fault(j)
    \/ Crash

Spec == Init /\ [][Next]_vars

\* The queue's workers run, locks expire, and calls are answered.
Fairness == \A j \in Jobs : WF_vars(Step(j))

FairSpec == Spec /\ Fairness

-----------------------------------------------------------------------------
(* Properties.                                                             *)

\* verifyWebhookSignature: a delivery is accepted when its hook was given the
\* secret that is stored.
Accepted(hook) == secret # NoSecret /\ hook = secret

Idle == \A j \in Jobs : job[j] # "running"

\* When attempts do not overlap, a finished one leaves the forge and the
\* database in agreement: a stored secret is that of a hook that is there, and
\* the only one unless the forge refused to list or delete; a failed attempt
\* leaves no secret.
AttemptsAgree ==
    Idle /\ ~overlapped =>
        /\ lastEnd = "stored" => \E h \in hooks : Accepted(h)
        /\ lastEnd = "stored" /\ "forge" \notin faults => hooks = { secret }
        /\ lastEnd = "revoked" => secret = NoSecret

\* "so the graphile job system knows it has failed and will retry it": a
\* configured repository without a secret has a job that will be tried, or
\* one that has used up its attempts, or an owner without a token; but for
\* overlapping attempts.
NeverForgotten ==
    requests > 0 /\ secret = NoSecret /\ hasToken /\ ~overlapped =>
        /\ keyed # NoJob
        /\ Live(keyed) \/ attempts[keyed] = MaxAttempts

\* Without faults every request is followed by a working hook, even across a
\* crash, unless attempts overlapped.
ConfiguredWorks ==
    faults = {} /\ hasToken /\ keyed # NoJob ~>
        overlapped \/ (keyed = NoJob /\ \E h \in hooks : Accepted(h))

\* createOrUpdateRepository: "The job_key ensures only one job exists per repo".
OneJobPerRepo == Cardinality({ j \in Jobs : Live(j) }) <= 1
=============================================================================
