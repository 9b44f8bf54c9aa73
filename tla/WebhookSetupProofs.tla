-------------------------- MODULE WebhookSetupProofs --------------------------
(***************************************************************************)
(* Theorems about WebhookSetup, for any number of requests, attempts and   *)
(* crashes.                                                                *)
(***************************************************************************)
EXTENDS WebhookSetup, FiniteSetTheorems, TLAPS

-----------------------------------------------------------------------------
(* The inductive invariant.                                                *)

Row == { "queued", "running", "stuck" }

\* The job with the key has a row, and it alone has attempts left; the rows that
\* requests have not added are not there; a job runs while its handler does.
QueueAgrees ==
    /\ keyed # NoJob => job[keyed] \in Row
    /\ \A j \in Jobs : job[j] \in Row /\ j # keyed => attempts[j] = MaxAttempts
    /\ \A j \in Jobs : j > requests => job[j] = "none" /\ attempts[j] = 0
    /\ \A j \in Jobs : job[j] = "running" <=> pc[j] # "idle"

\* The attempts that have not made their secret yet, and those the queue has left.
UnderWay == { j \in Jobs : pc[j] \in { "read", "list", "delete", "create" } }
Left == IF keyed = NoJob THEN 0 ELSE MaxAttempts - attempts[keyed]

\* A request allows MaxAttempts attempts, of which each makes one secret.
BudgetKept == made + Cardinality(UnderWay) + Left <= requests * MaxAttempts

\* One attempt at a time, and while it runs somebody has the key: it, or the job
\* that waits for its end.
OneRuns ==
    ~overlapped =>
        /\ \A j, k \in Jobs : job[j] = "running" /\ job[k] = "running" => j = k
        /\ (\E j \in Jobs : job[j] = "running") => keyed # NoJob

\* What the attempt that runs knows of the hooks.
HooksKnown ==
    ~overlapped => \A j \in Jobs :
        /\ pc[j] = "store" => mine[j] # NoSecret /\ mine[j] \in hooks
        /\ "forge" \notin faults =>
               /\ pc[j] = "delete" => hooks \subseteq listed[j]
               /\ pc[j] = "create" => hooks = {}
               /\ pc[j] = "store" => hooks = { mine[j] }

\* Without a token nothing is ever stored.
NoTokenNoSecret ==
    ~hasToken =>
        /\ secret = NoSecret /\ lastEnd # "stored"
        /\ \A j \in Jobs : pc[j] \in { "idle", "read", "revoke" }

\* A repository without a secret keeps a job with the key.
KeyIsKept == requests > 0 /\ secret = NoSecret /\ hasToken /\ ~overlapped => keyed # NoJob

Calls == { "idle", "read", "list", "delete", "create", "store", "revoke" }
JobStates == { "none", "queued", "running", "stuck", "gone" }
QueueInv == TypeOK /\ QueueAgrees /\ BudgetKept /\ OneRuns

-----------------------------------------------------------------------------
(* Counting.                                                               *)

LEMMA JobsAndSecrets ==
    /\ Jobs \subseteq Nat /\ NoJob \notin Jobs /\ IsFiniteSet(Jobs)
    /\ Secrets \subseteq Nat /\ NoSecret \notin Secrets
<1>1. MaxRequests \in Nat /\ IsFiniteSet(1 .. MaxRequests)
  BY SetupAssumption, FS_Interval
<1> QED
  BY <1>1 DEF Jobs, NoJob, Secrets, NoSecret

LEMMA JobsCount ==
    ASSUME NEW S \in SUBSET Jobs, NEW j \in Jobs
    PROVE  /\ Cardinality(S) \in Nat
           /\ j \in S => Cardinality(S \ { j }) + 1 = Cardinality(S)
           /\ j \notin S => Cardinality(S \cup { j }) = Cardinality(S) + 1
<1>1. IsFiniteSet(S)
  BY JobsAndSecrets, FS_Subset
<1>2. Cardinality(S) \in Nat
  BY <1>1, FS_CardinalityType
<1>3. j \in S => Cardinality(S \ { j }) + 1 = Cardinality(S)
  <2>1. j \in S => Cardinality(S \ { j }) = Cardinality(S) - 1
    BY <1>1, FS_RemoveElement
  <2> QED
    BY <1>2, <2>1
<1>4. j \notin S => Cardinality(S \cup { j }) = Cardinality(S) + 1
  BY <1>1, FS_AddElement
<1> QED
  BY <1>2, <1>3, <1>4

LEMMA Products ==
    ASSUME NEW r \in 0 .. MaxRequests
    PROVE  /\ r * MaxAttempts \in Nat
           /\ (r + 1) * MaxAttempts = r * MaxAttempts + MaxAttempts
           /\ r * MaxAttempts <= MaxRequests * MaxAttempts
<1>1. MaxAttempts \in Nat /\ MaxRequests \in Nat /\ r \in Nat /\ r <= MaxRequests
  BY SetupAssumption
<1>2. r * MaxAttempts \in Nat /\ (r + 1) * MaxAttempts = r * MaxAttempts + MaxAttempts
  BY <1>1
<1>3. PICK d \in Nat : MaxRequests = r + d
  <2>1. MaxRequests - r \in Nat /\ MaxRequests = r + (MaxRequests - r)
    BY <1>1
  <2> QED
    BY <2>1
<1>4. (r + d) * MaxAttempts = r * MaxAttempts + d * MaxAttempts /\ d * MaxAttempts \in Nat
  BY <1>1, <1>3
<1>5. r * MaxAttempts <= r * MaxAttempts + d * MaxAttempts
  BY <1>2, <1>4
<1> QED
  BY <1>2, <1>3, <1>4, <1>5

\* The attempts that are under way and those that are left, in numbers.
LEMMA BudgetNumbers ==
    ASSUME QueueInv
    PROVE  /\ UnderWay \in SUBSET Jobs /\ Cardinality(UnderWay) \in Nat
           /\ Left \in 0 .. MaxAttempts
           /\ made \in Nat /\ requests * MaxAttempts \in Nat
<1>1. UnderWay \in SUBSET Jobs
  BY DEF UnderWay
<1>2. Cardinality(UnderWay) \in Nat
  <2>1. IsFiniteSet(UnderWay)
    BY <1>1, JobsAndSecrets, FS_Subset
  <2> QED
    BY <2>1, FS_CardinalityType
<1>3. Left \in 0 .. MaxAttempts
  <2>1. keyed # NoJob => attempts[keyed] \in 0 .. MaxAttempts
    BY DEF QueueInv, TypeOK
  <2> QED
    BY <2>1, SetupAssumption DEF Left
<1>4. made \in Nat
  BY JobsAndSecrets DEF QueueInv, TypeOK
<1>5. requests * MaxAttempts \in Nat
  BY Products DEF QueueInv, TypeOK
<1> QED
  BY <1>1, <1>2, <1>3, <1>4, <1>5

\* There is a secret left for an attempt that is under way.
LEMMA SecretIsLeft ==
    ASSUME QueueInv, NEW j \in UnderWay
    PROVE  made + 1 \in Secrets
<1>1. Cardinality(UnderWay \ { j }) + 1 = Cardinality(UnderWay)
      /\ Cardinality(UnderWay \ { j }) \in Nat
  BY JobsCount, BudgetNumbers
<1>2. made + 1 <= requests * MaxAttempts
  BY <1>1, BudgetNumbers DEF QueueInv, BudgetKept
<1>3. requests * MaxAttempts <= MaxRequests * MaxAttempts
  BY Products DEF QueueInv, TypeOK
<1>4. MaxRequests * MaxAttempts \in Nat
  BY SetupAssumption
<1> QED
  BY <1>2, <1>3, <1>4, BudgetNumbers DEF Secrets

-----------------------------------------------------------------------------
(* The queue and the attempts.                                             *)

\* How a step of j changes who is under way.
LEMMA UnderWayStep ==
    ASSUME TypeOK, NEW j \in Jobs, pc' \in [Jobs -> Calls], \A k \in Jobs : k # j => pc'[k] = pc[k]
    PROVE  /\ UnderWay' \in SUBSET Jobs /\ Cardinality(UnderWay') \in Nat
           /\ j \in UnderWay /\ j \notin UnderWay'
                  => Cardinality(UnderWay') + 1 = Cardinality(UnderWay)
           /\ j \notin UnderWay /\ j \in UnderWay'
                  => Cardinality(UnderWay') = Cardinality(UnderWay) + 1
           /\ (j \in UnderWay <=> j \in UnderWay')
                  => Cardinality(UnderWay') = Cardinality(UnderWay)
<1>1. UnderWay \in SUBSET Jobs /\ UnderWay' \in SUBSET Jobs
  BY DEF UnderWay
<1>2. \A k \in Jobs : k # j => (k \in UnderWay <=> k \in UnderWay')
  BY DEF UnderWay
<1>3. /\ j \in UnderWay /\ j \notin UnderWay' => UnderWay' = UnderWay \ { j }
      /\ j \notin UnderWay /\ j \in UnderWay' => UnderWay' = UnderWay \cup { j }
      /\ (j \in UnderWay <=> j \in UnderWay') => UnderWay' = UnderWay
  BY <1>1, <1>2
<1>4. Cardinality(UnderWay') \in Nat
  BY <1>1, JobsCount
<1> QED
  BY <1>1, <1>3, <1>4, JobsCount

\* A running attempt goes from one call to the next.
Moves(j) ==
    \/ Read(j) \/ ListHooks(j) \/ DeleteHook(j) \/ DeleteHookFails(j) \/ CleanedUp(j)
    \/ ListHooksFails(j) \/ StoreSecretAckLost(j) \/ CallFails(j)

Makes(j) == CreateHook(j) \/ CreateHookLost(j)

Ends(j) == ReadNoToken(j) \/ StoreSecret(j) \/ RevokeSecret(j) \/ RevokeSecretFails(j)

LEMMA MovesEffect ==
    ASSUME TypeOK, NEW j \in Jobs, Moves(j)
    PROVE  /\ UNCHANGED << fixed, queue, minting, history >>
           /\ pc' \in [Jobs -> Calls] /\ \A k \in Jobs : k # j => pc'[k] = pc[k]
           /\ \/ pc[j] = "read" /\ pc'[j] \in { "list", "revoke" }
              \/ pc[j] = "list" /\ pc'[j] \in { "delete", "create" }
              \/ pc[j] = "delete" /\ pc'[j] \in { "delete", "create" }
              \/ pc[j] = "create" /\ pc'[j] = "revoke"
              \/ pc[j] = "store" /\ pc'[j] = "revoke"
           /\ hooks' \subseteq hooks
           /\ listed' \in [Jobs -> SUBSET Secrets]
           /\ \A k \in Jobs : k # j => listed'[k] = listed[k]
           /\ secret' \in { secret, mine[j] }
<1> USE DEF TypeOK, Calls
<1>1. CASE Read(j) \/ CleanedUp(j) \/ ListHooksFails(j) \/ StoreSecretAckLost(j) \/ CallFails(j)
  BY <1>1 DEF Read, CleanedUp, ListHooksFails, StoreSecretAckLost, CallFails, Goto
<1>2. CASE ListHooks(j)
  BY <1>2 DEF ListHooks, Goto
<1>3. CASE DeleteHook(j) \/ DeleteHookFails(j)
  BY <1>3 DEF DeleteHook, DeleteHookFails, Goto
<1> QED
  BY <1>1, <1>2, <1>3 DEF Moves

LEMMA MovesQueue ==
    ASSUME QueueInv, NEW j \in Jobs, Moves(j)
    PROVE  QueueInv'
<1>1. /\ UNCHANGED << faults, hasToken, requests, keyed, job, attempts, mine, made,
                      crashes, lastEnd, overlapped >>
      /\ pc' \in [Jobs -> Calls] /\ \A k \in Jobs : k # j => pc'[k] = pc[k]
      /\ pc[j] # "idle" /\ pc'[j] # "idle"
      /\ j \in UnderWay' => j \in UnderWay
      /\ hooks' \subseteq hooks /\ listed' \in [Jobs -> SUBSET Secrets]
      /\ secret' \in { secret, mine[j] }
  BY MovesEffect DEF QueueInv, fixed, queue, minting, history, UnderWay
<1>2. TypeOK'
  BY <1>1 DEF QueueInv, TypeOK, Calls
<1>3. QueueAgrees'
  BY <1>1 DEF QueueInv, QueueAgrees
<1>4. BudgetKept'
  <2>1. Cardinality(UnderWay') \in Nat /\ Cardinality(UnderWay') <= Cardinality(UnderWay)
    BY <1>1, UnderWayStep, BudgetNumbers DEF QueueInv
  <2>2. Left' = Left
    BY <1>1 DEF Left
  <2> QED
    BY <1>1, <2>1, <2>2, BudgetNumbers DEF QueueInv, BudgetKept
<1>5. OneRuns'
  BY <1>1 DEF QueueInv, OneRuns
<1> QED
  BY <1>2, <1>3, <1>4, <1>5 DEF QueueInv

LEMMA MakesEffect ==
    ASSUME QueueInv, NEW j \in Jobs, Makes(j)
    PROVE  /\ UNCHANGED << fixed, queue, listed, secret, history >>
           /\ pc' \in [Jobs -> Calls] /\ \A k \in Jobs : k # j => pc'[k] = pc[k]
           /\ pc[j] = "create"
           /\ pc'[j] \in { "store", "revoke" }
           /\ made' = made + 1 /\ made' \in Secrets
           /\ mine' \in [Jobs -> Secrets \cup { NoSecret }] /\ mine'[j] = made'
           /\ \A k \in Jobs : k # j => mine'[k] = mine[k]
           /\ hooks' = hooks \cup { made' }
<1>1. made' \in Secrets
  <2>1. j \in UnderWay
    BY DEF Makes, CreateHook, CreateHookLost, Goto, UnderWay
  <2> QED
    BY <2>1, SecretIsLeft DEF Makes, CreateHook, CreateHookLost, MakeHook
<1> QED
  BY <1>1 DEF Makes, CreateHook, CreateHookLost, MakeHook, Goto, QueueInv, TypeOK, Calls

LEMMA MakesQueue ==
    ASSUME QueueInv, NEW j \in Jobs, Makes(j)
    PROVE  QueueInv'
<1>1. /\ UNCHANGED << faults, hasToken, requests, keyed, job, attempts, listed, secret,
                      crashes, lastEnd, overlapped >>
      /\ pc' \in [Jobs -> Calls] /\ \A k \in Jobs : k # j => pc'[k] = pc[k]
      /\ pc[j] # "idle" /\ pc'[j] # "idle"
      /\ j \in UnderWay /\ j \notin UnderWay'
      /\ made' = made + 1 /\ made' \in Secrets
      /\ mine' \in [Jobs -> Secrets \cup { NoSecret }]
      /\ hooks' = hooks \cup { made' }
  BY MakesEffect DEF QueueInv, fixed, queue, history, UnderWay
<1>2. TypeOK'
  BY <1>1 DEF QueueInv, TypeOK, Calls
<1>3. QueueAgrees'
  BY <1>1 DEF QueueInv, QueueAgrees
<1>4. BudgetKept'
  <2>1. Cardinality(UnderWay') \in Nat /\ Cardinality(UnderWay') + 1 = Cardinality(UnderWay)
    BY <1>1, UnderWayStep DEF QueueInv
  <2>2. Left' = Left
    BY <1>1 DEF Left
  <2> QED
    BY <1>1, <2>1, <2>2, BudgetNumbers DEF QueueInv, BudgetKept
<1>5. OneRuns'
  BY <1>1 DEF QueueInv, OneRuns
<1> QED
  BY <1>2, <1>3, <1>4, <1>5 DEF QueueInv

\* An attempt that returns gives up its row, and its key; one that throws keeps both.
LEMMA EndsEffect ==
    ASSUME TypeOK, NEW j \in Jobs, Ends(j)
    PROVE  /\ UNCHANGED << fixed, requests, attempts, listed, minting, hooks, crashes, overlapped >>
           /\ pc' \in [Jobs -> Calls] /\ \A k \in Jobs : k # j => pc'[k] = pc[k]
           /\ pc[j] \in { "read", "store", "revoke" } /\ pc'[j] = "idle"
           /\ job' \in [Jobs -> JobStates] /\ \A k \in Jobs : k # j => job'[k] = job[k]
           /\ job'[j] \in { "queued", "gone" }
           /\ keyed' = IF job'[j] = "gone" /\ keyed = j THEN NoJob ELSE keyed
           /\ job'[j] = "gone" => ReadNoToken(j) \/ StoreSecret(j)
           /\ secret' \in { secret, NoSecret, mine[j] }
           /\ lastEnd' \in { lastEnd, "stored", "revoked", "unknown" }
<1>1. CASE ReadNoToken(j) \/ StoreSecret(j)
  BY <1>1 DEF ReadNoToken, StoreSecret, Return, TypeOK, Calls, JobStates, history
<1>2. CASE RevokeSecret(j) \/ RevokeSecretFails(j)
  BY <1>2 DEF RevokeSecret, RevokeSecretFails, Throw, TypeOK, Calls, JobStates
<1> QED
  BY <1>1, <1>2 DEF Ends

LEMMA EndsQueue ==
    ASSUME QueueInv, NEW j \in Jobs, Ends(j)
    PROVE  QueueInv'
<1>1. /\ UNCHANGED << faults, hasToken, requests, attempts, listed, mine, made, hooks,
                      crashes, overlapped >>
      /\ pc' \in [Jobs -> Calls] /\ \A k \in Jobs : k # j => pc'[k] = pc[k]
      /\ pc[j] # "idle" /\ pc'[j] = "idle"
      /\ job' \in [Jobs -> JobStates] /\ \A k \in Jobs : k # j => job'[k] = job[k]
      /\ job'[j] \in { "queued", "gone" }
      /\ keyed' = IF job'[j] = "gone" /\ keyed = j THEN NoJob ELSE keyed
      /\ secret' \in { secret, NoSecret, mine[j] }
      /\ lastEnd' \in { lastEnd, "stored", "revoked", "unknown" }
  BY EndsEffect DEF QueueInv, fixed, minting
<1>2. job[j] = "running" /\ keyed \in Jobs \cup { NoJob } /\ j \notin UnderWay'
  BY <1>1 DEF QueueInv, QueueAgrees, TypeOK, UnderWay
<1>3. TypeOK'
  BY <1>1, <1>2 DEF QueueInv, TypeOK, Calls, JobStates
<1>4. QueueAgrees'
  <2>1. keyed' # NoJob => job'[keyed'] \in Row
    BY <1>1, <1>2 DEF QueueInv, QueueAgrees, Row
  <2>2. \A k \in Jobs : job'[k] \in Row /\ k # keyed' => attempts[k] = MaxAttempts
    BY <1>1, <1>2 DEF QueueInv, QueueAgrees, Row
  <2>3. \A k \in Jobs : k > requests => job'[k] = "none" /\ attempts[k] = 0
    BY <1>1, <1>2 DEF QueueInv, QueueAgrees
  <2>4. \A k \in Jobs : job'[k] = "running" <=> pc'[k] # "idle"
    BY <1>1, <1>2 DEF QueueInv, QueueAgrees
  <2> QED
    BY <1>1, <2>1, <2>2, <2>3, <2>4 DEF QueueAgrees
<1>5. BudgetKept'
  <2>1. Cardinality(UnderWay') \in Nat /\ Cardinality(UnderWay') <= Cardinality(UnderWay)
    BY <1>1, <1>2, UnderWayStep, BudgetNumbers DEF QueueInv
  <2>2. Left' \in 0 .. MaxAttempts /\ Left' <= Left
    <3>1. CASE keyed' = NoJob
      BY <3>1, BudgetNumbers, SetupAssumption DEF Left
    <3>2. CASE keyed' = keyed
      <4>1. Left' = Left
        BY <1>1, <3>2 DEF Left
      <4> QED
        BY <4>1, BudgetNumbers
    <3> QED
      BY <1>1, <3>1, <3>2
  <2> QED
    BY <1>1, <2>1, <2>2, BudgetNumbers DEF QueueInv, BudgetKept
<1>6. OneRuns'
  <2>1. \A k \in Jobs : job'[k] = "running" => k # j /\ job[k] = "running"
    BY <1>1
  <2>2. ~overlapped => \A k \in Jobs : job'[k] # "running"
    BY <1>2, <2>1 DEF QueueInv, OneRuns
  <2> QED
    BY <1>1, <2>2 DEF OneRuns
<1> QED
  BY <1>3, <1>4, <1>5, <1>6 DEF QueueInv

LEMMA TakeQueue ==
    ASSUME QueueInv, NEW j \in Jobs, TakeJob(j)
    PROVE  QueueInv' /\ j = keyed /\ pc[j] = "idle" /\ pc'[j] = "read"
           /\ job'[j] = "running" /\ \A k \in Jobs : k # j => pc'[k] = pc[k] /\ job'[k] = job[k]
<1>1. /\ UNCHANGED << faults, hasToken, requests, keyed, listed, mine, made, hooks, secret,
                      crashes, lastEnd >>
      /\ job[j] = "queued" /\ attempts[j] < MaxAttempts
      /\ attempts' = [attempts EXCEPT ![j] = attempts[j] + 1]
      /\ overlapped' = (overlapped \/ \E k \in Jobs : job[k] = "running")
  BY DEF TakeJob, fixed, minting
<1>2. /\ job' \in [Jobs -> JobStates] /\ job'[j] = "running"
      /\ \A k \in Jobs : k # j => job'[k] = job[k]
  BY DEF TakeJob, QueueInv, TypeOK, JobStates
<1>3. /\ pc' \in [Jobs -> Calls] /\ pc'[j] = "read"
      /\ \A k \in Jobs : k # j => pc'[k] = pc[k]
  BY DEF TakeJob, QueueInv, TypeOK, Calls
<1>4. attempts \in [Jobs -> 0 .. MaxAttempts] /\ MaxAttempts \in Nat \ { 0 }
  BY SetupAssumption DEF QueueInv, TypeOK
<1>5. /\ attempts' \in [Jobs -> 0 .. MaxAttempts] /\ attempts'[j] = attempts[j] + 1
      /\ \A k \in Jobs : k # j => attempts'[k] = attempts[k]
  BY <1>1, <1>4
<1>6. j = keyed
  BY <1>1, <1>4 DEF QueueInv, QueueAgrees, Row
<1>7. pc[j] = "idle"
  BY <1>1 DEF QueueInv, QueueAgrees
<1>8. keyed # NoJob
  BY <1>6, JobsAndSecrets
<1>9. TypeOK'
  BY <1>1, <1>2, <1>3, <1>5 DEF QueueInv, TypeOK, Calls, JobStates
<1>10. QueueAgrees'
  <2>1. \A k \in Jobs : k > requests => k # j
    BY <1>1 DEF QueueInv, QueueAgrees
  <2> QED
    BY <1>1, <1>2, <1>3, <1>5, <1>6, <2>1 DEF QueueInv, QueueAgrees, Row
<1>11. BudgetKept'
  <2>1. Cardinality(UnderWay') = Cardinality(UnderWay) + 1
    BY <1>3, <1>7, UnderWayStep DEF QueueInv, UnderWay
  <2>2. Left' + 1 = Left
    BY <1>1, <1>4, <1>5, <1>6, <1>8 DEF Left
  <2> QED
    BY <1>1, <2>1, <2>2, BudgetNumbers, <1>4, <1>5, <1>6, <1>8 DEF QueueInv, BudgetKept, Left
<1>12. OneRuns'
  BY <1>1, <1>2, <1>8 DEF OneRuns
<1> QED
  BY <1>2, <1>3, <1>6, <1>7, <1>9, <1>10, <1>11, <1>12 DEF QueueInv

\* A request gives the key to a job that waits, with all its attempts.
LEMMA RequestEffect ==
    ASSUME QueueInv, CreateOrUpdateRepository
    PROVE  /\ UNCHANGED << fixed, local, hooks, secret, history >>
           /\ requests < MaxRequests /\ requests' = requests + 1 /\ keyed' \in Jobs
           /\ keyed' <= requests'
           /\ job' \in [Jobs -> JobStates] /\ attempts' \in [Jobs -> 0 .. MaxAttempts]
           /\ job'[keyed'] = "queued" /\ job[keyed'] \in { "none", "queued" }
           /\ attempts'[keyed'] = 0
           /\ \A j \in Jobs : j # keyed' => job'[j] = job[j]
           /\ \A j \in Jobs : j # keyed' /\ j # keyed => attempts'[j] = attempts[j]
           /\ keyed # NoJob /\ keyed' # keyed => attempts'[keyed] = MaxAttempts
<1> USE JobsAndSecrets
<1>1. /\ requests < MaxRequests /\ requests' = requests + 1
      /\ UNCHANGED << fixed, local, hooks, secret, history >>
  BY DEF CreateOrUpdateRepository
<1>2. /\ requests \in Nat /\ MaxRequests \in Nat /\ MaxAttempts \in Nat
      /\ attempts \in [Jobs -> 0 .. MaxAttempts] /\ job \in [Jobs -> JobStates]
      /\ keyed \in Jobs \cup { NoJob }
  BY SetupAssumption DEF QueueInv, TypeOK, JobStates
<1>3. requests + 1 \in Jobs /\ job[requests + 1] = "none" /\ attempts[requests + 1] = 0
      /\ keyed # requests + 1
  <2>1. requests + 1 \in Jobs
    BY <1>1, <1>2 DEF Jobs
  <2>2. job[requests + 1] = "none" /\ attempts[requests + 1] = 0
    BY <1>2, <2>1 DEF QueueInv, QueueAgrees
  <2>3. keyed # requests + 1
    BY <2>1, <2>2 DEF QueueInv, QueueAgrees, Row
  <2> QED
    BY <2>1, <2>2, <2>3
<1>4. CASE keyed = NoJob /\ AddJob(requests') /\ UNCHANGED attempts
  BY <1>1, <1>2, <1>3, <1>4 DEF AddJob, JobStates
<1>5. CASE /\ keyed # NoJob /\ ~Locked(keyed)
           /\ attempts' = [attempts EXCEPT ![keyed] = 0]
           /\ UNCHANGED << keyed, job >>
  <2>1. keyed \in Jobs /\ job[keyed] = "queued"
    BY <1>2, <1>5 DEF Locked, QueueInv, QueueAgrees, Row
  <2>2. keyed <= requests
    BY <1>2, <2>1 DEF QueueInv, QueueAgrees
  <2> QED
    BY <1>1, <1>2, <1>5, <2>1, <2>2
<1>6. CASE /\ keyed # NoJob /\ Locked(keyed)
           /\ attempts' = [attempts EXCEPT ![keyed] = MaxAttempts]
           /\ AddJob(requests')
  <2>1. keyed \in Jobs
    BY <1>2, <1>6
  <2>2. /\ attempts' \in [Jobs -> 0 .. MaxAttempts] /\ attempts'[keyed] = MaxAttempts
        /\ \A j \in Jobs : j # keyed => attempts'[j] = attempts[j]
    BY <1>2, <1>6, <2>1
  <2>3. /\ keyed' = requests + 1 /\ job' \in [Jobs -> JobStates] /\ job'[requests + 1] = "queued"
        /\ \A j \in Jobs : j # requests + 1 => job'[j] = job[j]
    BY <1>1, <1>2, <1>3, <1>6 DEF AddJob, JobStates
  <2> QED
    BY <1>1, <1>2, <1>3, <2>2, <2>3
<1> QED
  BY <1>4, <1>5, <1>6 DEF CreateOrUpdateRepository

LEMMA RequestQueue ==
    ASSUME QueueInv, CreateOrUpdateRepository
    PROVE  QueueInv'
<1> USE JobsAndSecrets
<1> DEFINE n == keyed'
<1>1. /\ UNCHANGED << faults, hasToken, pc, listed, mine, made, hooks, secret,
                      crashes, lastEnd, overlapped >>
      /\ requests < MaxRequests /\ requests' = requests + 1 /\ n \in Jobs /\ n <= requests'
      /\ job' \in [Jobs -> JobStates] /\ attempts' \in [Jobs -> 0 .. MaxAttempts]
      /\ job'[n] = "queued" /\ job[n] \in { "none", "queued" } /\ attempts'[n] = 0
      /\ \A j \in Jobs : j # n => job'[j] = job[j]
      /\ \A j \in Jobs : j # n /\ j # keyed => attempts'[j] = attempts[j]
      /\ keyed # NoJob /\ n # keyed => attempts'[keyed] = MaxAttempts
  BY RequestEffect DEF fixed, local, minting, history
<1>2. requests \in Nat /\ MaxRequests \in Nat /\ keyed \in Jobs \cup { NoJob }
  BY SetupAssumption DEF QueueInv, TypeOK
<1>3. TypeOK'
  BY <1>1, <1>2 DEF QueueInv, TypeOK, JobStates
<1> HIDE DEF n
<1>4. QueueAgrees'
  <2>1. \A j \in Jobs : job'[j] \in Row /\ j # n => attempts'[j] = MaxAttempts
    BY <1>1, <1>2 DEF QueueInv, QueueAgrees
  <2>2. \A j \in Jobs : j > requests + 1 => job'[j] = "none" /\ attempts'[j] = 0
    <3> SUFFICES ASSUME NEW j \in Jobs, j > requests + 1
                 PROVE  job'[j] = "none" /\ attempts'[j] = 0
      OBVIOUS
    <3>1. j > requests /\ j # n
      BY <1>1, <1>2
    <3>2. job[j] = "none" /\ attempts[j] = 0
      BY <3>1 DEF QueueInv, QueueAgrees
    <3>3. j # keyed
      BY <3>2 DEF QueueInv, QueueAgrees, Row
    <3> QED
      BY <1>1, <3>1, <3>2, <3>3
  <2>3. \A j \in Jobs : job'[j] = "running" <=> pc[j] # "idle"
    BY <1>1 DEF QueueInv, QueueAgrees
  <2> QED
    BY <1>1, <2>1, <2>2, <2>3 DEF QueueAgrees, Row, n
<1>5. BudgetKept'
  <2>1. UnderWay' = UnderWay
    BY <1>1 DEF UnderWay
  <2>2. Left' = MaxAttempts /\ MaxAttempts \in Nat
    BY <1>1, SetupAssumption DEF Left, n
  <2>3. requests' * MaxAttempts = requests * MaxAttempts + MaxAttempts
    BY <1>1, Products DEF QueueInv, TypeOK
  <2> QED
    BY <1>1, <2>1, <2>2, <2>3, BudgetNumbers DEF QueueInv, BudgetKept
<1>6. OneRuns'
  BY <1>1 DEF QueueInv, OneRuns, n
<1> QED
  BY <1>3, <1>4, <1>5, <1>6 DEF QueueInv

LEMMA UnlockQueue ==
    ASSUME QueueInv, NEW j \in Jobs, Unlock(j)
    PROVE  QueueInv'
<1>1. /\ UNCHANGED << faults, hasToken, requests, keyed, attempts, pc, listed, mine, made,
                      hooks, secret, crashes, lastEnd, overlapped >>
      /\ job[j] = "stuck"
  BY DEF Unlock, fixed, local, minting, history
<1>2. /\ job' \in [Jobs -> JobStates] /\ job'[j] = "queued"
      /\ \A k \in Jobs : k # j => job'[k] = job[k]
  BY DEF Unlock, QueueInv, TypeOK, JobStates
<1>3. TypeOK'
  BY <1>1, <1>2 DEF QueueInv, TypeOK, JobStates
<1>4. QueueAgrees'
  <2>1. \A k \in Jobs : job'[k] \in Row <=> job[k] \in Row
    BY <1>1, <1>2 DEF Row
  <2>2. \A k \in Jobs : /\ job'[k] = "none" <=> job[k] = "none"
                        /\ job'[k] = "running" <=> job[k] = "running"
    BY <1>1, <1>2
  <2>3. keyed # NoJob => keyed \in Jobs
    BY DEF QueueInv, TypeOK
  <2> QED
    BY <1>1, <2>1, <2>2, <2>3 DEF QueueInv, QueueAgrees
<1>5. BudgetKept'
  <2>1. UnderWay' = UnderWay /\ Left' = Left
    BY <1>1 DEF UnderWay, Left
  <2> QED
    BY <1>1, <2>1 DEF QueueInv, BudgetKept
<1>6. OneRuns'
  <2>1. \A k \in Jobs : job'[k] = "running" => job[k] = "running"
    BY <1>2
  <2> QED
    BY <1>1, <2>1 DEF QueueInv, OneRuns
<1> QED
  BY <1>3, <1>4, <1>5, <1>6 DEF QueueInv

LEMMA CrashQueue ==
    ASSUME QueueInv, Crash
    PROVE  QueueInv'
<1>1. /\ UNCHANGED << faults, hasToken, requests, keyed, attempts, mine, made,
                      hooks, secret, overlapped >>
      /\ crashes' = crashes + 1 /\ crashes < MaxCrashes
      /\ pc' = [j \in Jobs |-> "idle"] /\ listed' = [j \in Jobs |-> {}]
  BY DEF Crash, fixed, minting
<1>2. /\ job' \in [Jobs -> JobStates]
      /\ \A j \in Jobs : job'[j] = IF job[j] = "running" THEN "stuck" ELSE job[j]
  BY DEF Crash, QueueInv, TypeOK, JobStates
<1>3. lastEnd' \in { lastEnd, "unknown" }
  BY DEF Crash
<1>4. TypeOK'
  BY <1>1, <1>2, <1>3, SetupAssumption DEF QueueInv, TypeOK, JobStates
<1>5. QueueAgrees'
  <2>1. \A k \in Jobs : job'[k] \in Row <=> job[k] \in Row
    BY <1>2 DEF Row
  <2>2. \A k \in Jobs : (job'[k] = "none" <=> job[k] = "none") /\ job'[k] # "running"
    BY <1>2
  <2>3. keyed # NoJob => keyed \in Jobs
    BY DEF QueueInv, TypeOK
  <2> QED
    BY <1>1, <2>1, <2>2, <2>3 DEF QueueInv, QueueAgrees
<1>6. BudgetKept'
  <2>1. UnderWay' = {} /\ Left' = Left
    BY <1>1 DEF UnderWay, Left
  <2>2. Cardinality(UnderWay') = 0
    BY <2>1, FS_EmptySet
  <2> QED
    BY <1>1, <2>1, <2>2, BudgetNumbers DEF QueueInv, BudgetKept
<1>7. OneRuns'
  BY <1>2 DEF OneRuns
<1> QED
  BY <1>4, <1>5, <1>6, <1>7 DEF QueueInv

\* The steps there are, as the lemmas take them.
LEMMA NextCases ==
    ASSUME [Next]_vars
    PROVE  \/ CreateOrUpdateRepository
           \/ \E j \in Jobs : TakeJob(j) \/ Unlock(j) \/ Moves(j) \/ Makes(j) \/ Ends(j)
           \/ Crash
           \/ UNCHANGED vars
  BY DEF Next, ConfigureRepo, ReconfigureRepo, Step, Fault, Moves, Makes, Ends

LEMMA QueueStep == QueueInv /\ [Next]_vars => QueueInv'
<1> SUFFICES ASSUME QueueInv, [Next]_vars PROVE QueueInv'
  OBVIOUS
<1>1. CASE UNCHANGED vars
  <2>1. UNCHANGED << faults, hasToken, requests, keyed, job, attempts, pc, listed, mine, made,
                     hooks, secret, crashes, lastEnd, overlapped >>
    BY <1>1 DEF vars, fixed, queue, local, minting, history
  <2> QED
    BY <2>1 DEF QueueInv, TypeOK, QueueAgrees, BudgetKept, OneRuns, UnderWay, Left
<1>2. ASSUME NEW j \in Jobs, TakeJob(j) \/ Unlock(j) \/ Moves(j) \/ Makes(j) \/ Ends(j)
      PROVE  QueueInv'
  BY <1>2, TakeQueue, UnlockQueue, MovesQueue, MakesQueue, EndsQueue
<1> QED
  BY <1>1, <1>2, NextCases, RequestQueue, CrashQueue

LEMMA InitQueue == Init => QueueInv
<1> SUFFICES ASSUME Init PROVE QueueInv
  OBVIOUS
<1>1. TypeOK
  <2>1. 0 \in 0 .. MaxRequests /\ 0 \in 0 .. MaxAttempts /\ 0 \in 0 .. MaxCrashes
    BY SetupAssumption
  <2>2. /\ attempts \in [Jobs -> 0 .. MaxAttempts] /\ listed \in [Jobs -> SUBSET Secrets]
        /\ mine \in [Jobs -> Secrets \cup { NoSecret }]
    BY <2>1 DEF Init
  <2> QED
    BY <2>1, <2>2 DEF Init, TypeOK
<1>2. QueueAgrees /\ OneRuns
  BY DEF Init, QueueAgrees, OneRuns, Row
<1>3. BudgetKept
  <2>1. UnderWay = {} /\ Left = 0
    BY DEF Init, UnderWay, Left
  <2>2. Cardinality(UnderWay) = 0
    BY <2>1, FS_EmptySet
  <2>3. requests * MaxAttempts \in Nat
    BY <1>1, Products DEF TypeOK
  <2> QED
    BY <2>1, <2>2, <2>3 DEF Init, BudgetKept
<1> QED
  BY <1>1, <1>2, <1>3 DEF QueueInv

LEMMA QueueInvariance == Spec => []QueueInv
  BY InitQueue, QueueStep, PTL DEF Spec

-----------------------------------------------------------------------------
(* The hooks and the secret.                                               *)

HooksInv ==
    /\ QueueInv
    /\ HooksKnown
    /\ NoTokenNoSecret
    /\ AttemptsAgree
    /\ KeyIsKept

\* An attempt that runs alone has everybody else idle, and somebody has the key.
LEMMA Alone ==
    ASSUME QueueInv, ~overlapped, NEW j \in Jobs, pc[j] # "idle"
    PROVE  /\ job[j] = "running" /\ keyed # NoJob
           /\ \A k \in Jobs : k # j => job[k] # "running" /\ pc[k] = "idle"
  BY DEF QueueInv, QueueAgrees, OneRuns

LEMMA MovesHooks ==
    ASSUME HooksInv, QueueInv', NEW j \in Jobs, Moves(j)
    PROVE  HooksInv'
<1>1. /\ UNCHANGED << faults, hasToken, requests, keyed, job, mine, overlapped, lastEnd >>
      /\ \A k \in Jobs : k # j => pc'[k] = pc[k]
      /\ \/ pc[j] = "read" /\ pc'[j] \in { "list", "revoke" }
         \/ pc[j] = "list" /\ pc'[j] \in { "delete", "create" }
         \/ pc[j] = "delete" /\ pc'[j] \in { "delete", "create" }
         \/ pc[j] = "create" /\ pc'[j] = "revoke"
         \/ pc[j] = "store" /\ pc'[j] = "revoke"
  BY MovesEffect DEF HooksInv, QueueInv, fixed, queue, minting, history
<1>2. pc[j] # "idle" /\ pc'[j] \notin { "idle", "store" }
  BY <1>1
<1>3. ASSUME ~overlapped
      PROVE  /\ job[j] = "running" /\ keyed # NoJob
             /\ \A k \in Jobs : k # j => pc'[k] = "idle"
  BY <1>1, <1>2, <1>3, Alone DEF HooksInv
<1>4. ASSUME ~overlapped, "forge" \notin faults
      PROVE  /\ pc'[j] = "delete" => hooks' \subseteq listed'[j]
             /\ pc'[j] = "create" => hooks' = {}
  <2> USE DEF HooksInv, QueueInv, TypeOK
  <2>1. CASE Read(j) \/ StoreSecretAckLost(j) \/ CallFails(j)
    <3>1. pc'[j] \in { "list", "revoke" }
      BY <2>1 DEF Read, StoreSecretAckLost, CallFails, Goto
    <3> QED
      BY <3>1
  <2>2. CASE ListHooks(j)
    BY <2>2 DEF ListHooks, Goto
  <2>3. CASE DeleteHook(j)
    <3>1. PICK h \in listed[j] :
              /\ pc[j] = "delete" /\ pc'[j] = "delete"
              /\ listed'[j] = listed[j] \ { h } /\ hooks' = hooks \ { h }
      BY <2>3 DEF DeleteHook, Goto
    <3>2. hooks \subseteq listed[j]
      BY <1>4, <3>1 DEF HooksKnown
    <3> QED
      BY <3>1, <3>2
  <2>4. CASE CleanedUp(j)
    <3>1. /\ pc[j] = "delete" /\ pc'[j] = "create" /\ listed[j] = {} /\ hooks' = hooks
      BY <2>4 DEF CleanedUp, Goto
    <3>2. hooks \subseteq listed[j]
      BY <1>4, <3>1 DEF HooksKnown
    <3> QED
      BY <3>1, <3>2
  <2>5. ~DeleteHookFails(j) /\ ~ListHooksFails(j)
    BY <1>4 DEF DeleteHookFails, ListHooksFails
  <2> QED
    BY <2>1, <2>2, <2>3, <2>4, <2>5 DEF Moves
<1>5. HooksKnown'
  BY <1>1, <1>2, <1>3, <1>4 DEF HooksKnown
<1>6. NoTokenNoSecret'
  <2> SUFFICES ASSUME ~hasToken
               PROVE  /\ secret' = NoSecret /\ lastEnd # "stored"
                      /\ \A k \in Jobs : pc'[k] \in { "idle", "read", "revoke" }
    BY <1>1 DEF NoTokenNoSecret
  <2>1. /\ secret = NoSecret /\ lastEnd # "stored"
        /\ \A k \in Jobs : pc[k] \in { "idle", "read", "revoke" }
    BY DEF HooksInv, NoTokenNoSecret
  <2>2. CallFails(j)
    BY <1>2, <2>1 DEF Moves, Read, ListHooks, DeleteHook, DeleteHookFails, CleanedUp,
                      ListHooksFails, StoreSecretAckLost, Goto
  <2>3. secret' = secret
    BY <2>2 DEF CallFails
  <2>4. pc'[j] = "revoke"
    BY <2>2, <1>2 DEF CallFails, Goto, HooksInv, QueueInv, TypeOK
  <2> QED
    BY <1>1, <2>1, <2>3, <2>4
<1>7. AttemptsAgree' /\ KeyIsKept'
  BY <1>1, <1>3 DEF AttemptsAgree, Idle, KeyIsKept
<1> QED
  BY <1>5, <1>6, <1>7 DEF HooksInv

LEMMA MakesHooks ==
    ASSUME HooksInv, QueueInv', NEW j \in Jobs, Makes(j)
    PROVE  HooksInv'
<1>1. /\ UNCHANGED << faults, hasToken, requests, keyed, job, listed, secret, overlapped, lastEnd >>
      /\ \A k \in Jobs : k # j => pc'[k] = pc[k]
      /\ pc[j] = "create" /\ pc'[j] \in { "store", "revoke" }
      /\ made' \in Secrets /\ mine'[j] = made' /\ hooks' = hooks \cup { made' }
  BY MakesEffect DEF HooksInv, fixed, queue, history
<1>2. hasToken /\ made' # NoSecret
  <2>1. hasToken
    BY <1>1 DEF HooksInv, NoTokenNoSecret
  <2> QED
    BY <1>1, <2>1, JobsAndSecrets
<1>3. ASSUME ~overlapped
      PROVE  /\ job[j] = "running" /\ keyed # NoJob
             /\ \A k \in Jobs : k # j => pc'[k] = "idle"
  BY <1>1, <1>3, Alone DEF HooksInv
<1>4. ~overlapped /\ "forge" \notin faults => hooks' = { made' }
  BY <1>1 DEF HooksInv, HooksKnown
<1>5. HooksKnown'
  BY <1>1, <1>2, <1>3, <1>4 DEF HooksKnown
<1>6. NoTokenNoSecret'
  BY <1>1, <1>2 DEF NoTokenNoSecret
<1>7. AttemptsAgree' /\ KeyIsKept'
  BY <1>1, <1>3 DEF AttemptsAgree, Idle, KeyIsKept
<1> QED
  BY <1>5, <1>6, <1>7 DEF HooksInv

\* The attempt that ends is the last to have touched the hooks and the secret.
LEMMA EndsHooks ==
    ASSUME HooksInv, QueueInv', NEW j \in Jobs, Ends(j)
    PROVE  HooksInv'
<1>1. /\ UNCHANGED << faults, hasToken, requests, mine, hooks, overlapped >>
      /\ \A k \in Jobs : k # j => pc'[k] = pc[k]
      /\ pc[j] # "idle" /\ pc'[j] = "idle"
  BY EndsEffect DEF HooksInv, QueueInv, fixed, minting
<1>2. ASSUME ~overlapped
      PROVE  keyed # NoJob /\ \A k \in Jobs : pc'[k] = "idle"
  BY <1>1, <1>2, Alone DEF HooksInv
<1>3. HooksKnown'
  BY <1>1, <1>2 DEF HooksKnown
<1>4. CASE StoreSecret(j)
  <2>1. pc[j] = "store" /\ secret' = mine[j] /\ lastEnd' = "stored"
    BY <1>4 DEF StoreSecret
  <2>2. hasToken
    BY <2>1 DEF HooksInv, NoTokenNoSecret
  <2>3. ~overlapped => /\ secret' # NoSecret /\ secret' \in hooks
                       /\ "forge" \notin faults => hooks = { secret' }
    BY <2>1 DEF HooksInv, HooksKnown
  <2>4. AttemptsAgree'
    BY <1>1, <2>1, <2>3 DEF AttemptsAgree, Accepted
  <2>5. NoTokenNoSecret' /\ KeyIsKept'
    BY <1>1, <2>2, <2>3 DEF NoTokenNoSecret, KeyIsKept
  <2> QED
    BY <1>3, <2>4, <2>5 DEF HooksInv
<1>5. CASE ReadNoToken(j)
  <2>1. ~hasToken /\ secret' = secret /\ lastEnd' = lastEnd
    BY <1>5 DEF ReadNoToken, history
  <2>2. /\ secret = NoSecret /\ lastEnd # "stored"
        /\ \A k \in Jobs : pc[k] \in { "idle", "read", "revoke" }
    BY <2>1 DEF HooksInv, NoTokenNoSecret
  <2>3. NoTokenNoSecret' /\ AttemptsAgree' /\ KeyIsKept'
    BY <1>1, <2>1, <2>2 DEF NoTokenNoSecret, AttemptsAgree, KeyIsKept
  <2> QED
    BY <1>3, <2>3 DEF HooksInv
<1>6. CASE RevokeSecret(j) \/ RevokeSecretFails(j)
  <2>1. /\ keyed' = keyed /\ secret' \in { secret, NoSecret }
        /\ lastEnd' = "unknown" \/ (lastEnd' = "revoked" /\ secret' = NoSecret)
    BY <1>6 DEF RevokeSecret, RevokeSecretFails, Throw
  <2>2. NoTokenNoSecret'
    BY <1>1, <2>1 DEF HooksInv, NoTokenNoSecret
  <2>3. AttemptsAgree' /\ KeyIsKept'
    BY <1>1, <1>2, <2>1 DEF AttemptsAgree, KeyIsKept
  <2> QED
    BY <1>3, <2>2, <2>3 DEF HooksInv
<1> QED
  BY <1>4, <1>5, <1>6 DEF Ends

LEMMA TakeHooks ==
    ASSUME HooksInv, QueueInv', NEW j \in Jobs, TakeJob(j)
    PROVE  HooksInv'
<1>1. /\ UNCHANGED << faults, hasToken, requests, keyed, listed, mine, hooks, secret, lastEnd >>
      /\ overlapped' = (overlapped \/ \E k \in Jobs : job[k] = "running")
  BY DEF TakeJob, fixed, minting
<1>2. /\ keyed # NoJob /\ job'[j] = "running" /\ pc'[j] = "read"
      /\ \A k \in Jobs : k # j => pc'[k] = pc[k]
  BY TakeQueue, JobsAndSecrets DEF HooksInv
<1>3. ~overlapped' => \A k \in Jobs : k # j => pc[k] = "idle"
  BY <1>1 DEF HooksInv, QueueInv, QueueAgrees
<1>4. HooksKnown'
  BY <1>1, <1>2, <1>3 DEF HooksKnown
<1>5. NoTokenNoSecret'
  BY <1>1, <1>2 DEF HooksInv, NoTokenNoSecret
<1>6. AttemptsAgree' /\ KeyIsKept'
  BY <1>1, <1>2 DEF AttemptsAgree, Idle, KeyIsKept
<1> QED
  BY <1>4, <1>5, <1>6 DEF HooksInv

LEMMA OtherHooks ==
    ASSUME HooksInv, QueueInv',
           CreateOrUpdateRepository \/ (\E j \in Jobs : Unlock(j)) \/ UNCHANGED vars
    PROVE  HooksInv'
<1>1. /\ UNCHANGED << faults, hasToken, pc, listed, mine, hooks, secret, overlapped, lastEnd >>
      /\ keyed' # NoJob \/ UNCHANGED << keyed, requests >>
      /\ \A k \in Jobs : job[k] = "running" => job'[k] = "running"
  <2>1. CASE CreateOrUpdateRepository
    BY <2>1, RequestEffect, JobsAndSecrets DEF HooksInv, fixed, local, minting, history
  <2>2. CASE \E j \in Jobs : Unlock(j)
    BY <2>2 DEF Unlock, fixed, local, minting, history, HooksInv, QueueInv, TypeOK
  <2>3. CASE UNCHANGED vars
    BY <2>3 DEF vars, fixed, queue, local, minting, history
  <2> QED
    BY <2>1, <2>2, <2>3
<1>2. HooksKnown' /\ NoTokenNoSecret'
  BY <1>1 DEF HooksInv, HooksKnown, NoTokenNoSecret
<1>3. AttemptsAgree'
  BY <1>1 DEF HooksInv, AttemptsAgree, Idle, Accepted
<1>4. KeyIsKept'
  BY <1>1 DEF HooksInv, KeyIsKept
<1> QED
  BY <1>2, <1>3, <1>4 DEF HooksInv

LEMMA CrashHooks ==
    ASSUME HooksInv, QueueInv', Crash
    PROVE  HooksInv'
<1>1. /\ UNCHANGED << faults, hasToken, requests, keyed, mine, hooks, secret, overlapped >>
      /\ \A j \in Jobs : pc'[j] = "idle"
      /\ lastEnd' = IF \E j \in Jobs : job[j] = "running" THEN "unknown" ELSE lastEnd
  BY DEF Crash, fixed, minting
<1>2. HooksKnown' /\ NoTokenNoSecret'
  BY <1>1 DEF HooksInv, HooksKnown, NoTokenNoSecret
<1>3. AttemptsAgree'
  BY <1>1 DEF HooksInv, AttemptsAgree, Idle, Accepted
<1>4. KeyIsKept'
  BY <1>1 DEF HooksInv, KeyIsKept
<1> QED
  BY <1>2, <1>3, <1>4 DEF HooksInv

LEMMA HooksStep == HooksInv /\ [Next]_vars => HooksInv'
<1> SUFFICES ASSUME HooksInv, [Next]_vars PROVE HooksInv'
  OBVIOUS
<1>1. QueueInv'
  BY QueueStep DEF HooksInv
<1>2. ASSUME NEW j \in Jobs, TakeJob(j) \/ Moves(j) \/ Makes(j) \/ Ends(j)
      PROVE  HooksInv'
  BY <1>1, <1>2, TakeHooks, MovesHooks, MakesHooks, EndsHooks
<1>3. CASE CreateOrUpdateRepository \/ (\E j \in Jobs : Unlock(j)) \/ UNCHANGED vars
  BY <1>1, <1>3, OtherHooks
<1>4. CASE Crash
  BY <1>1, <1>4, CrashHooks
<1> QED
  BY <1>2, <1>3, <1>4, NextCases

LEMMA InitHooks == Init => HooksInv
<1> SUFFICES ASSUME Init PROVE HooksInv
  OBVIOUS
<1>1. QueueInv
  BY InitQueue
<1>2. HooksKnown /\ NoTokenNoSecret /\ AttemptsAgree /\ KeyIsKept
  BY DEF Init, HooksKnown, NoTokenNoSecret, AttemptsAgree, KeyIsKept
<1> QED
  BY <1>1, <1>2 DEF HooksInv

LEMMA HooksInvariance == Spec => []HooksInv
  BY InitHooks, HooksStep, PTL DEF Spec

-----------------------------------------------------------------------------
(* The order of the secrets.                                               *)

\* Secrets are used as they were made, and an attempt that is alone stores the one
\* made last, which has not been stored before.
SecretsAreMade == secret <= made /\ \A j \in Jobs : mine[j] <= made

NewestIsStored ==
    ~overlapped => \A j \in Jobs : pc[j] = "store" => mine[j] = made /\ secret < made

OrderInv == HooksInv /\ SecretsAreMade /\ NewestIsStored

\* A step of an attempt that is alone leaves nobody else about to store.
LEMMA AttemptOrder ==
    ASSUME OrderInv, HooksInv', NEW j \in Jobs, Moves(j) \/ Makes(j) \/ Ends(j)
    PROVE  OrderInv'
<1>1. /\ overlapped' = overlapped /\ pc[j] # "idle"
      /\ \A k \in Jobs : k # j => pc'[k] = pc[k]
  BY MovesEffect, MakesEffect, EndsEffect DEF OrderInv, HooksInv, QueueInv, history
<1>2. ~overlapped => \A k \in Jobs : k # j => pc'[k] = "idle"
  BY <1>1, Alone DEF OrderInv, HooksInv
<1>3. /\ made \in Nat /\ made' \in Nat /\ secret \in Nat
      /\ \A k \in Jobs : mine[k] \in Nat /\ mine'[k] \in Nat
  <2>1. TypeOK /\ TypeOK'
    BY DEF OrderInv, HooksInv, QueueInv
  <2>2. Secrets \subseteq Nat /\ Secrets \cup { NoSecret } \subseteq Nat
    BY JobsAndSecrets DEF NoSecret
  <2>3. made \in Nat /\ made' \in Nat /\ secret \in Nat
    BY <2>1, <2>2 DEF TypeOK
  <2>4. \A k \in Jobs : mine[k] \in Nat /\ mine'[k] \in Nat
    BY <2>1, <2>2 DEF TypeOK
  <2> QED
    BY <2>3, <2>4
<1>4. CASE Moves(j) \/ Ends(j)
  <2>1. mine' = mine /\ made' = made /\ secret' \in { secret, NoSecret, mine[j] }
        /\ pc'[j] # "store"
    BY <1>4, MovesEffect, EndsEffect DEF OrderInv, HooksInv, QueueInv, minting
  <2>2. SecretsAreMade'
    BY <1>3, <2>1 DEF OrderInv, SecretsAreMade, NoSecret
  <2>3. NewestIsStored'
    BY <1>1, <1>2, <2>1 DEF NewestIsStored
  <2> QED
    BY <2>2, <2>3 DEF OrderInv
<1>5. CASE Makes(j)
  <2>1. /\ secret' = secret /\ made' = made + 1 /\ mine'[j] = made'
        /\ \A k \in Jobs : k # j => mine'[k] = mine[k]
    BY <1>5, MakesEffect DEF OrderInv, HooksInv
  <2>2. SecretsAreMade' /\ secret' < made'
    BY <1>3, <2>1 DEF OrderInv, SecretsAreMade
  <2>3. NewestIsStored'
    BY <1>1, <1>2, <2>1, <2>2 DEF NewestIsStored
  <2> QED
    BY <2>2, <2>3 DEF OrderInv
<1> QED
  BY <1>4, <1>5

LEMMA OrderStep == OrderInv /\ [Next]_vars => OrderInv'
<1> SUFFICES ASSUME OrderInv, [Next]_vars PROVE OrderInv'
  OBVIOUS
<1>1. HooksInv'
  BY HooksStep DEF OrderInv
<1>2. ASSUME NEW j \in Jobs, Moves(j) \/ Makes(j) \/ Ends(j)
      PROVE  OrderInv'
  BY <1>1, <1>2, AttemptOrder
<1>3. ASSUME UNCHANGED << mine, made, secret >>, overlapped => overlapped',
             \A j \in Jobs : pc'[j] = "store" => pc[j] = "store"
      PROVE  OrderInv'
  BY <1>1, <1>3 DEF OrderInv, SecretsAreMade, NewestIsStored
<1>4. CASE CreateOrUpdateRepository \/ (\E j \in Jobs : Unlock(j)) \/ UNCHANGED vars
  <2>1. UNCHANGED << mine, made, secret, overlapped, pc >>
    BY <1>4 DEF CreateOrUpdateRepository, Unlock, vars, local, minting, history
  <2> QED
    BY <1>3, <2>1
<1>5. ASSUME NEW j \in Jobs, TakeJob(j)
      PROVE  OrderInv'
  <2>1. UNCHANGED << mine, made, secret >> /\ (overlapped => overlapped')
    BY <1>5 DEF TakeJob, minting
  <2>2. pc'[j] = "read" /\ \A k \in Jobs : k # j => pc'[k] = pc[k]
    BY <1>5, TakeQueue DEF OrderInv, HooksInv
  <2> QED
    BY <1>3, <2>1, <2>2
<1>6. CASE Crash
  <2>1. UNCHANGED << mine, made, secret, overlapped >> /\ \A j \in Jobs : pc'[j] = "idle"
    BY <1>6 DEF Crash, minting
  <2> QED
    BY <1>3, <2>1
<1> QED
  BY <1>2, <1>4, <1>5, <1>6, NextCases

LEMMA InitOrder == Init => OrderInv
<1> SUFFICES ASSUME Init PROVE SecretsAreMade /\ NewestIsStored
  BY InitHooks DEF OrderInv
<1> QED
  BY DEF Init, SecretsAreMade, NewestIsStored, NoSecret

LEMMA OrderInvariance == Spec => []OrderInv
  BY InitOrder, OrderStep, PTL DEF Spec

-----------------------------------------------------------------------------
(* The theorems.                                                           *)

\* The rows of the queue, the hooks and the secret keep their types; a job is never
\* started more often than the queue allows, and however often requests reset its
\* attempts, there are no more secrets than MaxAttempts for each request.
THEOREM TypeCorrect == Spec => []TypeOK
<1>1. QueueInv => TypeOK
  BY DEF QueueInv
<1> QED
  BY <1>1, QueueInvariance, PTL

\* setup_webhooks: when no attempts overlapped, the last one to finish leaves a
\* secret that is that of a hook on the forge, and of the only one there unless the
\* forge failed to list or delete; or no secret when it failed.
THEOREM AttemptsLeaveAgreement == Spec => []AttemptsAgree
<1>1. HooksInv => AttemptsAgree
  BY DEF HooksInv
<1> QED
  BY <1>1, HooksInvariance, PTL

\* "so the graphile job system knows it has failed and will retry it": whatever
\* fails or crashes, a configured repository without a secret has a job under its
\* job_key that a worker will look at, or whose attempts are used up, unless its
\* owner has no token or attempts overlapped.
THEOREM RepositoryIsNotForgotten == Spec => []NeverForgotten
<1>1. HooksInv => NeverForgotten
  <2> SUFFICES ASSUME HooksInv, requests > 0, secret = NoSecret, hasToken, ~overlapped
               PROVE  keyed # NoJob /\ (Live(keyed) \/ attempts[keyed] = MaxAttempts)
    BY DEF NeverForgotten
  <2>1. keyed # NoJob
    BY DEF HooksInv, KeyIsKept
  <2>2. keyed \in Jobs /\ job[keyed] \in Row
    BY <2>1 DEF HooksInv, QueueInv, TypeOK, QueueAgrees
  <2>3. attempts[keyed] \in 0 .. MaxAttempts /\ MaxAttempts \in Nat
    BY <2>2, SetupAssumption DEF HooksInv, QueueInv, TypeOK
  <2> QED
    BY <2>1, <2>2, <2>3 DEF Live, Row
<1> QED
  BY <1>1, HooksInvariance, PTL

\* createOrUpdateRepository, "The job_key ensures only one job exists per repo": more
\* than one may run (see OneJobPerRepo), but the queue starts none but the one that
\* has the key, of whatever rows there are.
THEOREM OnlyTheKeyedJobStarts ==
    Spec => [][ \A j \in Jobs : TakeJob(j) => j = keyed ]_vars
<1>1. QueueInv /\ [Next]_vars => [ \A j \in Jobs : TakeJob(j) => j = keyed ]_vars
  <2> SUFFICES ASSUME QueueInv, NEW j \in Jobs, TakeJob(j)
               PROVE  j = keyed
    OBVIOUS
  <2> QED
    BY TakeQueue
<1> QED
  BY <1>1, QueueInvariance, PTL DEF Spec

\* updateWebhookSecret: while attempts do not overlap, a secret that is stored in
\* place of another or of none is the one made last, is newer than the one it
\* replaces, and its hook is on the forge; a rotation is never undone by storing an
\* older secret, whatever is retried, lost or crashes.
THEOREM RotationGoesForward ==
    Spec => [][ ~overlapped /\ secret' # secret /\ secret' # NoSecret =>
                    secret' = made /\ secret' \in hooks /\ secret < secret' ]_vars
<1>1. OrderInv /\ [Next]_vars =>
          [ ~overlapped /\ secret' # secret /\ secret' # NoSecret =>
                secret' = made /\ secret' \in hooks /\ secret < secret' ]_vars
  <2> SUFFICES ASSUME OrderInv, [Next]_vars, ~overlapped,
                      secret' # secret, secret' # NoSecret
               PROVE  secret' = made /\ secret' \in hooks /\ secret < secret'
    OBVIOUS
  <2>1. PICK j \in Jobs : StoreSecret(j) \/ StoreSecretAckLost(j)
    <3>1. ASSUME NEW j \in Jobs, Step(j) \/ Fault(j)
          PROVE  StoreSecret(j) \/ StoreSecretAckLost(j)
      BY <3>1 DEF Step, Fault, TakeJob, Unlock, Read, ReadNoToken, ListHooks, DeleteHook,
                  CleanedUp, CreateHook, RevokeSecret, ListHooksFails, DeleteHookFails,
                  CreateHookLost, RevokeSecretFails, CallFails
    <3>2. ~UNCHANGED vars /\ ~CreateOrUpdateRepository /\ ~Crash
      BY DEF vars, CreateOrUpdateRepository, Crash
    <3> QED
      BY <3>1, <3>2 DEF Next, ConfigureRepo, ReconfigureRepo
  <2>2. pc[j] = "store" /\ secret' = mine[j]
    BY <2>1 DEF StoreSecret, StoreSecretAckLost, Goto
  <2> QED
    BY <2>2 DEF OrderInv, NewestIsStored, HooksInv, HooksKnown
<1> QED
  BY <1>1, OrderInvariance, PTL DEF Spec

\* setup_webhooks under the queue's limit on attempts, for the whole life of the
\* repository: however they are reset and whichever of them die, no more hooks are
\* made than that limit for each request to configure it.
THEOREM HooksAreBounded == Spec => [](made <= requests * MaxAttempts)
<1>1. QueueInv => made <= requests * MaxAttempts
  BY BudgetNumbers DEF QueueInv, BudgetKept
<1> QED
  BY <1>1, QueueInvariance, PTL
=============================================================================
