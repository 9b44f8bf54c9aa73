-------------------------- MODULE TokenRefreshProofs --------------------------
(***************************************************************************)
(* Theorems about TokenRefresh, for any requests and logins, any number of *)
(* attempts, expiries and crashes, and any size of the queue.              *)
(***************************************************************************)
EXTENDS TokenRefresh, TLAPS

-----------------------------------------------------------------------------
(* The inductive invariant.                                                *)

\* The calls a handler makes with the user's mutex locked.
Locked == { "read", "refresh", "store", "schedule", "end" }

\* Each kind of handler makes its own calls.
KindsAgree ==
    /\ \A r \in Requests : pc[r] \in { "idle", "lock", "done" } \cup Locked
    /\ \A l \in Logins : pc[l] \in { "idle", "find", "store", "schedule", "end", "done" }
    /\ \A j \in Jobs : pc[j] \in { "idle", "lock" } \cup Locked

\* The mutex is held by the request or job that is between the calls, and a job of
\* the queue runs while its handler does.
LocksAgree ==
    /\ \A p \in Requests \cup Jobs : pc[p] \in Locked <=> mutex = p
    /\ \A j \in Jobs : job[j] = "running" <=> pc[j] # "idle"

\* A login or a refresh that has a token of its own.
Active(p) == LoggingIn(p) \/ Refreshing(p)

\* Until a token is spoiled there is one such at a time, with the good token, and
\* a login still finds its user as it did.
ActiveIsGood ==
    ~spoiled =>
        /\ \A p, q \in Procs : Active(p) /\ Active(q) => p = q
        /\ \A p \in Procs : Active(p) => token[p] = issued
        /\ \A l \in Logins : pc[l] = "store" => found[l] = user

Calls == { "idle", "lock", "read", "refresh", "store", "schedule", "find", "end", "done" }
JobStates == { "none", "waiting", "queued", "running", "stuck" }

-----------------------------------------------------------------------------
(* Moves of a handler.                                                     *)

\* Requests, logins and jobs are different things, and nobody is none of them.
LEMMA Disjoint ==
    /\ Requests \cap Logins = {} /\ Requests \cap Jobs = {} /\ Logins \cap Jobs = {}
    /\ Requests \subseteq Procs /\ Logins \subseteq Procs /\ Jobs \subseteq Procs
    /\ NoOne \notin Procs
    /\ Jobs \subseteq Nat /\ 1 \in Jobs /\ NoJob \notin Jobs
  BY TokenAssumption DEF Procs, Jobs, NoJob

LEMMA GotoEffect ==
    ASSUME TypeOK, NEW p \in Procs, NEW from, NEW to \in Calls, Goto(p, from, to)
    PROVE  /\ pc[p] = from /\ pc'[p] = to
           /\ \A q \in Procs \ { p } : pc'[q] = pc[q]
           /\ pc' \in [Procs -> Calls]
  BY DEF TypeOK, Goto, Calls

\* A handler that is over has no token, no user and no mutex, and its job, if it
\* is one, is deleted or queued again.
LEMMA FinishEffect ==
    ASSUME TypeOK, NEW p \in Procs, NEW success \in BOOLEAN, Finish(p, success)
    PROVE  /\ pc'[p] = IF p \in Jobs THEN "idle" ELSE "done"
           /\ \A q \in Procs \ { p } : pc'[q] = pc[q] /\ token'[q] = token[q]
           /\ pc' \in [Procs -> Calls]
           /\ mutex' = IF mutex = p THEN NoOne ELSE mutex
           /\ token' \in [Procs -> 0 .. issued]
           /\ found' \in [Logins -> BOOLEAN]
           /\ \A l \in Logins : l # p => found'[l] = found[l]
           /\ keyed' \in Jobs \cup { NoJob }
           /\ keyed' = keyed \/ (success /\ p \in Jobs /\ keyed = p /\ keyed' = NoJob)
           /\ job' \in [Jobs -> JobStates] /\ attempts' \in [Jobs -> 0 .. MaxAttempts]
           /\ \A j \in Jobs : j # p => job'[j] = job[j] /\ attempts'[j] = attempts[j]
           /\ p \in Jobs => /\ job'[p] = IF success THEN "none" ELSE "queued"
                            /\ keyed' = p => ~success
<1>1. \A q \in Procs \ { p } : pc'[q] = pc[q] /\ token'[q] = token[q]
  BY DEF Finish, TypeOK
<1>2. pc' \in [Procs -> Calls] /\ pc'[p] = IF p \in Jobs THEN "idle" ELSE "done"
  BY DEF Finish, TypeOK, Calls
<1>3. token' \in [Procs -> 0 .. issued]
  BY DEF Finish, TypeOK, NoToken
<1>4. found' \in [Logins -> BOOLEAN] /\ \A l \in Logins : l # p => found'[l] = found[l]
  <2>1. found' = [l \in Logins |-> l # p /\ found[l]]
    BY DEF Finish
  <2>2. ASSUME NEW l \in Logins
        PROVE  (l # p /\ found[l]) \in BOOLEAN
    OBVIOUS
  <2>3. found' \in [Logins -> BOOLEAN]
    BY <2>1, <2>2, Zenon
  <2>4. ASSUME NEW l \in Logins, l # p
        PROVE  found'[l] = found[l]
    <3>1. found[l] \in BOOLEAN
      BY DEF TypeOK
    <3>2. found'[l] = (l # p /\ found[l])
      BY <2>1, Zenon
    <3> QED
      BY <2>4, <3>1, <3>2
  <2> QED
    BY <2>3, <2>4
<1>5. CASE p \in Jobs
  <2>1. /\ job' = [job EXCEPT ![p] = IF success THEN "none" ELSE "queued"]
        /\ keyed' = IF success /\ keyed = p THEN NoJob ELSE keyed
        /\ attempts' = [attempts EXCEPT ![p] = IF success THEN 0 ELSE attempts[p]]
    BY <1>5 DEF Finish
  <2>2. attempts' \in [Jobs -> 0 .. MaxAttempts]
    <3> DEFINE next == IF success THEN 0 ELSE attempts[p]
    <3>1. next \in 0 .. MaxAttempts /\ attempts \in [Jobs -> 0 .. MaxAttempts]
      BY <1>5, TokenAssumption DEF TypeOK
    <3>2. attempts' = [attempts EXCEPT ![p] = next]
      BY <2>1
    <3> HIDE DEF next
    <3> QED
      BY <3>1, <3>2
  <2>3. job' \in [Jobs -> JobStates]
    BY <2>1 DEF TypeOK, JobStates
  <2>4. NoJob # p
    BY <1>5, Disjoint
  <2> QED
    BY <1>1, <1>2, <1>3, <1>4, <1>5, <2>1, <2>2, <2>3, <2>4 DEF Finish, TypeOK
<1>6. CASE p \notin Jobs
  BY <1>1, <1>2, <1>3, <1>4, <1>6 DEF Finish, TypeOK, queue, JobStates
<1> QED
  BY <1>5, <1>6

-----------------------------------------------------------------------------
(* Types and locks.                                                        *)

LocksInv == TypeOK /\ KindsAgree /\ LocksAgree

\* A handler that goes on without touching the mutex or a job's row keeps locks
\* and jobs in step, if it stays on one side of the lock.
LEMMA OnwardsKeepsLocks ==
    ASSUME LocksInv, NEW p \in Procs, NEW from, NEW to \in Calls, Goto(p, from, to),
           UNCHANGED << mutex, job >>,
           p \in Requests \cup Jobs =>
               /\ from \in Locked <=> to \in Locked
               /\ from # "idle" \/ p \in Requests
               /\ to \in { "lock" } \cup Locked,
           p \in Logins => to \in { "find", "store", "schedule", "end" }
    PROVE  KindsAgree' /\ LocksAgree'
<1>1. /\ pc[p] = from /\ pc'[p] = to
      /\ \A q \in Procs \ { p } : pc'[q] = pc[q]
  BY GotoEffect DEF LocksInv
<1>2. KindsAgree'
  BY <1>1, Disjoint DEF LocksInv, KindsAgree
<1>3. \A q \in Requests \cup Jobs : pc'[q] \in Locked <=> mutex = q
  BY <1>1, Disjoint DEF LocksInv, LocksAgree
<1>4. \A j \in Jobs : job[j] = "running" <=> pc'[j] # "idle"
  BY <1>1, Disjoint DEF LocksInv, LocksAgree, Locked
<1> QED
  BY <1>2, <1>3, <1>4 DEF LocksAgree

\* A handler that ends, from any of its calls, releases what it held.
LEMMA FinishKeepsLocks ==
    ASSUME LocksInv, NEW p \in Procs, NEW success \in BOOLEAN, Finish(p, success),
           pc[p] # "idle"
    PROVE  /\ KindsAgree' /\ LocksAgree'
           /\ mutex' \in { NoOne } \cup Requests \cup Jobs
<1>1. /\ pc'[p] = IF p \in Jobs THEN "idle" ELSE "done"
      /\ \A q \in Procs \ { p } : pc'[q] = pc[q]
      /\ mutex' = IF mutex = p THEN NoOne ELSE mutex
      /\ \A j \in Jobs : j # p => job'[j] = job[j]
      /\ p \in Jobs => job'[p] \in { "none", "queued" }
      /\ mutex \in { NoOne } \cup Requests \cup Jobs
  BY FinishEffect DEF LocksInv, TypeOK
<1>2. KindsAgree'
  BY <1>1, Disjoint DEF LocksInv, KindsAgree
<1>3. \A q \in Requests \cup Jobs : pc'[q] \in Locked <=> mutex' = q
  <2> SUFFICES ASSUME NEW q \in Requests \cup Jobs
               PROVE  pc'[q] \in Locked <=> mutex' = q
    OBVIOUS
  <2>1. q \in Procs /\ q # NoOne
    BY Disjoint
  <2>2. CASE q = p
    BY <1>1, <2>1, <2>2 DEF Locked
  <2>3. CASE q # p
    BY <1>1, <2>1, <2>3 DEF LocksInv, LocksAgree
  <2> QED
    BY <2>2, <2>3
<1>4. \A j \in Jobs : job'[j] = "running" <=> pc'[j] # "idle"
  BY <1>1, Disjoint DEF LocksInv, LocksAgree
<1> QED
  BY <1>1, <1>2, <1>3, <1>4 DEF LocksAgree

\* The steps of a handler on its way.
LEMMA OnwardsStep ==
    ASSUME LocksInv, NEW p \in Procs,
           \/ p \in Requests /\ Begin(p)
           \/ Lock(p) \/ Read(p) \/ Refresh(p) \/ Store(p)
           \/ p \in Logins /\ (Exchange(p) \/ FindUser(p))
    PROVE  LocksInv'
<1> USE Disjoint
<1>1. ASSUME p \in Requests, Begin(p)
      PROVE  LocksInv'
  <2>1. Goto(p, "idle", "lock") /\ UNCHANGED << mutex, job >>
    BY <1>1 DEF Begin, queue
  <2>2. KindsAgree' /\ LocksAgree'
    BY <1>1, <2>1, OnwardsKeepsLocks DEF Calls, Locked
  <2>3. pc' \in [Procs -> Calls]
    BY <2>1, GotoEffect DEF LocksInv, Calls
  <2> QED
    BY <1>1, <2>2, <2>3 DEF LocksInv, TypeOK, Begin, Calls, tokens, local, queue, bounds, history
<1>2. ASSUME Lock(p)
      PROVE  LocksInv'
  <2>1. /\ mutex = NoOne /\ mutex' = p /\ pc[p] = "lock" /\ pc'[p] = "read"
        /\ \A q \in Procs \ { p } : pc'[q] = pc[q]
        /\ pc' \in [Procs -> Calls]
        /\ UNCHANGED << faults, tokens, issued, local, queue, bounds, history >>
    BY <1>2, GotoEffect DEF Lock, LocksInv, Calls
  <2>2. p \in Requests \cup Jobs
    BY <2>1 DEF LocksInv, KindsAgree, Procs
  <2>3. TypeOK'
    BY <2>1, <2>2 DEF LocksInv, TypeOK, Calls, tokens, local, queue, bounds, history
  <2>4. KindsAgree'
    BY <2>1 DEF LocksInv, KindsAgree, Locked
  <2>5. LocksAgree'
    BY <2>1, <2>2 DEF LocksInv, LocksAgree, Locked, queue
  <2> QED
    BY <2>3, <2>4, <2>5 DEF LocksInv
<1>3. ASSUME Read(p)
      PROVE  LocksInv'
  <2>1. Goto(p, "read", "refresh") /\ UNCHANGED << mutex, job >>
    BY <1>3 DEF Read, queue
  <2>2. p \notin Logins
    BY <2>1 DEF Goto, LocksInv, KindsAgree
  <2>3. KindsAgree' /\ LocksAgree'
    BY <2>1, <2>2, OnwardsKeepsLocks DEF Calls, Locked
  <2>4. pc' \in [Procs -> Calls]
    BY <2>1, GotoEffect DEF LocksInv, Calls
  <2>5. token' \in [Procs -> 0 .. issued] /\ spoiled' \in BOOLEAN
    BY <1>3 DEF Read, LocksInv, TypeOK
  <2> QED
    BY <1>3, <2>3, <2>4, <2>5 DEF LocksInv, TypeOK, Read, Calls, tokens, queue, bounds
<1>4. ASSUME Refresh(p)
      PROVE  LocksInv'
  <2>1. Goto(p, "refresh", "store") /\ UNCHANGED << mutex, job >>
    BY <1>4 DEF Refresh, queue
  <2>2. p \notin Logins
    BY <2>1 DEF Goto, LocksInv, KindsAgree
  <2>3. KindsAgree' /\ LocksAgree'
    BY <2>1, <2>2, OnwardsKeepsLocks DEF Calls, Locked
  <2>4. pc' \in [Procs -> Calls]
    BY <2>1, GotoEffect DEF LocksInv, Calls
  <2>5. issued' \in Nat /\ stored \in 0 .. issued' /\ token' \in [Procs -> 0 .. issued']
    BY <1>4 DEF Refresh, LocksInv, TypeOK
  <2> QED
    BY <1>4, <2>3, <2>4, <2>5 DEF LocksInv, TypeOK, Refresh, Calls, tokens, queue, bounds, history
<1>5. ASSUME Store(p)
      PROVE  LocksInv'
  <2>1. Goto(p, "store", "schedule") /\ UNCHANGED << mutex, job >>
    BY <1>5 DEF Store, queue
  <2>2. KindsAgree' /\ LocksAgree'
    BY <2>1, OnwardsKeepsLocks DEF Calls, Locked
  <2>3. pc' \in [Procs -> Calls]
    BY <2>1, GotoEffect DEF LocksInv, Calls
  <2>4. stored' \in 0 .. issued
    BY <1>5 DEF Store, StoreTokens, LocksInv, TypeOK
  <2> QED
    BY <1>5, <2>2, <2>3, <2>4
       DEF LocksInv, TypeOK, Store, StoreTokens, Calls, local, queue, bounds, history
<1>6. ASSUME p \in Logins, Exchange(p)
      PROVE  LocksInv'
  <2>1. Goto(p, "idle", "find") /\ UNCHANGED << mutex, job >>
    BY <1>6 DEF Exchange, queue
  <2>2. KindsAgree' /\ LocksAgree'
    BY <1>6, <2>1, OnwardsKeepsLocks DEF Calls, Locked
  <2>3. pc' \in [Procs -> Calls]
    BY <2>1, GotoEffect DEF LocksInv, Calls
  <2>4. issued' \in Nat /\ stored \in 0 .. issued' /\ token' \in [Procs -> 0 .. issued']
    BY <1>6 DEF Exchange, LocksInv, TypeOK
  <2>5. spoiled' \in BOOLEAN
    BY <1>6 DEF Exchange
  <2> QED
    BY <1>6, <2>2, <2>3, <2>4, <2>5 DEF LocksInv, TypeOK, Exchange, Calls, tokens, queue, bounds
<1>7. ASSUME p \in Logins, FindUser(p)
      PROVE  LocksInv'
  <2>1. Goto(p, "find", "store") /\ UNCHANGED << mutex, job >>
    BY <1>7 DEF FindUser, queue
  <2>2. KindsAgree' /\ LocksAgree'
    BY <1>7, <2>1, OnwardsKeepsLocks DEF Calls, Locked
  <2>3. pc' \in [Procs -> Calls]
    BY <2>1, GotoEffect DEF LocksInv, Calls
  <2>4. found' \in [Logins -> BOOLEAN]
    BY <1>7, Zenon DEF FindUser, LocksInv, TypeOK
  <2> QED
    BY <1>7, <2>2, <2>3, <2>4
       DEF LocksInv, TypeOK, FindUser, Calls, tokens, queue, bounds, history
<1> QED
  BY <1>1, <1>2, <1>3, <1>4, <1>5, <1>6, <1>7

\* The ways in which a handler ends.
Ends(p) ==
    \/ ReadSuffices(p) \/ ReadFails(p) \/ Refused(p)
    \/ \E lost \in BOOLEAN : RefreshFails(p, lost)
    \/ StoreFails(p) \/ StoreAckLost(p) \/ ScheduleFails(p) \/ End(p)
    \/ p \in Logins /\ (UserTaken(p) \/ LoginFails(p))

LEMMA EndStep ==
    ASSUME LocksInv, NEW p \in Procs, Ends(p)
    PROVE  LocksInv'
<1>1. PICK success \in BOOLEAN : Finish(p, success)
  BY DEF Ends, ReadSuffices, ReadFails, Refused, RefreshFails, StoreFails, StoreAckLost,
         ScheduleFails, End, UserTaken, LoginFails
<1>2. pc[p] # "idle"
  BY DEF Ends, ReadSuffices, ReadFails, Refused, RefreshFails, StoreFails, StoreAckLost,
         ScheduleFails, End, UserTaken, LoginFails
<1>3. KindsAgree' /\ LocksAgree' /\ mutex' \in { NoOne } \cup Requests \cup Jobs
  BY <1>1, <1>2, FinishKeepsLocks
<1>4. /\ pc' \in [Procs -> Calls] /\ token' \in [Procs -> 0 .. issued]
      /\ found' \in [Logins -> BOOLEAN] /\ keyed' \in Jobs \cup { NoJob }
      /\ job' \in [Jobs -> JobStates] /\ attempts' \in [Jobs -> 0 .. MaxAttempts]
  BY <1>1, FinishEffect DEF LocksInv
<1>5. UNCHANGED << faults, expiries, crashes >>
  BY DEF Ends, ReadSuffices, ReadFails, Refused, RefreshFails, StoreFails, StoreAckLost,
         ScheduleFails, End, UserTaken, LoginFails, bounds
<1>6. issued' \in { issued, issued + 1 }
  BY DEF Ends, ReadSuffices, ReadFails, Refused, RefreshFails, StoreFails, StoreAckLost,
         ScheduleFails, End, UserTaken, LoginFails
<1>7. /\ issued' \in Nat /\ token' \in [Procs -> 0 .. issued'] /\ stored \in 0 .. issued'
  BY <1>4, <1>6 DEF LocksInv, TypeOK
<1>8. spoiled' \in BOOLEAN /\ unscheduled' \in BOOLEAN
  BY DEF Ends, ReadSuffices, ReadFails, Refused, RefreshFails, StoreFails, StoreAckLost,
         ScheduleFails, End, UserTaken, LoginFails, history, LocksInv, TypeOK
<1>9. CASE StoreAckLost(p)
  <2>1. stored' \in 0 .. issued'
    BY <1>6, <1>9 DEF StoreAckLost, StoreTokens, LocksInv, TypeOK
  <2> QED
    BY <1>3, <1>4, <1>5, <1>7, <1>8, <1>9, <2>1
       DEF LocksInv, TypeOK, StoreAckLost, StoreTokens, Calls, JobStates
<1>10. CASE ~StoreAckLost(p)
  <2>1. UNCHANGED tokens
    BY <1>10 DEF Ends, ReadSuffices, ReadFails, Refused, RefreshFails, StoreFails,
                 ScheduleFails, End, UserTaken, LoginFails
  <2> QED
    BY <1>3, <1>4, <1>5, <1>7, <1>8, <2>1 DEF LocksInv, TypeOK, tokens, Calls, JobStates
<1> QED
  BY <1>9, <1>10

\* add_job leaves a row with the key that waits, and no running job changed.
LEMMA AddJobEffect ==
    ASSUME TypeOK, AddJob
    PROVE  /\ keyed' \in Jobs /\ job'[keyed'] = "waiting"
           /\ job' \in [Jobs -> JobStates] /\ attempts' \in [Jobs -> 0 .. MaxAttempts]
           /\ job[keyed'] # "running"
           /\ \A j \in Jobs : j # keyed' => job'[j] = job[j]
<1>1. CASE keyed # NoJob /\ job[keyed] \in { "waiting", "queued" }
  <2>1. /\ keyed \in Jobs /\ keyed' = keyed
        /\ job' = [job EXCEPT ![keyed] = "waiting"]
        /\ attempts' = [attempts EXCEPT ![keyed] = 0]
    BY <1>1 DEF AddJob, TypeOK
  <2>2. attempts' \in [Jobs -> 0 .. MaxAttempts]
    BY <2>1, TokenAssumption DEF TypeOK
  <2> QED
    BY <1>1, <2>1, <2>2 DEF TypeOK, JobStates
<1>2. CASE ~(keyed # NoJob /\ job[keyed] \in { "waiting", "queued" })
  <2>1. PICK j \in Jobs :
            /\ Free(j) /\ keyed' = j
            /\ job' = [job EXCEPT ![j] = "waiting"]
            /\ attempts' = [k \in Jobs |-> CASE k = j -> 0
                                             [] k = keyed -> MaxAttempts
                                             [] OTHER -> attempts[k]]
    BY <1>2 DEF AddJob
  <2>2. attempts' \in [Jobs -> 0 .. MaxAttempts]
    BY <2>1, TokenAssumption DEF TypeOK
  <2>3. job[j] # "running"
    BY <2>1 DEF Free, Live
  <2> QED
    BY <2>1, <2>2, <2>3 DEF TypeOK, JobStates
<1> QED
  BY <1>1, <1>2

LEMMA ScheduleStep ==
    ASSUME LocksInv, NEW p \in Procs, Schedule(p)
    PROVE  LocksInv'
<1>1. /\ Goto(p, "schedule", "end") /\ AddJob /\ unscheduled' = FALSE
      /\ UNCHANGED << faults, tokens, issued, mutex, local, bounds, spoiled >>
  BY DEF Schedule
<1>2. /\ pc[p] = "schedule" /\ pc'[p] = "end"
      /\ \A q \in Procs \ { p } : pc'[q] = pc[q]
      /\ pc' \in [Procs -> Calls]
  BY <1>1, GotoEffect DEF LocksInv, Calls
<1>3. /\ keyed' \in Jobs /\ job'[keyed'] = "waiting"
      /\ job' \in [Jobs -> JobStates] /\ attempts' \in [Jobs -> 0 .. MaxAttempts]
      /\ job[keyed'] # "running"
      /\ \A j \in Jobs : j # keyed' => job'[j] = job[j]
  BY <1>1, AddJobEffect DEF LocksInv
<1>4. TypeOK'
  BY <1>1, <1>2, <1>3 DEF LocksInv, TypeOK, Calls, JobStates, tokens, local, bounds
<1>5. KindsAgree'
  BY <1>2, Disjoint DEF LocksInv, KindsAgree, Locked
<1>6. \A q \in Requests \cup Jobs : pc'[q] \in Locked <=> mutex' = q
  BY <1>1, <1>2, Disjoint DEF LocksInv, LocksAgree, Locked
<1>7. \A j \in Jobs : job'[j] = "running" <=> pc'[j] # "idle"
  BY <1>2, <1>3, Disjoint DEF LocksInv, LocksAgree
<1> QED
  BY <1>4, <1>5, <1>6, <1>7 DEF LocksInv, LocksAgree

LEMMA QueueLocks ==
    ASSUME LocksInv, NEW j \in Jobs, QueueStep(j)
    PROVE  LocksInv'
<1>1. CASE Elapse(j) \/ Unlock(j)
  <2>1. /\ UNCHANGED << faults, tokens, issued, mutex, pc, local, keyed, attempts, bounds, history >>
        /\ job[j] \in { "waiting", "stuck" }
        /\ job' = [job EXCEPT ![j] = "queued"]
    BY <1>1 DEF Elapse, Unlock
  <2>2. /\ job' \in [Jobs -> JobStates] /\ job'[j] = "queued"
        /\ \A k \in Jobs : k # j => job'[k] = job[k]
    BY <2>1 DEF LocksInv, TypeOK, JobStates
  <2>3. TypeOK'
    BY <2>1, <2>2 DEF LocksInv, TypeOK, JobStates, tokens, local, bounds, history
  <2>4. KindsAgree'
    BY <2>1 DEF LocksInv, KindsAgree
  <2>5. LocksAgree'
    BY <2>1, <2>2 DEF LocksInv, LocksAgree
  <2> QED
    BY <2>3, <2>4, <2>5 DEF LocksInv
<1>2. CASE TakeJob(j)
  <2>1. /\ UNCHANGED << faults, tokens, issued, mutex, local, keyed, bounds, history >>
        /\ job[j] = "queued" /\ attempts[j] < MaxAttempts
        /\ job' = [job EXCEPT ![j] = "running"]
        /\ pc' = [pc EXCEPT ![j] = "lock"]
    BY <1>2 DEF TakeJob
  <2>2. attempts' \in [Jobs -> 0 .. MaxAttempts]
    BY <1>2, TokenAssumption DEF TakeJob, LocksInv, TypeOK
  <2>3. /\ job' \in [Jobs -> JobStates] /\ job'[j] = "running"
        /\ \A k \in Jobs : k # j => job'[k] = job[k]
    BY <2>1 DEF LocksInv, TypeOK, JobStates
  <2>4. /\ pc' \in [Procs -> Calls] /\ pc'[j] = "lock" /\ pc[j] = "idle"
        /\ \A q \in Procs : q # j => pc'[q] = pc[q]
    BY <2>1, Disjoint DEF LocksInv, TypeOK, LocksAgree, Calls
  <2>5. TypeOK'
    BY <2>1, <2>2, <2>3, <2>4 DEF LocksInv, TypeOK, JobStates, Calls, tokens, local, bounds, history
  <2>6. KindsAgree'
    BY <2>4, Disjoint DEF LocksInv, KindsAgree
  <2>7. LocksAgree'
    BY <2>1, <2>3, <2>4, Disjoint DEF LocksInv, LocksAgree, Locked
  <2> QED
    BY <2>5, <2>6, <2>7 DEF LocksInv
<1> QED
  BY <1>1, <1>2 DEF QueueStep

LEMMA WorldStep ==
    ASSUME LocksInv, Expire \/ Crash \/ UNCHANGED vars
    PROVE  LocksInv'
<1>1. CASE Expire
  <2>1. UNCHANGED << faults, user, stored, issued, mutex, pc, local, queue, crashes, history >>
    BY <1>1 DEF Expire
  <2>2. expiries' \in 0 .. MaxExpiries
    BY <1>1, TokenAssumption DEF Expire, LocksInv, TypeOK
  <2>3. access' \in { "fresh", "expiring" } /\ refresh' \in { "fresh", "due", "expired" }
    BY <1>1 DEF Expire, LocksInv, TypeOK
  <2>4. TypeOK'
    BY <2>1, <2>2, <2>3 DEF LocksInv, TypeOK, local, queue, history
  <2> QED
    BY <2>1, <2>4 DEF LocksInv, KindsAgree, LocksAgree, queue
<1>2. CASE Crash
  <2>1. UNCHANGED << faults, tokens, issued, keyed, attempts, expiries >> /\ mutex' = NoOne
    BY <1>2 DEF Crash
  <2>2. crashes' \in 0 .. MaxCrashes
    BY <1>2, TokenAssumption DEF Crash, LocksInv, TypeOK
  <2>3. \A j \in Jobs : job'[j] \in JobStates /\ job'[j] # "running"
    BY <1>2 DEF Crash, LocksInv, TypeOK, JobStates
  <2>4. job' \in [Jobs -> JobStates]
    BY <1>2, <2>3 DEF Crash
  <2>5. \A p \in Procs : pc'[p] = IF p \in Jobs \/ pc[p] = "idle" THEN "idle" ELSE "done"
    BY <1>2 DEF Crash
  <2>6. pc' \in [Procs -> Calls]
    BY <1>2 DEF Crash, Calls
  <2>7. token' \in [Procs -> 0 .. issued] /\ found' \in [Logins -> BOOLEAN]
    BY <1>2 DEF Crash, LocksInv, TypeOK, NoToken
  <2>8. spoiled' \in BOOLEAN /\ unscheduled' \in BOOLEAN
    BY <1>2 DEF Crash
  <2>9. TypeOK'
    BY <2>1, <2>2, <2>4, <2>6, <2>7, <2>8 DEF LocksInv, TypeOK, tokens, JobStates, Calls
  <2>10. KindsAgree'
    BY <2>5, Disjoint DEF KindsAgree
  <2>11. LocksAgree'
    BY <2>1, <2>3, <2>5, Disjoint DEF LocksAgree, Locked
  <2> QED
    BY <2>9, <2>10, <2>11 DEF LocksInv
<1>3. CASE UNCHANGED vars
  <2>1. UNCHANGED << faults, tokens, issued, mutex, pc, local, queue, bounds, history >>
    BY <1>3 DEF vars
  <2>2. TypeOK'
    BY <2>1 DEF LocksInv, TypeOK, tokens, local, queue, bounds, history
  <2> QED
    BY <2>1, <2>2 DEF LocksInv, KindsAgree, LocksAgree, queue
<1> QED
  BY <1>1, <1>2, <1>3

\* The steps there are, as the lemmas take them.
LEMMA NextCases ==
    ASSUME [Next]_vars
    PROVE  \/ \E p \in Procs :
                  \/ p \in Requests /\ Begin(p)
                  \/ Lock(p) \/ Read(p) \/ Refresh(p) \/ Store(p)
                  \/ p \in Logins /\ (Exchange(p) \/ FindUser(p))
           \/ \E p \in Procs : Ends(p)
           \/ \E p \in Procs : Schedule(p)
           \/ \E j \in Jobs : QueueStep(j)
           \/ Expire \/ Crash \/ UNCHANGED vars
<1>1. ASSUME NEW p \in Procs, Step(p) \/ Fault(p)
      PROVE  Lock(p) \/ Read(p) \/ Refresh(p) \/ Store(p) \/ Schedule(p) \/ Ends(p)
  BY <1>1 DEF Step, Fault, Ends
<1>2. ASSUME NEW l \in Logins, Exchange(l) \/ LoginStep(l) \/ LoginFails(l)
      PROVE  Exchange(l) \/ FindUser(l) \/ Ends(l)
  BY <1>2 DEF LoginStep, Ends
<1> QED
  BY <1>1, <1>2, Disjoint DEF Next

LEMMA LocksStep == LocksInv /\ [Next]_vars => LocksInv'
  BY NextCases, OnwardsStep, EndStep, ScheduleStep, QueueLocks, WorldStep

LEMMA InitLocks == Init => LocksInv
<1> SUFFICES ASSUME Init PROVE LocksInv
  OBVIOUS
<1>1. PICK s \in Scenarios :
          /\ faults = s.faults
          /\ pc = [p \in Procs |-> IF p \in Jobs \cup s.actors THEN "idle" ELSE "done"]
  BY DEF Init
<1>2. /\ user \in BOOLEAN /\ stored \in { 0, 1 } /\ (stored # NoToken => user)
      /\ keyed \in Jobs \cup { NoJob }
  BY Disjoint DEF Init, NoToken
<1>3. job \in [Jobs -> JobStates] /\ \A j \in Jobs : job[j] # "running"
  BY DEF Init, JobStates
<1>4. issued = stored /\ issued \in Nat /\ stored \in 0 .. issued /\ 0 \in 0 .. issued
  BY <1>2 DEF Init
<1>5. token \in [Procs -> 0 .. issued] /\ found \in [Logins -> BOOLEAN]
  BY <1>4 DEF Init, NoToken
<1>6. attempts \in [Jobs -> 0 .. MaxAttempts] /\ expiries \in 0 .. MaxExpiries
      /\ crashes \in 0 .. MaxCrashes
  BY TokenAssumption DEF Init
<1>7. TypeOK
  BY <1>1, <1>2, <1>3, <1>4, <1>5, <1>6 DEF Init, TypeOK, JobStates
<1>8. KindsAgree /\ LocksAgree
  <2>1. \A j \in Jobs : pc[j] = "idle"
    BY <1>1, Disjoint
  <2>2. \A p \in Procs : pc[p] \in { "idle", "done" }
    BY <1>1
  <2> QED
    BY <1>3, <2>1, <2>2, Disjoint DEF Init, KindsAgree, LocksAgree, Locked
<1> QED
  BY <1>7, <1>8 DEF LocksInv

LEMMA LocksInvariance == Spec => []LocksInv
  BY InitLocks, LocksStep, PTL DEF Spec

-----------------------------------------------------------------------------
(* The tokens.                                                             *)

\* What a request or a job has of the lock while it is between its calls.
LEMMA LockedAlone ==
    ASSUME LocksInv, NEW p \in Requests \cup Jobs, NEW q \in Requests \cup Jobs,
           pc[p] \in Locked, pc[q] \in Locked
    PROVE  p = q
  BY DEF LocksInv, LocksAgree

TokensInv == LocksInv /\ StoredIsGood /\ ActiveIsGood

\* Who is active is decided by the program counters alone.
LEMMA ActiveFrame ==
    ASSUME NEW p \in Procs, pc'[p] = pc[p]
    PROVE  Active(p)' <=> Active(p)
  BY DEF Active, LoggingIn, Refreshing

\* With a step of p nobody else becomes active or stops being it.
LEMMA OthersActive ==
    ASSUME NEW p \in Procs, \A q \in Procs \ { p } : pc'[q] = pc[q]
    PROVE  \A q \in Procs \ { p } : Active(q)' <=> Active(q)
  BY ActiveFrame

\* Where nothing is issued or stored and nobody starts, nothing is spoiled.
LEMMA TokensFrame ==
    ASSUME TokensInv, LocksInv', UNCHANGED << issued, stored, user >>,
           spoiled => spoiled',
           \A p \in Procs :
               \/ pc'[p] = pc[p] /\ token'[p] = token[p]
               \/ ~Active(p)' /\ pc'[p] # "store"
                  /\ (~spoiled' => pc[p] # "store" /\ ~LoggingIn(p)),
           \A l \in Logins : pc'[l] = "store" => found'[l] = found[l]
    PROVE  TokensInv'
<1> SUFFICES ASSUME ~spoiled'
             PROVE  StoredIsGood' /\ ActiveIsGood'
  BY DEF TokensInv, StoredIsGood, ActiveIsGood
<1>1. ~spoiled
  OBVIOUS
<1>2. \A p \in Procs : Active(p)' => Active(p) /\ pc'[p] = pc[p] /\ token'[p] = token[p]
  BY ActiveFrame
<1>3. ActiveIsGood'
  <2>1. \A l \in Logins : pc'[l] = "store" => pc[l] = "store"
    BY <1>2, Disjoint
  <2> QED
    BY <1>1, <1>2, <2>1 DEF TokensInv, ActiveIsGood
<1>4. StoredIsGood'
  <2>1. ASSUME \A p \in Procs : ~LoggingIn(p)' /\ pc'[p] # "store"
        PROVE  \A p \in Procs : ~LoggingIn(p) /\ pc[p] # "store"
    <3> SUFFICES ASSUME NEW p \in Procs
                 PROVE  ~LoggingIn(p) /\ pc[p] # "store"
      OBVIOUS
    <3>1. CASE pc'[p] = pc[p]
      BY <2>1, <3>1 DEF LoggingIn
    <3>2. CASE pc'[p] # pc[p]
      BY <3>2
    <3> QED
      BY <3>1, <3>2
  <2> QED
    BY <1>1, <2>1 DEF TokensInv, StoredIsGood
<1> QED
  BY <1>3, <1>4

\* A handler that is not active, and one that is alone, leave the tokens good.
LEMMA OnwardsTokens ==
    ASSUME TokensInv, LocksInv', NEW p \in Procs,
           \/ p \in Requests /\ Begin(p)
           \/ Lock(p) \/ Read(p) \/ Refresh(p) \/ Store(p)
           \/ p \in Logins /\ (Exchange(p) \/ FindUser(p))
    PROVE  TokensInv'
<1> USE Disjoint
<1>1. ASSUME Begin(p) \/ Lock(p)
      PROVE  TokensInv'
  <2>1. /\ pc[p] \in { "idle", "lock" } /\ pc'[p] \in { "lock", "read" }
        /\ \A q \in Procs \ { p } : pc'[q] = pc[q]
    BY <1>1, GotoEffect DEF Begin, Lock, TokensInv, LocksInv, Calls
  <2>2. UNCHANGED << issued, stored, user, token, found, spoiled >>
    BY <1>1 DEF Begin, Lock, tokens, local, history
  <2>3. ~Active(p)' /\ ~LoggingIn(p)
    BY <2>1 DEF Active, LoggingIn, Refreshing
  <2> QED
    BY <2>1, <2>2, <2>3, TokensFrame
<1>2. ASSUME Read(p)
      PROVE  TokensInv'
  <2>1. /\ pc[p] = "read" /\ pc'[p] = "refresh"
        /\ \A q \in Procs \ { p } : pc'[q] = pc[q]
    BY <1>2, GotoEffect DEF Read, TokensInv, LocksInv, Calls
  <2>2. /\ UNCHANGED << issued, stored, user, found >> /\ stored # NoToken
        /\ token' = [token EXCEPT ![p] = stored]
        /\ spoiled' = (spoiled \/ \E l \in Logins : LoggingIn(l))
    BY <1>2 DEF Read, tokens
  <2> SUFFICES ASSUME ~spoiled'
               PROVE  StoredIsGood' /\ ActiveIsGood'
    BY DEF TokensInv, StoredIsGood, ActiveIsGood
  <2>3. p \in Requests \cup Jobs
    BY <2>1 DEF TokensInv, LocksInv, KindsAgree, Procs
  <2>4. \A q \in Procs \ { p } : q \in Requests \cup Jobs => pc[q] \notin Locked
    BY <2>1, <2>3, LockedAlone DEF TokensInv, Locked
  <2>5. \A l \in Logins : ~LoggingIn(l)
    BY <2>2
  <2>6. \A q \in Procs : ~Active(q) /\ pc[q] # "store"
    BY <2>1, <2>4, <2>5 DEF Active, LoggingIn, Refreshing, Locked, Procs
  <2>7. stored = issued
    BY <2>2, <2>6 DEF TokensInv, StoredIsGood, Active
  <2>8. token'[p] = issued
    BY <2>2, <2>7 DEF TokensInv, LocksInv, TypeOK
  <2>9. \A q \in Procs \ { p } : ~Active(q)' /\ pc'[q] # "store"
    BY <2>1, <2>6, OthersActive
  <2>10. ActiveIsGood'
    BY <2>1, <2>2, <2>8, <2>9 DEF ActiveIsGood
  <2>11. StoredIsGood'
    BY <2>2, <2>7 DEF StoredIsGood
  <2> QED
    BY <2>10, <2>11
<1>3. ASSUME Refresh(p)
      PROVE  TokensInv'
  <2>1. /\ pc[p] = "refresh" /\ pc'[p] = "store"
        /\ \A q \in Procs \ { p } : pc'[q] = pc[q]
    BY <1>3, GotoEffect DEF Refresh, TokensInv, LocksInv, Calls
  <2>2. /\ UNCHANGED << stored, user, found, spoiled >>
        /\ token' = [token EXCEPT ![p] = issued']
    BY <1>3 DEF Refresh, tokens, history
  <2> SUFFICES ASSUME ~spoiled'
               PROVE  StoredIsGood' /\ ActiveIsGood'
    BY DEF TokensInv, StoredIsGood, ActiveIsGood
  <2>3. p \in Requests \cup Jobs
    BY <2>1 DEF TokensInv, LocksInv, KindsAgree, Procs
  <2>4. Active(p)
    BY <2>1, <2>3 DEF Active, Refreshing
  <2>5. \A q \in Procs \ { p } : ~Active(q)'
    BY <2>1, <2>2, <2>4, OthersActive DEF TokensInv, ActiveIsGood
  <2>6. token'[p] = issued'
    BY <2>2 DEF TokensInv, LocksInv, TypeOK
  <2>7. \A l \in Logins : pc'[l] # "store"
    <3>1. \A l \in Logins : pc'[l] = "store" => Active(l)'
      BY DEF Active, LoggingIn
    <3> QED
      BY <2>3, <2>5, <3>1
  <2>8. ActiveIsGood'
    BY <2>5, <2>6, <2>7 DEF ActiveIsGood
  <2>9. StoredIsGood'
    BY <2>1 DEF StoredIsGood
  <2> QED
    BY <2>8, <2>9
<1>4. ASSUME Store(p)
      PROVE  TokensInv'
  <2>1. /\ pc[p] = "store" /\ pc'[p] = "schedule"
        /\ \A q \in Procs \ { p } : pc'[q] = pc[q]
    BY <1>4, GotoEffect DEF Store, TokensInv, LocksInv, Calls
  <2>2. UNCHANGED << issued, token, spoiled >> /\ stored' = token[p]
    BY <1>4 DEF Store, StoreTokens, local, history
  <2> SUFFICES ASSUME ~spoiled'
               PROVE  StoredIsGood' /\ ActiveIsGood'
    BY DEF TokensInv, StoredIsGood, ActiveIsGood
  <2>3. Active(p) /\ ~Active(p)'
    BY <2>1 DEF Active, LoggingIn, Refreshing, Procs
  <2>4. stored' = issued
    BY <2>2, <2>3 DEF TokensInv, ActiveIsGood
  <2>5. \A q \in Procs : ~Active(q)'
    BY <2>1, <2>2, <2>3, OthersActive DEF TokensInv, ActiveIsGood
  <2>6. ActiveIsGood'
    <3>1. \A l \in Logins : pc'[l] = "store" => Active(l)'
      BY DEF Active, LoggingIn
    <3> QED
      BY <2>5, <3>1 DEF ActiveIsGood
  <2>7. StoredIsGood'
    BY <2>2, <2>4 DEF StoredIsGood
  <2> QED
    BY <2>6, <2>7
<1>5. ASSUME p \in Logins, Exchange(p)
      PROVE  TokensInv'
  <2>1. /\ pc'[p] = "find"
        /\ \A q \in Procs \ { p } : pc'[q] = pc[q]
    BY <1>5, GotoEffect DEF Exchange, TokensInv, LocksInv, Calls
  <2>2. /\ token' = [token EXCEPT ![p] = issued']
        /\ spoiled' = \E q \in Procs \ { p } : LoggingIn(q) \/ Refreshing(q)
    BY <1>5 DEF Exchange
  <2> SUFFICES ASSUME ~spoiled'
               PROVE  StoredIsGood' /\ ActiveIsGood'
    BY DEF TokensInv, StoredIsGood, ActiveIsGood
  <2>3. \A q \in Procs \ { p } : ~Active(q)'
    BY <2>1, <2>2, OthersActive DEF Active
  <2>4. token'[p] = issued'
    BY <2>2 DEF TokensInv, LocksInv, TypeOK
  <2>5. ActiveIsGood'
    <3>1. \A l \in Logins : pc'[l] = "store" => Active(l)'
      BY DEF Active, LoggingIn
    <3> QED
      BY <2>1, <2>3, <2>4, <3>1 DEF ActiveIsGood
  <2>6. StoredIsGood'
    BY <1>5, <2>1 DEF StoredIsGood, LoggingIn
  <2> QED
    BY <2>5, <2>6
<1>6. ASSUME p \in Logins, FindUser(p)
      PROVE  TokensInv'
  <2>1. /\ pc[p] = "find" /\ pc'[p] = "store"
        /\ \A q \in Procs \ { p } : pc'[q] = pc[q]
    BY <1>6, GotoEffect DEF FindUser, TokensInv, LocksInv, Calls
  <2>2. /\ UNCHANGED << issued, stored, user, token, spoiled >>
        /\ found' = [found EXCEPT ![p] = user]
    BY <1>6 DEF FindUser, tokens, history
  <2> SUFFICES ASSUME ~spoiled'
               PROVE  StoredIsGood' /\ ActiveIsGood'
    BY DEF TokensInv, StoredIsGood, ActiveIsGood
  <2>3. Active(p) /\ Active(p)'
    BY <1>6, <2>1 DEF Active, LoggingIn
  <2>4. \A q \in Procs : Active(q)' => q = p
    BY <2>1, <2>2, <2>3, OthersActive DEF TokensInv, ActiveIsGood
  <2>5. token'[p] = issued
    BY <2>2, <2>3 DEF TokensInv, ActiveIsGood
  <2>6. found'[p] = user
    <3>1. found \in [Logins -> BOOLEAN]
      BY DEF TokensInv, LocksInv, TypeOK
    <3> QED
      BY <1>6, <2>2, <3>1, Zenon
  <2>7. \A l \in Logins : pc'[l] = "store" => Active(l)'
    BY DEF Active, LoggingIn
  <2>8. ActiveIsGood'
    BY <2>2, <2>4, <2>5, <2>6, <2>7 DEF ActiveIsGood
  <2>9. StoredIsGood'
    BY <2>1 DEF StoredIsGood
  <2> QED
    BY <2>8, <2>9
<1> QED
  BY <1>1, <1>2, <1>3, <1>4, <1>5, <1>6

\* A handler that ends with a token of its own has stored it or has spoiled it;
\* but a refresh that never left the server spoils nothing.
LEMMA EndTokens ==
    ASSUME TokensInv, LocksInv', NEW p \in Procs, Ends(p)
    PROVE  TokensInv'
<1> USE Disjoint
<1>1. PICK success \in BOOLEAN : Finish(p, success)
  BY DEF Ends, ReadSuffices, ReadFails, Refused, RefreshFails, StoreFails, StoreAckLost,
         ScheduleFails, End, UserTaken, LoginFails
<1>2. /\ pc'[p] = IF p \in Jobs THEN "idle" ELSE "done"
      /\ \A q \in Procs \ { p } : pc'[q] = pc[q] /\ token'[q] = token[q]
      /\ \A l \in Logins : l # p => found'[l] = found[l]
  BY <1>1, FinishEffect DEF TokensInv, LocksInv
<1>3. ~Active(p)' /\ pc'[p] # "store"
  BY <1>2 DEF Active, LoggingIn, Refreshing
<1>4. ASSUME UNCHANGED << issued, stored, user >>, spoiled => spoiled',
             ~spoiled' => pc[p] # "store" /\ ~LoggingIn(p)
      PROVE  TokensInv'
  BY <1>2, <1>3, <1>4, TokensFrame
<1>5. ASSUME spoiled'
      PROVE  TokensInv'
  BY <1>5 DEF TokensInv, StoredIsGood, ActiveIsGood
<1>6. CASE ReadSuffices(p) \/ ReadFails(p) \/ Refused(p) \/ ScheduleFails(p) \/ End(p)
  <2>1. UNCHANGED << issued, stored, user, spoiled >> /\ pc[p] \in { "read", "refresh", "schedule", "end" }
    BY <1>6 DEF ReadSuffices, ReadFails, Refused, ScheduleFails, End, tokens, history
  <2> QED
    BY <1>4, <2>1 DEF LoggingIn
<1>7. ASSUME NEW lost \in BOOLEAN, RefreshFails(p, lost)
      PROVE  TokensInv'
  <2>1. UNCHANGED << stored, user >> /\ pc[p] = "refresh"
    BY <1>7 DEF RefreshFails, tokens
  <2>2. CASE lost
    BY <1>5, <1>7, <2>2 DEF RefreshFails
  <2>3. CASE ~lost
    <3>1. issued' = issued /\ (spoiled => spoiled')
      BY <1>7, <2>3 DEF RefreshFails
    <3> QED
      BY <1>4, <2>1, <3>1 DEF LoggingIn
  <2> QED
    BY <2>2, <2>3
<1>8. CASE StoreFails(p) \/ (p \in Logins /\ LoginFails(p))
  BY <1>5, <1>8 DEF StoreFails, LoginFails
<1>9. CASE StoreAckLost(p)
  <2>1. UNCHANGED << issued, spoiled >> /\ stored' = token[p] /\ pc[p] = "store"
    BY <1>9 DEF StoreAckLost, StoreTokens
  <2> SUFFICES ASSUME ~spoiled'
               PROVE  StoredIsGood' /\ ActiveIsGood'
    BY DEF TokensInv, StoredIsGood, ActiveIsGood
  <2>2. Active(p)
    BY <2>1 DEF Active, LoggingIn, Refreshing, Procs
  <2>3. stored' = issued
    BY <2>1, <2>2 DEF TokensInv, ActiveIsGood
  <2>4. \A q \in Procs : ~Active(q)'
    BY <1>2, <1>3, <2>1, <2>2, OthersActive DEF TokensInv, ActiveIsGood
  <2>5. ActiveIsGood'
    <3>1. \A l \in Logins : pc'[l] = "store" => Active(l)'
      BY DEF Active, LoggingIn
    <3> QED
      BY <2>4, <3>1 DEF ActiveIsGood
  <2>6. StoredIsGood'
    BY <2>1, <2>3 DEF StoredIsGood
  <2> QED
    BY <2>5, <2>6
<1>10. CASE p \in Logins /\ UserTaken(p)
  <2>1. UNCHANGED << issued, stored, user, spoiled >> /\ pc[p] = "store" /\ ~found[p] /\ user
    BY <1>10 DEF UserTaken, tokens, history
  <2>2. spoiled
    BY <1>10, <2>1 DEF TokensInv, ActiveIsGood
  <2> QED
    BY <1>5, <2>1, <2>2
<1> QED
  BY <1>6, <1>7, <1>8, <1>9, <1>10 DEF Ends

LEMMA OtherTokens ==
    ASSUME TokensInv, LocksInv',
           \/ \E p \in Procs : Schedule(p)
           \/ \E j \in Jobs : QueueStep(j)
           \/ Expire \/ Crash \/ UNCHANGED vars
    PROVE  TokensInv'
<1> USE Disjoint
<1>1. ASSUME NEW p \in Procs, Schedule(p)
      PROVE  TokensInv'
  <2>1. /\ pc[p] = "schedule" /\ pc'[p] = "end"
        /\ \A q \in Procs \ { p } : pc'[q] = pc[q]
    BY <1>1, GotoEffect DEF Schedule, TokensInv, LocksInv, Calls
  <2>2. UNCHANGED << issued, stored, user, token, found, spoiled >>
    BY <1>1 DEF Schedule, tokens, local
  <2>3. ~Active(p)' /\ ~LoggingIn(p)
    BY <2>1 DEF Active, LoggingIn, Refreshing
  <2> QED
    BY <2>1, <2>2, <2>3, TokensFrame
<1>2. ASSUME NEW j \in Jobs, TakeJob(j)
      PROVE  TokensInv'
  <2>1. /\ pc[j] = "idle" /\ pc'[j] = "lock"
        /\ \A q \in Procs \ { j } : pc'[q] = pc[q]
    BY <1>2 DEF TakeJob, TokensInv, LocksInv, TypeOK, LocksAgree
  <2>2. UNCHANGED << issued, stored, user, token, found, spoiled >>
    BY <1>2 DEF TakeJob, tokens, local, history
  <2>3. ~Active(j)' /\ ~LoggingIn(j)
    BY <2>1 DEF Active, LoggingIn, Refreshing
  <2> QED
    BY <2>1, <2>2, <2>3, TokensFrame
<1>3. ASSUME (\E j \in Jobs : Elapse(j) \/ Unlock(j)) \/ Expire \/ UNCHANGED vars
      PROVE  TokensInv'
  <2>1. UNCHANGED << issued, stored, user, pc, token, found, spoiled >>
    BY <1>3 DEF Elapse, Unlock, Expire, vars, tokens, local, history
  <2> QED
    BY <2>1, TokensFrame
<1>4. ASSUME Crash
      PROVE  TokensInv'
  <2>1. /\ UNCHANGED << issued, stored, user >>
        /\ spoiled' = (spoiled \/ \E p \in Procs : LoggingIn(p) \/ pc[p] = "store")
        /\ \A p \in Procs : pc'[p] \in { "idle", "done" }
    BY <1>4 DEF Crash, tokens
  <2>2. \A p \in Procs : ~Active(p)' /\ pc'[p] # "store"
    BY <2>1 DEF Active, LoggingIn, Refreshing
  <2>3. \A p \in Procs : ~spoiled' => pc[p] # "store" /\ ~LoggingIn(p)
    BY <2>1
  <2>4. spoiled => spoiled'
    BY <2>1
  <2>5. \A l \in Logins : pc'[l] # "store"
    BY <2>2
  <2> QED
    BY <2>1, <2>2, <2>3, <2>4, <2>5, TokensFrame
<1> QED
  BY <1>1, <1>2, <1>3, <1>4 DEF QueueStep

LEMMA TokensStep == TokensInv /\ [Next]_vars => TokensInv'
<1> SUFFICES ASSUME TokensInv, [Next]_vars PROVE TokensInv'
  OBVIOUS
<1>1. LocksInv'
  BY LocksStep DEF TokensInv
<1> QED
  BY <1>1, NextCases, OnwardsTokens, EndTokens, OtherTokens

LEMMA InitTokens == Init => TokensInv
<1> SUFFICES ASSUME Init PROVE StoredIsGood /\ ActiveIsGood
  BY InitLocks DEF TokensInv
<1>1. \A p \in Procs : pc[p] \in { "idle", "done" }
  BY DEF Init
<1>2. \A p \in Procs : ~Active(p)
  BY <1>1 DEF Active, LoggingIn, Refreshing
<1> QED
  BY <1>1, <1>2, Disjoint DEF Init, StoredIsGood, ActiveIsGood

LEMMA TokensInvariance == Spec => []TokensInv
  BY InitTokens, TokensStep, PTL DEF Spec

-----------------------------------------------------------------------------
(* The order of the tokens.                                                *)

\* A handler that has a token, and one that has a token it was issued.
HasToken(p) == pc[p] \in { "refresh", "find", "store" }
HasNew(p) == pc[p] \in { "find", "store" }

\* Nobody holds a token that is none, and one that waits to be stored is newer than
\* the one that is stored.
TokensAreReal == \A p \in Procs : HasToken(p) => token[p] # NoToken
NewIsNewer == ~spoiled /\ (\E p \in Procs : HasNew(p)) => stored < issued

OrderInv == TokensInv /\ TokensAreReal /\ NewIsNewer

LEMMA NewIsActive == LocksInv => \A p \in Procs : HasNew(p) => Active(p)
  BY DEF HasNew, Active, LoggingIn, Refreshing, LocksInv, KindsAgree, Procs, Locked

\* What a step has to leave as it was, or to make better.
LEMMA OrderFrame ==
    ASSUME OrderInv, TokensInv',
           \A p \in Procs : HasToken(p)' =>
               (HasToken(p) /\ token'[p] = token[p]) \/ token'[p] # NoToken,
           \/ spoiled' \/ stored' < issued'
           \/ \A p \in Procs : ~HasNew(p)'
           \/ /\ UNCHANGED << stored, issued >> /\ (spoiled => spoiled')
              /\ \A p \in Procs : HasNew(p)' => HasNew(p)
    PROVE  OrderInv'
<1>1. TokensAreReal'
  BY DEF OrderInv, TokensAreReal
<1>2. NewIsNewer'
  BY DEF OrderInv, NewIsNewer
<1> QED
  BY <1>1, <1>2 DEF OrderInv

\* A handler that goes on, and leaves the others where they are.
LEMMA OnwardsOrder ==
    ASSUME OrderInv, TokensInv', NEW p \in Procs,
           \/ p \in Requests /\ Begin(p)
           \/ Lock(p) \/ Read(p) \/ Refresh(p) \/ Store(p) \/ Schedule(p)
           \/ p \in Logins /\ (Exchange(p) \/ FindUser(p))
    PROVE  OrderInv'
<1> USE Disjoint DEF HasToken, HasNew
<1>1. TypeOK /\ stored \in Nat /\ issued \in Nat /\ stored <= issued
  BY DEF OrderInv, TokensInv, LocksInv, TypeOK
<1>2. CASE (p \in Requests /\ Begin(p)) \/ Lock(p) \/ Schedule(p)
  <2>1. /\ pc'[p] \in { "lock", "read", "end" } /\ \A q \in Procs \ { p } : pc'[q] = pc[q]
        /\ UNCHANGED << stored, issued, token, spoiled >>
    BY <1>1, <1>2, GotoEffect DEF Begin, Lock, Schedule, Calls, tokens, local, history
  <2> QED
    BY <2>1, OrderFrame
<1>3. CASE Read(p)
  <2>1. /\ pc'[p] = "refresh" /\ \A q \in Procs \ { p } : pc'[q] = pc[q]
        /\ UNCHANGED << stored, issued >> /\ (spoiled => spoiled') /\ stored # NoToken
        /\ token' = [token EXCEPT ![p] = stored]
    BY <1>1, <1>3, GotoEffect DEF Read, Calls, tokens
  <2>2. token'[p] # NoToken /\ \A q \in Procs \ { p } : token'[q] = token[q]
    BY <1>1, <2>1 DEF TypeOK
  <2> QED
    BY <2>1, <2>2, OrderFrame
<1>4. CASE Refresh(p) \/ (p \in Logins /\ Exchange(p))
  <2>1. /\ pc'[p] \in { "store", "find" } /\ \A q \in Procs \ { p } : pc'[q] = pc[q]
        /\ stored' = stored /\ issued' = issued + 1
        /\ token' = [token EXCEPT ![p] = issued']
    BY <1>1, <1>4, GotoEffect DEF Refresh, Exchange, Calls, tokens
  <2>2. /\ token'[p] = issued + 1 /\ issued + 1 # NoToken
        /\ \A q \in Procs \ { p } : token'[q] = token[q]
    BY <1>1, <2>1 DEF TypeOK, NoToken
  <2>3. stored' < issued'
    BY <1>1, <2>1
  <2> QED
    BY <2>1, <2>2, <2>3, OrderFrame
<1>5. CASE p \in Logins /\ FindUser(p)
  <2>1. /\ pc[p] = "find" /\ pc'[p] = "store" /\ \A q \in Procs \ { p } : pc'[q] = pc[q]
        /\ UNCHANGED << stored, issued, token, spoiled >>
    BY <1>1, <1>5, GotoEffect DEF FindUser, Calls, tokens, history
  <2> QED
    BY <2>1, OrderFrame
<1>6. CASE Store(p)
  <2>1. /\ pc[p] = "store" /\ pc'[p] = "schedule" /\ \A q \in Procs \ { p } : pc'[q] = pc[q]
        /\ UNCHANGED << token, spoiled >>
    BY <1>1, <1>6, GotoEffect DEF Store, Calls, local, history
  <2>2. spoiled' \/ \A q \in Procs : ~HasNew(q)'
    BY <2>1, NewIsActive DEF OrderInv, TokensInv, ActiveIsGood
  <2> QED
    BY <2>1, <2>2, OrderFrame
<1> QED
  BY <1>2, <1>3, <1>4, <1>5, <1>6

LEMMA EndOrder ==
    ASSUME OrderInv, TokensInv', NEW p \in Procs, Ends(p)
    PROVE  OrderInv'
<1> USE DEF HasToken, HasNew
<1>1. PICK success \in BOOLEAN : Finish(p, success)
  BY DEF Ends, ReadSuffices, ReadFails, Refused, RefreshFails, StoreFails, StoreAckLost,
         ScheduleFails, End, UserTaken, LoginFails
<1>2. /\ pc'[p] \in { "idle", "done" }
      /\ \A q \in Procs \ { p } : pc'[q] = pc[q] /\ token'[q] = token[q]
  BY <1>1, FinishEffect DEF OrderInv, TokensInv, LocksInv
<1>3. ASSUME UNCHANGED << stored, issued, spoiled >> \/ spoiled'
      PROVE  OrderInv'
  BY <1>2, <1>3, OrderFrame
<1>4. CASE ReadSuffices(p) \/ ReadFails(p) \/ Refused(p) \/ ScheduleFails(p) \/ End(p)
           \/ (p \in Logins /\ UserTaken(p))
  <2>1. UNCHANGED << stored, issued, spoiled >>
    BY <1>4 DEF ReadSuffices, ReadFails, Refused, ScheduleFails, End, UserTaken, tokens, history
  <2> QED
    BY <1>3, <2>1
<1>5. ASSUME NEW lost \in BOOLEAN, RefreshFails(p, lost)
      PROVE  OrderInv'
  <2>1. stored' = stored /\ spoiled' = (spoiled \/ lost) /\ (~lost => issued' = issued)
    BY <1>5 DEF RefreshFails, tokens
  <2>2. spoiled \in BOOLEAN
    BY DEF OrderInv, TokensInv, LocksInv, TypeOK
  <2> QED
    BY <1>3, <2>1, <2>2
<1>6. CASE StoreFails(p) \/ (p \in Logins /\ LoginFails(p))
  <2>1. spoiled'
    BY <1>6 DEF StoreFails, LoginFails
  <2> QED
    BY <1>3, <2>1
<1>7. CASE StoreAckLost(p)
  <2>1. pc[p] = "store" /\ spoiled' = spoiled
    BY <1>7 DEF StoreAckLost
  <2>2. spoiled' \/ \A q \in Procs : ~HasNew(q)'
    BY <1>2, <2>1, NewIsActive DEF OrderInv, TokensInv, ActiveIsGood
  <2> QED
    BY <1>2, <2>2, OrderFrame
<1> QED
  BY <1>4, <1>5, <1>6, <1>7 DEF Ends

LEMMA OtherOrder ==
    ASSUME OrderInv, TokensInv', (\E j \in Jobs : QueueStep(j)) \/ Expire \/ Crash \/ UNCHANGED vars
    PROVE  OrderInv'
<1> USE DEF HasToken, HasNew
<1>1. /\ UNCHANGED << stored, issued >> /\ (spoiled => spoiled')
      /\ \A p \in Procs : pc'[p] \in { "idle", "done", "lock" }
                          \/ (pc'[p] = pc[p] /\ token'[p] = token[p])
  <2>1. ASSUME NEW j \in Jobs, TakeJob(j)
        PROVE  /\ UNCHANGED << stored, issued, spoiled, token >>
               /\ \A p \in Procs : pc'[p] = "lock" \/ pc'[p] = pc[p]
    BY <2>1, Disjoint DEF TakeJob, tokens, local, history, OrderInv, TokensInv, LocksInv, TypeOK
  <2>2. ASSUME (\E j \in Jobs : Elapse(j) \/ Unlock(j)) \/ Expire \/ UNCHANGED vars
        PROVE  UNCHANGED << stored, issued, spoiled, token, pc >>
    BY <2>2 DEF Elapse, Unlock, Expire, vars, tokens, local, history
  <2>3. ASSUME Crash
        PROVE  /\ UNCHANGED << stored, issued >> /\ (spoiled => spoiled')
               /\ \A p \in Procs : pc'[p] \in { "idle", "done" }
    BY <2>3 DEF Crash, tokens
  <2> QED
    BY <2>1, <2>2, <2>3 DEF QueueStep
<1> QED
  BY <1>1, OrderFrame

LEMMA OrderStep == OrderInv /\ [Next]_vars => OrderInv'
<1> SUFFICES ASSUME OrderInv, [Next]_vars PROVE OrderInv'
  OBVIOUS
<1>1. TokensInv'
  BY TokensStep DEF OrderInv
<1> QED
  BY <1>1, NextCases, OnwardsOrder, EndOrder, OtherOrder

LEMMA InitOrder == Init => OrderInv
<1> SUFFICES ASSUME Init PROVE TokensAreReal /\ NewIsNewer
  BY InitTokens DEF OrderInv
<1>1. \A p \in Procs : pc[p] \in { "idle", "done" }
  BY DEF Init
<1> QED
  BY <1>1 DEF TokensAreReal, NewIsNewer, HasToken, HasNew

LEMMA OrderInvariance == Spec => []OrderInv
  BY InitOrder, OrderStep, PTL DEF Spec

-----------------------------------------------------------------------------
(* The queue.                                                              *)

\* The job with the key has a row, and a job that has scheduled its successor
\* does not have the key.
KeyAgrees ==
    /\ keyed # NoJob => job[keyed] # "none"
    /\ \A j \in Jobs : pc[j] = "end" => keyed # j

\* Tokens that are stored, and still good for something, have a job with the key.
TokensHaveKey ==
    /\ stored # NoToken /\ refresh # "expired" /\ ~unscheduled
    /\ \A p \in Procs : pc[p] # "schedule"
    => keyed # NoJob

KeyInv == LocksInv /\ KeyAgrees /\ TokensHaveKey

\* A row is looked at again, or its attempts are used up.
LEMMA RowsAreLooked ==
    ASSUME TypeOK, NEW j \in Jobs, job[j] # "none"
    PROVE  Live(j) \/ attempts[j] = MaxAttempts
<1>1. /\ job[j] \in { "waiting", "queued", "running", "stuck" }
      /\ attempts[j] \in 0 .. MaxAttempts /\ MaxAttempts \in Nat
  BY TokenAssumption DEF TypeOK
<1> QED
  BY <1>1 DEF Live

\* Where the key stays, its job keeps its row, and nobody leaves "schedule".
LEMMA KeyFrame ==
    ASSUME KeyInv, UNCHANGED << stored, keyed >>,
           keyed # NoJob => job'[keyed] # "none",
           refresh' # "expired" => refresh # "expired",
           unscheduled => unscheduled',
           \A p \in Procs : pc[p] = "schedule" => pc'[p] = "schedule" \/ unscheduled',
           \A j \in Jobs : pc'[j] = "end" => pc[j] = "end",
           unscheduled \in BOOLEAN, unscheduled' \in BOOLEAN
    PROVE  KeyAgrees' /\ TokensHaveKey'
<1>1. KeyAgrees'
  BY DEF KeyInv, KeyAgrees
<1>2. TokensHaveKey'
  BY DEF KeyInv, TokensHaveKey
<1> QED
  BY <1>1, <1>2

LEMMA OnwardsKey ==
    ASSUME KeyInv, LocksInv', NEW p \in Procs,
           \/ p \in Requests /\ Begin(p)
           \/ Lock(p) \/ Read(p) \/ Refresh(p) \/ Store(p)
           \/ p \in Logins /\ (Exchange(p) \/ FindUser(p))
    PROVE  KeyInv'
<1>1. UNCHANGED << keyed, job, unscheduled >> /\ unscheduled \in BOOLEAN
  BY DEF Begin, Lock, Read, Refresh, Store, Exchange, FindUser, queue, history,
         KeyInv, LocksInv, TypeOK
<1>2. /\ pc[p] \in { "idle", "lock", "read", "refresh", "store", "find" }
      /\ pc'[p] \in { "lock", "read", "refresh", "store", "schedule", "find" }
      /\ \A q \in Procs \ { p } : pc'[q] = pc[q]
  BY GotoEffect DEF Begin, Lock, Read, Refresh, Store, Exchange, FindUser, KeyInv, LocksInv, Calls
<1>3. \A j \in Jobs : pc'[j] = "end" => pc[j] = "end"
  BY <1>2, Disjoint
<1>4. CASE Store(p)
  <2>1. pc'[p] = "schedule"
    BY <1>4, GotoEffect DEF Store, KeyInv, LocksInv, Calls
  <2>2. TokensHaveKey'
    BY <2>1 DEF TokensHaveKey
  <2>3. KeyAgrees'
    BY <1>1, <1>3 DEF KeyInv, KeyAgrees
  <2> QED
    BY <2>2, <2>3 DEF KeyInv
<1>5. CASE ~Store(p)
  <2>1. UNCHANGED << stored, refresh >>
    BY <1>5 DEF Begin, Lock, Read, Refresh, Exchange, FindUser, tokens
  <2>2. keyed # NoJob => job'[keyed] # "none"
    BY <1>1 DEF KeyInv, KeyAgrees
  <2>3. \A q \in Procs : pc[q] = "schedule" => pc'[q] = "schedule"
    BY <1>2
  <2>4. KeyAgrees' /\ TokensHaveKey'
    BY <1>1, <1>3, <2>1, <2>2, <2>3, KeyFrame
  <2> QED
    BY <2>4 DEF KeyInv
<1> QED
  BY <1>4, <1>5

\* The key goes with the row of a job that returned: one that found no tokens to
\* refresh, because one that has refreshed them has given it up before.
LEMMA EndKey ==
    ASSUME KeyInv, LocksInv', NEW p \in Procs, Ends(p)
    PROVE  KeyInv'
<1> USE Disjoint
<1>1. PICK success \in BOOLEAN :
          /\ Finish(p, success)
          /\ success => ReadSuffices(p) \/ End(p)
  BY DEF Ends, ReadSuffices, ReadFails, Refused, RefreshFails, StoreFails, StoreAckLost,
         ScheduleFails, End, UserTaken, LoginFails
<1>2. /\ pc'[p] = IF p \in Jobs THEN "idle" ELSE "done"
      /\ \A q \in Procs \ { p } : pc'[q] = pc[q]
      /\ keyed' = keyed \/ (success /\ p \in Jobs /\ keyed = p /\ keyed' = NoJob)
      /\ \A j \in Jobs : j # p => job'[j] = job[j]
      /\ p \in Jobs => /\ job'[p] = IF success THEN "none" ELSE "queued"
                       /\ keyed' = p => ~success
  BY <1>1, FinishEffect DEF KeyInv, LocksInv
<1>3. keyed \in Jobs \cup { NoJob } /\ unscheduled \in BOOLEAN /\ unscheduled' \in BOOLEAN
  BY DEF KeyInv, LocksInv, TypeOK
<1>4. \A j \in Jobs : pc'[j] = "end" => j # p /\ pc[j] = "end"
  BY <1>2
<1>5. keyed' # NoJob => job'[keyed'] # "none"
  BY <1>2, <1>3 DEF KeyInv, KeyAgrees
<1>6. KeyAgrees'
  BY <1>2, <1>4, <1>5 DEF KeyInv, KeyAgrees
<1>7. TokensHaveKey'
  <2>1. CASE StoreAckLost(p) \/ ScheduleFails(p)
    BY <2>1 DEF StoreAckLost, ScheduleFails, TokensHaveKey
  <2>2. CASE ~(StoreAckLost(p) \/ ScheduleFails(p))
    <3>1. UNCHANGED << stored, refresh, unscheduled >> /\ pc[p] # "schedule"
      BY <2>2 DEF Ends, ReadSuffices, ReadFails, Refused, RefreshFails, StoreFails, End,
                  UserTaken, LoginFails, tokens, history
    <3>2. \A q \in Procs : pc[q] = "schedule" => pc'[q] = "schedule"
      BY <1>2, <3>1
    <3>3. CASE keyed' = keyed
      BY <3>1, <3>2, <3>3 DEF KeyInv, TokensHaveKey
    <3>4. CASE success /\ p \in Jobs /\ keyed = p
      <4>1. ~End(p)
        BY <3>4 DEF End, KeyInv, KeyAgrees
      <4>2. ReadSuffices(p)
        BY <1>1, <3>4, <4>1
      <4>3. stored = NoToken \/ refresh = "expired"
        BY <3>4, <4>2 DEF ReadSuffices
      <4> QED
        BY <3>1, <4>3 DEF TokensHaveKey
    <3> QED
      BY <1>2, <3>3, <3>4
  <2> QED
    BY <2>1, <2>2
<1> QED
  BY <1>6, <1>7 DEF KeyInv

\* add_job never gives the key to a job that runs.
LEMMA ScheduleKey ==
    ASSUME KeyInv, LocksInv', NEW p \in Procs, Schedule(p)
    PROVE  KeyInv'
<1> USE Disjoint
<1>1. /\ pc[p] = "schedule" /\ \A q \in Procs \ { p } : pc'[q] = pc[q]
  BY GotoEffect DEF Schedule, KeyInv, LocksInv, Calls
<1>2. keyed' \in Jobs /\ job'[keyed'] = "waiting" /\ job[keyed'] # "running"
  BY AddJobEffect DEF Schedule, KeyInv, LocksInv
<1>3. ASSUME NEW j \in Jobs, pc'[j] = "end"
      PROVE  keyed' # j
  <2>1. pc[j] # "idle"
    BY <1>1, <1>3
  <2>2. job[j] = "running"
    BY <2>1 DEF KeyInv, LocksInv, LocksAgree
  <2> QED
    BY <1>2, <2>2
<1>4. KeyAgrees'
  BY <1>2, <1>3 DEF KeyAgrees
<1>5. TokensHaveKey'
  BY <1>2 DEF TokensHaveKey
<1> QED
  BY <1>4, <1>5 DEF KeyInv

LEMMA OtherKey ==
    ASSUME KeyInv, LocksInv',
           (\E j \in Jobs : QueueStep(j)) \/ Expire \/ Crash \/ UNCHANGED vars
    PROVE  KeyInv'
<1> USE Disjoint
<1>1. keyed \in Jobs \cup { NoJob } /\ unscheduled \in BOOLEAN /\ unscheduled' \in BOOLEAN
  BY DEF KeyInv, LocksInv, TypeOK
<1>2. UNCHANGED << stored, keyed >>
  BY DEF QueueStep, Elapse, TakeJob, Unlock, Expire, Crash, vars, tokens, queue
<1>3. keyed # NoJob => job'[keyed] # "none"
  <2> SUFFICES ASSUME keyed \in Jobs, job[keyed] # "none"
               PROVE  job'[keyed] # "none"
    BY <1>1 DEF KeyInv, KeyAgrees
  <2>1. job \in [Jobs -> JobStates]
    BY DEF KeyInv, LocksInv, TypeOK, JobStates
  <2>2. CASE \E j \in Jobs : QueueStep(j)
    BY <2>1, <2>2 DEF QueueStep, Elapse, TakeJob, Unlock
  <2>3. CASE Expire \/ UNCHANGED vars
    BY <2>3 DEF Expire, vars, queue
  <2>4. CASE Crash
    BY <2>4 DEF Crash
  <2> QED
    BY <2>2, <2>3, <2>4
<1>4. refresh' # "expired" => refresh # "expired"
  BY DEF QueueStep, Elapse, TakeJob, Unlock, Expire, Crash, vars, tokens
<1>5. /\ unscheduled => unscheduled'
      /\ \A p \in Procs : pc[p] = "schedule" => pc'[p] = "schedule" \/ unscheduled'
      /\ \A j \in Jobs : pc'[j] = "end" => pc[j] = "end"
  <2>1. ASSUME NEW j \in Jobs, TakeJob(j)
        PROVE  /\ unscheduled => unscheduled'
               /\ \A p \in Procs : pc[p] = "schedule" => pc'[p] = "schedule" \/ unscheduled'
               /\ \A k \in Jobs : pc'[k] = "end" => pc[k] = "end"
    <3>1. /\ unscheduled' = unscheduled /\ pc[j] = "idle" /\ pc'[j] = "lock"
          /\ \A q \in Procs : q # j => pc'[q] = pc[q]
      BY <2>1 DEF TakeJob, history, KeyInv, LocksInv, TypeOK, LocksAgree
    <3> QED
      BY <3>1
  <2>2. CASE (\E j \in Jobs : Elapse(j) \/ Unlock(j)) \/ Expire \/ UNCHANGED vars
    BY <2>2 DEF Elapse, Unlock, Expire, vars, history
  <2>3. CASE Crash
    BY <2>3 DEF Crash
  <2> QED
    BY <2>1, <2>2, <2>3 DEF QueueStep
<1>6. KeyAgrees' /\ TokensHaveKey'
  BY <1>1, <1>2, <1>3, <1>4, <1>5, KeyFrame
<1> QED
  BY <1>6 DEF KeyInv

LEMMA KeyStep == KeyInv /\ [Next]_vars => KeyInv'
<1> SUFFICES ASSUME KeyInv, [Next]_vars PROVE KeyInv'
  OBVIOUS
<1>1. LocksInv'
  BY LocksStep DEF KeyInv
<1>2. CASE (\E j \in Jobs : QueueStep(j)) \/ Expire \/ Crash \/ UNCHANGED vars
  BY <1>1, <1>2, OtherKey
<1>3. CASE \E p \in Procs : Schedule(p) \/ Ends(p)
  BY <1>1, <1>3, ScheduleKey, EndKey
<1>4. ASSUME NEW p \in Procs,
             \/ p \in Requests /\ Begin(p)
             \/ Lock(p) \/ Read(p) \/ Refresh(p) \/ Store(p)
             \/ p \in Logins /\ (Exchange(p) \/ FindUser(p))
      PROVE  KeyInv'
  BY <1>1, <1>4, OnwardsKey
<1> QED
  BY <1>2, <1>3, <1>4, NextCases

LEMMA InitKey == Init => KeyInv
<1> SUFFICES ASSUME Init PROVE KeyAgrees /\ TokensHaveKey
  BY InitLocks DEF KeyInv
<1>1. \A j \in Jobs : pc[j] = "idle"
  BY Disjoint DEF Init
<1> QED
  BY <1>1, Disjoint DEF Init, KeyAgrees, TokensHaveKey

LEMMA KeyInvariance == Spec => []KeyInv
  BY InitKey, KeyStep, PTL DEF Spec

-----------------------------------------------------------------------------
(* The theorems.                                                           *)

\* The rows of users, forge_access_tokens and the queue, and the handlers'
\* variables, keep their types; and so do the attempts their limit.
THEOREM TypeCorrect == Spec => []TypeOK
<1>1. LocksInv => TypeOK
  BY DEF LocksInv
<1> QED
  BY <1>1, LocksInvariance, PTL

\* userTokenMutexes: getForgeWithUser and the job of the queue are never both
\* between reading the user's tokens and scheduling the refresh of the new ones.
THEOREM OneRefreshAtATime ==
    Spec => [](\A p, q \in Requests \cup Jobs :
                   pc[p] \in Locked /\ pc[q] \in Locked => p = q)
<1>1. LocksInv => \A p, q \in Requests \cup Jobs : pc[p] \in Locked /\ pc[q] \in Locked => p = q
  BY LockedAlone
<1> QED
  BY <1>1, LocksInvariance, PTL

\* "Lock the user's tokens so that e.g. the background job doesn't refresh
\* concurrently with us": while no login is storing its own, the stored refresh
\* token is the one the forge takes next, unless a token was lost or a login
\* overlapped a refresh or another login.
THEOREM StoredTokenIsGood == Spec => []StoredIsGood
<1>1. TokensInv => StoredIsGood
  BY DEF TokensInv
<1> QED
  BY <1>1, TokensInvariance, PTL

\* For the same reason refreshAccessToken is never called with a token that
\* another request or the job has used already.
THEOREM NobodyIsTurnedAway == Spec => NoneTurnedAway
<1>1. TokensInv /\ [Next]_vars => [\A p \in Procs : Refused(p) => spoiled]_vars
  <2> SUFFICES ASSUME TokensInv, NEW p \in Procs, Refused(p), ~spoiled
               PROVE  FALSE
    OBVIOUS
  <2>1. pc[p] = "refresh" /\ token[p] # issued
    BY DEF Refused
  <2>2. p \in Requests \cup Jobs
    BY <2>1 DEF TokensInv, LocksInv, KindsAgree, Procs
  <2>3. Active(p)
    BY <2>1, <2>2 DEF Active, Refreshing
  <2> QED
    BY <2>1, <2>3 DEF TokensInv, ActiveIsGood
<1> QED
  BY <1>1, TokensInvariance, PTL DEF Spec, NoneTurnedAway

\* updateTokens and getOrCreateUser: tokens once stored are never lost, and those
\* that replace them are the ones the forge issued last and newer than they were,
\* never a stale answer, unless a token was lost or a login overlapped a refresh or
\* another login.
THEOREM TokensGoForward ==
    Spec => [][ stored' # stored =>
                    /\ stored' # NoToken
                    /\ ~spoiled => stored' = issued /\ stored < stored' ]_vars
<1>1. OrderInv /\ [Next]_vars =>
          [ stored' # stored =>
                /\ stored' # NoToken
                /\ ~spoiled => stored' = issued /\ stored < stored' ]_vars
  <2> SUFFICES ASSUME OrderInv, [Next]_vars, stored' # stored
               PROVE  /\ stored' # NoToken
                      /\ ~spoiled => stored' = issued /\ stored < stored'
    OBVIOUS
  <2>1. PICK p \in Procs : Store(p) \/ StoreAckLost(p)
    <3>1. ASSUME NEW p \in Procs, Ends(p)
          PROVE  StoreAckLost(p)
      BY <3>1 DEF Ends, ReadSuffices, ReadFails, Refused, RefreshFails, StoreFails,
                  ScheduleFails, End, UserTaken, LoginFails, tokens
    <3>2. ASSUME NEW p \in Procs,
                 \/ Begin(p) \/ Lock(p) \/ Read(p) \/ Refresh(p) \/ Store(p)
                 \/ Exchange(p) \/ FindUser(p) \/ Schedule(p)
          PROVE  Store(p)
      BY <3>2 DEF Begin, Lock, Read, Refresh, Exchange, FindUser, Schedule, tokens
    <3>3. ~(\E j \in Jobs : QueueStep(j)) /\ ~Expire /\ ~Crash /\ ~UNCHANGED vars
      BY DEF QueueStep, Elapse, TakeJob, Unlock, Expire, Crash, vars, tokens
    <3> QED
      BY <3>1, <3>2, <3>3, NextCases
  <2>2. pc[p] = "store" /\ stored' = token[p]
    BY <2>1 DEF Store, StoreAckLost, StoreTokens, Goto
  <2>3. HasToken(p) /\ HasNew(p) /\ Active(p)
    BY <2>2, NewIsActive DEF HasToken, HasNew, OrderInv, TokensInv
  <2> QED
    BY <2>2, <2>3 DEF OrderInv, TokensInv, TokensAreReal, NewIsNewer, ActiveIsGood
<1> QED
  BY <1>1, OrderInvariance, PTL DEF Spec

\* scheduleRefreshTokenJob: tokens that have not expired have a row in the queue
\* under the user's job_key that a worker will look at, or whose attempts are used
\* up, unless it could not be written; however many logins, requests and jobs
\* schedule one in any order, and whichever of them crash or throw.
THEOREM RefreshIsScheduled == Spec => []RefreshScheduled
<1>1. KeyInv => RefreshScheduled
  <2> SUFFICES ASSUME KeyInv,
                      /\ stored # NoToken /\ refresh # "expired" /\ ~unscheduled
                      /\ \A p \in Procs : pc[p] # "schedule"
               PROVE  keyed # NoJob /\ (Live(keyed) \/ attempts[keyed] = MaxAttempts)
    BY DEF RefreshScheduled
  <2>1. keyed # NoJob
    BY DEF KeyInv, TokensHaveKey
  <2>2. keyed \in Jobs /\ job[keyed] # "none"
    BY <2>1 DEF KeyInv, KeyAgrees, LocksInv, TypeOK
  <2> QED
    BY <2>1, <2>2, RowsAreLooked DEF KeyInv, LocksInv
<1> QED
  BY <1>1, KeyInvariance, PTL
=============================================================================
