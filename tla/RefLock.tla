------------------------------- MODULE RefLock -------------------------------
(***************************************************************************)
(* The per-ref lock of protocol/push.rs: the object <ref>/LOCK#.lock,      *)
(* taken with put_if_absent, kept fresh by a heartbeat task that re-PUTs   *)
(* it, recovered by any client that finds it older than the TTL, and       *)
(* deleted on release.  The object's body is empty: nothing in the store   *)
(* says WHO holds the lock, and every DELETE is unconditional.             *)
(*                                                                         *)
(* Time is kept in relative timers, so that the state space is finite and  *)
(* liveness can be checked.  Tick advances all of them by one second; it   *)
(* waits for whatever the timing assumptions say cannot take longer.       *)
(***************************************************************************)
EXTENDS Integers, FiniteSets

CONSTANTS Clients,      \* processes that push, delete, compact or protect
          TTL,          \* lock_ttl_from_env(), in seconds
          Latency,      \* longest time a live client's store request takes
          MaxSkew,      \* clock difference between a client and the store
          MaxLag,       \* bound: time from reading `now` to the end of acquire
          JoinTimeout,  \* HEARTBEAT_JOIN_TIMEOUT
          MaxMisses,    \* consecutive heartbeat PUTs that may fail
          MaxGhosts,    \* bound: detached heartbeat PUTs in the network
          MaxFaults     \* bound: crashes, failed requests, aborted joins

\* Heartbeat period: a third of the TTL, at least one second.
heartbeat_interval(ttl) == (IF ttl > 3 THEN ttl ELSE 3) \div 3

Interval == heartbeat_interval(TTL)

\* lock_ttl_from_env never yields zero; the other constants are durations.
ASSUME ConstantsAssumption ==
  /\ TTL \in Nat \ {0}
  /\ Latency \in Nat /\ MaxSkew \in Nat /\ MaxLag \in Nat
  /\ JoinTimeout \in Nat /\ MaxMisses \in Nat
  /\ MaxGhosts \in Nat /\ MaxFaults \in Nat

\* What the choice of ttl/3 is meant to leave room for: MaxMisses lost
\* refreshes, the acquisition's response, a slow PUT, the release's DELETE
\* and the clock skew.
ASSUME TimingAssumption ==
  /\ Latency <= Interval
  /\ (MaxMisses + 1) * Interval + 3 * Latency + MaxSkew <= TTL

VARIABLES lock,    \* "present" or "absent": the LOCK#.lock object
          age,     \* seconds since its last_modified, saturating at AgeCap
          pc,      \* where each client is in acquire / work / release
          lag,     \* seconds since the client read `now` (its skew included)
          rtt,     \* seconds the client's current release or acquire step took
          hb,      \* heartbeat task: "off", "sleep" or "inflight"
          hbWait,  \* seconds since the heartbeat's last tick
          misses,  \* consecutive failed refreshes
          ghosts,  \* detached heartbeat PUTs that may still reach the store
          doctor,  \* doctor --delete-stale-locks: "idle" "listed" "recheck" "delete"
          docAge,  \* age of the last_modified the doctor listed, saturating
          faults   \* faults so far

vars == <<lock, age, pc, lag, rtt, hb, hbWait, misses, ghosts, doctor, docAge, faults>>

AgeCap == TTL + MaxLag + MaxSkew + 1

Acquiring == {"put", "head", "steal", "retry"}
Owning    == {"won", "held", "releasing", "deleting"}

Skew == (0 - MaxSkew)..MaxSkew

\* Type invariant; the heartbeat task exists exactly while a LockGuard does.
TypeOK ==
  /\ lock \in {"present", "absent"}
  /\ age \in 0..AgeCap
  /\ pc \in [Clients -> {"idle"} \cup Acquiring \cup Owning]
  /\ lag \in [Clients -> (0 - MaxSkew)..(MaxLag + MaxSkew)]
  /\ rtt \in [Clients -> Nat]
  /\ hb \in [Clients -> {"off", "sleep", "inflight"}]
  /\ hbWait \in [Clients -> 0..Interval]
  /\ misses \in [Clients -> 0..MaxMisses]
  /\ \A c \in Clients : hb[c] # "off" <=> pc[c] \in {"held", "releasing"}
  /\ ghosts \in 0..MaxGhosts
  /\ doctor \in {"idle", "listed", "recheck", "delete"}
  /\ docAge \in 0..AgeCap
  /\ faults \in 0..MaxFaults

Init ==
  /\ lock = "absent" /\ age = 0
  /\ pc = [c \in Clients |-> "idle"]
  /\ lag = [c \in Clients |-> 0]
  /\ rtt = [c \in Clients |-> 0]
  /\ hb = [c \in Clients |-> "off"]
  /\ hbWait = [c \in Clients |-> 0]
  /\ misses = [c \in Clients |-> 0]
  /\ ghosts = 0
  /\ doctor = "idle" /\ docAge = 0
  /\ faults = 0

-----------------------------------------------------------------------------
(* acquire_lock.                                                           *)

\* The client's next step; the timers of the step it leaves are dropped.
Goto(c, label) ==
  /\ pc' = [pc EXCEPT ![c] = label]
  /\ rtt' = [rtt EXCEPT ![c] = 0]
  /\ lag' = [lag EXCEPT ![c] = IF label \in Acquiring THEN @ ELSE 0]

Fault == faults < MaxFaults /\ faults' = faults + 1

\* push_batch reads `now` before the push is prepared; the client's clock
\* may differ from the store's by up to MaxSkew.
Start(c) ==
  /\ pc[c] = "idle"
  /\ \E s \in Skew : lag' = [lag EXCEPT ![c] = s]
  /\ pc' = [pc EXCEPT ![c] = "put"]
  /\ UNCHANGED <<lock, age, rtt, hb, hbWait, misses, ghosts, doctor, docAge, faults>>

\* put_if_absent on the lock key.  The store applies it now; the response
\* reaches a winner up to Latency later (Spawn).
PutIfAbsent(c, from, contended) ==
  /\ pc[c] = from
  /\ IF lock = "absent"
     THEN /\ lock' = "present" /\ age' = 0
          /\ Goto(c, "won")
     ELSE /\ Goto(c, contended)
          /\ UNCHANGED <<lock, age>>
  /\ UNCHANGED <<hb, hbWait, misses, ghosts, doctor, docAge, faults>>

Acquire(c) == PutIfAbsent(c, "put", "head")

\* age = now - last_modified, with the `now` read by Start.
StaleFor(c) == age - lag[c] > TTL

\* Mutant: a lock that exists is always contention (no stale recovery).
HeadNoRecovery(c) ==
  /\ pc[c] = "head"
  /\ Goto(c, "idle")
  /\ UNCHANGED <<lock, age, hb, hbWait, misses, ghosts, doctor, docAge, faults>>

\* HEAD after a lost put_if_absent: vanished or fresh is contention (None),
\* older than the TTL starts the recovery.
Head(c) ==
  /\ pc[c] = "head"
  /\ Goto(c, IF lock = "present" /\ StaleFor(c) THEN "steal" ELSE "idle")
  /\ UNCHANGED <<lock, age, hb, hbWait, misses, ghosts, doctor, docAge, faults>>

\* delete_idempotent of the lock judged stale: unconditional, so it removes
\* whatever is there by now.
StaleDelete(c) ==
  /\ pc[c] = "steal"
  /\ lock' = "absent" /\ age' = 0
  /\ Goto(c, "retry")
  /\ UNCHANGED <<hb, hbWait, misses, ghosts, doctor, docAge, faults>>

Retry(c) == PutIfAbsent(c, "retry", "idle")

\* spawn_lock_guard: the response arrived, the heartbeat task starts.
Spawn(c) ==
  /\ pc[c] = "won"
  /\ Goto(c, "held")
  /\ hb' = [hb EXCEPT ![c] = "sleep"]
  /\ hbWait' = [hbWait EXCEPT ![c] = 0]
  /\ misses' = [misses EXCEPT ![c] = 0]
  /\ UNCHANGED <<lock, age, ghosts, doctor, docAge, faults>>

-----------------------------------------------------------------------------
(* The heartbeat task of spawn_lock_guard.                                 *)

\* A tick.  select! is biased towards shutdown and the flag is read again
\* before the PUT: none is sent once the release has begun.
HbTick(c) ==
  /\ pc[c] = "held"
  /\ hb[c] = "sleep"
  /\ hbWait[c] = Interval
  /\ hb' = [hb EXCEPT ![c] = "inflight"]
  /\ hbWait' = [hbWait EXCEPT ![c] = 0]
  /\ UNCHANGED <<lock, age, pc, lag, rtt, misses, ghosts, doctor, docAge, faults>>

\* Mutant: the refresh is a put_if_absent, which leaves last_modified alone.
HbLandIfAbsent(c) ==
  /\ hb[c] = "inflight"
  /\ lock' = "present"
  /\ age' = IF lock = "present" THEN age ELSE 0
  /\ hb' = [hb EXCEPT ![c] = "sleep"]
  /\ misses' = [misses EXCEPT ![c] = 0]
  /\ UNCHANGED <<pc, lag, rtt, hbWait, ghosts, doctor, docAge, faults>>

\* put_bytes is unconditional: it refreshes the key, or creates it.
HbLand(c) ==
  /\ hb[c] = "inflight"
  /\ lock' = "present" /\ age' = 0
  /\ hb' = [hb EXCEPT ![c] = "sleep"]
  /\ misses' = [misses EXCEPT ![c] = 0]
  /\ UNCHANGED <<pc, lag, rtt, hbWait, ghosts, doctor, docAge, faults>>

\* A failed refresh is logged and left to the next tick.
HbFail(c) ==
  /\ hb[c] = "inflight"
  /\ misses[c] < MaxMisses
  /\ hb' = [hb EXCEPT ![c] = "sleep"]
  /\ misses' = [misses EXCEPT ![c] = @ + 1]
  /\ UNCHANGED <<lock, age, pc, lag, rtt, hbWait, ghosts, doctor, docAge, faults>>

-----------------------------------------------------------------------------
(* LockGuard::release, Drop, and failing requests.                         *)

\* The critical section is over: shutdown is signalled.
BeginRelease(c) ==
  /\ pc[c] = "held"
  /\ Goto(c, "releasing")
  /\ UNCHANGED <<lock, age, hb, hbWait, misses, ghosts, doctor, docAge, faults>>

StopHeartbeat(c) ==
  /\ hb' = [hb EXCEPT ![c] = "off"]
  /\ hbWait' = [hbWait EXCEPT ![c] = 0]
  /\ misses' = [misses EXCEPT ![c] = 0]

\* Mutant: release sends shutdown and deletes without awaiting the task.
JoinNotAwaited(c) ==
  /\ pc[c] = "releasing"
  /\ IF hb[c] = "inflight" /\ ghosts < MaxGhosts
     THEN ghosts' = ghosts + 1
     ELSE UNCHANGED ghosts
  /\ Goto(c, "deleting")
  /\ StopHeartbeat(c)
  /\ UNCHANGED <<lock, age, doctor, docAge, faults>>

\* Mutant: the release goes on to its DELETE and leaves the task running.
JoinForgotten(c) ==
  /\ pc[c] = "releasing"
  /\ hb[c] = "sleep"
  /\ Goto(c, "deleting")
  /\ UNCHANGED <<lock, age, hb, hbWait, misses, ghosts, doctor, docAge, faults>>

\* The heartbeat task has exited: any PUT it had in flight has settled.
Join(c) ==
  /\ pc[c] = "releasing"
  /\ hb[c] = "sleep"
  /\ Goto(c, "deleting")
  /\ StopHeartbeat(c)
  /\ UNCHANGED <<lock, age, ghosts, doctor, docAge, faults>>

\* An in-flight heartbeat PUT that nobody awaits any more stays in the network.
Detach(c) ==
  IF hb[c] = "inflight"
  THEN ghosts < MaxGhosts /\ ghosts' = ghosts + 1
  ELSE UNCHANGED ghosts

\* The join timed out: abort() drops the task, not the request on the wire.
AbortJoin(c) ==
  /\ pc[c] = "releasing"
  /\ hb[c] = "inflight"
  /\ rtt[c] >= JoinTimeout
  /\ Fault
  /\ Detach(c)
  /\ Goto(c, "deleting")
  /\ StopHeartbeat(c)
  /\ UNCHANGED <<lock, age, doctor, docAge>>

\* delete_idempotent of the lock key, whoever it belongs to by now.
ReleaseDelete(c) ==
  /\ pc[c] = "deleting"
  /\ lock' = "absent" /\ age' = 0
  /\ Goto(c, "idle")
  /\ UNCHANGED <<hb, hbWait, misses, ghosts, doctor, docAge, faults>>

\* The guard is dropped without a release, or the process dies.
Crash(c) ==
  /\ pc[c] # "idle"
  /\ Fault
  /\ Detach(c)
  /\ Goto(c, "idle")
  /\ StopHeartbeat(c)
  /\ UNCHANGED <<lock, age, doctor, docAge>>

\* A put_if_absent answered with an error, although the store may have
\* applied it: acquire_lock returns the error, no guard exists.
PutFails(c) ==
  /\ pc[c] \in {"put", "retry"}
  /\ Fault
  /\ \/ lock = "absent" /\ lock' = "present" /\ age' = 0
     \/ UNCHANGED <<lock, age>>
  /\ Goto(c, "idle")
  /\ UNCHANGED <<hb, hbWait, misses, ghosts, doctor, docAge>>

\* A HEAD, or a DELETE (of a stale lock, or on release), answered with an error.
RequestFails(c) ==
  /\ pc[c] \in {"head", "steal", "deleting"}
  /\ Fault
  /\ \/ pc[c] # "head" /\ lock' = "absent" /\ age' = 0
     \/ UNCHANGED <<lock, age>>
  /\ Goto(c, "idle")
  /\ UNCHANGED <<hb, hbWait, misses, ghosts, doctor, docAge>>

\* A detached PUT reaches the store after all, or is lost.
GhostLand ==
  /\ ghosts > 0
  /\ ghosts' = ghosts - 1
  /\ \/ lock' = "present" /\ age' = 0
     \/ UNCHANGED <<lock, age>>
  /\ UNCHANGED <<pc, lag, rtt, hb, hbWait, misses, doctor, docAge, faults>>

-----------------------------------------------------------------------------
(* doctor --delete-stale-locks (manage/doctor.rs), which takes no lock.    *)

DoctorList ==
  /\ doctor = "idle"
  /\ lock = "present"
  /\ doctor' = "listed" /\ docAge' = age
  /\ UNCHANGED <<lock, age, pc, lag, rtt, hb, hbWait, misses, ghosts, faults>>

\* scan_stale_locks_at, with the `now` of the scan: prompts may have kept
\* the doctor waiting since the listing.
DoctorScan ==
  /\ doctor = "listed"
  /\ \E s \in Skew : doctor' = IF docAge + s > TTL THEN "recheck" ELSE "idle"
  /\ docAge' = 0
  /\ UNCHANGED <<lock, age, pc, lag, rtt, hb, hbWait, misses, ghosts, faults>>

\* Mutant: the doctor deletes what its old listing showed as stale.
DoctorNoRecheck ==
  /\ doctor = "recheck"
  /\ doctor' = "delete"
  /\ UNCHANGED <<lock, age, pc, lag, rtt, hb, hbWait, misses, ghosts, docAge, faults>>

\* The fresh HEAD of delete_stale_lock_if_still_stale.
DoctorRecheck ==
  /\ doctor = "recheck"
  /\ \E s \in Skew :
       doctor' = IF lock = "present" /\ age + s > TTL THEN "delete" ELSE "idle"
  /\ UNCHANGED <<lock, age, pc, lag, rtt, hb, hbWait, misses, ghosts, docAge, faults>>

\* ... and its unconditional DELETE, which may fail and is then only reported.
DoctorDelete ==
  /\ doctor = "delete"
  /\ doctor' = "idle"
  /\ \/ lock' = "absent" /\ age' = 0
     \/ UNCHANGED <<lock, age>>
  /\ UNCHANGED <<pc, lag, rtt, hb, hbWait, misses, ghosts, docAge, faults>>

-----------------------------------------------------------------------------
(* Time.                                                                   *)

\* What happens before the next second: a response or a heartbeat PUT that
\* has taken Latency, a heartbeat tick that is due, the join of a task that
\* has nothing in flight, and the end of an acquisition that took MaxLag.
Urgent(c) ==
  \/ pc[c] \in {"won", "deleting"} /\ rtt[c] >= Latency
  \/ hb[c] = "inflight" /\ hbWait[c] >= Latency
  \/ hb[c] = "sleep" /\ (hbWait[c] >= Interval \/ pc[c] = "releasing")
  \/ pc[c] \in Acquiring /\ lag[c] >= MaxLag

Saturate(n) == IF n < AgeCap THEN n + 1 ELSE n

Tick ==
  /\ \A c \in Clients : ~Urgent(c)
  /\ age' = IF lock = "present" THEN Saturate(age) ELSE age
  /\ docAge' = IF doctor = "listed" THEN Saturate(docAge) ELSE docAge
  /\ lag' = [c \in Clients |-> IF pc[c] \in Acquiring THEN lag[c] + 1 ELSE lag[c]]
  /\ rtt' = [c \in Clients |-> IF pc[c] \in {"won", "releasing", "deleting"}
                               THEN rtt[c] + 1 ELSE rtt[c]]
  /\ hbWait' = [c \in Clients |-> IF hb[c] # "off" THEN hbWait[c] + 1 ELSE hbWait[c]]
  /\ UNCHANGED <<lock, pc, hb, misses, ghosts, doctor, faults>>

-----------------------------------------------------------------------------

\* One step of acquire_lock, of the heartbeat task, or of a release.
ClientStep(c) ==
  \/ Acquire(c) \/ Head(c) \/ StaleDelete(c) \/ Retry(c) \/ Spawn(c)
  \/ HbTick(c) \/ HbLand(c) \/ HbFail(c)
  \/ BeginRelease(c) \/ Join(c) \/ ReleaseDelete(c)

Faulty(c) == AbortJoin(c) \/ Crash(c) \/ PutFails(c) \/ RequestFails(c)

DoctorStep == DoctorList \/ DoctorScan \/ DoctorRecheck \/ DoctorDelete

Next ==
  \/ \E c \in Clients : Start(c) \/ ClientStep(c) \/ Faulty(c)
  \/ GhostLand
  \/ DoctorStep
  \/ Tick

Spec == Init /\ [][Next]_vars

\* Time passes, the runtime schedules every ready task, and the user whose
\* push met contention runs it again (the error message asks for it).
Fairness ==
  /\ WF_vars(Tick)
  /\ \A c \in Clients :
       /\ WF_vars(Start(c))
       /\ WF_vars(Acquire(c) \/ Head(c) \/ StaleDelete(c) \/ Retry(c) \/ Spawn(c))
       /\ WF_vars(HbTick(c) \/ HbLand(c) \/ HbFail(c))
       /\ WF_vars(BeginRelease(c) \/ Join(c) \/ ReleaseDelete(c))

FairSpec == Spec /\ Fairness

-----------------------------------------------------------------------------
(* The inductive invariant behind the properties.                          *)

\* Requests of live clients and heartbeat PUTs settle within Latency.
Timely(c) ==
  /\ pc[c] \in {"won", "deleting"} => rtt[c] <= Latency
  /\ hb[c] = "inflight" => hbWait[c] <= Latency

\* How old the lock object can be while c owns it: c's last write to it was
\* its acquisition or its last refresh, and nobody can have made it older.
Fresh(c) ==
  /\ pc[c] = "won" => age <= rtt[c]
  /\ hb[c] = "sleep" => age <= Latency + misses[c] * Interval + hbWait[c]
  /\ hb[c] = "inflight" => age <= Latency + (misses[c] + 1) * Interval + hbWait[c]
  /\ pc[c] = "deleting" => age <= (MaxMisses + 1) * Interval + 2 * Latency + rtt[c]

\* A client that owns the lock is timely and the object, if there, is fresh;
\* this holds whatever the others do, two owners at once included.
LeaseInv == \A c \in Clients : Timely(c) /\ (lock = "present" => Fresh(c))

-----------------------------------------------------------------------------
(* Properties.                                                             *)

\* Between the store applying the acquisition and the release's DELETE.
Owner(c) == pc[c] \in Owning

\* Mutual exclusion of acquire_lock for as long as nothing has failed: no
\* guard was dropped, no lock request failed, no heartbeat join timed out.
\* Slow responses, MaxMisses lost refreshes, clock skew and a concurrent
\* doctor --delete-stale-locks are all allowed.
MutexUntilFault ==
  faults = 0 => \A c, d \in Clients : Owner(c) /\ Owner(d) => c = d

\* LockGuard::release awaits the heartbeat before its DELETE (issue #150), so
\* that without a fault the key never outlives its holder as an orphan, and
\* no holder works without its key in the store.
NoOrphanUntilFault ==
  faults = 0 => (lock = "present" <=> \E c \in Clients : Owner(c))

\* The heartbeat of spawn_lock_guard keeps the staleness check of acquire_lock
\* and of the doctor away from a live client (issue #118): whatever faults
\* other clients met, and even if two clients hold the lock, no step judges
\* the lock stale while some client that owns it is alive.
NoLiveLockJudgedStale ==
  [][ \/ \E c \in Clients : pc[c] = "head" /\ pc'[c] = "steal"
      \/ doctor = "recheck" /\ doctor' = "delete"
      => \A c \in Clients : ~Owner(c) ]_vars

\* The lock a dead client left behind does not block its ref for ever: the
\* stale recovery of acquire_lock frees it or hands it to a live client.
DeadLockReclaimed ==
  lock = "present" /\ (\A c \in Clients : ~Owner(c))
    ~> lock = "absent" \/ \E c \in Clients : Owner(c)
=============================================================================
