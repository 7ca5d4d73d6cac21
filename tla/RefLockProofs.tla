---------------------------- MODULE RefLockProofs ----------------------------
(***************************************************************************)
(* Proofs about RefLock, for every set of clients and every value of the   *)
(* timing constants that satisfies TimingAssumption.                       *)
(***************************************************************************)
EXTENDS RefLock, TLAPS

\* heartbeat_interval yields whole seconds, never zero.
LEMMA IntervalType == Interval \in Nat /\ Interval >= 1
  BY ConstantsAssumption DEF Interval, heartbeat_interval

\* The cap on modelled ages lies above the TTL, so that it hides no verdict.
LEMMA CapType == AgeCap \in Nat /\ TTL < AgeCap
  BY ConstantsAssumption DEF AgeCap

\* The type invariant of the lock protocol is preserved by every step of a
\* client, its heartbeat task, the doctor, the network and the clock.
THEOREM TypeCorrect == Spec => []TypeOK
<1> USE ConstantsAssumption, IntervalType, CapType
<1>1. Init => TypeOK
  BY DEF Init, TypeOK, Acquiring, Owning
<1>2. TypeOK /\ [Next]_vars => TypeOK'
  <2> SUFFICES ASSUME TypeOK, [Next]_vars PROVE TypeOK'
    OBVIOUS
  <2> USE DEF TypeOK, Acquiring, Owning
  <2>1. ASSUME NEW c \in Clients, Start(c) PROVE TypeOK'
    BY <2>1 DEF Start, Skew
  <2>2. ASSUME NEW c \in Clients, Acquire(c) PROVE TypeOK'
    BY <2>2 DEF Acquire, PutIfAbsent, Goto
  <2>3. ASSUME NEW c \in Clients, Head(c) PROVE TypeOK'
    BY <2>3 DEF Head, Goto
  <2>4. ASSUME NEW c \in Clients, StaleDelete(c) PROVE TypeOK'
    BY <2>4 DEF StaleDelete, Goto
  <2>5. ASSUME NEW c \in Clients, Retry(c) PROVE TypeOK'
    BY <2>5 DEF Retry, PutIfAbsent, Goto
  <2>6. ASSUME NEW c \in Clients, Spawn(c) PROVE TypeOK'
    BY <2>6 DEF Spawn, Goto
  <2>7. ASSUME NEW c \in Clients, HbTick(c) PROVE TypeOK'
    BY <2>7 DEF HbTick
  <2>8. ASSUME NEW c \in Clients, HbLand(c) PROVE TypeOK'
    BY <2>8 DEF HbLand
  <2>9. ASSUME NEW c \in Clients, HbFail(c) PROVE TypeOK'
    BY <2>9 DEF HbFail
  <2>10. ASSUME NEW c \in Clients, BeginRelease(c) PROVE TypeOK'
    BY <2>10 DEF BeginRelease, Goto
  <2>11. ASSUME NEW c \in Clients, Join(c) PROVE TypeOK'
    BY <2>11 DEF Join, Goto, StopHeartbeat
  <2>12. ASSUME NEW c \in Clients, ReleaseDelete(c) PROVE TypeOK'
    BY <2>12 DEF ReleaseDelete, Goto
  <2>13. ASSUME NEW c \in Clients, AbortJoin(c) PROVE TypeOK'
    BY <2>13 DEF AbortJoin, Goto, StopHeartbeat, Detach, Fault
  <2>14. ASSUME NEW c \in Clients, Crash(c) PROVE TypeOK'
    BY <2>14 DEF Crash, Goto, StopHeartbeat, Detach, Fault
  <2>15. ASSUME NEW c \in Clients, PutFails(c) PROVE TypeOK'
    BY <2>15 DEF PutFails, Goto, Fault
  <2>16. ASSUME NEW c \in Clients, RequestFails(c) PROVE TypeOK'
    BY <2>16 DEF RequestFails, Goto, Fault
  <2>17. CASE GhostLand
    BY <2>17 DEF GhostLand
  <2>18. CASE DoctorStep
    BY <2>18 DEF DoctorStep, DoctorList, DoctorScan, DoctorRecheck, DoctorDelete
  <2>19. CASE Tick
    BY <2>19, TimingAssumption DEF Tick, Urgent, Saturate
  <2>20. CASE UNCHANGED vars
    BY <2>20 DEF vars
  <2>21. QED
    BY <2>1, <2>2, <2>3, <2>4, <2>5, <2>6, <2>7, <2>8, <2>9, <2>10, <2>11,
       <2>12, <2>13, <2>14, <2>15, <2>16, <2>17, <2>18, <2>19, <2>20
       DEF Next, ClientStep, Faulty
<1>3. QED
  BY <1>1, <1>2, PTL DEF Spec

-----------------------------------------------------------------------------

\* The products of Fresh, stated so that linear arithmetic can use them.
LEMMA Products ==
  ASSUME NEW m \in 0..MaxMisses
  PROVE  /\ m * Interval \in Nat
         /\ (m + 1) * Interval \in Nat
         /\ (m + 1) * Interval = m * Interval + Interval
         /\ (m + 1) * Interval <= (MaxMisses + 1) * Interval
         /\ (MaxMisses + 1) * Interval \in Nat
<1> USE ConstantsAssumption, IntervalType
<1>1. \A a, b \in Nat : a * b \in Nat
  OBVIOUS
<1>2. \A a, b \in Nat : (a + 1) * b = a * b + b
  OBVIOUS
<1>3. \A a, b, i \in Nat : a <= b => a * i <= b * i
  <2> SUFFICES ASSUME NEW a \in Nat, NEW b \in Nat, NEW i \in Nat, a <= b
               PROVE  a * i <= b * i
    OBVIOUS
  <2>1. PICK k \in Nat : b = a + k
    <3>1. b - a \in Nat /\ b = a + (b - a)
      OBVIOUS
    <3>2. QED
      BY <3>1
  <2>2. b * i = a * i + k * i
    BY <2>1
  <2>3. QED
    BY <2>2, <1>1
<1>4. QED
  BY <1>1, <1>2, <1>3

\* Timely and Fresh of a client the step leaves alone, when the object is not
\* made older.
LEMMA FreshFrame ==
  ASSUME TypeOK, TypeOK', LeaseInv, NEW d \in Clients,
         pc'[d] = pc[d], hb'[d] = hb[d],
         rtt'[d] = rtt[d], hbWait'[d] = hbWait[d], misses'[d] = misses[d],
         \/ lock' = "absent"
         \/ age' = 0
         \/ lock' = lock /\ age' = age
  PROVE  Timely(d)' /\ (lock' = "present" => Fresh(d)')
<1>1. misses[d] \in 0..MaxMisses
  BY DEF TypeOK
<1>2. Timely(d)'
  BY DEF Timely, LeaseInv
<1>3. ASSUME lock' = "present", age' = 0 PROVE Fresh(d)'
  BY <1>3, <1>1, Products, ConstantsAssumption, IntervalType DEF TypeOK, Fresh
<1>4. ASSUME lock' = "present", lock' = lock, age' = age PROVE Fresh(d)'
  BY <1>4 DEF Fresh, LeaseInv
<1>5. QED
  BY <1>2, <1>3, <1>4 DEF TypeOK

\* One step keeps every live owner's lock fresh: the heartbeat period and the
\* latencies add up, whatever other clients, dead or alive, do to the object.
LEMMA LeaseStep == TypeOK /\ TypeOK' /\ LeaseInv /\ [Next]_vars => LeaseInv'
<1> SUFFICES ASSUME TypeOK, TypeOK', LeaseInv, [Next]_vars, NEW d \in Clients
             PROVE  Timely(d)' /\ (lock' = "present" => Fresh(d)')
  BY DEF LeaseInv
<1> USE ConstantsAssumption, TimingAssumption, IntervalType
<1>m. misses[d] \in 0..MaxMisses
  BY DEF TypeOK
<1>1. ASSUME NEW c \in Clients, Start(c) PROVE Timely(d)' /\ (lock' = "present" => Fresh(d)')
  BY <1>1 DEF Start, LeaseInv, Timely, Fresh, TypeOK
<1>2. ASSUME NEW c \in Clients, NEW from, NEW contended,
             PutIfAbsent(c, from, contended), contended \in {"head", "idle"},
             from \in {"put", "retry"}
      PROVE  Timely(d)' /\ (lock' = "present" => Fresh(d)')
  <2>1. CASE c = d
    BY <1>2, <2>1 DEF PutIfAbsent, Goto, LeaseInv, Timely, Fresh, TypeOK
  <2>2. CASE c # d
    BY <1>2, <2>2, FreshFrame DEF PutIfAbsent, Goto, TypeOK
  <2>3. QED
    BY <2>1, <2>2
<1>3. ASSUME NEW c \in Clients, Head(c) PROVE Timely(d)' /\ (lock' = "present" => Fresh(d)')
  BY <1>3 DEF Head, Goto, LeaseInv, Timely, Fresh, TypeOK
<1>4. ASSUME NEW c \in Clients, StaleDelete(c) PROVE Timely(d)' /\ (lock' = "present" => Fresh(d)')
  BY <1>4 DEF StaleDelete, Goto, LeaseInv, Timely, TypeOK
<1>5. ASSUME NEW c \in Clients, Spawn(c) PROVE Timely(d)' /\ (lock' = "present" => Fresh(d)')
  <2>1. CASE c = d
    <3>1. lock' = "present" => age' <= Latency
      BY <1>5, <2>1 DEF Spawn, LeaseInv, Timely, Fresh, TypeOK
    <3>2. misses'[d] * Interval = 0
      BY <1>5, <2>1 DEF Spawn, TypeOK
    <3>3. QED
      BY <1>5, <2>1, <3>1, <3>2 DEF Spawn, Goto, Timely, Fresh, TypeOK
  <2>2. CASE c # d
    BY <1>5, <2>2, FreshFrame DEF Spawn, Goto, TypeOK
  <2>3. QED
    BY <2>1, <2>2
<1>6. ASSUME NEW c \in Clients, HbTick(c) PROVE Timely(d)' /\ (lock' = "present" => Fresh(d)')
  <2>1. CASE c = d
    BY <1>6, <2>1, <1>m, Products DEF HbTick, LeaseInv, Timely, Fresh, TypeOK
  <2>2. CASE c # d
    BY <1>6, <2>2, FreshFrame DEF HbTick, TypeOK
  <2>3. QED
    BY <2>1, <2>2
<1>7. ASSUME NEW c \in Clients, HbLand(c) PROVE Timely(d)' /\ (lock' = "present" => Fresh(d)')
  <2>1. CASE c = d
    <3>1. misses'[d] * Interval = 0
      BY <1>7, <2>1 DEF HbLand, TypeOK
    <3>2. QED
      BY <1>7, <2>1, <3>1 DEF HbLand, LeaseInv, Timely, Fresh, TypeOK
  <2>2. CASE c # d
    BY <1>7, <2>2, FreshFrame DEF HbLand, TypeOK
  <2>3. QED
    BY <2>1, <2>2
<1>8. ASSUME NEW c \in Clients, HbFail(c) PROVE Timely(d)' /\ (lock' = "present" => Fresh(d)')
  <2>1. CASE c = d
    BY <1>8, <2>1 DEF HbFail, LeaseInv, Timely, Fresh, TypeOK
  <2>2. CASE c # d
    BY <1>8, <2>2, FreshFrame DEF HbFail, TypeOK
  <2>3. QED
    BY <2>1, <2>2
<1>9. ASSUME NEW c \in Clients, BeginRelease(c) PROVE Timely(d)' /\ (lock' = "present" => Fresh(d)')
  BY <1>9 DEF BeginRelease, Goto, LeaseInv, Timely, Fresh, TypeOK
<1>10. ASSUME NEW c \in Clients, Join(c) \/ AbortJoin(c)
       PROVE  Timely(d)' /\ (lock' = "present" => Fresh(d)')
  <2>1. CASE c = d
    <3>1. lock = "present" => age <= (MaxMisses + 1) * Interval + 2 * Latency
      BY <1>10, <2>1, <1>m, Products DEF Join, AbortJoin, LeaseInv, Timely, Fresh, TypeOK
    <3>2. QED
      BY <1>10, <2>1, <3>1
         DEF Join, AbortJoin, Goto, StopHeartbeat, Timely, Fresh, TypeOK
  <2>2. CASE c # d
    BY <1>10, <2>2, FreshFrame DEF Join, AbortJoin, Goto, StopHeartbeat, TypeOK
  <2>3. QED
    BY <2>1, <2>2
<1>11. ASSUME NEW c \in Clients,
              ReleaseDelete(c) \/ PutFails(c) \/ RequestFails(c) \/ Crash(c)
       PROVE  Timely(d)' /\ (lock' = "present" => Fresh(d)')
  <2>1. CASE c = d
    <3>1. pc'[d] = "idle" /\ hb'[d] = "off"
      BY <1>11, <2>1
         DEF ReleaseDelete, PutFails, RequestFails, Crash, Goto, StopHeartbeat, TypeOK
    <3>2. QED
      BY <3>1 DEF Timely, Fresh
  <2>2. CASE c # d
    BY <1>11, <2>2, FreshFrame
       DEF ReleaseDelete, PutFails, RequestFails, Crash, Goto, StopHeartbeat, TypeOK
  <2>3. QED
    BY <2>1, <2>2
<1>12. CASE GhostLand
  BY <1>12, FreshFrame DEF GhostLand
<1>13. CASE DoctorStep
  BY <1>13, FreshFrame DEF DoctorStep, DoctorList, DoctorScan, DoctorRecheck, DoctorDelete
<1>14. CASE Tick
  <2>1. ~Urgent(d)
    BY <1>14 DEF Tick
  <2>2. /\ lock' = lock /\ pc'[d] = pc[d] /\ hb'[d] = hb[d] /\ misses'[d] = misses[d]
        /\ lock = "present" => age' <= age + 1
        /\ pc[d] \in {"won", "deleting"} => rtt'[d] = rtt[d] + 1
        /\ hb[d] # "off" => hbWait'[d] = hbWait[d] + 1
    BY <1>14 DEF Tick, Saturate, TypeOK
  <2>3. Timely(d)'
    BY <2>1, <2>2 DEF Urgent, LeaseInv, Timely, TypeOK
  <2>4. lock' = "present" => Fresh(d)'
    BY <2>2, <1>m, Products DEF LeaseInv, Fresh, TypeOK
  <2>5. QED
    BY <2>3, <2>4
<1>15. CASE UNCHANGED vars
  BY <1>15, FreshFrame DEF vars
<1>16. QED
  BY <1>1, <1>2, <1>3, <1>4, <1>5, <1>6, <1>7, <1>8, <1>9, <1>10, <1>11, <1>12,
     <1>13, <1>14, <1>15
     DEF Next, ClientStep, Faulty, Acquire, Retry

\* Every client that owns the lock keeps it fresh (LeaseInv).
THEOREM LeaseCorrect == Spec => []LeaseInv
<1>1. Init => LeaseInv
  BY DEF Init, LeaseInv, Timely, Fresh
<1>2. QED
  BY <1>1, TypeCorrect, LeaseStep, PTL DEF Spec

\* A lock that some live client owns is too young to be judged stale, with
\* any clock within MaxSkew and however early `now` was read.
LEMMA OwnedIsYoung ==
  ASSUME TypeOK, LeaseInv, lock = "present", NEW c \in Clients, pc[c] \in Owning
  PROVE  age + MaxSkew <= TTL
<1> USE ConstantsAssumption, TimingAssumption, IntervalType
<1>1. misses[c] \in 0..MaxMisses /\ hbWait[c] \in 0..Interval /\ age \in Nat
  BY CapType DEF TypeOK
<1>2. Timely(c) /\ Fresh(c)
  BY DEF LeaseInv
<1>3. (misses[c] + 1) * Interval = misses[c] * Interval + Interval
      /\ (misses[c] + 1) * Interval <= (MaxMisses + 1) * Interval
      /\ misses[c] * Interval \in Nat
      /\ (MaxMisses + 1) * Interval \in Nat
  BY <1>1, Products
<1>4. CASE pc[c] = "won"
  BY <1>1, <1>2, <1>3, <1>4 DEF Timely, Fresh, TypeOK
<1>5. CASE pc[c] \in {"held", "releasing"}
  BY <1>1, <1>2, <1>3, <1>5 DEF Timely, Fresh, TypeOK
<1>6. CASE pc[c] = "deleting"
  BY <1>1, <1>2, <1>3, <1>6 DEF Timely, Fresh, TypeOK
<1>7. QED
  BY <1>4, <1>5, <1>6 DEF Owning

\* A step that judges the lock stale sees it, and sees it older than the TTL
\* by a clock that is at most MaxSkew ahead.
LEMMA VerdictIsOld ==
  ASSUME TypeOK, Next,
         \/ \E c \in Clients : pc[c] = "head" /\ pc'[c] = "steal"
         \/ doctor = "recheck" /\ doctor' = "delete"
  PROVE  lock = "present" /\ age + MaxSkew > TTL
<1> USE ConstantsAssumption DEF TypeOK
<1>1. ASSUME NEW c \in Clients, pc[c] = "head", pc'[c] = "steal"
      PROVE  lock = "present" /\ age + MaxSkew > TTL
  <2>1. Head(c)
    <3>1. ASSUME NEW d \in Clients, Start(d) \/ ClientStep(d) \/ Faulty(d)
          PROVE  Head(c)
      <4>1. CASE Head(d)
        BY <4>1, <1>1 DEF Head, Goto
      <4>2. CASE Start(d)
        BY <4>2, <1>1 DEF Start
      <4>3. CASE Acquire(d)
        BY <4>3, <1>1 DEF Acquire, PutIfAbsent, Goto
      <4>4. CASE Retry(d)
        BY <4>4, <1>1 DEF Retry, PutIfAbsent, Goto
      <4>5. CASE StaleDelete(d) \/ Spawn(d) \/ BeginRelease(d) \/ Join(d) \/ ReleaseDelete(d)
        BY <4>5, <1>1 DEF StaleDelete, Spawn, BeginRelease, Join, ReleaseDelete, Goto
      <4>6. CASE HbTick(d) \/ HbLand(d) \/ HbFail(d)
        BY <4>6, <1>1 DEF HbTick, HbLand, HbFail
      <4>7. CASE Faulty(d)
        BY <4>7, <1>1 DEF Faulty, AbortJoin, Crash, PutFails, RequestFails, Goto
      <4>8. QED
        BY <3>1, <4>1, <4>2, <4>3, <4>4, <4>5, <4>6, <4>7 DEF ClientStep
    <3>2. ~(GhostLand \/ DoctorStep \/ Tick)
      BY <1>1 DEF GhostLand, DoctorStep, DoctorList, DoctorScan, DoctorRecheck,
                  DoctorDelete, Tick
    <3>3. QED
      BY <3>1, <3>2 DEF Next
  <2>2. QED
    BY <2>1, <1>1 DEF Head, Goto, StaleFor
<1>2. ASSUME doctor = "recheck", doctor' = "delete"
      PROVE  lock = "present" /\ age + MaxSkew > TTL
  <2>1. DoctorRecheck
    <3>1. ASSUME NEW d \in Clients, Start(d) \/ ClientStep(d) \/ Faulty(d)
          PROVE  FALSE
      BY <3>1, <1>2 DEF Start, ClientStep, Faulty, Acquire, Retry, PutIfAbsent, Head,
         StaleDelete, Spawn, HbTick, HbLand, HbFail, BeginRelease, Join, ReleaseDelete,
         AbortJoin, Crash, PutFails, RequestFails
    <3>2. ~(GhostLand \/ Tick \/ DoctorList \/ DoctorScan \/ DoctorDelete)
      BY <1>2 DEF GhostLand, Tick, DoctorList, DoctorScan, DoctorDelete
    <3>3. QED
      BY <3>1, <3>2 DEF Next, DoctorStep
  <2>2. QED
    BY <2>1, <1>2 DEF DoctorRecheck, Skew
<1>3. QED
  BY <1>1, <1>2

\* The staleness check of acquire_lock and of the doctor never hits a lock
\* that a live client owns: for any number of clients, after any faults.
THEOREM StaleVerdictSound == Spec => NoLiveLockJudgedStale
<1>1. TypeOK /\ LeaseInv /\ [Next]_vars =>
        [ \/ \E c \in Clients : pc[c] = "head" /\ pc'[c] = "steal"
          \/ doctor = "recheck" /\ doctor' = "delete"
          => \A c \in Clients : ~Owner(c) ]_vars
  <2> SUFFICES ASSUME TypeOK, LeaseInv, Next,
                      \/ \E c \in Clients : pc[c] = "head" /\ pc'[c] = "steal"
                      \/ doctor = "recheck" /\ doctor' = "delete",
                      NEW c \in Clients, Owner(c)
               PROVE  FALSE
    OBVIOUS
  <2>1. lock = "present" /\ age + MaxSkew > TTL
    BY VerdictIsOld
  <2>2. age + MaxSkew <= TTL
    BY <2>1, OwnedIsYoung DEF Owner
  <2>3. QED
    BY <2>1, <2>2, ConstantsAssumption, CapType DEF TypeOK
<1>2. QED
  BY <1>1, TypeCorrect, LeaseCorrect, PTL DEF Spec, NoLiveLockJudgedStale

-----------------------------------------------------------------------------

\* The strengthening of mutual exclusion that is inductive: before the first
\* fault no lock is judged stale, so that the key is there exactly while its
\* one owner is.
FaultFreeInv ==
  faults = 0 =>
    /\ ghosts = 0
    /\ doctor # "delete"
    /\ \A c \in Clients : pc[c] \notin {"steal", "retry"}
    /\ lock = "present" <=> \E c \in Clients : pc[c] \in Owning
    /\ \A c, d \in Clients : pc[c] \in Owning /\ pc[d] \in Owning => c = d

\* It is kept by every step.
LEMMA FaultFreeStep ==
  TypeOK /\ TypeOK' /\ LeaseInv /\ FaultFreeInv /\ [Next]_vars => FaultFreeInv'
<1> SUFFICES ASSUME TypeOK, TypeOK', LeaseInv, FaultFreeInv, [Next]_vars, faults' = 0
             PROVE  FaultFreeInv'
  BY DEF FaultFreeInv
<1> USE ConstantsAssumption DEF TypeOK, Acquiring, Owning
<1>0. faults = 0
  <2>1. faults' = faults \/ faults' = faults + 1
    BY DEF Next, Start, ClientStep, Faulty, Acquire, Retry, PutIfAbsent, Head,
       StaleDelete, Spawn, HbTick, HbLand, HbFail, BeginRelease, Join, ReleaseDelete,
       AbortJoin, Crash, PutFails, RequestFails, Fault, GhostLand, DoctorStep,
       DoctorList, DoctorScan, DoctorRecheck, DoctorDelete, Tick, vars
  <2>2. QED
    BY <2>1
<1>1. /\ ghosts = 0 /\ doctor # "delete"
      /\ \A c \in Clients : pc[c] \notin {"steal", "retry"}
      /\ lock = "present" <=> \E c \in Clients : pc[c] \in Owning
      /\ \A c, d \in Clients : pc[c] \in Owning /\ pc[d] \in Owning => c = d
  BY <1>0 DEF FaultFreeInv
<1>2. ASSUME NEW c \in Clients, Faulty(c) PROVE FALSE
  BY <1>2, <1>0 DEF Faulty, AbortJoin, Crash, PutFails, RequestFails, Fault
<1>3. ASSUME NEW c \in Clients, Start(c) PROVE FaultFreeInv'
  BY <1>3, <1>1 DEF Start, FaultFreeInv
<1>4. ASSUME NEW c \in Clients, Acquire(c) PROVE FaultFreeInv'
  <2>1. CASE lock = "absent"
    BY <1>4, <1>1, <2>1 DEF Acquire, PutIfAbsent, Goto, FaultFreeInv
  <2>2. CASE lock = "present"
    BY <1>4, <1>1, <2>2 DEF Acquire, PutIfAbsent, Goto, FaultFreeInv
  <2>3. QED
    BY <2>1, <2>2
<1>5. ASSUME NEW c \in Clients, Head(c) PROVE FaultFreeInv'
  <2>1. ~(lock = "present" /\ StaleFor(c))
    <3> SUFFICES ASSUME lock = "present", StaleFor(c) PROVE FALSE
      OBVIOUS
    <3>1. PICK d \in Clients : pc[d] \in Owning
      BY <1>1
    <3>2. age + MaxSkew <= TTL
      BY <3>1, OwnedIsYoung
    <3>3. QED
      BY <3>2, CapType DEF StaleFor
  <2>2. QED
    BY <1>5, <1>1, <2>1 DEF Head, Goto, FaultFreeInv
<1>6. ASSUME NEW c \in Clients, StaleDelete(c) \/ Retry(c) PROVE FALSE
  BY <1>6, <1>1 DEF StaleDelete, Retry, PutIfAbsent
<1>7. ASSUME NEW c \in Clients, Spawn(c) PROVE FaultFreeInv'
  BY <1>7, <1>1 DEF Spawn, Goto, FaultFreeInv
<1>8. ASSUME NEW c \in Clients, HbTick(c) \/ HbFail(c) PROVE FaultFreeInv'
  BY <1>8, <1>1 DEF HbTick, HbFail, FaultFreeInv
<1>9. ASSUME NEW c \in Clients, HbLand(c) PROVE FaultFreeInv'
  BY <1>9, <1>1 DEF HbLand, FaultFreeInv
<1>10. ASSUME NEW c \in Clients, BeginRelease(c) \/ Join(c) PROVE FaultFreeInv'
  BY <1>10, <1>1 DEF BeginRelease, Join, Goto, FaultFreeInv
<1>11. ASSUME NEW c \in Clients, ReleaseDelete(c) PROVE FaultFreeInv'
  BY <1>11, <1>1 DEF ReleaseDelete, Goto, FaultFreeInv
<1>12. CASE GhostLand
  BY <1>12, <1>1 DEF GhostLand
<1>13. CASE DoctorStep
  <2>1. ~(lock = "present" /\ \E s \in Skew : age + s > TTL)
    <3> SUFFICES ASSUME lock = "present", NEW s \in Skew, age + s > TTL PROVE FALSE
      OBVIOUS
    <3>1. PICK d \in Clients : pc[d] \in Owning
      BY <1>1
    <3>2. age + MaxSkew <= TTL
      BY <3>1, OwnedIsYoung
    <3>3. QED
      BY <3>2, CapType DEF Skew
  <2>2. CASE DoctorRecheck
    BY <2>1, <2>2, <1>1 DEF DoctorRecheck, FaultFreeInv
  <2>3. CASE DoctorList \/ DoctorScan
    BY <2>3, <1>1 DEF DoctorList, DoctorScan, FaultFreeInv
  <2>4. CASE DoctorDelete
    BY <2>4, <1>1 DEF DoctorDelete
  <2>5. QED
    BY <1>13, <2>2, <2>3, <2>4 DEF DoctorStep
<1>14. CASE Tick
  BY <1>14, <1>1 DEF Tick, FaultFreeInv
<1>15. CASE UNCHANGED vars
  BY <1>15, <1>1 DEF vars, FaultFreeInv
<1>16. QED
  BY <1>2, <1>3, <1>4, <1>5, <1>6, <1>7, <1>8, <1>9, <1>10, <1>11, <1>12, <1>13,
     <1>14, <1>15
     DEF Next, ClientStep

\* It holds as long as acquire, heartbeat and release run without a fault.
LEMMA FaultFreeAlways == Spec => []FaultFreeInv
<1>1. Init => FaultFreeInv
  BY DEF Init, FaultFreeInv, Owning
<1>2. QED
  BY <1>1, TypeCorrect, LeaseCorrect, FaultFreeStep, PTL DEF Spec

\* Mutual exclusion of acquire_lock until the first fault, for any number of
\* clients and any timing within TimingAssumption.
THEOREM MutexCorrect == Spec => []MutexUntilFault
<1>1. FaultFreeInv => MutexUntilFault
  BY DEF FaultFreeInv, MutexUntilFault, Owner
<1>2. QED
  BY <1>1, FaultFreeAlways, PTL

\* Without a fault a release leaves no orphaned key behind, and nobody works
\* under a lock whose key is gone.
THEOREM NoOrphanCorrect == Spec => []NoOrphanUntilFault
<1>1. FaultFreeInv => NoOrphanUntilFault
  BY DEF FaultFreeInv, NoOrphanUntilFault, Owner
<1>2. QED
  BY <1>1, FaultFreeAlways, PTL
=============================================================================
