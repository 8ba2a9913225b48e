---------------------- MODULE SchedulerOwnershipProofs ----------------------
(***************************************************************************)
(* Theorem: for any number of server processes, any number of faults and   *)
(* any interleaving, jobs of two processes overlap only when a database    *)
(* session was dropped.                                                    *)
(***************************************************************************)
EXTENDS SchedulerOwnership, TLAPS

\* A process that could be running a job holds the lock or lost its session; one
\* with no connection has no scheduler; a draining scheduler is being closed.
Guarded ==
  \A p \in Procs :
    /\ conn[p] => lock = p \/ dropped[p]
    /\ ~conn[p] => pc[p] = "loop" /\ sched[p] = "off" /\ ~job[p]
    /\ ~up[p] => ~conn[p]
    /\ lock = p => conn[p]

OwnershipInv == TypeOK /\ Guarded

\* Guarded is what JobsNeverOverlap needs: the lock has one holder.
LEMMA GuardedMeansNoOverlap == OwnershipInv => JobsNeverOverlap
  BY DEF OwnershipInv, TypeOK, Guarded, JobsNeverOverlap

\* Initially no process owns anything.
LEMMA OwnershipInit == Init => OwnershipInv
  BY OwnershipAssumption DEF Init, OwnershipInv, TypeOK, Guarded

\* Every step of a process keeps the types.
LEMMA OwnershipTypes == TypeOK /\ [Next]_vars => TypeOK'
  <1> SUFFICES ASSUME TypeOK, [Next]_vars PROVE TypeOK'
    OBVIOUS
  <1>1. CASE UNCHANGED vars
    BY <1>1 DEF TypeOK, vars
  <1>2. ASSUME NEW p \in Procs,
               \/ Loop(p) \/ InitFails(p) \/ HeartbeatFails(p)
               \/ StartJob(p) \/ FinishJob(p)
               \/ DropSession(p) \/ Crash(p) \/ Restart(p)
        PROVE  TypeOK'
    <2>1. CASE TryAcquire(p)
      BY <2>1 DEF TypeOK, TryAcquire, Goto
    <2>2. CASE InitScheduledTasks(p) \/ Shutdown(p)
      BY <2>2 DEF TypeOK, InitScheduledTasks, Shutdown, Goto
    <2>3. CASE Heartbeat(p)
      BY <2>3 DEF TypeOK, Heartbeat, Goto
    <2>4. CASE InitFails(p) \/ HeartbeatFails(p)
      BY <2>4, OwnershipAssumption DEF TypeOK, InitFails, HeartbeatFails, Goto, Fault
    <2>5. CASE Close(p)
      BY <2>5 DEF TypeOK, Close, Disconnect, Goto
    <2>6. CASE StartJob(p) \/ FinishJob(p) \/ Restart(p)
      BY <2>6 DEF TypeOK, StartJob, FinishJob, Restart
    <2>7. CASE DropSession(p)
      BY <2>7, OwnershipAssumption DEF TypeOK, DropSession, Fault
    <2>8. CASE Crash(p)
      BY <2>8, OwnershipAssumption DEF TypeOK, Crash, Disconnect, Goto, Fault
    <2> QED  BY <1>2, <2>1, <2>2, <2>3, <2>4, <2>5, <2>6, <2>7, <2>8 DEF Loop
  <1> QED  BY <1>1, <1>2 DEF Next

\* Every step of a process keeps each process guarded.
LEMMA OwnershipGuarded == OwnershipInv /\ [Next]_vars => Guarded'
  <1> SUFFICES ASSUME TypeOK, Guarded, [Next]_vars PROVE Guarded'
    BY DEF OwnershipInv
  <1> USE OwnershipAssumption
  <1>1. CASE UNCHANGED vars
    BY <1>1 DEF Guarded, vars
  <1>2. ASSUME NEW p \in Procs,
               \/ Loop(p) \/ InitFails(p) \/ HeartbeatFails(p)
               \/ StartJob(p) \/ FinishJob(p)
               \/ DropSession(p) \/ Crash(p) \/ Restart(p)
        PROVE  Guarded'
    <2>1. CASE TryAcquire(p)
      BY <2>1 DEF TypeOK, Guarded, TryAcquire, At, Goto
    <2>2. CASE InitScheduledTasks(p) \/ Shutdown(p)
      BY <2>2 DEF TypeOK, Guarded, InitScheduledTasks, Shutdown, At, Goto
    <2>3. CASE Heartbeat(p) \/ HeartbeatFails(p) \/ InitFails(p)
      BY <2>3 DEF TypeOK, Guarded, Heartbeat, HeartbeatFails, InitFails, At, Goto
    <2>4. CASE Close(p)
      BY <2>4 DEF TypeOK, Guarded, Close, Disconnect, At, Goto
    <2>5. CASE StartJob(p) \/ FinishJob(p)
      BY <2>5 DEF TypeOK, Guarded, StartJob, FinishJob
    <2>6. CASE Restart(p)
      BY <2>6 DEF TypeOK, Guarded, Restart
    <2>7. CASE DropSession(p)
      BY <2>7 DEF TypeOK, Guarded, DropSession
    <2>8. CASE Crash(p)
      BY <2>8 DEF TypeOK, Guarded, Crash, Disconnect, Goto
    <2> QED  BY <1>2, <2>1, <2>2, <2>3, <2>4, <2>5, <2>6, <2>7, <2>8 DEF Loop
  <1> QED  BY <1>1, <1>2 DEF Next

(***************************************************************************)
(* Scheduled jobs of two processes never overlap, whatever crashes, fails  *)
(* or hands over, unless a session that held the lock was dropped:         *)
(* _release_ownership waits for the jobs before it frees the lock.         *)
(***************************************************************************)
THEOREM OneSchedulerAtATime == Spec => []JobsNeverOverlap
  <1>1. OwnershipInv /\ [Next]_vars => OwnershipInv'
    BY OwnershipTypes, OwnershipGuarded DEF OwnershipInv
  <1> QED  BY OwnershipInit, GuardedMeansNoOverlap, <1>1, PTL DEF Spec

(***************************************************************************)
(* A process and its scheduler are always in one of their states, and the  *)
(* lock has one owner or none.                                             *)
(***************************************************************************)
THEOREM SchedulerTyped == Spec => []TypeOK
  <1>1. OwnershipInv => TypeOK
    BY DEF OwnershipInv
  <1>2. OwnershipInv /\ [Next]_vars => OwnershipInv'
    BY OwnershipTypes, OwnershipGuarded DEF OwnershipInv
  <1> QED  BY <1>1, <1>2, OwnershipInit, PTL DEF Spec

=============================================================================
