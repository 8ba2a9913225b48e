------------------------- MODULE SchedulerOwnership -------------------------
(***************************************************************************)
(* Which server process runs the scheduled jobs (app/scheduler_ownership). *)
(* Each process has an ownership thread that tries to take one PostgreSQL  *)
(* session-level advisory lock on a connection of its own, starts the      *)
(* scheduler when it has it, and checks at each heartbeat that the session *)
(* behind the connection still holds it.  Job threads run beside it.       *)
(*                                                                         *)
(* A process can crash and be restarted, its database session can be       *)
(* dropped (the lock is freed; the connection object stays and reconnects  *)
(* without it), and a heartbeat query or the start of the scheduler can    *)
(* fail.                                                                   *)
(***************************************************************************)
EXTENDS Integers

CONSTANTS
  Procs,      \* server processes
  MaxFaults,  \* bound on crashes, dropped sessions and failed calls
  Null

ASSUME OwnershipAssumption == MaxFaults \in Nat /\ Null \notin Procs

VARIABLES
  lock,     \* the process whose session holds the advisory lock
  up,       \* process -> it is alive
  pc,       \* process -> where its ownership thread is
  conn,     \* process -> _owner_connection is not None
  dropped,  \* process -> the session behind _owner_connection was lost
  sched,    \* process -> the scheduler: "off", "on", or "draining"
  job,      \* process -> a job is running
  faults

vars == <<lock, up, pc, conn, dropped, sched, job, faults>>

Init ==
  /\ lock = Null
  /\ up = [p \in Procs |-> TRUE]
  /\ pc = [p \in Procs |-> "loop"]
  /\ conn = [p \in Procs |-> FALSE]
  /\ dropped = [p \in Procs |-> FALSE]
  /\ sched = [p \in Procs |-> "off"]
  /\ job = [p \in Procs |-> FALSE]
  /\ faults = 0

At(p, where) == up[p] /\ pc[p] = where

Goto(p, where) == pc' = [pc EXCEPT ![p] = where]

Fault == faults < MaxFaults /\ faults' = faults + 1

\* try_acquire_scheduler_lock; the loop retries while another session has it.
TryAcquire(p) ==
  /\ At(p, "loop") /\ ~conn[p]
  /\ lock = Null
  /\ lock' = p
  /\ conn' = [conn EXCEPT ![p] = TRUE]
  /\ Goto(p, "init")
  /\ UNCHANGED <<up, dropped, sched, job, faults>>

\* init_scheduled_tasks refuses unless owns_scheduler(), then starts the jobs.
InitScheduledTasks(p) ==
  /\ At(p, "init")
  /\ conn[p]
  /\ sched' = [sched EXCEPT ![p] = "on"]
  /\ Goto(p, "loop")
  /\ UNCHANGED <<lock, up, conn, dropped, job, faults>>

\* The scheduler fails to start: release the lock.
InitFails(p) ==
  /\ At(p, "init") /\ Fault
  /\ Goto(p, "release")
  /\ UNCHANGED <<lock, up, conn, dropped, sched, job>>

\* Mutant of Heartbeat: any answer on the connection counts as still holding it.
HeartbeatPings(p) ==
  /\ At(p, "loop") /\ conn[p]
  /\ lock # p /\ ~dropped[p]
  /\ Goto(p, "release")
  /\ UNCHANGED <<lock, up, conn, dropped, sched, job, faults>>

\* holds_scheduler_lock says no: this session's lock is gone.
Heartbeat(p) ==
  /\ At(p, "loop") /\ conn[p]
  /\ lock # p
  /\ Goto(p, "release")
  /\ UNCHANGED <<lock, up, conn, dropped, sched, job, faults>>

\* holds_scheduler_lock raises, whatever became of the lock: treated as lost.
HeartbeatFails(p) ==
  /\ At(p, "loop") /\ conn[p] /\ Fault
  /\ Goto(p, "release")
  /\ UNCHANGED <<lock, up, conn, dropped, sched, job>>

\* _release_ownership: no job starts any more once shutdown is called ...
Shutdown(p) ==
  /\ At(p, "release")
  /\ sched' = [sched EXCEPT ![p] = IF @ = "on" THEN "draining" ELSE @]
  /\ Goto(p, "close")
  /\ UNCHANGED <<lock, up, conn, dropped, job, faults>>

Disconnect(p) ==
  /\ lock' = IF lock = p THEN Null ELSE lock
  /\ conn' = [conn EXCEPT ![p] = FALSE]
  /\ dropped' = [dropped EXCEPT ![p] = FALSE]
  /\ sched' = [sched EXCEPT ![p] = "off"]
  /\ Goto(p, "loop")

\* Mutant of Close: shutdown(wait=False), jobs may outlive the lock.
CloseAtOnce(p) ==
  /\ At(p, "close")
  /\ Disconnect(p)
  /\ UNCHANGED <<up, job, faults>>

\* Mutant of Close: _owner_connection is closed but not forgotten.
CloseKeepsConnection(p) ==
  /\ At(p, "close") /\ ~job[p]
  /\ lock' = IF lock = p THEN Null ELSE lock
  /\ sched' = [sched EXCEPT ![p] = "off"]
  /\ Goto(p, "loop")
  /\ UNCHANGED <<up, conn, dropped, job, faults>>

\* ... shutdown(wait=True) returns when the last job has finished; only then is
\* the connection closed, which frees the lock if the session still has it.
Close(p) ==
  /\ At(p, "close") /\ ~job[p]
  /\ Disconnect(p)
  /\ UNCHANGED <<up, job, faults>>

\* A trigger fires: a scheduled job runs in a worker thread.
StartJob(p) ==
  /\ up[p] /\ sched[p] = "on" /\ ~job[p]
  /\ job' = [job EXCEPT ![p] = TRUE]
  /\ UNCHANGED <<lock, up, pc, conn, dropped, sched, faults>>

FinishJob(p) ==
  /\ up[p] /\ job[p]
  /\ job' = [job EXCEPT ![p] = FALSE]
  /\ UNCHANGED <<lock, up, pc, conn, dropped, sched, faults>>

\* The database ends the session that holds the lock.
DropSession(p) ==
  /\ up[p] /\ lock = p /\ Fault
  /\ lock' = Null
  /\ dropped' = [dropped EXCEPT ![p] = TRUE]
  /\ UNCHANGED <<up, pc, conn, sched, job>>

\* The process dies with its threads, and its session with it.
Crash(p) ==
  /\ up[p] /\ Fault
  /\ up' = [up EXCEPT ![p] = FALSE]
  /\ job' = [job EXCEPT ![p] = FALSE]
  /\ Disconnect(p)

\* The server starts a worker again (post_worker_init).
Restart(p) ==
  /\ ~up[p]
  /\ up' = [up EXCEPT ![p] = TRUE]
  /\ UNCHANGED <<lock, pc, conn, dropped, sched, job, faults>>

Loop(p) ==
  TryAcquire(p) \/ InitScheduledTasks(p) \/ Heartbeat(p) \/ Shutdown(p) \/ Close(p)

Next ==
  \E p \in Procs :
    \/ Loop(p) \/ InitFails(p) \/ HeartbeatFails(p)
    \/ StartJob(p) \/ FinishJob(p)
    \/ DropSession(p) \/ Crash(p) \/ Restart(p)

Spec == Init /\ [][Next]_vars

\* The ownership thread keeps looping, jobs end, and the server restarts its
\* workers.  Nothing obliges a trigger to fire or a fault to happen.
Fairness ==
  \A p \in Procs : WF_vars(Loop(p)) /\ WF_vars(FinishJob(p)) /\ WF_vars(Restart(p))

FairSpec == Spec /\ Fairness

-----------------------------------------------------------------------------
\* Type invariant of the processes' ownership state.
TypeOK ==
  /\ lock \in Procs \cup {Null}
  /\ up \in [Procs -> BOOLEAN]
  /\ pc \in [Procs -> {"loop", "init", "release", "close"}]
  /\ conn \in [Procs -> BOOLEAN]
  /\ dropped \in [Procs -> BOOLEAN]
  /\ sched \in [Procs -> {"off", "on", "draining"}]
  /\ job \in [Procs -> BOOLEAN]
  /\ faults \in 0..MaxFaults

\* "Two schedulers running at once would run each of those [jobs] twice": jobs
\* of two processes never overlap, through crashes, restarts, failed heartbeats
\* and hand-overs, unless the database dropped the session of one of them.
JobsNeverOverlap ==
  \A p, q \in Procs : p # q /\ job[p] /\ job[q] => dropped[p] \/ dropped[q]

\* A process whose session lost the lock stops starting jobs.
UnguardedSchedulerStops ==
  \A p \in Procs : sched[p] = "on" /\ lock # p ~> sched[p] # "on"

\* The scheduler does not stay down: whatever failed, some process comes to run
\* it under the lock again.
SchedulerComesBack == []<>(\E p \in Procs : up[p] /\ sched[p] = "on" /\ lock = p)

=============================================================================
