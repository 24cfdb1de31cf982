----------------------------- MODULE ServerExample -----------------------------
(***************************************************************************)
(* The server of examples/standard_runner.rs, skip_tick_run.rs,             *)
(* realtime_runner.rs and step_run.rs, which differ in their runners, and   *)
(* the one of examples/parallel_runner.rs.  A job has no identity here: the *)
(* queue is its length.                                                     *)
(***************************************************************************)
EXTENDS UserCode

JobArrived == "JobArrived"
JobProcessed == "JobProcessed"
JobProcessNext == "JobProcessNext"   \* of the parallel server only

Idle == [queue |-> 0, is_busy |-> FALSE]

JobGenerator(interval, burst) == [interval |-> interval, burst |-> burst]

Arrives == Schedules(0, MinimumPriority, JobArrived)

GeneratorOnRegistered(generator) == <<Arrives, Returns({generator.interval})>>

(* The sequential examples have a burst of one. *)
GeneratorFire(generator) ==
    [k \in 1 .. generator.burst |-> Arrives] \o <<Returns({generator.interval})>>

(* `handle_event` of the sequential server: a job takes 5 ticks. *)
ProcessingTime == 5
Processes == Schedules(ProcessingTime, MinimumPriority, JobProcessed)

ServeArrival_StaysIdle(server) ==
    IF server.is_busy
    THEN Reaction([server EXCEPT !.queue = @ + 1], <<>>)
    ELSE Reaction(server, <<Processes>>)

ServeArrival(server) ==
    IF server.is_busy
    THEN Reaction([server EXCEPT !.queue = @ + 1], <<>>)
    ELSE Reaction([server EXCEPT !.is_busy = TRUE], <<Processes>>)

ServeNext(server) ==
    IF server.queue > 0
    THEN Reaction([server EXCEPT !.queue = @ - 1], <<Processes>>)
    ELSE Reaction([server EXCEPT !.is_busy = FALSE], <<>>)

ServerHandleEvent(server, event) ==
    {IF event = JobArrived THEN ServeArrival(server) ELSE ServeNext(server)}

(***************************************************************************)
(* The parallel server.  A worker sends one command per event: EnqueueJob   *)
(* for an arrival, ProcessNextOrIdle for the other two.                     *)
(***************************************************************************)
WorkerCount == 3             \* WORKER_COUNT
ParallelProcessingTime == 2

(* A job beyond the first WorkerCount waits for one of those to be processed. *)
EnqueueJob(server) ==
    Reaction([queue |-> server.queue + 1, is_busy |-> TRUE],
             IF server.queue < WorkerCount
             THEN <<Schedules(0, MinimumPriority, JobProcessNext)>> ELSE <<>>)

ProcessNextOrIdle(server) ==
    IF server.queue > 0
    THEN Reaction([queue |-> server.queue - 1, is_busy |-> TRUE],
                  <<Schedules(ParallelProcessingTime, MinimumPriority, JobProcessed)>>)
    ELSE Reaction([server EXCEPT !.is_busy = FALSE], <<>>)

ServerApplyCommand(server, event) ==
    {IF event = JobArrived THEN EnqueueJob(server) ELSE ProcessNextOrIdle(server)}
==============================================================================
