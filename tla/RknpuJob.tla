------------------------------ MODULE RknpuJob ------------------------------
(***************************************************************************)
(* The job engine (rknpu_job.c with rknpu_soft_reset of rknpu_reset.c):    *)
(* ioctl threads submit jobs, jobs queue per core and start when each of   *)
(* their cores has reached them, interrupts complete them, waits time out  *)
(* and abort them, a cleanup worker frees the asynchronous ones.           *)
(*                                                                         *)
(* Grain: a section under irq_lock is one step, and so is every access to  *)
(* shared state outside it; threads and interrupt handlers interleave      *)
(* between those steps.  There is one thread per job.  rknpu_job_next is   *)
(* called by threads and by handlers, so an executor is a job (its thread) *)
(* or a core (its interrupt handler).  A freed job keeps its last contents *)
(* (its slab object is not reused in the model).                           *)
(***************************************************************************)
EXTENDS Integers, Sequences, FiniteSets, SequencesExt

CONSTANTS
    Jobs,       \* the struct rknpu_job of successive submits, one thread each
    NumCores,   \* config->num_irqs
    MaxSubmit,  \* config->max_submit_number: tasks the hardware takes at once
    Requests,   \* the struct rknpu_submit a thread may pass, see RequestType
    Faults,     \* what may go wrong, a subset of FaultKinds
    NoJob       \* a NULL struct rknpu_job *

Cores == 0 .. NumCores - 1
Executors == Jobs \cup Cores

FaultKinds ==
    {"timeout",      \* the hardware is slower than args->timeout milliseconds
     "overtime",     \* a job is older than args->timeout microseconds, the unit
                     \* in which rknpu_job_timeout_clean takes the same field
     "bad_irq",      \* an interrupt whose status is not the job's int_mask
     "shared_irq",   \* a handler call for another device of the IRQF_SHARED line
     "reset_fail",   \* a reset line cannot be asserted or deasserted
     "domain",       \* rknpu_iommu_domain_get_and_switch gives up
     "fence_in",     \* the fd of the input fence is none, or a signal ends the wait
     "fence_out"}    \* an allocation or the fd of the output fence fails

(* mask = {} is RKNPU_CORE_AUTO_MASK; mapped is task_obj->kv_addr # NULL;  *)
(* tasks is the task_number of each of the job's cores; in and out are     *)
(* RKNPU_JOB_FENCE_IN and RKNPU_JOB_FENCE_OUT.                             *)
RequestType ==
    [mask : SUBSET Cores, nonblock : BOOLEAN, pc_mode : BOOLEAN, mapped : BOOLEAN,
     in : BOOLEAN, out : BOOLEAN, tasks : Nat \ {0}]

ASSUME JobAssumption ==
    /\ NumCores \in 1 .. 3
    /\ MaxSubmit \in Nat \ {0}
    /\ Requests \subseteq RequestType
    /\ Faults \subseteq FaultKinds
    /\ NoJob \notin Jobs
    /\ (Jobs \cup {NoJob}) \cap Cores = {}

VARIABLES
    job,            \* job[j]: the struct rknpu_job, see JobType
    cur,            \* cur[c]: subcore_data->job
    todo,           \* todo[c]: subcore_data->todo_list
    task_num,       \* task_num[c]: subcore_data->task_num
    soft_reseting,  \* rknpu_dev->soft_reseting
    domref,         \* rknpu_dev->iommu_domain_refcount
    work,           \* the jobs whose cleanup_work is queued
    pc,             \* pc[j]: where the thread of j is
    local,          \* local[j]: that thread's local variables, see LocalType
    irq,            \* irq[c]: the interrupt handler of core c
    nx,             \* nx[e]: the rknpu_job_next that executor e is in
    hw,             \* hw[c]: the batch core c is executing
    line,           \* line[c]: RKNPU_OFFSET_INT_STATUS of core c
    executed        \* executed[j][c]: tasks the hardware has finished (history)

devVars == <<soft_reseting, domref, work>>
coreVars == <<cur, todo, task_num>>
hwVars == <<hw, line, executed>>
vars == <<job, coreVars, devVars, pc, local, irq, nx, hwVars>>

Errno == {"0", "EINVAL", "ETIMEDOUT", "ENOMEM", "ERESTARTSYS"}

(* job->fence: NULL; allocated without a sync_file; with one, so that user *)
(* space can wait for it; signalled.                                       *)
FenceStates == {"none", "private", "shared", "signaled"}

JobType ==
    [mask : SUBSET Cores, nonblock : BOOLEAN, pc_mode : BOOLEAN, mapped : BOOLEAN,
     tasks : Nat,
     run_count : Int,             \* cores that have not reached the job yet
     interrupt_count : Int,       \* cores that have not finished it yet
     submit_count : [Cores -> Nat],  \* batches finished on each core
     done : BOOLEAN,              \* RKNPU_JOB_DONE
     ret : Errno,
     committed : BOOLEAN,         \* last_task # NULL
     int_mask : SUBSET Cores,     \* the cores whose int_mask is set
     irq_entry : SUBSET Cores,    \* the cores whose irq_entry is set
     stamped : BOOLEAN,           \* hw_commit_time # 0
     out : BOOLEAN,               \* RKNPU_JOB_FENCE_OUT
     fence : FenceStates,
     life : {"none", "live", "freed"}]

LocalType ==
    [rest : SUBSET Cores,         \* the cores a loop still has to visit
     waits : Nat,                 \* wait_count of rknpu_job_wait
     expired : BOOLEAN,           \* wait_event_timeout returned 0
     victim : Jobs \cup {NoJob},  \* the job rknpu_job_timeout_clean removes
     ret : Errno \cup {"none"}]   \* what rknpu_submit returns

NewJob ==
    [mask |-> {}, nonblock |-> FALSE, pc_mode |-> FALSE, mapped |-> FALSE, tasks |-> 0,
     run_count |-> 0, interrupt_count |-> 0, submit_count |-> [c \in Cores |-> 0],
     done |-> FALSE, ret |-> "0", committed |-> FALSE, int_mask |-> {},
     irq_entry |-> {}, stamped |-> FALSE, out |-> FALSE, fence |-> "none",
     life |-> "none"]
NewLocal ==
    [rest |-> {}, waits |-> 0, expired |-> FALSE, victim |-> NoJob, ret |-> "none"]
NoCall == [at |-> "none", core |-> 0, job |-> NoJob, left |-> {}]
IdleIrq == [at |-> "idle", job |-> NoJob, status |-> "none"]
IdleHw == [job |-> NoJob, tasks |-> 0]

Init ==
    /\ job = [j \in Jobs |-> NewJob]
    /\ cur = [c \in Cores |-> NoJob]
    /\ todo = [c \in Cores |-> <<>>]
    /\ task_num = [c \in Cores |-> 0]
    /\ soft_reseting = FALSE
    /\ domref = 0
    /\ work = {}
    /\ pc = [j \in Jobs |-> "new"]
    /\ local = [j \in Jobs |-> NewLocal]
    /\ irq = [c \in Cores |-> IdleIrq]
    /\ nx = [e \in Executors |-> NoCall]
    /\ hw = [c \in Cores |-> IdleHw]
    /\ line = [c \in Cores |-> "none"]
    /\ executed = [j \in Jobs |-> [c \in Cores |-> 0]]

----------------------------------------------------------------------------
WaitCoreLast(mask) == IF mask = {} THEN 0 ELSE Max(mask)   \* mutant

(* rknpu_wait_core_index: the core whose job_done_wq a waiter sleeps on.   *)
WaitCore(mask) == IF mask \in {{1}, {2}} THEN Min(mask) ELSE 0

(* The masks rknpu_job_commit knows; any other one commits nothing.        *)
CommitCores(mask) ==
    IF mask \in {{0}, {1}, {2}, {0, 1}, {0, 1, 2}} THEN mask ELSE {}

ScheduleCorePastEnd == NumCores   \* mutant: the loop runs one core too far

(* rknpu_schedule_core_index: the first core with the fewest tasks.        *)
ScheduleCore ==
    Min({c \in Cores : \A d \in Cores : task_num[c] <= task_num[d]})

UseCoreNum(j) == Cardinality(job[j].mask)

BatchesRoundedDown(j) == job[j].tasks \div MaxSubmit   \* mutant

(* The batches rknpu_job_done expects of each core.                        *)
Batches(j) == (job[j].tasks + MaxSubmit - 1) \div MaxSubmit

(* The task_number of the next batch, as rknpu_job_subcore_commit_pc       *)
(* computes it from submit_count.                                          *)
BatchTasks(j, c) ==
    LET left == job[j].tasks - job[j].submit_count[c] * MaxSubmit
    IN  IF left > MaxSubmit THEN MaxSubmit ELSE left

Goto(j, label) == pc' = [pc EXCEPT ![j] = label]

(* wake_up on the job_done_wq of the cores in C: every waiter there looks  *)
(* at its condition again.  p is pc, or pc with the caller moved on.       *)
WakeUp(C, p) ==
    pc' = [j \in Jobs |-> IF pc[j] = "asleep" /\ WaitCore(job[j].mask) \in C
                          THEN "wait" ELSE p[j]]

----------------------------------------------------------------------------
(* rknpu_job_subcore_commit: write the next batch of job k to core c and   *)
(* start it.  INT_CLEAR is written with the mask of the job's tasks: an    *)
(* old status with other bits may survive.  Without RKNPU_JOB_PC, or       *)
(* without a mapping of the task object, the commit is refused.            *)
SubcoreCommit(k, c) ==
    IF job[k].pc_mode /\ job[k].mapped
    THEN /\ hw' = [hw EXCEPT ![c] = [job |-> k, tasks |-> BatchTasks(k, c)]]
         /\ \E s \in {"none", line[c]} \ {"ok"} : line' = [line EXCEPT ![c] = s]
         /\ job' = [job EXCEPT ![k].committed = TRUE, ![k].int_mask = @ \cup {c}]
    ELSE /\ job' = [job EXCEPT ![k].ret = "EINVAL"]
         /\ UNCHANGED <<hw, line>>

(* Executor e calls rknpu_job_next(rknpu_dev, c).                          *)
CallNext(e, c) ==
    nx' = [nx EXCEPT ![e] = [at |-> "check", core |-> c, job |-> NoJob, left |-> {}]]

ReturnNext(e) == nx' = [nx EXCEPT ![e] = NoCall]

(* The unlocked test of soft_reseting.                                     *)
NextCheck(e) ==
    /\ nx[e].at = "check"
    /\ IF soft_reseting THEN ReturnNext(e) ELSE nx' = [nx EXCEPT ![e].at = "pop"]
    /\ UNCHANGED <<job, coreVars, devVars, pc, local, irq, hwVars>>

(* Under irq_lock: an idle core takes the first job of its queue.          *)
NextPop(e) ==
    LET c == nx[e].core
        k == Head(todo[c])
    IN  /\ nx[e].at = "pop"
        /\ IF cur[c] # NoJob \/ todo[c] = <<>>
           THEN ReturnNext(e) /\ UNCHANGED <<cur, todo, job>>
           ELSE /\ nx' = [nx EXCEPT ![e].at = "dec", ![e].job = k]
                /\ todo' = [todo EXCEPT ![c] = Tail(@)]
                /\ cur' = [cur EXCEPT ![c] = k]
                /\ job' = [job EXCEPT ![k].stamped = TRUE]
        /\ UNCHANGED <<task_num, devVars, pc, local, irq, hwVars>>

(* The core that takes run_count to 0 starts the job, the one that takes   *)
(* interrupt_count to 0 completes it.                                      *)
LastToReach(k) == job[k].run_count = 1
AnyFinished(k) == TRUE            \* mutant: the count is not tested
LastToFinish(k) == job[k].interrupt_count = 1

(* atomic_dec_and_test(&job->run_count): the last core to reach the job    *)
(* starts it on all of them.                                               *)
NextDec(e) ==
    LET k == nx[e].job
        start == IF LastToReach(k) THEN CommitCores(job[k].mask) ELSE {}
    IN  /\ nx[e].at = "dec"
        /\ job' = [job EXCEPT ![k].run_count = @ - 1]
        /\ IF start = {} THEN ReturnNext(e)
                         ELSE nx' = [nx EXCEPT ![e].at = "commit", ![e].left = start]
        /\ UNCHANGED <<coreVars, devVars, pc, local, irq, hwVars>>

(* rknpu_job_commit, one core after the other.                             *)
NextCommit(e) ==
    LET c == Min(nx[e].left)
    IN  /\ nx[e].at = "commit"
        /\ SubcoreCommit(nx[e].job, c)
        /\ IF nx[e].left = {c} THEN ReturnNext(e)
                               ELSE nx' = [nx EXCEPT ![e].left = @ \ {c}]
        /\ UNCHANGED <<coreVars, devVars, pc, local, irq, executed>>

----------------------------------------------------------------------------
(* Only a NONBLOCK submit calls rknpu_job_timeout_clean before the         *)
(* schedule.                                                               *)
AfterFences(a) == IF a.nonblock THEN "clean" ELSE "sched"

(* rknpu_submit: check, allocate and fill the job.                         *)
Submit(j, a) ==
    /\ pc[j] = "new"
    /\ job' = [job EXCEPT ![j] =
          [NewJob EXCEPT !.mask = a.mask, !.nonblock = a.nonblock, !.pc_mode = a.pc_mode,
                         !.mapped = a.mapped, !.tasks = a.tasks, !.run_count = Cardinality(a.mask),
                         !.interrupt_count = Cardinality(a.mask), !.out = a.out,
                         !.life = "live"]]
    /\ local' = [local EXCEPT ![j].rest = a.mask]
    /\ Goto(j, IF a.in THEN "fence_in" ELSE IF a.out THEN "fence_out" ELSE AfterFences(a))
    /\ UNCHANGED <<coreVars, devVars, irq, nx, hwVars>>

(* An error return of rknpu_submit before the job is scheduled.            *)
SubmitFails(j, errno) ==
    /\ local' = [local EXCEPT ![j] = [NewLocal EXCEPT !.ret = errno]]
    /\ Goto(j, "ret")

(* RKNPU_JOB_FENCE_IN: wait for a fence of another context.  A wait that   *)
(* runs out of time returns 0 and the job goes on; the error returns leave *)
(* the job behind.                                                         *)
FenceIn(j) ==
    /\ pc[j] = "fence_in"
    /\ \/ /\ Goto(j, IF job[j].out THEN "fence_out" ELSE AfterFences(job[j]))
          /\ UNCHANGED local
       \/ "fence_in" \in Faults /\ \E e \in {"EINVAL", "ERESTARTSYS"} : SubmitFails(j, e)
    /\ UNCHANGED <<job, coreVars, devVars, irq, nx, hwVars>>

(* What rknpu_fence_alloc and then rknpu_fence_get_fd can come to.         *)
NewFence ==
    {"shared"} \cup (IF "fence_out" \in Faults THEN {"none", "private"} ELSE {})

(* RKNPU_JOB_FENCE_OUT: without a fence the job is freed; without an fd it *)
(* goes on.                                                                *)
FenceOut(j) ==
    /\ pc[j] = "fence_out"
    /\ \E f \in NewFence :
          IF f = "none"
          THEN /\ SubmitFails(j, "ENOMEM")
               /\ job' = [job EXCEPT ![j].life = "freed"]
          ELSE /\ job' = [job EXCEPT ![j].fence = f]
               /\ Goto(j, AfterFences(job[j]))
               /\ UNCHANGED local
    /\ UNCHANGED <<coreVars, devVars, irq, nx, hwVars>>

(* rknpu_job_schedule: choose the core of an AUTO job, take the IOMMU      *)
(* domain.                                                                 *)
Schedule(j) ==
    LET placed == IF job[j].mask # {} THEN job[j]
                  ELSE [job[j] EXCEPT !.mask = {ScheduleCore}, !.run_count = 1,
                                      !.interrupt_count = 1]
    IN  /\ pc[j] = "sched"
        /\ \/ /\ job' = [job EXCEPT ![j] = placed]
              /\ domref' = domref + 1
              /\ Goto(j, "enqueue")
           \/ /\ "domain" \in Faults
              /\ job' = [job EXCEPT ![j] = [placed EXCEPT !.ret = "EINVAL"]]
              /\ Goto(j, "scheduled")
              /\ UNCHANGED domref
        /\ UNCHANGED <<coreVars, soft_reseting, work, local, irq, nx, hwVars>>

EnqueuePerCore(j) ==              \* mutant: irq_lock taken for each core anew
    LET left == {c \in job[j].mask : cur[c] # j /\ ~Contains(todo[c], j)}
        c == Min(left)
    IN  /\ pc[j] = "enqueue"
        /\ todo' = [todo EXCEPT ![c] = Append(@, j)]
        /\ task_num' = [task_num EXCEPT ![c] = @ + job[j].tasks]
        /\ local' = [local EXCEPT ![j].rest = job[j].mask]
        /\ IF left = {c} THEN Goto(j, "kick") ELSE UNCHANGED pc
        /\ UNCHANGED <<job, cur, devVars, irq, nx, hwVars>>

(* Under irq_lock: join the queue of every core of the mask at once.       *)
Enqueue(j) ==
    LET mask == job[j].mask
    IN  /\ pc[j] = "enqueue"
        /\ todo' = [c \in Cores |-> IF c \in mask THEN Append(todo[c], j) ELSE todo[c]]
        /\ task_num' = [c \in Cores |-> IF c \in mask THEN task_num[c] + job[j].tasks
                                        ELSE task_num[c]]
        /\ local' = [local EXCEPT ![j].rest = mask]
        /\ Goto(j, "kick")
        /\ UNCHANGED <<job, cur, devVars, irq, nx, hwVars>>

(* rknpu_job_next for each core of the mask in turn.                       *)
Kick(j) ==
    LET c == Min(local[j].rest)
    IN  /\ pc[j] = "kick"
        /\ nx[j].at = "none"
        /\ IF local[j].rest = {}
           THEN Goto(j, "scheduled") /\ UNCHANGED <<local, nx>>
           ELSE /\ CallNext(j, c)
                /\ local' = [local EXCEPT ![j].rest = @ \ {c}]
                /\ UNCHANGED pc
        /\ UNCHANGED <<job, coreVars, devVars, irq, hwVars>>

(* rknpu_submit after rknpu_job_schedule: a NONBLOCK submit returns        *)
(* job->ret, a PC job is waited for, any other job goes by its job->ret.   *)
Scheduled(j) ==
    /\ pc[j] = "scheduled"
    /\ IF job[j].nonblock
       THEN /\ local' = [local EXCEPT ![j] = [NewLocal EXCEPT !.ret = job[j].ret]]
            /\ Goto(j, IF job[j].ret = "0" THEN "ret" ELSE "abort")
       ELSE /\ Goto(j, IF job[j].pc_mode THEN "wait" ELSE "decide")
            /\ UNCHANGED local
    /\ UNCHANGED <<job, coreVars, devVars, irq, nx, hwVars>>

----------------------------------------------------------------------------
(* The condition rknpu_job_wait sleeps on.                                 *)
WaitOver(j) == job[j].done \/ soft_reseting

WaitsNotCounted(j) == local[j].waits   \* mutant
WaitsCounted(j) == local[j].waits + 1

(* wait_event_timeout returns: at most three rounds, and another one only  *)
(* after a timeout of a job that the hardware has not had for long enough  *)
(* (one that was not started always waits on).                             *)
WaitRound(j, isExpired) ==
    /\ local' = [local EXCEPT ![j].waits = WaitsCounted(j), ![j].expired = isExpired]
    /\ \/ /\ isExpired /\ ~job[j].stamped => local[j].waits >= 2
          /\ Goto(j, "waited")
       \/ /\ isExpired /\ local[j].waits < 2
          /\ Goto(j, "wait")

(* The waiter looks at its condition and sleeps if it does not hold.       *)
WaitCheck(j) ==
    /\ pc[j] = "wait"
    /\ \/ WaitOver(j) /\ WaitRound(j, FALSE)
       \/ ~WaitOver(j) /\ Goto(j, "asleep") /\ UNCHANGED local
    /\ UNCHANGED <<job, coreVars, devVars, irq, nx, hwVars>>

(* The sleep ends without a wake-up.                                       *)
WaitTimeout(j) ==
    /\ "timeout" \in Faults
    /\ pc[j] = "asleep"
    /\ WaitRound(j, ~WaitOver(j))
    /\ UNCHANGED <<job, coreVars, devVars, irq, nx, hwVars>>

WaitResultUnchecked(j) ==         \* mutant: a wake-up is taken for completion
    IF local[j].expired THEN "ETIMEDOUT" ELSE "0"

(* What rknpu_job_wait returns for a committed job.                        *)
WaitResult(j) ==
    IF local[j].expired THEN "ETIMEDOUT" ELSE IF job[j].done THEN "0" ELSE "EINVAL"

(* The result of the wait, stored in job->ret.                             *)
Waited(j) ==
    /\ pc[j] = "waited"
    /\ IF job[j].committed
       THEN /\ job' = [job EXCEPT ![j].ret = WaitResult(j)]
            /\ Goto(j, "decide")
       ELSE Goto(j, "unlink") /\ UNCHANGED job
    /\ UNCHANGED <<coreVars, devVars, local, irq, nx, hwVars>>

(* Under irq_lock: a job that was never committed leaves the queues of the *)
(* first use_core_num cores.                                               *)
Unlink(j) ==
    /\ pc[j] = "unlink"
    /\ todo' = [c \in Cores |-> IF c < UseCoreNum(j) THEN RemoveFirst(todo[c], j) ELSE todo[c]]
    /\ job' = [job EXCEPT ![j].ret = "EINVAL"]
    /\ Goto(j, "decide")
    /\ UNCHANGED <<cur, task_num, devVars, local, irq, nx, hwVars>>

(* rknpu_submit reads job->ret: clean up after success, abort otherwise.   *)
Decide(j) ==
    /\ pc[j] = "decide"
    /\ local' = [local EXCEPT ![j] = [NewLocal EXCEPT !.ret = job[j].ret]]
    /\ Goto(j, IF job[j].ret = "0" THEN "free" ELSE "abort")
    /\ UNCHANGED <<job, coreVars, devVars, irq, nx, hwVars>>

(* rknpu_job_cleanup, the last step of a blocking submit and of an abort.  *)
FreeJob(j) ==
    /\ pc[j] = "free"
    /\ job' = [job EXCEPT ![j].life = "freed"]
    /\ Goto(j, "ret")
    /\ UNCHANGED <<coreVars, devVars, local, irq, nx, hwVars>>

(* rknpu_job_cleanup_work.                                                 *)
CleanupWork(j) ==
    /\ j \in work
    /\ work' = work \ {j}
    /\ job' = [job EXCEPT ![j].life = "freed"]
    /\ UNCHANGED <<coreVars, soft_reseting, domref, pc, local, irq, nx, hwVars>>
----------------------------------------------------------------------------
(* rknpu_job_abort: give the domain back, sleep,                           *)
Abort(j) ==
    /\ pc[j] = "abort"
    /\ domref' = domref - 1
    /\ Goto(j, "clear")
    /\ UNCHANGED <<job, coreVars, soft_reseting, work, local, irq, nx, hwVars>>

AllMyCores(j) == {c \in job[j].mask : cur[c] = j}   \* mutant: no irq_entry

(* The cores an abort takes the job off: those whose handler has not seen  *)
(* it.                                                                     *)
UnseenCores(j) == {c \in job[j].mask : cur[c] = j /\ c \notin job[j].irq_entry}

(* under irq_lock take the job off those cores,                            *)
AbortClear(j) ==
    LET mine == UnseenCores(j)
    IN  /\ pc[j] = "clear"
        /\ cur' = [c \in Cores |-> IF c \in mine THEN NoJob ELSE cur[c]]
        /\ task_num' = [c \in Cores |-> IF c \in mine THEN task_num[c] - job[j].tasks
                                        ELSE task_num[c]]
        /\ Goto(j, "cleared")
        /\ UNCHANGED <<job, todo, devVars, local, irq, nx, hwVars>>

(* and reset the NPU if the job timed out.                                 *)
AbortCleared(j) ==
    /\ pc[j] = "cleared"
    /\ Goto(j, IF job[j].ret = "ETIMEDOUT" THEN "rst_begin" ELSE "free")
    /\ UNCHANGED <<job, coreVars, devVars, local, irq, nx, hwVars>>

----------------------------------------------------------------------------
(* rknpu_soft_reset, called by an aborting thread and by timeout_clean.    *)
AfterReset(j) == IF job[j].nonblock THEN "clean_cur" ELSE "free"

ResetBegin(j) ==
    /\ pc[j] = "rst_begin"
    /\ soft_reseting' = TRUE
    /\ Goto(j, "rst_wake")
    /\ UNCHANGED <<job, coreVars, domref, work, local, irq, nx, hwVars>>

(* msleep(10), then wake the waiters of every core.                        *)
ResetWake(j) ==
    /\ pc[j] = "rst_wake"
    /\ WakeUp(Cores, [pc EXCEPT ![j] = "rst_ctl"])
    /\ UNCHANGED <<job, coreVars, devVars, local, irq, nx, hwVars>>

(* Assert and deassert the reset lines: the cores lose what they execute   *)
(* and their interrupt status.  An error returns with soft_reseting set.   *)
ResetControl(j) ==
    /\ pc[j] = "rst_ctl"
    /\ \/ /\ hw' = [c \in Cores |-> IdleHw]
          /\ line' = [c \in Cores |-> "none"]
          /\ Goto(j, "rst_end")
       \/ /\ "reset_fail" \in Faults
          /\ Goto(j, AfterReset(j))
          /\ UNCHANGED <<hw, line>>
    /\ UNCHANGED <<job, coreVars, devVars, local, irq, nx, executed>>

ResetEnd(j) ==
    /\ pc[j] = "rst_end"
    /\ soft_reseting' = FALSE
    /\ Goto(j, AfterReset(j))
    /\ UNCHANGED <<job, coreVars, domref, work, local, irq, nx, hwVars>>

----------------------------------------------------------------------------
(* rknpu_job_timeout_clean, run by every NONBLOCK submit before it is      *)
(* scheduled: look, without the lock, at the job of each core of the mask. *)
Clean(j) ==
    LET c == Min(local[j].rest)
    IN  /\ pc[j] = "clean"
        /\ \/ /\ local[j].rest = {}
              /\ Goto(j, "sched")
              /\ UNCHANGED local
           \/ /\ local[j].rest # {}
              /\ local' = [local EXCEPT ![j].rest = @ \ {c}]
              /\ UNCHANGED pc
           \/ /\ "overtime" \in Faults
              /\ local[j].rest # {}
              /\ cur[c] # NoJob
              /\ local' = [local EXCEPT ![j].victim = cur[c]]
              /\ Goto(j, "rst_begin")
        /\ UNCHANGED <<job, coreVars, devVars, irq, nx, hwVars>>

(* After the reset, under irq_lock: the core has no job.                   *)
CleanCur(j) ==
    /\ pc[j] = "clean_cur"
    /\ cur' = [cur EXCEPT ![Min(local[j].rest)] = NoJob]
    /\ Goto(j, "clean_work")
    /\ UNCHANGED <<job, todo, task_num, devVars, local, irq, nx, hwVars>>

ScheduleCleanupNever(k) == UNCHANGED work   \* mutant

(* schedule_work: the work item of a blocking job was never initialised,   *)
(* and the work queue refuses it.                                          *)
ScheduleCleanup(k) == work' = IF job[k].nonblock THEN work \cup {k} ELSE work

(* Hand the victim to the cleanup worker and, under irq_lock, make the     *)
(* next job of the queue the victim, until the queue is empty.             *)
CleanWork(j) ==
    LET c == Min(local[j].rest)
    IN  /\ pc[j] = "clean_work"
        /\ ScheduleCleanup(local[j].victim)
        /\ IF todo[c] # <<>>
           THEN /\ local' = [local EXCEPT ![j].victim = Head(todo[c])]
                /\ todo' = [todo EXCEPT ![c] = Tail(@)]
                /\ UNCHANGED pc
           ELSE /\ local' = [local EXCEPT ![j].victim = NoJob, ![j].rest = @ \ {c}]
                /\ Goto(j, "clean")
                /\ UNCHANGED todo
        /\ UNCHANGED <<job, cur, task_num, soft_reseting, domref, irq, nx, hwVars>>

----------------------------------------------------------------------------
(* rknpu_irq_handler.  Under irq_lock: which job does the core run?        *)
IrqEnter(c) ==
    LET k == cur[c]
    IN  /\ irq[c].at = "idle" /\ nx[c].at = "none"
        /\ line[c] # "none" \/ "shared_irq" \in Faults
        /\ IF k = NoJob
           THEN irq' = [irq EXCEPT ![c].at = "stray"] /\ UNCHANGED job
           ELSE /\ irq' = [irq EXCEPT ![c].at = "status", ![c].job = k]
                /\ job' = [job EXCEPT ![k].irq_entry = @ \cup {c}]
        /\ UNCHANGED <<coreVars, devVars, pc, local, nx, hwVars>>

(* An interrupt for no job: clear it and see whether a job is waiting.     *)
IrqStray(c) ==
    /\ irq[c].at = "stray"
    /\ irq' = [irq EXCEPT ![c] = IdleIrq]
    /\ line' = [line EXCEPT ![c] = "none"]
    /\ CallNext(c, c)
    /\ UNCHANGED <<job, coreVars, devVars, pc, local, hw, executed>>

IrqStatus(c) ==
    /\ irq[c].at = "status"
    /\ irq' = [irq EXCEPT ![c].at = "compare", ![c].status = line[c]]
    /\ UNCHANGED <<job, coreVars, devVars, pc, local, nx, hwVars>>

(* rknpu_fuzz_status(status) = job->int_mask[c]?  Either way INT_CLEAR.    *)
(* The int_mask of a core the job was not committed to is 0, which is what *)
(* no status at all compares equal to.                                     *)
IrqCompare(c) ==
    LET valid == irq[c].status = IF c \in job[irq[c].job].int_mask THEN "ok" ELSE "none"
    IN  /\ irq[c].at = "compare"
        /\ line' = [line EXCEPT ![c] = "none"]
        /\ irq' = [irq EXCEPT ![c] = IF valid THEN [@ EXCEPT !.at = "count"] ELSE IdleIrq]
        /\ UNCHANGED <<job, coreVars, devVars, pc, local, nx, hw, executed>>

(* rknpu_job_done: another batch to run on this core?                      *)
IrqCount(c) ==
    LET k == irq[c].job
        n == job[k].submit_count[c] + 1
    IN  /\ irq[c].at = "count"
        /\ job' = [job EXCEPT ![k].submit_count[c] = n]
        /\ irq' = [irq EXCEPT ![c].at = IF n < Batches(k) THEN "recommit" ELSE "finish"]
        /\ UNCHANGED <<coreVars, devVars, pc, local, nx, hwVars>>

IrqRecommit(c) ==
    /\ irq[c].at = "recommit"
    /\ SubcoreCommit(irq[c].job, c)
    /\ irq' = [irq EXCEPT ![c] = IdleIrq]
    /\ UNCHANGED <<coreVars, devVars, pc, local, nx, executed>>

(* Under irq_lock: the core is free.                                       *)
IrqFinish(c) ==
    /\ irq[c].at = "finish"
    /\ cur' = [cur EXCEPT ![c] = NoJob]
    /\ task_num' = [task_num EXCEPT ![c] = @ - job[irq[c].job].tasks]
    /\ irq' = [irq EXCEPT ![c].at = "complete"]
    /\ UNCHANGED <<job, todo, devVars, pc, local, nx, hwVars>>

(* atomic_dec_and_test(&job->interrupt_count): the last core to finish     *)
(* gives the domain back and marks the job DONE.                           *)
IrqComplete(c) ==
    LET k == irq[c].job
        last == LastToFinish(k)
    IN  /\ irq[c].at = "complete"
        /\ job' = [job EXCEPT ![k].interrupt_count = @ - 1, ![k].done = last \/ @]
        /\ domref' = IF last THEN domref - 1 ELSE domref
        /\ IF last
           THEN irq' = [irq EXCEPT ![c].at = "signal"] /\ UNCHANGED nx
           ELSE irq' = [irq EXCEPT ![c] = IdleIrq] /\ CallNext(c, c)
        /\ UNCHANGED <<coreVars, soft_reseting, work, pc, local, hwVars>>

(* The rest of the completion: result, fence, cleanup of an ASYNC job,     *)
(* wake-up.                                                                *)
IrqSignal(c) ==
    LET k == irq[c].job
    IN  /\ irq[c].at = "signal"
        /\ job' = [job EXCEPT ![k].ret = "0",
                              ![k].fence = IF @ = "none" THEN "none" ELSE "signaled"]
        /\ ScheduleCleanup(k)
        /\ WakeUp({IF UseCoreNum(k) > 1 THEN 0 ELSE c}, pc)
        /\ irq' = [irq EXCEPT ![c] = IdleIrq]
        /\ CallNext(c, c)
        /\ UNCHANGED <<coreVars, soft_reseting, domref, local, hwVars>>

----------------------------------------------------------------------------
(* The hardware: a core finishes its batch and raises its interrupt.       *)
HwFinish(c) ==
    LET k == hw[c].job
    IN  /\ k # NoJob
        /\ hw' = [hw EXCEPT ![c] = IdleHw]
        /\ line' = [line EXCEPT ![c] = IF @ = "bad" THEN "bad" ELSE "ok"]
        /\ executed' = [executed EXCEPT ![k][c] = @ + hw[c].tasks]
        /\ UNCHANGED <<job, coreVars, devVars, pc, local, irq, nx>>

(* An interrupt with another status.                                       *)
HwBadIrq(c) ==
    /\ "bad_irq" \in Faults
    /\ line[c] = "none"
    /\ line' = [line EXCEPT ![c] = "bad"]
    /\ UNCHANGED <<job, coreVars, devVars, pc, local, irq, nx, hw, executed>>

----------------------------------------------------------------------------
NextCall(e) == NextCheck(e) \/ NextPop(e) \/ NextDec(e) \/ NextCommit(e)

Reset(j) == ResetBegin(j) \/ ResetWake(j) \/ ResetControl(j) \/ ResetEnd(j)

(* What the thread of j does by itself once it has entered rknpu_submit.   *)
Thread(j) ==
    \/ FenceIn(j) \/ FenceOut(j) \/ Schedule(j) \/ Enqueue(j) \/ Kick(j) \/ Scheduled(j)
    \/ WaitCheck(j) \/ WaitTimeout(j) \/ Waited(j) \/ Unlink(j) \/ Decide(j)
    \/ FreeJob(j) \/ Abort(j) \/ AbortClear(j) \/ AbortCleared(j) \/ Reset(j)
    \/ Clean(j) \/ CleanCur(j) \/ CleanWork(j)

Handler(c) ==
    \/ IrqEnter(c) \/ IrqStray(c) \/ IrqStatus(c) \/ IrqCompare(c) \/ IrqCount(c)
    \/ IrqRecommit(c) \/ IrqFinish(c) \/ IrqComplete(c) \/ IrqSignal(c)

Next ==
    \/ \E j \in Jobs : (\E a \in Requests : Submit(j, a)) \/ Thread(j) \/ CleanupWork(j)
    \/ \E e \in Executors : NextCall(e)
    \/ \E c \in Cores : Handler(c) \/ HwFinish(c) \/ HwBadIrq(c)

Spec == Init /\ [][Next]_vars

(* The scheduler runs every runnable thread, interrupt handler and worker, *)
(* and a timer that is armed expires.                                      *)
KernelFairness ==
    /\ \A j \in Jobs : WF_vars(Thread(j)) /\ WF_vars(CleanupWork(j))
    /\ \A e \in Executors : WF_vars(NextCall(e))
    /\ \A c \in Cores : WF_vars(Handler(c))

FairSpec == Spec /\ KernelFairness

(* Moreover the hardware finishes what it is given.                        *)
LiveSpec == FairSpec /\ \A c \in Cores : WF_vars(HwFinish(c))

----------------------------------------------------------------------------
(* Type correctness of jobs, cores, threads, handlers and hardware.        *)
Labels ==
    {"new", "fence_in", "fence_out", "clean", "sched", "enqueue", "kick", "scheduled", "wait", "asleep",
     "waited", "unlink", "decide", "free", "abort", "clear", "cleared", "rst_begin",
     "rst_wake", "rst_ctl", "rst_end", "clean_cur", "clean_work", "ret"}

CoresTypeOK ==
    /\ cur \in [Cores -> Jobs \cup {NoJob}]
    /\ todo \in [Cores -> Seq(Jobs)]
    /\ task_num \in [Cores -> Int]
    /\ soft_reseting \in BOOLEAN
    /\ domref \in Int
    /\ work \in SUBSET Jobs

IrqType ==
    [at : {"idle", "stray", "status", "compare", "count", "recommit", "finish",
           "complete", "signal"},
     job : Jobs \cup {NoJob}, status : {"none", "ok", "bad"}]

NextType ==
    [at : {"none", "check", "pop", "dec", "commit"}, core : Cores,
     job : Jobs \cup {NoJob}, left : SUBSET Cores]

HardwareTypeOK ==
    /\ hw \in [Cores -> [job : Jobs \cup {NoJob}, tasks : Int]]
    /\ line \in [Cores -> {"none", "ok", "bad"}]
    /\ executed \in [Jobs -> [Cores -> Int]]

TypeOK ==
    /\ job \in [Jobs -> JobType]
    /\ CoresTypeOK
    /\ pc \in [Jobs -> Labels]
    /\ local \in [Jobs -> LocalType]
    /\ irq \in [Cores -> IrqType]
    /\ nx \in [Executors -> NextType]
    /\ HardwareTypeOK

(* No core runs and no queue holds a job whose memory has been freed, by   *)
(* its own submit or by the cleanup worker.                                *)
QueuedJobsLive ==
    \A c \in Cores : \A k \in ToSet(todo[c]) \cup ({cur[c]} \ {NoJob}) : job[k].life = "live"

(* Nobody is in the driver, no work is queued and the hardware is quiet.   *)
Quiet ==
    /\ \A j \in Jobs : pc[j] \in {"new", "ret"}
    /\ work = {}
    /\ \A e \in Executors : nx[e].at = "none"
    /\ \A c \in Cores : irq[c].at = "idle" /\ line[c] = "none" /\ hw[c].job = NoJob

(* A quiet driver has nothing left over: no job on a core or in a queue    *)
(* that nobody will ever start, no job that was not freed, no fence that   *)
(* user space waits for in vain, and the counts of tasks and of domain     *)
(* users back at zero.                                                     *)
QuietMeansClean ==
    Quiet => /\ \A c \in Cores : cur[c] = NoJob /\ todo[c] = <<>> /\ task_num[c] = 0
             /\ domref = 0
             /\ \A j \in Jobs : job[j].life # "live" /\ job[j].fence # "shared"

(* A job is marked DONE only after the hardware has executed every task of *)
(* it on every core of its mask, each exactly once, whatever the batches.  *)
DoneMeansExecuted ==
    \A j \in Jobs : job[j].done => \A c \in job[j].mask : executed[j][c] = job[j].tasks

(* j is in front of k on core c.                                           *)
Ahead(j, k, c) ==
    \/ cur[c] = j /\ k \in ToSet(todo[c])
    \/ \E m, n \in DOMAIN todo[c] : m < n /\ todo[c][m] = j /\ todo[c][n] = k

(* Two jobs that share cores are served in the same order on all of them,  *)
(* so that no two multi-core jobs each hold a core the other waits for.    *)
GangNeverCrossed ==
    \A j, k \in Jobs : \A c, d \in Cores : ~(Ahead(j, k, c) /\ Ahead(k, j, d))

(* While an interrupt handler works on a job, up to the point where it     *)
(* clears subcore_data->job, the core still belongs to that job: irq_entry *)
(* keeps rknpu_job_abort away, and the handler's own "job = NULL" never    *)
(* takes the core from a job that came later.                              *)
HandlerOwnsCore ==
    \A c \in Cores :
        irq[c].at \in {"status", "compare", "count", "recommit", "finish"} =>
            cur[c] = irq[c].job

(* A blocking submit that waits for its job returns 0 only for a job that  *)
(* an interrupt has marked DONE, even when a timeout, a reset by another   *)
(* thread and the completion race for job->ret.                            *)
SuccessMeansDone ==
    \A j \in Jobs :
        (local[j].ret = "0" /\ ~job[j].nonblock /\ job[j].pc_mode) => job[j].done

(* Every submit comes back to user space: a hung core, an interrupt that   *)
(* is lost and a reset that fails only delay it.                           *)
SubmitReturns == \A j \in Jobs : (pc[j] # "new") ~> (pc[j] = "ret")

(* Without faults every job that was queued completes, is freed and        *)
(* signals its fence: no lost wake-up, no queue whose head nobody starts.  *)
JobsComplete ==
    \A j \in Jobs : (pc[j] = "kick") ~>
        (job[j].done /\ job[j].life = "freed" /\ job[j].fence # "shared")

(* rknpu_remove warns about a core that has a job, or a job that is still  *)
(* queued, when nobody uses the driver any more.                           *)
RemoveFindsNothing == Quiet => \A c \in Cores : cur[c] = NoJob /\ todo[c] = <<>>
=============================================================================
