------------------------- MODULE RknpuJobInvariants -------------------------
(***************************************************************************)
(* The inductive invariants of the job engine, which RknpuJobProofs        *)
(* proves.  None of the properties of RknpuJob is inductive.               *)
(*                                                                         *)
(* IInv holds under every fault.  What it rests on is who can be at a job: *)
(* a job that has not been queued is known to its own thread only (Fresh), *)
(* a call of rknpu_job_next and an interrupt handler have the job they     *)
(* work on (CallsFit, HandlersFit), and a thread of a NONBLOCK submit      *)
(* never gets to the places where a blocking one waits and aborts          *)
(* (ThreadsFit), although both run rknpu_soft_reset.                       *)
(*                                                                         *)
(* Four more follow, each on top of those before it and for fewer faults:  *)
(* a handler owns its core (OwnInv), the counters of a job never fall      *)
(* short (OrderInv), a core executes each batch once (ExactInv), and the   *)
(* counters are exact and nobody forgets a core (QuietInv).                *)
(***************************************************************************)
EXTENDS RknpuJob

(* The places of rknpu_soft_reset.                                         *)
ResetLabels == {"rst_begin", "rst_wake", "rst_ctl", "rst_end"}

(* The thread of j runs rknpu_job_timeout_clean and has found a victim.    *)
Cleaning(j) ==
    pc[j] \in {"clean_cur", "clean_work"} \/ (job[j].nonblock /\ pc[j] \in ResetLabels)

(* The job of j has not joined a queue.                                    *)
Unqueued(j) ==
    \/ pc[j] \in {"new", "fence_in", "fence_out", "clean", "sched", "enqueue"}
    \/ Cleaning(j)

(* Nobody but the thread of j knows the job.                               *)
Unknown(j) ==
    /\ \A c \in Cores : /\ cur[c] # j /\ irq[c].job # j /\ hw[c].job # j
                        /\ \A n \in DOMAIN todo[c] : todo[c][n] # j
    /\ \A e \in Executors : nx[e].job # j
    /\ \A i \in Jobs : local[i].victim # j
    /\ j \notin work

(* A call of rknpu_job_next has the job it works on.                       *)
CallFits(e) ==
    /\ nx[e].at \in {"dec", "commit"} => nx[e].job \in Jobs
    /\ nx[e].at = "commit" => nx[e].left # {}

(* So has a handler, and it signals only a job that is DONE.               *)
HandlerFits(c) ==
    /\ irq[c].at \notin {"idle", "stray"} => irq[c].job \in Jobs
    /\ irq[c].at = "signal" => job[irq[c].job].done = TRUE

(* A NONBLOCK submit does not wait or abort, a blocking one does not look  *)
(* for overtime jobs.                                                      *)
ThreadFits(j) ==
    /\ job[j].nonblock = TRUE =>
          /\ job[j].ret # "ETIMEDOUT"
          /\ pc[j] \notin {"wait", "asleep", "waited", "unlink", "decide"}
    /\ job[j].nonblock = FALSE => pc[j] \notin {"clean", "clean_cur", "clean_work"}
    /\ Cleaning(j) => local[j].rest # {} /\ local[j].victim \in Jobs

(* The result that the thread of a blocking job passes on.                 *)
ResultFits(j) ==
    /\ pc[j] = "new" => local[j].ret = "none"
    /\ (job[j].nonblock = FALSE /\ job[j].pc_mode = TRUE) =>
          /\ pc[j] = "decide" /\ job[j].ret = "0" => job[j].done = TRUE
          /\ local[j].ret = "0" => job[j].done = TRUE

(* All calls, handlers, threads and results are so, and nobody knows a job *)
(* that is not queued.                                                     *)
CallsFit == \A e \in Executors : CallFits(e)
HandlersFit == \A c \in Cores : HandlerFits(c)
ThreadsFit == \A j \in Jobs : ThreadFits(j)
ResultsFit == \A j \in Jobs : ResultFits(j)
Fresh == \A j \in Jobs : Unqueued(j) => Unknown(j)

(* A job is at most once at a core, on it or in its queue.                 *)
Once ==
    \A c \in Cores :
        /\ \A m, n \in DOMAIN todo[c] : todo[c][m] = todo[c][n] => m = n
        /\ \A n \in DOMAIN todo[c] : todo[c][n] # cur[c]

(* What makes TypeOK inductive, and the invariant under every fault.       *)
Fits == CallsFit /\ HandlersFit /\ ThreadsFit /\ ResultsFit /\ Fresh
IInv == TypeOK /\ Fits /\ Once /\ GangNeverCrossed

----------------------------------------------------------------------------
(* A handler owns its core.                                                *)

(* Where a handler works for the job it found on its core.                 *)
Working == {"status", "compare", "count", "recommit", "finish"}

(* Nobody has found a job overtime.                                        *)
NoCleaning == \A j \in Jobs : ~Cleaning(j)

(* irq_entry of a handler's job is set, which keeps rknpu_job_abort away.  *)
Owned ==
    \A c \in Cores :
        irq[c].at \in Working => cur[c] = irq[c].job /\ c \in job[irq[c].job].irq_entry

(* The invariant if timeout_clean never finds a job overtime (NoOvertime). *)
OwnInv == IInv /\ NoCleaning /\ Owned

(* A NONBLOCK submit finds no job that is older than its timeout.          *)
NoOvertime == "overtime" \notin Faults

----------------------------------------------------------------------------
(* A job is not freed while a core knows it.                               *)

(* No time limit expires, and every submit is a mapped PC job.             *)
NotLate ==
    /\ Faults \cap {"timeout", "overtime"} = {}
    /\ \A a \in Requests : a.pc_mode = TRUE /\ a.mapped = TRUE

(* j is in the queue of c.                                                 *)
Waiting(j, c) == \E n \in DOMAIN todo[c] : todo[c][n] = j

(* Core c runs j or has it in its queue.                                   *)
At(j, c) == cur[c] = j \/ Waiting(j, c)

(* No core has j.                                                          *)
Gone(j) == \A c \in Cores : ~At(j, c)

(* The cores that interrupt_count of j still stands for.                   *)
Unfinished(j) ==
    {c \in Cores : At(j, c) \/ (irq[c].job = j /\ irq[c].at = "complete")}

(* Before the job is queued.                                               *)
Early == {"fence_in", "fence_out", "clean", "sched", "enqueue"}

(* The thread of a blocking submit has stopped waiting.                    *)
Late == {"waited", "unlink", "decide", "abort", "clear", "cleared", "free"}

(* The count never falls below the number of the cores it stands for: the  *)
(* core that takes it to 0 is the last one.  A thread that has stopped     *)
(* waiting, a result other than 0, a freed job and one that is to be freed *)
(* by the worker are all signs that no core knows the job any more.        *)
JobOrderly(j) ==
    /\ pc[j] # "new" =>
          job[j].life # "none" /\ job[j].pc_mode = TRUE /\ job[j].mapped = TRUE
    /\ pc[j] \in Early =>
          /\ job[j].life = "live" /\ job[j].ret = "0" /\ job[j].done = FALSE
          /\ job[j].interrupt_count = Cardinality(job[j].mask)
    /\ job[j].interrupt_count >= Cardinality(Unfinished(j))
    /\ job[j].done = TRUE => Unfinished(j) = {}
    /\ pc[j] \in Late \/ job[j].ret # "0" \/ job[j].life = "freed" \/ j \in work => Gone(j)
    /\ pc[j] \notin ResetLabels /\ job[j].ret # "ETIMEDOUT" /\ local[j].expired = FALSE

(* A handler that counts or signals a job has taken it off its core.       *)
HandlersOrderly ==
    \A c \in Cores : irq[c].at \in {"complete", "signal"} => ~At(irq[c].job, c)

(* All jobs and handlers are orderly, and no soft reset is under way.      *)
JobsOrderly == \A j \in Jobs : JobOrderly(j)
Orderly == soft_reseting = FALSE /\ JobsOrderly /\ HandlersOrderly

(* The invariant if nothing is late either (NotLate).                      *)
OrderInv == OwnInv /\ Orderly

----------------------------------------------------------------------------
(* DONE means executed.                                                    *)

(* Besides, no other device raises an interrupt on the shared line.        *)
OwnLine == "shared_irq" \notin Faults

(* The tasks that n batches of a job of t tasks come to.                   *)
TasksOf(n, t) == IF n * MaxSubmit < t THEN n * MaxSubmit ELSE t

(* The tasks core c has finished of j, and those with one more batch.      *)
Ran(j, c) == TasksOf(job[j].submit_count[c], job[j].tasks)
RanOne(j, c) == TasksOf(job[j].submit_count[c] + 1, job[j].tasks)

(* The call of e has taken j from the queue of c and not yet counted it.   *)
Counting(e, j, c) == nx[e].at = "dec" /\ nx[e].core = c /\ nx[e].job = j

(* The cores that run_count of j still stands for.                         *)
Reaching(j) ==
    {c \in Cores : Waiting(j, c) \/ \E e \in Executors : Counting(e, j, c)}

(* A job is started once run_count has come to 0, which is when all cores  *)
(* of its mask have reached it; until then no core has done any of it.     *)
Started(j) ==
    /\ pc[j] # "new" => job[j].tasks # 0
    /\ pc[j] \in Early \cup {"new"} => job[j].int_mask = {}
    /\ pc[j] \in Early => job[j].run_count = Cardinality(job[j].mask)
    /\ job[j].run_count >= Cardinality(Reaching(j))
    /\ job[j].int_mask # {} => job[j].run_count <= 0

(* A core of the mask lets go of a job only when it has executed all of    *)
(* it.                                                                     *)
Placed(j) ==
    /\ \A c \in Cores \ job[j].int_mask : job[j].submit_count[c] = 0 /\ executed[j][c] = 0
    /\ \A c \in Cores : At(j, c) => c \in job[j].mask
    /\ Unfinished(j) # {} \/ job[j].done = TRUE =>
          \A c \in job[j].mask : At(j, c) \/ executed[j][c] = job[j].tasks

(* The caller of rknpu_job_next has the core it counts to itself, and the  *)
(* one that starts a job has all of the cores it still has to start.       *)
CallExact(e) ==
    /\ nx[e].at = "dec" =>
          /\ cur[nx[e].core] = nx[e].job
          /\ \A f \in Executors : nx[f].at = "dec" /\ nx[f].core = nx[e].core => f = e
    /\ nx[e].at = "commit" =>
          /\ job[nx[e].job].run_count <= 0
          /\ \A c \in nx[e].left : cur[c] = nx[e].job /\ c \notin job[nx[e].job].int_mask
          /\ \A f \in Executors : nx[f].at = "commit" /\ nx[f].job = nx[e].job => f = e

(* A core executes the next batch of its job; its interrupt says that this *)
(* batch is done, and nothing else.                                        *)
CoreExact(c) ==
    /\ hw[c].job # NoJob =>
          /\ cur[c] = hw[c].job /\ c \in job[hw[c].job].int_mask /\ line[c] # "ok"
          /\ executed[hw[c].job][c] = Ran(hw[c].job, c)
          /\ hw[c].tasks = RanOne(hw[c].job, c) - Ran(hw[c].job, c)
    /\ line[c] = "ok" =>
          /\ cur[c] # NoJob /\ c \in job[cur[c]].int_mask
          /\ executed[cur[c]][c] = RanOne(cur[c], c)

(* The core of a handler is idle, its interrupt cleared.                   *)
Quiesced(c) == hw[c].job = NoJob /\ line[c] # "ok" /\ c \in job[irq[c].job].int_mask

(* What a handler has learnt from the status of its core.                  *)
HandlerExact(c) ==
    /\ irq[c].at = "status" => line[c] # "none" \/ c \in job[irq[c].job].int_mask
    /\ irq[c].at = "compare" =>
          /\ irq[c].status # "none" \/ c \in job[irq[c].job].int_mask
          /\ irq[c].status = "ok" => line[c] = "ok"
    /\ irq[c].at = "count" => Quiesced(c) /\ executed[irq[c].job][c] = RanOne(irq[c].job, c)
    /\ irq[c].at = "recommit" =>
          /\ Quiesced(c) /\ executed[irq[c].job][c] = Ran(irq[c].job, c)
          /\ job[irq[c].job].submit_count[c] * MaxSubmit < job[irq[c].job].tasks
    /\ irq[c].at = "finish" => Quiesced(c) /\ executed[irq[c].job][c] = job[irq[c].job].tasks

(* All jobs, calls, cores and handlers are exact.                          *)
Exact ==
    /\ \A j \in Jobs : Started(j) /\ Placed(j)
    /\ \A e \in Executors : CallExact(e)
    /\ \A c \in Cores : CoreExact(c) /\ HandlerExact(c)

(* The invariant if moreover the line is the driver's own (OwnLine).       *)
ExactInv == OrderInv /\ Exact

----------------------------------------------------------------------------
(* A quiet driver is clean.                                                *)

(* No time limit expires, no other device uses the line, every interrupt   *)
(* is the one that was programmed, the IOMMU domain is there and no input  *)
(* fence fails; every submit is a mapped PC job, with a mask that          *)
(* rknpu_job_commit knows.  A soft reset may fail, and so may the output   *)
(* fence of a submit.                                                      *)
Untroubled ==
    /\ Faults \subseteq {"reset_fail", "fence_out"}
    /\ \A a \in Requests : a.pc_mode = TRUE /\ a.mapped = TRUE /\ CommitCores(a.mask) = a.mask

(* The submit of j ended before the job was scheduled.                     *)
Failed(j) == local[j].ret = "ENOMEM"

(* rknpu_job_schedule has put j in its queues.                             *)
Queued(j) == pc[j] \notin Early \cup {"new"} /\ ~Failed(j)

(* A job that nothing goes wrong with: its thread never aborts it, waits   *)
(* until it is DONE, and frees it if the submit was a blocking one; a mask *)
(* bit is set only of a job that was committed.                            *)
JobSettled(j) ==
    /\ pc[j] \notin {"unlink", "abort", "clear", "cleared"} /\ job[j].ret = "0"
    /\ pc[j] \in {"waited", "decide", "free"} => job[j].done = TRUE
    /\ job[j].done = TRUE \/ job[j].int_mask # {} => job[j].committed = TRUE
    /\ Failed(j) =>
          pc[j] = "ret" /\ job[j].life = "freed" /\ job[j].fence = "none" /\ job[j].int_mask = {}
    /\ pc[j] = "new" => job[j].life = "none" /\ job[j].done = FALSE
    /\ pc[j] \in {"new", "fence_in", "fence_out"} => job[j].fence = "none"
    /\ pc[j] = "ret" /\ job[j].nonblock = FALSE => job[j].life = "freed"
    /\ CommitCores(job[j].mask) = job[j].mask
    /\ pc[j] = "enqueue" \/ Queued(j) => job[j].mask # {}

(* Every interrupt is that of the job on the core, and a core with a       *)
(* started batch has it on the hardware, its interrupt on the line, or a   *)
(* handler on the way to the next batch or to the end of the job.          *)
CoreSettled(c) ==
    /\ line[c] # "bad" /\ irq[c].at # "stray"
    /\ irq[c].at \in {"status", "compare"} => line[c] = "ok"
    /\ irq[c].at = "compare" => irq[c].status = "ok"
    /\ irq[c].at = "complete" => c \in job[irq[c].job].int_mask
    /\ irq[c].at # "idle" => nx[c].at = "none"
    /\ cur[c] # NoJob /\ c \in job[cur[c]].int_mask =>
          hw[c].job # NoJob \/ line[c] = "ok" \/ irq[c].at \in {"count", "recommit", "finish"}

(* Nothing has gone wrong with a job or a core.                            *)
Settled == (\A j \in Jobs : JobSettled(j)) /\ \A c \in Cores : CoreSettled(c)

(* The call of rknpu_job_next by e is to give c its first batch of j.      *)
Starting(e, j, c) == nx[e].at = "commit" /\ nx[e].job = j /\ c \in nx[e].left

(* run_count is the number of cores of j that have not counted it yet;     *)
(* when there are none left, every core has its first batch or gets it     *)
(* from the call that counted last; interrupt_count is the number of cores *)
(* that have not finished j.                                               *)
JobCounted(j) ==
    Queued(j) =>
        /\ job[j].run_count = Cardinality(Reaching(j))
        /\ job[j].run_count = 0 => \A c \in job[j].mask :
              c \in job[j].int_mask \/ \E e \in Executors : Starting(e, j, c)
        /\ job[j].done = FALSE =>
              job[j].interrupt_count = Cardinality(Unfinished(j)) /\ Unfinished(j) # {}

(* Both counters of every job are exact.                                   *)
Counted == \A j \in Jobs : JobCounted(j)

(* The call of rknpu_job_next by e is about to look at c.                  *)
Looking(e, c) == nx[e].at \in {"check", "pop"} /\ nx[e].core = c

(* A free core with jobs in its queue has someone to take the first one: a *)
(* call of rknpu_job_next, the thread that queued the last one, or the     *)
(* handler of the core, which calls it at its end.                         *)
CoreAttended(c) ==
    cur[c] = NoJob /\ todo[c] # <<>> =>
        \/ \E e \in Executors : Looking(e, c)
        \/ \E j \in Jobs : pc[j] = "kick" /\ c \in local[j].rest
        \/ irq[c].at \in {"complete", "signal"}

(* No free core is left alone with its queue.                              *)
Attended == \A c \in Cores : CoreAttended(c)

(* A DONE job is about to be signalled by its handler, or its fence has    *)
(* been; if nobody waits for it, it was freed or the worker is to free it. *)
JobSignalled(j) ==
    job[j].done = TRUE =>
        \/ \E c \in Cores : irq[c].at = "signal" /\ irq[c].job = j
        \/ job[j].fence # "shared" /\ (job[j].nonblock = TRUE => j \in work \/ job[j].life = "freed")

(* The end of no job is kept from those who wait for it.                   *)
Signalled == \A j \in Jobs : JobSignalled(j)

(* The tasks of the jobs at c, one by one: what task_num of c counts.      *)
Load(c) == UNION {{j} \X (1 .. job[j].tasks) : j \in {i \in Jobs : At(i, c)}}

(* j has taken the IOMMU domain and not given it back.                     *)
Holds(j) == (pc[j] = "enqueue" \/ Queued(j)) /\ job[j].done = FALSE

(* The jobs that hold the domain: what domref counts.                      *)
Holders == {j \in Jobs : Holds(j)}

(* The counts that the jobs share are exact: the tasks at each core, by    *)
(* which rknpu_schedule_core_index chooses, and the users of the domain.   *)
Sums ==
    /\ \A c \in Cores : IsFiniteSet(Load(c)) /\ task_num[c] = Cardinality(Load(c))
    /\ IsFiniteSet(Holders) /\ domref = Cardinality(Holders)

(* The inductive invariant of a driver that nothing goes wrong with.       *)
QuietInv == ExactInv /\ Settled /\ Counted /\ Attended /\ Signalled /\ Sums
=============================================================================
