----------------------------- MODULE MCRknpuJob -----------------------------
(* Small instances of the job engine: the submits of each run.  A job of   *)
(* three tasks needs two batches where MaxSubmit is 2.                     *)
EXTENDS RknpuJob

\* Jobs are interchangeable in the runs that check no liveness.
Symmetry == Permutations(Jobs)

\* executed is history: no action reads it, so runs whose properties do not
\* mention it may identify states that differ only there.
NoHistory == <<job, coreVars, devVars, pc, local, irq, nx, hw, line>>

Req(m, n, t) == [mask |-> m, nonblock |-> n, pc_mode |-> TRUE, mapped |-> TRUE,
                 in |-> FALSE, out |-> FALSE, tasks |-> t]

\* Blocking and asynchronous jobs of one core, both cores and AUTO; an
\* asynchronous one has fences.
MixedRequests ==
    {Req({0, 1}, FALSE, 1), [Req({0}, TRUE, 3) EXCEPT !.in = TRUE, !.out = TRUE],
     Req({}, TRUE, 1), Req({1}, FALSE, 1)}

\* Blocking jobs of one core: one batch, two, and none, without RKNPU_JOB_PC
\* and with an input fence.
BlockingRequests ==
    {Req({0}, FALSE, 1), Req({0}, FALSE, 3),
     [Req({0}, FALSE, 1) EXCEPT !.pc_mode = FALSE, !.in = TRUE]}

\* Asynchronous jobs, which clean up after others, and blocking ones,
\* one of them with an output fence and on a task object that is not mapped.
SequelRequests ==
    {Req({0}, TRUE, 1), Req({0}, FALSE, 1),
     [Req({0}, FALSE, 1) EXCEPT !.mapped = FALSE, !.out = TRUE]}

\* A job of two batches.
BatchRequests == {Req({0}, FALSE, 3)}

\* Jobs of the second core only.
SecondCoreRequests == {Req({1}, FALSE, 1)}
=============================================================================
