# A TLA+ model of the RK3568 NPU driver

The repository is a DKMS build of the Rockchip NPU driver for mainline kernels
(`src/drivers/rknpu`) and a companion dma-heap that allocates below 4 GB
(`src/dma32-heap`).  This project models the parts of them that keep shared state:
jobs, power, scaling, probe and remove, buffers and memory.  Each component has one
module; TLC checks it on small instances, and TLAPS proves the invariants of each of
them for every instance.

Contents: [1 the system](#1-the-system), [2 modules and code](#2-modules-and-code),
[3 runs](#3-runs), [4 bounds](#4-bounds), [5 fairness](#5-fairness),
[6 proofs](#6-proofs), [7 what the code does that its text does not
say](#7-where-code-and-text-differ), [8 not modelled](#8-not-modelled),
[9 plan](#9-plan).

## 1 The system

User space opens a DRM render node (`rknpu_gem.c`) or the misc device `/dev/rknpu`
(`rknpu_mem.c`), makes buffers, writes a task list into one of them and submits it.
Ioctl threads, the interrupt handlers of the cores, two kinds of work items, the
debugger's nodes and the devfreq monitor all run at once.

| component | state it keeps | operations | talks to |
|---|---|---|---|
| **Job engine** `rknpu_job.c`, `rknpu_reset.c` | per core: the running job, `todo_list`, `task_num`; per job: `run_count`, `interrupt_count`, `submit_count`, `last_task`, `irq_entry`, flags; `soft_reseting` | submit, schedule, next, commit, irq, done, wait, abort, timeout_clean, cleanup work, soft reset | hardware, IOMMU domain, GEM object of the task list, fences |
| **Power** `rknpu_drv.c`, `rknpu_debugger.c` | `power_refcount`, `cmdline_power_refcount`, `power_off_work`, `power_put_delay` | get, put, put_delay, delayed work, nodes `power` and `delayms` | every ioctl, freq node, resume |
| **SRAM manager** `rknpu_mm.c` | `bitmap`, `free_chunks` under `mm->lock` | create, alloc (first fit), free | GEM buffers |
| **GEM buffers** `rknpu_gem.c` | reference counts, handles, the list of tracked ranges, SRAM and DMA memory of each object | GEM_CREATE, GEM_DESTROY, dumb create, import, MEM_SYNC, object destroy | SRAM manager, IOMMU domain, jobs |
| **Misc buffers, sessions** `rknpu_mem.c`, `rknpu_drv.c` | `session->list`; dma-buf references, attachments, kernel mappings | open, MEM_CREATE, MEM_DESTROY, MEM_SYNC, release | dma-heap, other exporters |
| **dma32 heap** `dma32_heap.c` | pages of each buffer, `vmap_cnt` | allocate, release, vmap, vunmap, attach, map, mmap | page allocator |
| **IOMMU domains, map_sg** `rknpu_iommu.c` | `iommu_domain_refcount`, domain id, IOVA space | get_and_switch, put, map_sg, unmap_sg | jobs, GEM |
| **Fences** `rknpu_fence.c` | fence context and sequence number | alloc, fd, signal | submit, completion |
| **devfreq** `rknpu_devfreq_dkms.c`, `rknpu_debugfs_ctrl.c` | clock rate, regulator voltage, `current_freq`, `devfreq->lock`, `scmi_clk` | init, target, get_dev_status, remove; the files `freq_hz`, `voltage_uv` | governor, power_on, power_off |
| **Probe, remove** `rknpu_drv.c` | what is registered and initialised; the usage counts of clocks, power domains and device | probe with its error labels, remove, power_on, power_off | all |
| **Load timer, debug nodes** `rknpu_drv.c`, `rknpu_debugger.c` | `busy_time` | timer, nodes that print | jobs |

What makes each of them hard, and what being correct means:

- *Jobs.*  A job of several cores starts when the last of its cores has reached it and
  ends when the last has finished; cores reach it in different threads and handlers.  A
  wait can end by completion, by time, or by a reset that another thread runs, and the
  abort that follows races the interrupt of the same job.  Correct: every task executes
  once before DONE; success is reported only for DONE; jobs that share cores do not
  cross; every submit returns; nothing is left over when the driver is quiet.
- *Power.*  The last `put_delay` hands its reference to a work item; a `get` may come
  in between, `power_off` may fail, and a write of `off` to a power node counts, reads, subtracts
  and resets with four separate accesses, which nothing keeps apart from those of another writer.
  Correct: the count is exact, power follows it, it goes off in the end.
- *SRAM manager.*  A search that restarts, its end at the last chunk, and a counter kept
  beside a bitmap.  Correct: no chunk shared or leaked, first fit, -ENOMEM only when
  nothing fits.
- *Buffers.*  References of handles, jobs and the range list; error labels that undo a
  prefix of a create; destroy and close racing; addresses that come from the client.  The client
  may close what the driver still uses.  Correct: references are exact, a released object has
  returned its memory, the domain count is balanced; where the code does not ensure that, it is
  known by which sequences alone it fails.
- *MEM_SYNC.*  A walk over a scatterlist that starts and ends inside entries, with unsigned
  arithmetic of two widths.  Correct: each requested byte is synced, nothing outside.
- *Scaling.*  Two writes, to clock and regulator, of which each may fail, in an order that depends
  on the direction; the firmware rounds.  Correct: the voltage always suffices for the
  rate, and the rate reported is the rate there is.
- *Probe and remove.*  Device nodes appear before what their ioctls use; the work that switches the
  power off outlives the last ioctl; a failure leaves at any of a dozen points.  Correct: the
  counts are balanced, nothing that leads into the driver outlives it, and
  everything comes to an end.
- *Heap.*  A greedy loop over falling orders, rolled back from any point.  Correct:
  no page lost or shared, right length, all below 4 GB, the loop ends.

`PROJECT.json` lists the hazards line by line with the properties aimed at them.

## 2 Modules and code

    ChunkAllocator   abstract: what an SRAM allocator promises
        ^ refined by RknpuMm, used by RknpuGem (INSTANCE)
    RknpuMm          rknpu_mm.c            <- RknpuMmProofs
    RknpuPower       power of rknpu_drv.c, rknpu_debugger.c   <- RknpuPowerProofs
    RknpuJob         rknpu_job.c, rknpu_reset.c      <- MCRknpuJob
                                           <- RknpuJobInvariants <- RknpuJobProofs
    RknpuGem         rknpu_gem.c           <- MCRknpuGem, RknpuGemProofs
    RknpuMem         rknpu_mem.c, open/release       <- MCRknpuMem, RknpuMemProofs
    RknpuSync        MEM_SYNC of rknpu_mem.c and rknpu_gem.c
                                           <- MCRknpuSync, RknpuSyncProofs
    Dma32Heap        dma32_heap.c          <- MCDma32Heap, Dma32HeapProofs
    RknpuDevfreq     rknpu_devfreq_dkms.c, rknpu_debugfs_ctrl.c
        ^ extended by
    RknpuDevice      probe, remove, power_on, power_off of rknpu_drv.c
                                           <- MCRknpuDevice, RknpuDeviceProofs

In all of them a section under one lock is one step, and so is each access to shared
state outside the locks; between two steps any other actor may move.  `Faults` is the
set of things that may go wrong in a run; a fault that is in it may happen at any time.
A definition marked `mutant` is not part of the model: it is a wrong variant of the
definition below it, kept to show that a property notices it.

**RknpuMm.**  `AllocLock` is the entry of `rknpu_mm_alloc`, `Search` the code at
`mm_restart_search`, `Extend` one iteration of the do-while, `MarkRange` the code at
`mm_out`, `NoFreeChunk` the label `mm_no_free_chunk`.  Sizes are in bytes, so the rounding
to chunks is modelled.  `Free` is `rknpu_mm_free`.  Only the owner of `mm->lock` has locals.

**RknpuPower.**  `Get`/`Release` are any user that brackets an operation; `Put`,
`PutDelay`, `Queue` are `rknpu_power_put`, the unlocked test of `power_put_delay`, and the
locked part of `rknpu_power_put_delay`.  `RunWork` starts `rknpu_power_off_delay_work`, whose body is that
of `Put`.  `DebugOn`, `DebugOff...` are the writes to the `power` nodes in `/proc/rknpu` and in debugfs, one
step per atomic access, by any number of `Debuggers` that `rknpu_power_set` does nothing to keep apart; `seen`
is the local copy of `cmdline_power_refcount` a writer subtracts.  `overlap` records that an `off` has run
beside another write; no action reads it.
`power` is what the last `rknpu_power_on` or `rknpu_power_off` left: on, off, or the
state after a `power_on` that failed, whose callers ignore the error.

**RknpuJob.**  One thread per job (`pc`, `local`), one handler per core (`irq`), and `nx`, the
`rknpu_job_next` an executor is in.  `Submit` ... `Scheduled` are `rknpu_submit` and
`rknpu_job_schedule`, with the input fence (`FenceIn`, which may time out and go on) and the
output fence (`FenceOut`, signalled in `IrqSignal`); `NextCheck`, `NextPop`, `NextDec`, `NextCommit` are `rknpu_job_next` and
the commit; `Irq...` are `rknpu_irq_handler` and `rknpu_job_done`; `Wait...`, `Unlink`,
`Decide` are `rknpu_job_wait` and what follows it; `Abort...` is `rknpu_job_abort`; `Clean...` is
`rknpu_job_timeout_clean`; `Reset...` is `rknpu_soft_reset`.  `HwFinish` and `HwBadIrq` are the
hardware.  `executed` is a history variable no action reads.  The two units of
`args->timeout` (milliseconds in the wait, microseconds in `timeout_clean`) are two separate
faults, `timeout` and `overtime`.  A job has the same number of tasks on each core.

**RknpuGem.**  A thread's `call` says where in an ioctl it is.  `Create...` is
`rknpu_gem_object_create` with its labels, `Track`/`Untrack` the range list, `Destroy...` the
ioctl, `Free...` `rknpu_gem_object_destroy`, which the thread that drops the last reference
runs before it goes on with `after`.  SRAM requests are the actions `Grant` and `Refuse` of
`ChunkAllocator`, which `RknpuMm` is shown to implement.  Clients are not restricted: GEM_CREATE and
GEM_DESTROY look their object up by its handle (`Found`) and keep no reference, `Sync` and `Submit`
take the address the client gives, of any object or of none, and all calls overlap.  `HandleClose` is GEM_CLOSE of
the DRM core, `Close`, `CloseNext` the end of a file.  Two history variables name what comes of that.  `stale` has the
addresses where the count no longer says anything: a reference was taken on an object that had none left (`Take`), or one
was freed that was not the last (`Discard`).  `orphaned` has the objects that are on the range list and that no
GEM_DESTROY can take off it any more: the last handle went without one, or the object was tracked after that.

**RknpuMem.**  `CreateAlloc`/`CreateImport` and the steps after them are MEM_CREATE, `Err...` its
labels, `Destroy`, `Unmap`, `PutBuf` MEM_DESTROY, `Release`, `ReleaseNext` `rknpu_release`.
The dma-buf core is external: a count of fds, of file references, of attachments and of kernel
mappings.  The object of an allocated buffer has no reference of its own, and the client may close its fds
whenever it likes (`CloseFd`): before MEM_DESTROY, without one (exit), in the middle of MEM_CREATE.  `dangling` has
the buffers of which a create that failed behind `dma_buf_fd` has put the fd's reference.  A thread that touches a
dma-buf that was released either finds the memory as it was or stops (`Crash`).

**RknpuSync.**  `MemSync` and `MemWalk` are `rknpu_mem_sync_ioctl` and the loop of
`rknpu_dma_buf_sync`, `GemSync`, `GemWalk` and `GemSyncSingle` the two branches of
`rknpu_gem_sync_ioctl`; one step of a walk is one scatterlist entry, and both share the
arithmetic of `SyncEntry`.  An `Entry` has where it starts in the table, which the code has to
add up as it goes; `TableOK` says that entries follow each other and that a buffer is smaller than the words.  Three facts of the code limit what can be claimed.  The misc
driver computes each address from that of the first entry, which is right when the
entries are adjacent in DMA space (`Adjacent`).  A GEM buffer with SRAM has it in front of the
table, and the code that accounts for that needs CONFIG_NO_GKI: the walk is then off by
`sram_size`, and only the sync of the whole table before it covers the range.  The
contiguous branch passes the range on unchecked.

**RknpuDevfreq.**  `Update` is `update_devfreq` of the devfreq core (external) under
`devfreq->lock`, with the frequency the governor computes from `Load` (`get_dev_status`) or that
a limit asks for, and the cap and the OPP lookup of `rknpu_devfreq_target`; `Raise`, `SetRate`, `Lower`
are its three accesses, with their failures.  `FreqHzSet` and `VoltageUvSet` are the debugfs
files, which take no lock.  `InitClock`, `AddDevice`, `AddDeviceFailed` are `rknpu_devfreq_init`;
between the last two `rknpu_dev->devfreq` is an ERR_PTR that others can see.  `DevfreqRemove` clears
the pointers; the governor itself runs until the driver core releases the device (`DevmRemoveDevice`).

**RknpuDevice.**  `stage` is where `rknpu_probe` or `rknpu_remove` is, `up` what is registered or
initialised by then; each `Probe...`, `Err...` and `Remove...` action is one stretch of them; rmmod is
`RemoveStart`, `RemoveCancelled` (`cancel_delayed_work_sync`), `RemoveWq` (`destroy_workqueue`), `RemoveParts`.  `On...` and `Off...`
are the steps of `rknpu_power_on` and `rknpu_power_off`, taken by probe, remove, the ioctls and the
delayed work; `rknpu_devfreq_lock` and `rknpu_devfreq_unlock` each look at `rknpu_dev->devfreq` anew.
Ioctls (`Get`, `GiveBack`) may come as soon as a node exists.  `Users` have a device file open and with it a
module reference; `Nodes` are threads in a file under `/proc/rknpu`, which holds none, so that they may be in the
driver until `proc_remove` has waited for them.  `early` records that an ioctl came before
probe had returned, `late` that such a file queued the work after rmmod had cancelled it, `failed` and `stuck` what has failed;
no action of the code reads them.
RknpuPower has the same counting with `power_on` and `power_off` as single steps, and with the debugger.

**Dma32Heap.**  `SkipOrder`, `TakeBlock` are one iteration of
`alloc_largest_available_dma32`; `Interrupted`, `Table`, `Export` the rest of `dma32_heap_allocate`; `FreePage`,
`FreeBuffer` its labels and the release.  `Attach`, `MapDmaBuf`, `Mmap`, `Vmap` and their opposites are the
dma-buf operations; `Remap` is the loop of `dma32_heap_mmap`, `PageArray` that of `dma32_heap_vmap`, both checked
against `PageAt`, which says where a page of the buffer lies.  External are the page allocator
(any aligned free block, or none) and the dma-buf core, which keeps a buffer while anybody sees it and
checks that a vma lies inside it.  `dma32_heap_mmap` ignores `vm_pgoff`: a mapping with an offset shows the
start of the buffer.

## 3 Runs

| run | configuration | what it shows |
|---|---|---|
| `sram` | `RknpuMm.cfg` | five chunks of two bytes, three callers: no chunk is shared or leaked, bitmap and `free_chunks` are exact, the search ends, and the loops implement `ChunkAllocator` (lowest run, -ENOMEM only if no run fits) |
| `job_nominal` | `JobNominal.cfg` | two jobs out of four kinds on two cores, nothing fails: everything executes once, completes, signals its fence, is freed; no gang is crossed; a quiet driver is clean |
| `job_faults` | `JobFaults.cfg` | blocking jobs with timeouts, wrong and foreign interrupts, failing resets, input fences and domains: a handler's core is still its job's; success means DONE |
| `job_returns` | `JobReturns.cfg` | a core that may hang for ever, `timeout_clean`, failing resets and output fences: every submit returns |
| `job_remove` | `JobRemove.cfg` | violation, see section 7 |
| `power` | `Power.cfg` | all faults, both delays, two threads that write to the power nodes: as long as no `off` has run beside another write, `power_refcount` is exact, the power is off exactly while it is 0, and it goes off when all have left; in any case a positive count has power, and a put returns if the delay stays nonzero |
| `gem` | `Gem.cfg` | any two calls overlap, handles and files are closed with and without GEM_DESTROY, jobs refer to any object: the domain count is exact, and until an address is stale so are the references; memory is lost only where a destruction gave up and with orphans |
| `gem_find` | `GemFind.cfg` | violation, see section 7 |
| `mem` | `Mem.cfg` | attachments and mappings balance in create, destroy, release and their races, with a client that closes any fd at any time; references are exact but for the one that a failed create puts for the fd; an attached buffer is released only in the two ways `AttachedIsAlive` names |
| `sync` | `Sync.cfg` | all ranges in all small scatterlists: a walk stays inside the buffer and syncs exactly the requested bytes |
| `heap` | `Heap.cfg` | pages are conserved, lengths right, all below the limit, allocations end; devices, kernel and user space see the same page at the same place |
| `device` | `Device.cfg` | load, use and unload with one failure anywhere, power_off that may always fail, and a governor whose every call may fail: counts of clocks, domains and device match the references; nothing is left behind; users find their mutex and their workqueue, and only a file under `/proc/rknpu` can miss the latter; probe and remove end; the voltage suffices for the rate; `current_freq` is true |

Every property of a passing run has a mutant in `PROJECT.json`, a plausible slip in the
code that makes TLC report it.

Deadlock checking is off where the system may stop: in the job runs each job is
submitted once; in `device` the driver is loaded once; in `gem` and `mem` objects that are never given back (a destruction
that gave up, a buffer left behind by an error path) may use up the identities.

## 4 Bounds

- `sram`: 5 chunks, 3 callers are the smallest instance in which a run is too short, is
  followed by an occupied chunk and then by one that is long enough, and one in which
  the search meets the end in the middle of a run.
- Jobs: two jobs and two cores are enough for a gang to wait for a core, to be
  crossed, and for AUTO to choose; `MaxSubmit = 2` with 3 tasks gives a full and a partial
  batch.  The runs with faults use one core, where every fault concerns the job that
  runs and the one queued behind it.  The number of waits is bounded by the code (three).
- Power: one user, the worker and two writers of the power nodes; `MaxOn = 3` is the least at which two
  overlapping writes of `off` take `power_refcount` to -1, and `MaxRefs = 4`, above which no more `on` is written, bounds what
  it may drift to after an overlap; a delay of zero and a nonzero one, changed at any time.
- GEM: two threads, two files and two objects, reused after release; two chunks with
  requests of one and two, so that a request is cut, granted and refused; `MaxJobs = 1` job
  per object at a time.  `NoStale`: a run goes no further once an address is stale (the properties are checked in that
  state too); the theorems know no such bound.  `gem_find` has three chunks and no faults.
- Misc buffers: three objects on two dma-bufs, one foreign, two fds each: an allocation, an
  import of it and a second import meet; every fd is closed and duplicated at any time.
- Sync: 75 scatterlists of one to three entries of one to three bytes, adjacent or with gaps;
  offsets and sizes 0 to 12 reach every position in them, lie past their end, and exceed
  the word of the misc driver, 10, which is itself larger than every buffer; no SRAM or 2.
- Heap: eight frames, half of them above the limit; orders 2, 1, 0 stand for 8, 4, 0; lengths
  1, 3 and 4 need one block, several orders, or more than there is when two callers meet, and as sizes of a
  vma end inside a block; two attachments and mappings at a time (`MaxViews`).

- Device: one failure of those in `Faults` in a run (`MaxFaults = 1`); the failures of clock, regulator
  and devfreq registration (`DevfreqFaults`) and of `power_off` are not counted.  Two domains, so that a `power_on` can fail
  between them.  One user and one thread in `/proc/rknpu`; a third one adds only waiting for
  `power_lock`.  One updater: `devfreq->lock` serialises them, and the proofs hold for any number.
  One ioctl comes before the end of probe, and the run is then followed to where probe and the
  ioctl end; so is a run in which a file under `/proc/rknpu` has queued the work late.  One direct write to clock or regulator, after which the two properties about
  scaling promise nothing.  The lowest and the highest OPP of the
  table in FEATURES.md; the firmware rounds one of them and leaves the NPU at the other.

Jobs, threads, files, sessions and objects are interchangeable; symmetry is used in runs
that check invariants only.  The job runs that do not mention `executed` leave it out of
the VIEW; that of `gem` leaves out values no step reads any more, such as a call's number of tries after the last of them.

## 5 Fairness

- `RknpuMm`: weak fairness of `Search` and `Extend`, the loops of a running thread.
- `RknpuJob.FairSpec`: weak fairness of each thread inside the driver, each call of
  `rknpu_job_next`, each handler and the cleanup worker: the kernel schedules them, and an
  armed timer expires.  Nothing is assumed of the hardware; `SubmitReturns` holds for a
  core that never answers.  `LiveSpec` adds that a core finishes what it is given, which
  `JobsComplete` needs.  No fairness is assumed of a client that has not called.
- `RknpuPower.FairSpec`: put, put_delay, the queued work and each writer's steps go on.
  A user may hold its reference for ever, so `IdlePowersOff` is conditional on the users
  having left and on no overlap of writes, and allows for a `power_off` that fails for ever.  `PutReturns` is conditional
  on the delay being nonzero in the end: with a delay of 0 and a `power_off` that keeps failing,
  put and put_delay call each other without end.
- `RknpuDevice.FairSpec`: strong fairness of each thread in the driver, since a kernel mutex is handed
  to the waiter that has waited longest (weak fairness would let the governor pass a thread by for
  ever), of the armed timer and of probe and remove once begun (remove waits in `proc_remove` for a window in
  which no file of `/proc/rknpu` is in use, which the kernel provides by letting in no new caller); weak fairness of a `target` call.
  Nobody has to load, use or unload the driver, and `power_off` may fail for ever: the work
  then queues itself again and again until `cancel_delayed_work_sync` ends that.
- `Dma32Heap.FairSpec`: an allocation or release that has begun goes on.

## 6 Proofs

Proved with TLAPS for every value of the constants that satisfies the assumptions:

*RknpuMmProofs* (from `MmAssumption`: at least one chunk, a positive chunk size).
`TypeOK`, `NoSharedChunk`, `AccountingExact` (`BitmapExact` and `FreeExact`) and the action property
`RightLength`, which only the proof checks.  The first three are not inductive alone: nothing in them says that the run
between `range_start` and `range_end` that a search in progress has collected is free.
`SearchInv` says so (the chunks from `range_start` to `found` have clear bits and lie in
the memory), and
`IInv == TypeOK /\ NoSharedChunk /\ BitmapExact /\ FreeExact /\ SearchInv` is inductive.
`NextZeroBitSpec` gives the meaning of `find_next_zero_bit`, from the existence of a least
number; `MarkRangeSafe` is shared by the two places that set bits.  `RightLength` needs
`LengthInv`, which relates `cur_size`, `size` and the run collected so far.

`MmImplementsAllocator` is the refinement of `ChunkAllocator`: every step of the bitmap search is a
`Grant`, a `Refuse`, a `Release` or a stutter.  `Grant` promises the lowest run that is long enough and
`Refuse` that there is none, so the proof needs `FirstFitInv`: no chunk in front of the one where the search
restarts, or where the run it is collecting starts, begins a free run that is long enough.

*RknpuPowerProofs* (from `PowerAssumption`: finitely many users and writers, distinct callers).
`TypeOK`, `RefcountExact` and `PoweredIffReferenced`, for any number of users and of threads that write to the power nodes.
`IInv == Types /\ Places /\ (~overlap => Exact)`.  `Places` says which labels belong to whom.  `Exact` is
about the runs in which no `off` has been beside another write: an `off` is then alone in the nodes and subtracts what
`cmdline_power_refcount` still says (`Apart`), and `power_refcount` is the number of holders, of the references of `on`s
and of the one that the delayed work was left (`Counted`).  The lemmas about the two counts say how the number of holders
changes when one caller moves.  That `power_refcount` is not negative follows from `Counted`: a subtraction gives back
what was counted.  After an overlap it may be negative, and what is left of `PoweredIffReferenced` is that a power that is off
has no positive count.

*RknpuDeviceProofs* (from `DevfreqAssumption`: a finite OPP table with voltages that do not fall as the
frequency rises, a firmware that never exceeds the rate asked for, a boot state that is itself sufficient, an
initial rate no higher than any OPP; and `DeviceAssumption`: distinct threads).  `TypeOK`, `LateUsersSafe`, `NeverUndervolted`,
`FreqReported`, `PowerMatchesCount` and `NothingLeft`, for any number of users, updaters, OPPs and domains.
None of the last five is inductive.  `NeverUndervolted` needs to know how far the one transition under way is
(`ScaleInv`: the clock still has the old rate until "lower", and the voltage is already that of the
new OPP if the rate rises); that there is only one needs `LockInv`, the holder of `devfreq->lock` is
who believes to hold it; that nobody unlocks it for another needs `StageInv`, `ProberInv` and `UsersInv`:
whenever `rknpu_dev->devfreq` changes, no thread that came after probe is between its lock and
its unlock.  For threads in `/proc/rknpu` that is so because the devfreq device goes after the files do (`WithProc`).
`UsersInv` also says where the work can still be queued or run: until `cancel_delayed_work_sync` has returned, and after
that only if a file under `/proc/rknpu` has queued it (`late`).  `IInv` is the conjunction, `UsersInv`, `LockInv` and
`ScaleInv` only until an ioctl comes early.
`Moves` and `Uses` summarise the steps of probe and remove and of gets and puts, so that each
part of the invariant is proved once for all of them.

The two about the power rest on `PowerInv`, which adds two parts to `IInv`.  `UpInv` says what is registered in each
stage.  `SwitchInv`, which holds unless the run is excepted (`early`, `Missed`, `stuck`), gives the usage counts
as a function of where the thread in `rknpu_power_on` or `rknpu_power_off` is (`Phase`), says that this
thread holds `power_lock` unless it is probe (`Holding`, from which `OneBusy`: there is one
such thread), what it has done to `power_refcount` (`Counting`), and what the counts are in each stage when there is no such
thread (`Quiet`).  That probe switches without the lock is harmless only because `UsersInv`
keeps everybody else out; that a failed `power_off` and its retry shift no count is `Phase` at "off_done".

*RknpuMemProofs* (from `MemAssumption`).  `TypeOK`, `RefExact`, `MappingsExact`, `AttachedIsAlive` and `OneOwner`.
The inductive invariant has two halves.  `Ctl` is about objects: each is in one thread's hands, on one session's
list, or on the local list of the thread that runs `rknpu_release`, and that thread has its session for itself
(`OneHand`, `HandNotListed`, `ListsApart`, `OneReleaser`).  The other half states the counters of a dma-buf as
cardinalities of sets of objects and threads.  The first is what makes the second inductive: a put is subtracted
once because only one thread has the object.  The client's `CloseFd` moves `fds` and `ref` together and is no obstacle.  Most actions are of one of three kinds (`Begins`, `Works`, `Drops`: an
object is made, worked on, given up), and each part of `Ctl` is shown once per kind.  `OwnInv` says that a create that has not come to `dma_buf_fd` is alone with its buffer (`FreshAlone`), that a buffer has
one allocated object at most (`OneAllocated`), and that the object of a `dangling` one is gone (`NotDangling`).  With `RefInv`,
which states `ref` for every buffer, dangling ones included, it follows which buffers may be released while attached.

*RknpuGemProofs* (from `GemAssumption`; nothing is assumed of clients).  `DomainExact`, `RefsExact`, `TypeOK` and
`NothingForgotten`.  `Base` says what the record of a call looks like at each step, and `Weight` how often a call counts in
`iommu_domain_refcount`; nothing more is needed for `DomainExact`.  The others are about addresses that are not `stale`.
`Own` says of such an object that one call at a time creates or destroys it (`OneRole`), that a create has it to itself until
there is a handle and a destruction finds the count at 0 (`RoleFits`), that the count is the sum of the references (`RefsFit`),
that an object is live as long as it has one, and without one is being destroyed or was given up on (`LiveFits`), and that a tracked object
that is not `orphaned` has a handle and no GEM_DESTROY on its way that has already untracked (`Kept`).  Calls that merely found
the object, a job or a MEM_SYNC need no place in it: what they do is a `Take`, which either finds a reference or makes the address
stale, or a put of one reference that is counted (`TakeOwn`, `PutOwn`).  Each step is about one object (`Local`), and leaves what is known of the
others (`LocalKeeps`).  `MemInv` says what memory an object has at each label.

*RknpuJobProofs* (from `JobAssumption`; every fault allowed, any number of jobs, one to three cores), about the invariants that
*RknpuJobInvariants* defines.  `TypeOK`,
`GangNeverCrossed`, `SuccessMeansDone`.  `IInv == TypeOK /\ Fits /\ Once /\ GangNeverCrossed`.  That jobs do not cross is
kept by `Enqueue` only because the new job is in no queue (`Fresh`: nobody knows a job that has not been queued) and
goes to the end of all of its queues in one step, and by every other step because queues only lose elements (`Thins`).
`SuccessMeansDone` rests on `ResultsFit`: where the thread of a blocking job may be when `job->ret` is 0.

The second part of both modules has four more invariants, each inductive only with those before it, and each for the faults under which
the driver really keeps it.  The conditions are not for the proof's convenience: the runs and section 7 show what happens otherwise.

- `Owned`, from which `HandlerOwnsCore`, if `timeout_clean` never finds a job overtime (`NoOvertime`; it is the one place that
  clears `subcore_data->job` without a look at `irq_entry`).  All other faults are allowed, as in the run `job_faults`.
- `Orderly`, from which `QueuedJobsLive`, if moreover no wait times out and all jobs are mapped PC jobs (`NotLate`).
  `interrupt_count` never falls below the number of cores that run the job, have it queued, or have not counted it yet
  (`Unfinished`); so who takes it to 0 is the last, and a job is marked DONE, freed or put on the worker's list only when
  no core knows it (`Gone`).  With timeouts it is false: `job_remove`.
- `Exact`, from which `DoneMeansExecuted`, if moreover no other device raises the shared line (`OwnLine`; a status of 0 equals
  the `int_mask` of a core that was not committed to).  `Started`: `run_count` never falls below the number of cores that
  have yet to reach the job, so that the one that takes it to 0 finds all cores on it (`AllReached`), and nothing has
  executed before that.  `CoreExact`: what a core executes is the next batch, and its interrupt says that this batch is
  done; `HandlerExact`: what a handler has learnt from it; `Placed`: a core lets go of a job only when all tasks are
  executed.  `BatchArithmetic` relates the three places that compute with `max_submit_number`: the length of a
  batch, the number of batches (rounded up), and the decision for another one.
- `QuietInv`, from which `QuietMeansClean`, if moreover no interrupt is a bad one, the IOMMU domain is there, no input fence
  fails and every mask is one that `rknpu_job_commit` knows (`Untroubled`; it allows the output fence of a submit and a soft
  reset to fail).  The first three invariants bound the counts from below, which is what safety needs; that nothing is left
  over needs them exact.  `Counted`: `run_count` and `interrupt_count` are the sizes of `Reaching` and `Unfinished`, and a job
  that every core has reached has been started on each or is about to be.  `Attended`: a free core with a queue has
  a call of `rknpu_job_next`, the thread that queued the last job, or its own handler about to look at it.  `Settled`: a core with a
  started batch has it on the hardware, on the line or in the handler, and no thread aborts.  `Signalled`: the end of a job
  is with its handler, with its waiter or with the worker.  `Sums`: `task_num` is the number of tasks of the jobs at the core
  (`Load`), `domref` that of the jobs not DONE (`Holders`).

With nothing under way, `QuietCores` shows that all cores are free.  A job that a core has was not started on it, since then the
hardware, the line or the handler would have it; so it was started nowhere, has not been reached by all of its cores, and waits in the
queue of another one (`QuietJob`).  A job of two cores is one of core 0, by the masks `rknpu_job_commit` knows
(`TwoCoresHaveZero`).  So core 0 has a job x, x waits at another core behind a job y, and y, a job of core 0 too, waits there
behind x, against `GangNeverCrossed`.

Each condition of `Untroubled` is one the driver does need: a timeout frees or leaves jobs as section 7 says; a bad interrupt
is dropped with the batch it stood for, and one of another device is taken for it; without a domain `rknpu_job_schedule` does
not queue the job, `rknpu_job_abort` puts the domain all the same, and nobody frees a NONBLOCK job; a failed input
fence leaves the job behind; a mask that `rknpu_job_commit` does not know, and a job that is no mapped PC job, never get a batch.

*Dma32HeapProofs* (from `HeapAssumption`).  `PagesExact`, `Below4GB` and `ViewsAgree`.  `HeapInv` adds that every block is one
`alloc_pages` could have handed out, aligned and starting below the limit (`BlocksSound`), and that an unused buffer has no blocks.
That the first page of a block decides for the whole of it follows from alignment and from 4 GB being a multiple of
each block size, which `HeapAssumption` states of the table of orders.  It also states that `2 ^ order` is
positive: the provers know nothing of exponentiation, TLC evaluates it.

`ViewsAgree` needs what the loops of `mmap` and `vmap` compute, which are recursive functions over the blocks.  That such a function
exists is shown by its value in closed form (`PagesUpTo`), and that it has no other value by induction over the blocks.  The
induction theorems of the library take an operator and cannot be used; a least counterexample in a set of numbers
(`LeastNumber`, from the well-foundedness of inclusion among finite sets) serves instead (`SameWalk`).  `PageFound` relates a page to the block it
lies in; `PageArrayPages` and `RemapPages` then say what the two loops collect, the cut at the end of the vma included.
`ViewsInv` adds that whoever has a view holds the buffer (`Held`), so that the blocks the view was made from are still the buffer's.

*RknpuSyncProofs* (from `SyncAssumption`: the tables are as `TableOK` says, at least one entry long; any words, any arguments).
`SyncExact`.  `SyncInv` says where a walk is at each entry.  The part of the range in front of `offset` is what it has synced (`DoneInv`),
`length` is what is left (`RangeInv`), and `len` is the start of the next entry, which `offset` has reached unless
nothing is left (`PlaceInv`).  Therefore none of the unsigned subtractions of an entry wraps (`EntryArithmetic`), and each entry adds
exactly its part of the range (`BytesGrow`).  A walk ends because nothing is left or because the range goes past the end of the table (`BytesPastEnd`).

Every safety invariant that a passing run checks is the subject of a theorem.  Only model-checked: the liveness
properties, because the prover knows neither fairness nor ENABLED.

## 7 Where code and text differ

- `job_remove`: `rknpu_remove` warns about a core that still has a job and about a queue that
  is not empty (`rknpu_drv.c:1618`, `1619`), `RemoveFindsNothing`.  `irq_entry` is set by the first interrupt of a job and
  never reset, and `rknpu_job_abort` leaves a core alone whose `irq_entry` is set.  A two-batch job
  whose second batch times out is freed and stays on its core, which takes no other job.
  The second half fails too, on SoCs with two cores: `rknpu_job_wait` unlinks a job that was never committed from the queues of
  the first `use_core_num` cores, and a job of core 1 alone is in another queue and is freed in it.
  `JobRemove.cfg` with `NumCores = 2` and the requests `SecondCoreRequests` of MCRknpuJob shows it.
- `gem_find`: the comment of `rknpu_gem_object_find` says that the reference count is
  increased; the function puts the reference again before it returns.  With two calls
  on one handle the object is gone while the second uses it.

Some of what the code does is wrong by any reading, and no text of the repository says otherwise.  The models have these runs,
and a history variable names each, so that a property can say what still holds and that nothing else leads there:

- *Two writes to the power nodes* (`overlap`).  With `cmdline_power_refcount` at 3, one thread counts it down and reads 2, another runs
  through its whole `off`, and the first then subtracts the references once more: `power_refcount` becomes -1, and later users
  run without power, or it stays too high for ever.  The nodes are in `/proc/rknpu` and in debugfs and are written by root.
- *A file under `/proc/rknpu` at rmmod* (`late`).  The files go (`rknpu_drv.c:1604`) after the work was cancelled (1601) and
  its queue destroyed (1602).  A put there whose `power_off` fails queues the work again, on a queue that is going or gone.
- *The range list* (`orphaned`).  Its reference is dropped by GEM_DESTROY alone.  An object that GEM_CREATE tracked stays for
  good, with its DMA memory and SRAM, when its last handle goes by GEM_CLOSE, close or exit, or when it is tracked after that;
  the list then also holds it when the driver is removed.
- *Addresses from the client* (`stale`).  A submit and a MEM_SYNC take an address without a lookup, and two calls with one handle
  use an object that one of them may release.  A reference taken on an object that has none corrupts memory; nothing is claimed
  about that address from then on.  What the destruction of something that is no object does to other memory is not modelled,
  and a thread that crashes there is one that takes no further step.
- *An fd closed too early* (`AttachedIsAlive`).  The object of an allocated buffer has no reference.  A client that closes its fds or exits
  before MEM_DESTROY or `rknpu_release` releases the dma-buf, which then is detached and unmapped after its end.
- *MEM_CREATE that fails behind `dma_buf_fd`* (`dangling`) puts the reference that already belongs to the fd, and the client's close puts
  it once more.  `RefExact` counts it: exactly one reference too few, in exactly these buffers.

Simplified there: a released dma-buf that is still referred to is not handed out again at its address; what `dma_buf_release` finds wrong in
the closing thread is not modelled; a section under `power_lock` is one step, so that an `atomic_sub` in the middle of one counts
as before or after it; `rknpu_dkms_track_gem_obj` takes its reference before it looks at the list, `Track` does both in one step.

Kept in the model without a property of their own: the label
`err_unmap_kv_addr` of MEM_CREATE calls `dma_buf_vunmap` for a buffer that was not mapped (`bug`); SRAM
chunks become free before their IOMMU mapping is removed (`FreeMm`, `FreeCache`);
`rknpu_soft_reset` is not exclusive and leaves `soft_reseting` set when it fails; a status of
0 on a shared interrupt line equals the `int_mask` of a core whose job was not committed; the
error returns of an input fence leave the job behind; an aborted job is freed with its
output fence unsignalled.

An ioctl that comes before probe has returned can do what no later one can; the properties of
RknpuDevice except these runs (`early`), and the proofs show that no other run gets there.  Probe sets `power_refcount` to 0
over the reference of such an ioctl (`rknpu_drv.c:1567`); its own `rknpu_power_on` returns 1 when
the ioctl has resumed the device already, which ends the probe (1508); the delay is set before the
workqueue and the work exist (1519); a `power_on` that began before the devfreq device was
registered unlocks the governor's mutex at its end, two updaters then scale at
once, and the NPU can be left at 1000 MHz with the voltage of 200 MHz (`Device.cfg` with two updaters
and `VoltSuffices` shows it).

The debugfs files `freq_hz` and `voltage_uv` write the clock and the regulator beside the governor (`bypassed`), although
`2026-02-27-TODO.md:247` says that there is no direct voltage write.

Also kept: the error labels of probe leave the power on, runtime PM enabled and the domains
attached; probe ignores a `power_off` that failed (`stuck`); the control files in a directory of their own stay
after remove (`own_ctrl`), as `rknpu_debugfs_ctrl_remove` has no caller; between `rknpu_devfreq_remove`
and the release of the devfreq device the governor may lower the voltage while its clock
pointer is already NULL.

## 8 Not modelled

- *Jobs*: what an input fence depends on, the user's RKNPU_ACT_RESET, reads of a job after its free.
- *Buffers*: mmap and page faults, PRIME export; what a MEM_SYNC reads of an object that is destroyed beside it, which is
  undefined as soon as it happens; the removal of the driver with objects on the range list; failures of small allocations in `rknpu_mm.c`.
- *IOMMU*: `rknpu_iommu_dma_map_sg` and its IOVA allocation have no caller in this build (RKNPU_DKMS uses
  the DMA API).  `rknpu_iommu_switch_domain` cannot be reached: `iommu_domain_num` grows only
  inside it, and the caller returns early while it is at most 1.
- *Device*: unbinding through sysfs while files are open, the `kfree` of the debugger's list nodes before `proc_remove`, system suspend and resume, the arithmetic of
  the load timer (its registration is part of RknpuDevice), `rknpu_freq_store`, which no file calls.
- The vendor devfreq driver `rknpu_devfreq.c` and the NBUF cache are not built.  SoC tables,
  formatted output and the user-space tests hold no state.

## 9 Plan

Done: RknpuMm with its abstract specification, its refinement proved; RknpuPower, RknpuDevfreq and RknpuDevice,
RknpuMem, RknpuGem, RknpuJob, RknpuSync and Dma32Heap, all with proofs.  Next, in order of weight:

1. *RknpuJob*: the job an input fence belongs to and the order of the two; reads of a job after
   its free; RKNPU_ACT_RESET.
2. *Power and jobs composed*: an asynchronous job holds no power reference while it runs.
