---------------------------- MODULE RknpuDevice -----------------------------
(***************************************************************************)
(* The life of the device (rknpu_drv.c): rknpu_probe with its error labels *)
(* and rknpu_remove, composed with the ioctls that arrive as soon as the   *)
(* DRM or the misc device is registered, the delayed power-off work, the   *)
(* steps of rknpu_power_on and rknpu_power_off, and the frequency scaling  *)
(* of RknpuDevfreq, whose mutex those two take.                            *)
(*                                                                         *)
(* RknpuPower has the reference counting in the life of a bound device,    *)
(* with power_on and power_off as single steps; here they are taken apart  *)
(* and probe and remove, which call them outside the counting, are added.  *)
(* The driver is unloaded only when nobody has a file of its device nodes  *)
(* or of debugfs open (each holds a module reference).  The files under    *)
(* /proc/rknpu hold none, so rmmod may come while one is read or written.  *)
(* The driver is loaded once.                                              *)
(***************************************************************************)
EXTENDS RknpuDevfreq

CONSTANTS Users,    \* ioctl threads
          Nodes,    \* threads that read or write /proc/rknpu/freq
          Prober,   \* the thread that runs rknpu_probe and rknpu_remove
          Worker,   \* power_off_wq
          Domains,  \* the power domains npu0 .. (0: multiple_domains is false)
          Delay,    \* power_put_delay_ms
          Faults,   \* what may fail, see FaultKinds
          MaxFaults \* bound: how many of them fail; "iommu_on" any number of times, but only
                    \* while fewer have

FaultKinds ==
    {"resource",   \* something probe needs before the interrupt is registered
     "drm", "misc", "fence", "scmi", "wq", "sram", "debugfs",   \* that part of probe
     "clk_on", "pd_on", "pm_on",  \* a part of rknpu_power_on
     "iommu_on"}   \* the IOMMU is still enabled when rknpu_power_off gives up

Clients == Users \cup Nodes
Threads == Clients \cup {Prober, Worker}

ASSUME DeviceAssumption ==
    /\ IsFiniteSet(Users) /\ IsFiniteSet(Nodes)
    /\ Users \cap Nodes = {}
    /\ {Prober, Worker, Nobody} \cap Clients = {}
    /\ Prober # Worker /\ Prober # Nobody /\ Worker # Nobody
    /\ Updaters \cap Threads = {}
    /\ Domains \in Nat /\ Delay \in Nat
    /\ Faults \subseteq FaultKinds
    /\ MaxFaults \in Nat

VARIABLES
    stage,     \* where rknpu_probe or rknpu_remove is
    up,        \* what is registered, created or enabled, see Parts
    refcount,  \* power_refcount
    power_lock,     \* its holder
    delay,     \* rknpu_dev->power_put_delay
    queued,    \* power_off_work is pending
    clks,      \* the enable count of the clocks
    doms,      \* doms[d]: the usage count of power domain d
    usage, active,  \* the usage count of the device, and whether it is resumed
    pc, ret,   \* pc[t], ret[t]: where thread t is, what power_on or off returned
    early,     \* history: an ioctl took a reference before probe had returned
    late,      \* history: a file under /proc/rknpu has queued the work after its cancellation
    failed,    \* history: what has failed so far, "iommu_on" excepted
    stuck      \* history: probe or remove could not switch the power off

powerVars == <<clks, doms, usage, active>>
history == <<early, late, failed, stuck>>
deviceVars == <<stage, up, refcount, power_lock, delay, queued, powerVars, pc, ret, history>>
vars == <<deviceVars, devfreqVars>>

Parts ==
    {"irq", "drm", "misc", "rpm",   \* rpm: pm_runtime_enable
     "wq", "work",                  \* power_off_wq, INIT_DEFERRABLE_WORK
     "sram_mm", "timer",
     "debugfs", "procfs", "ctrl",   \* the debugger's directories, the control files in debugfs
     "own_ctrl"}                    \* the control files in a directory of their own

Goto(t, label) == pc' = [pc EXCEPT ![t] = label]

FaultOccurs(fault) ==
    /\ fault \in Faults
    /\ Cardinality(failed) < MaxFaults
    /\ failed' = failed \cup {fault}

Init ==
    /\ DevfreqInit
    /\ stage = "unbound"
    /\ up = {}
    /\ refcount = 0 /\ power_lock = Nobody /\ delay = 0 /\ queued = FALSE
    /\ clks = 0 /\ doms = [d \in 1 .. Domains |-> 0] /\ usage = 0 /\ active = FALSE
    /\ pc = [t \in Threads |-> "idle"]
    /\ ret = [t \in Threads |-> 0]
    /\ early = FALSE /\ late = FALSE /\ failed = {} /\ stuck = FALSE

----------------------------------------------------------------------------
(* rknpu_power_on, called by probe and, under power_lock, by               *)
(* rknpu_power_get.  An error returns with what was switched on before it. *)
OnClk(t) ==
    /\ pc[t] = "on_clk"
    /\ \/ clks' = clks + 1 /\ Goto(t, "on_lock") /\ UNCHANGED <<ret, failed>>
       \/ /\ FaultOccurs("clk_on")
          /\ ret' = [ret EXCEPT ![t] = -1]
          /\ Goto(t, "on_done")
          /\ UNCHANGED clks
    /\ UNCHANGED <<stage, up, refcount, power_lock, delay, queued, doms, usage, active, early,
                   late, stuck, devfreqVars>>

(* rknpu_devfreq_lock: whether there is a mutex is looked up at the lock   *)
(* and again at the unlock.  With the ERR_PTR that rknpu_devfreq_init is   *)
(* about to replace the kernel crashes.                                    *)
DevfreqLock(t, label) ==
    /\ \/ devfreq = "null" /\ Goto(t, label) /\ UNCHANGED lock
       \/ devfreq = "set" /\ lock = Nobody /\ lock' = t /\ Goto(t, label)
       \/ devfreq = "err" /\ Goto(t, "oops") /\ UNCHANGED lock
    /\ UNCHANGED <<stage, up, refcount, power_lock, delay, queued, powerVars, ret, history,
                   scmi_clk, devfreq, monitor, rate, vdd, current_freq, call, bypassed>>

(* rknpu_devfreq_unlock: a mutex is unlocked whoever holds it.             *)
DevfreqUnlock == lock' = IF devfreq = "set" THEN Nobody ELSE lock

OnLock(t) == pc[t] = "on_lock" /\ DevfreqLock(t, "on_pm")

(* The domains one after the other, then the device: pm_runtime_get_sync   *)
(* keeps its count when it fails, returns 1 when the device is active      *)
(* already and an error while runtime PM is not enabled.                   *)
GetSync == IF "rpm" \notin up THEN -1 ELSE IF active THEN 1 ELSE 0

OnPm(t) ==
    /\ pc[t] = "on_pm"
    /\ \/ /\ doms' = [d \in 1 .. Domains |-> doms[d] + 1]
          /\ usage' = usage + 1
          /\ \/ /\ ret' = [ret EXCEPT ![t] = GetSync]
                /\ active' = (active \/ GetSync = 0)
                /\ UNCHANGED failed
             \/ /\ FaultOccurs("pm_on")
                /\ ret' = [ret EXCEPT ![t] = -1]
                /\ UNCHANGED active
       \/ /\ FaultOccurs("pd_on")
          /\ \E n \in 0 .. Domains - 1 :
                doms' = [d \in 1 .. Domains |-> IF d <= n THEN doms[d] + 1 ELSE doms[d]]
          /\ ret' = [ret EXCEPT ![t] = -1]
          /\ UNCHANGED <<usage, active>>
    /\ Goto(t, "on_unlock")
    /\ UNCHANGED <<stage, up, refcount, power_lock, delay, queued, clks, early, late, stuck,
                   devfreqVars>>

OnUnlock(t) ==
    /\ pc[t] = "on_unlock"
    /\ DevfreqUnlock
    /\ Goto(t, "on_done")
    /\ UNCHANGED <<stage, up, refcount, power_lock, delay, queued, powerVars, ret, history,
                   scmi_clk, devfreq, monitor, rate, vdd, current_freq, call, bypassed>>

(* rknpu_power_off, called by probe, remove and, under power_lock, by      *)
(* rknpu_power_put.  A usage count stays at 0 when it is put too often     *)
(* (the kernel warns).  With an IOMMU that is still enabled nothing stays  *)
(* switched off.                                                           *)
Dec(n) == IF n > 0 THEN n - 1 ELSE 0

IommuStaysOn == "iommu_on" \in Faults /\ Cardinality(failed) < MaxFaults

OffLock(t) == pc[t] = "off_lock" /\ DevfreqLock(t, "off_pm")

OffPmForgets(t) ==                  \* mutant: the device is not taken back
    /\ pc[t] = "off_pm"
    /\ usage' = Dec(usage)
    /\ active' = (active /\ usage' > 0)
    /\ \/ /\ doms' = [d \in 1 .. Domains |-> Dec(doms[d])]
          /\ ret' = [ret EXCEPT ![t] = 0]
       \/ /\ Domains > 0 /\ IommuStaysOn
          /\ ret' = [ret EXCEPT ![t] = -1]
          /\ UNCHANGED doms
    /\ Goto(t, "off_unlock")
    /\ UNCHANGED <<stage, up, refcount, power_lock, delay, queued, clks, history, devfreqVars>>

OffPm(t) ==
    /\ pc[t] = "off_pm"
    /\ \/ /\ usage' = Dec(usage)
          /\ active' = (active /\ usage' > 0)
          /\ doms' = [d \in 1 .. Domains |-> Dec(doms[d])]
          /\ ret' = [ret EXCEPT ![t] = 0]
       \/ /\ Domains > 0 /\ IommuStaysOn
          /\ usage' = Dec(usage) + 1
          /\ ret' = [ret EXCEPT ![t] = -1]
          /\ UNCHANGED <<active, doms>>
    /\ Goto(t, "off_unlock")
    /\ UNCHANGED <<stage, up, refcount, power_lock, delay, queued, clks, history, devfreqVars>>

OffUnlock(t) ==
    /\ pc[t] = "off_unlock"
    /\ DevfreqUnlock
    /\ clks' = IF ret[t] = 0 THEN Dec(clks) ELSE clks
    /\ Goto(t, "off_done")
    /\ UNCHANGED <<stage, up, refcount, power_lock, delay, queued, doms, usage, active, ret,
                   history, scmi_clk, devfreq, monitor, rate, vdd, current_freq, call, bypassed>>

PowerStep(t) ==
    OnClk(t) \/ OnLock(t) \/ OnPm(t) \/ OnUnlock(t) \/ OffLock(t) \/ OffPm(t) \/ OffUnlock(t)

----------------------------------------------------------------------------
Returned(t) == ret' = [ret EXCEPT ![t] = 0]

Removing ==
    {"cancel", "destroy", "rm_parts", "rm_drm", "rm_devfreq", "rm_power", "release", "removed"}

(* An ioctl is possible as soon as there is a device node, and until the   *)
(* module is unloaded; a file under /proc/rknpu while it is there.         *)
CanEnter(c) ==
    \/ c \in Users /\ up \cap {"drm", "misc"} # {} /\ stage \notin Removing
    \/ c \in Nodes /\ "procfs" \in up /\ ~bypassed

(* rknpu_power_get.  Its result is not looked at.  Bound: one ioctl comes  *)
(* before the end of probe, and nobody after it; such a run is followed to *)
(* where probe ends and its ioctl too.  And /proc/rknpu is not used in a   *)
(* run in which a control file has been written.                           *)
Get(c) ==
    /\ pc[c] = "idle"
    /\ CanEnter(c)
    /\ ~early
    /\ power_lock = Nobody
    /\ refcount' = refcount + 1
    /\ IF refcount = 0
       THEN power_lock' = c /\ Goto(c, "on_clk")
       ELSE Goto(c, "held") /\ UNCHANGED power_lock
    /\ early' = (c \in Users /\ stage # "bound")
    /\ UNCHANGED <<stage, up, delay, queued, powerVars, ret, late, failed, stuck, devfreqVars>>

GetDone(c) ==
    /\ pc[c] = "on_done"
    /\ power_lock' = Nobody
    /\ Goto(c, "held")
    /\ Returned(c)
    /\ UNCHANGED <<stage, up, refcount, delay, queued, powerVars, history, devfreqVars>>

(* The frequency node gives its reference back with rknpu_power_put, an    *)
(* ioctl with rknpu_power_put_delay, as rknpu_power_put does after an      *)
(* error of power_off.                                                     *)
PutDelay(t) ==
    /\ pc[t] \in {"held", "retry"}
    /\ Goto(t, IF delay = 0 \/ (pc[t] = "held" /\ t \in Nodes) THEN "put" ELSE "queue")
    /\ UNCHANGED <<stage, up, refcount, power_lock, delay, queued, powerVars, ret, history,
                   devfreqVars>>

(* Its section under power_lock.  queue_delayed_work crashes without a     *)
(* workqueue or with a work that is not initialised, and does nothing      *)
(* while cancel_delayed_work_sync waits; after that it queues again.       *)
Cancelled == {"destroy", "rm_parts"}

Queue(t) ==
    /\ pc[t] = "queue"
    /\ power_lock = Nobody
    /\ \/ /\ refcount = 1
          /\ {"wq", "work"} \subseteq up
          /\ queued' = (stage # "cancel")
          /\ Goto(t, "idle")
          /\ UNCHANGED <<refcount, power_lock>>
       \/ /\ refcount = 1
          /\ ~({"wq", "work"} \subseteq up)
          /\ power_lock' = t
          /\ Goto(t, "oops")
          /\ UNCHANGED <<refcount, queued>>
       \/ /\ refcount # 1
          /\ refcount' = Dec(refcount)
          /\ Goto(t, "idle")
          /\ UNCHANGED <<power_lock, queued>>
    /\ late' = (late \/ (t \in Nodes /\ refcount = 1 /\ stage \in Cancelled))
    /\ UNCHANGED <<stage, up, delay, powerVars, ret, early, failed, stuck, devfreqVars>>

PutBelowZero(t) ==                  \* mutant: atomic_dec
    /\ pc[t] = "put"
    /\ power_lock = Nobody
    /\ refcount' = refcount - 1
    /\ IF refcount = 1
       THEN power_lock' = t /\ Goto(t, "off_lock")
       ELSE Goto(t, "idle") /\ UNCHANGED power_lock
    /\ UNCHANGED <<stage, up, delay, queued, powerVars, ret, history, devfreqVars>>

(* rknpu_power_put, also the body of rknpu_power_off_delay_work.           *)
Put(t) ==
    /\ pc[t] = "put"
    /\ power_lock = Nobody
    /\ refcount' = Dec(refcount)
    /\ IF refcount = 1
       THEN power_lock' = t /\ Goto(t, "off_lock")
       ELSE Goto(t, "idle") /\ UNCHANGED power_lock
    /\ UNCHANGED <<stage, up, delay, queued, powerVars, ret, history, devfreqVars>>

PutDoneReturns(t) ==                \* mutant: an error returns with power_lock held
    /\ t # Prober
    /\ pc[t] = "off_done"
    /\ power_lock' = IF ret[t] = 0 THEN Nobody ELSE power_lock
    /\ refcount' = IF ret[t] = 0 THEN refcount ELSE refcount + 1
    /\ Goto(t, IF ret[t] = 0 THEN "idle" ELSE "retry")
    /\ Returned(t)
    /\ UNCHANGED <<stage, up, delay, queued, powerVars, history, devfreqVars>>

PutDone(t) ==
    /\ t # Prober
    /\ pc[t] = "off_done"
    /\ power_lock' = Nobody
    /\ refcount' = IF ret[t] = 0 THEN refcount ELSE refcount + 1
    /\ Goto(t, IF ret[t] = 0 THEN "idle" ELSE "retry")
    /\ Returned(t)
    /\ UNCHANGED <<stage, up, delay, queued, powerVars, history, devfreqVars>>

(* The timer of the work expires.                                          *)
RunWork ==
    /\ queued
    /\ pc[Worker] = "idle"
    /\ queued' = FALSE
    /\ Goto(Worker, IF "wq" \in up THEN "put" ELSE "oops")
    /\ UNCHANGED <<stage, up, refcount, power_lock, delay, powerVars, ret, history, devfreqVars>>

GiveBack(t) == PutDelay(t) \/ Queue(t) \/ Put(t) \/ PutDone(t)

----------------------------------------------------------------------------
(* rknpu_probe.  A step of it moves from stage to stage and adds parts.    *)
Move(from, to, parts) ==
    /\ stage = from
    /\ stage' = to
    /\ up' = parts
    /\ Returned(Prober)
    /\ UNCHANGED <<refcount, powerVars, early, late>>

Advance(from, to, parts) ==
    Move(from, to, up \cup parts) /\ UNCHANGED <<power_lock, queued, failed>>

Fails(from, to, fault) ==
    Move(from, to, up) /\ FaultOccurs(fault) /\ UNCHANGED <<power_lock, queued>>

(* The resources up to the interrupt, of which the driver core releases    *)
(* what there is; the DRM device; the misc device, which may be missing;   *)
(* the fence context.                                                      *)
ProbeStart ==
    /\ Advance("unbound", "drm", {"irq"}) \/ Fails("unbound", "failed", "resource")
    /\ UNCHANGED <<delay, pc, stuck, devfreqVars>>

ProbeDrm ==
    /\ Advance("drm", "misc", {"drm"}) \/ Fails("drm", "unwind", "drm")
    /\ UNCHANGED <<delay, pc, stuck, devfreqVars>>

ProbeMisc ==
    /\ Advance("misc", "fence", {"misc"}) \/ Fails("misc", "fence", "misc")
    /\ UNCHANGED <<delay, pc, stuck, devfreqVars>>

(* pm_runtime_enable and the domains come after the fence context, then    *)
(* rknpu_power_on, not under power_lock.                                   *)
ProbeFence ==
    /\ \/ Advance("fence", "power_on", {"rpm"}) /\ Goto(Prober, "on_clk")
       \/ Fails("fence", "err_drm", "fence") /\ UNCHANGED pc
    /\ UNCHANGED <<delay, stuck, devfreqVars>>

(* Any result but 0 ends the probe.  The reset that follows may fail.      *)
ProbePowered ==
    /\ pc[Prober] = "on_done"
    /\ Advance("power_on", IF ret[Prober] = 0 THEN "devfreq" ELSE "err_drm", {})
    /\ Goto(Prober, "idle")
    /\ UNCHANGED <<delay, stuck, devfreqVars>>

(* rknpu_devfreq_init.                                                     *)
ProbeClock ==
    /\ \/ Advance("devfreq", "add", {}) /\ InitClock
       \/ Fails("devfreq", "delay", "scmi") /\ UNCHANGED devfreqVars
    /\ UNCHANGED <<delay, pc, stuck>>

ProbeAdd ==
    /\ AddDevice
    /\ Advance("add", IF devfreq' = "err" THEN "no_devfreq" ELSE "delay", {})
    /\ UNCHANGED <<delay, pc, stuck>>

ProbeNoDevfreq ==
    /\ AddDeviceFailed
    /\ Advance("no_devfreq", "delay", {})
    /\ UNCHANGED <<delay, pc, stuck>>

(* The delay is set before the workqueue and the work exist.               *)
ProbeDelay ==
    /\ Advance("delay", "wq", {})
    /\ delay' = Delay
    /\ UNCHANGED <<pc, stuck, devfreqVars>>

ProbeWq ==
    /\ Advance("wq", "work", {"wq"}) \/ Fails("wq", "err_devfreq", "wq")
    /\ UNCHANGED <<delay, pc, stuck, devfreqVars>>

ProbeWork ==
    /\ Advance("work", "sram", {"work"})
    /\ UNCHANGED <<delay, pc, stuck, devfreqVars>>

(* The SRAM allocator and the domains, then rknpu_power_off.               *)
ProbeSram ==
    /\ \/ Advance("sram", "power_off", {"sram_mm"}) /\ Goto(Prober, "off_lock")
       \/ Fails("sram", "err_wq", "sram") /\ UNCHANGED pc
    /\ UNCHANGED <<delay, stuck, devfreqVars>>

(* Its result is not looked at, and the count is set to 0.                 *)
ProbeOff ==
    /\ pc[Prober] = "off_done"
    /\ stage = "power_off"
    /\ stage' = "debugger"
    /\ refcount' = 0
    /\ stuck' = (stuck \/ ret[Prober] # 0)
    /\ Goto(Prober, "idle")
    /\ Returned(Prober)
    /\ UNCHANGED <<up, power_lock, delay, queued, powerVars, early, late, failed, devfreqVars>>

(* rknpu_debugger_init, rknpu_debugfs_ctrl_init (in the directory of the   *)
(* debugger if that is there) and rknpu_init_timer.                        *)
ProbeDebugger ==
    /\ \/ Advance("debugger", "bound", {"debugfs", "procfs", "ctrl", "timer"})
       \/ /\ Move("debugger", "bound", up \cup {"procfs", "own_ctrl", "timer"})
          /\ FaultOccurs("debugfs")
          /\ UNCHANGED <<power_lock, queued>>
    /\ UNCHANGED <<delay, pc, stuck, devfreqVars>>

----------------------------------------------------------------------------
(* The error labels of rknpu_probe and rknpu_remove take parts away.  None *)
(* of the labels switches the power off.                                   *)
Retreat(from, to, parts) == Move(from, to, up \ parts) /\ UNCHANGED <<delay, failed>>

(* err_remove_wq: destroy_workqueue waits for the work that runs, not for  *)
(* the one whose timer has not expired.                                    *)
ErrWq ==
    /\ pc[Worker] = "idle"
    /\ Retreat("err_wq", "err_devfreq", {"wq"})
    /\ UNCHANGED <<power_lock, queued, pc, stuck, devfreqVars>>

ErrDevfreq ==
    /\ DevfreqRemove
    /\ Retreat("err_devfreq", "err_drm", {})
    /\ UNCHANGED <<power_lock, queued, pc, stuck>>

(* err_remove_drv.                                                         *)
ErrDrm ==
    /\ Retreat("err_drm", "unwind", {"drm", "misc"})
    /\ UNCHANGED <<power_lock, queued, pc, stuck, devfreqVars>>

(* rknpu_remove, by rmmod: no ioctl is in the driver, but the work and the *)
(* files under /proc/rknpu may be.  cancel_delayed_work_sync takes the     *)
(* work out of the queue and returns when it does not run.                 *)
RemoveStart ==
    /\ ~early
    /\ \A u \in Users : pc[u] = "idle"
    /\ Retreat("bound", "cancel", {})
    /\ queued' = FALSE
    /\ UNCHANGED <<power_lock, pc, stuck, devfreqVars>>

RemoveCancelledAtOnce ==            \* mutant: cancel_delayed_work without _sync
    /\ Retreat("cancel", "destroy", {})
    /\ UNCHANGED <<power_lock, queued, pc, stuck, devfreqVars>>

RemoveCancelled ==
    /\ pc[Worker] = "idle"
    /\ Retreat("cancel", "destroy", {})
    /\ UNCHANGED <<power_lock, queued, pc, stuck, devfreqVars>>

(* destroy_workqueue, as in err_remove_wq.                                 *)
RemoveWq ==
    /\ pc[Worker] = "idle"
    /\ Retreat("destroy", "rm_parts", {"wq"})
    /\ UNCHANGED <<power_lock, queued, pc, stuck, devfreqVars>>

(* rknpu_debugger_remove removes its directories with all that is in them  *)
(* (proc_remove waits until nobody is in one of the files), then the       *)
(* timer, the SRAM allocator and the domains go.                           *)
RemoveParts ==
    /\ \A n \in Nodes : pc[n] = "idle"
    /\ Retreat("rm_parts", "rm_drm", {"debugfs", "procfs", "ctrl", "timer", "sram_mm"})
    /\ UNCHANGED <<power_lock, queued, pc, stuck, devfreqVars>>

RemoveDrm ==
    /\ Retreat("rm_drm", "rm_devfreq", {"drm", "misc"})
    /\ UNCHANGED <<power_lock, queued, pc, stuck, devfreqVars>>

RemoveDevfreq ==
    /\ DevfreqRemove
    /\ Retreat("rm_devfreq", "rm_power", {})
    /\ UNCHANGED <<power_lock, queued, pc, stuck>>

RemoveOffNever ==                   \* mutant: the cancelled work did it
    /\ pc[Prober] = "idle"
    /\ power_lock = Nobody
    /\ Retreat("rm_power", "release", {"rpm"})
    /\ UNCHANGED <<power_lock, queued, pc, stuck, devfreqVars>>

(* The reference of the cancelled work is still counted: power off.        *)
RemoveOff ==
    /\ pc[Prober] = "idle"
    /\ power_lock = Nobody
    /\ IF refcount > 0
       THEN /\ Retreat("rm_power", "rm_power", {})
            /\ power_lock' = Prober
            /\ Goto(Prober, "off_lock")
       ELSE /\ Retreat("rm_power", "release", {"rpm"})
            /\ UNCHANGED <<power_lock, pc>>
    /\ UNCHANGED <<queued, stuck, devfreqVars>>

RemoveOffDone ==
    /\ pc[Prober] = "off_done"
    /\ Retreat("rm_power", "release", {"rpm"})
    /\ power_lock' = Nobody
    /\ stuck' = (stuck \/ ret[Prober] # 0)
    /\ Goto(Prober, "idle")
    /\ UNCHANGED <<queued, devfreqVars>>

(* The driver core releases what devm keeps: the devfreq device, whose     *)
(* governor is stopped first, and the interrupt.                           *)
DevmRelease ==
    /\ DevmRemoveDevice
    /\ Retreat("unwind", "failed", {"irq"}) \/ Retreat("release", "removed", {"irq"})
    /\ UNCHANGED <<power_lock, queued, pc, stuck>>

Probe ==
    \/ ProbeStart \/ ProbeDrm \/ ProbeMisc \/ ProbeFence \/ ProbePowered
    \/ ProbeClock \/ ProbeAdd \/ ProbeNoDevfreq
    \/ ProbeDelay \/ ProbeWq \/ ProbeWork \/ ProbeSram \/ ProbeOff \/ ProbeDebugger
    \/ ErrWq \/ ErrDevfreq \/ ErrDrm \/ DevmRelease

Remove ==
    \/ RemoveCancelled \/ RemoveWq \/ RemoveParts \/ RemoveDrm \/ RemoveDevfreq
    \/ RemoveOff \/ RemoveOffDone

(* The devfreq core and the control files.  Bound: these are not written   *)
(* in a run in which an ioctl came too early or something has failed.      *)
Scaling ==
    /\ \/ \E u \in Updaters :
             \/ \E f \in Freqs \cup {OnDemand(Load(refcount))} : Update(u, f)
             \/ Target(u)
       \/ /\ up \cap {"ctrl", "own_ctrl"} # {}
          /\ ~early /\ failed = {}
          /\ \/ \E f \in CtrlFreqs : FreqHzSet(f)
             \/ \E v \in CtrlVolts : VoltageUvSet(v)
    /\ UNCHANGED deviceVars

Next ==
    \/ \E t \in Threads : PowerStep(t) \/ GiveBack(t)
    \/ \E c \in Clients : Get(c) \/ GetDone(c)
    \/ RunWork
    \/ Probe \/ RemoveStart \/ Remove
    \/ Scaling

Spec == Init /\ [][Next]_vars

(* A thread in the driver is scheduled, an ioctl ends (its wait has a      *)
(* timeout) and an armed timer expires.  A mutex is handed to the thread   *)
(* that has waited longest, so nobody is passed over for ever.             *)
ThreadStep(t) ==
    \/ PowerStep(t) \/ GiveBack(t)
    \/ t \in Clients /\ GetDone(t)
    \/ t = Worker /\ RunWork
    \/ t = Prober /\ (Probe \/ Remove)

TargetStep == \E u \in Updaters : Target(u) /\ UNCHANGED deviceVars

FairSpec ==
    /\ Spec
    /\ \A t \in Threads : SF_vars(ThreadStep(t))
    /\ WF_vars(TargetStep)
----------------------------------------------------------------------------
Stages == Removing \cup
    {"unbound", "drm", "misc", "fence", "power_on", "devfreq", "add", "no_devfreq", "delay",
     "wq", "work", "sram", "power_off", "debugger", "bound",
     "err_wq", "err_devfreq", "err_drm", "unwind", "failed"}

OnLabels == {"on_clk", "on_lock", "on_pm", "on_unlock", "on_done"}
OffLabels == {"off_lock", "off_pm", "off_unlock", "off_done"}
Labels == {"idle", "held", "retry", "queue", "put", "oops"} \cup OnLabels \cup OffLabels

(* Type correctness.                                                       *)
TypeOK ==
    /\ DevfreqTypeOK
    /\ lock \in Threads \cup Updaters \cup {Nobody}
    /\ stage \in Stages
    /\ up \subseteq Parts
    /\ {refcount, delay, clks, usage} \subseteq Nat
    /\ power_lock \in Threads \cup {Nobody}
    /\ doms \in [1 .. Domains -> Nat]
    /\ {queued, active, early, late, stuck} \subseteq BOOLEAN
    /\ pc \in [Threads -> Labels]
    /\ ret \in [Threads -> -1 .. 1]
    /\ failed \subseteq Faults

Missed == failed \cap {"clk_on", "pd_on", "pm_on"} # {}
PowerCounts == {clks, usage} \cup {doms[d] : d \in 1 .. Domains}

(* In the life of a bound device the clocks, every power domain and the    *)
(* device are switched on once while there is a reference and not at all   *)
(* without one, whenever no power_on or power_off is under way: not even a *)
(* power_off that gave up, and its retry, shifts one of the counts.        *)
(* Excepted are a power_on of which a part failed, a power_off in probe    *)
(* that failed, and ioctls that came before the end of probe.              *)
PowerMatchesCount ==
    stage = "bound" /\ power_lock = Nobody /\ ~(early \/ Missed \/ stuck) =>
        PowerCounts = IF refcount > 0 THEN {1} ELSE {0}

(* A driver that could not bind and one that was unloaded leave no node,   *)
(* interrupt, timer or workqueue behind that leads into it (the control    *)
(* files stay when the debugger's directory could not be made), and an     *)
(* unloaded one has switched everything off, also when rmmod comes between *)
(* the last ioctl and its delayed power-off.                               *)
NothingLeft ==
    /\ stage \in {"failed", "removed"} => up \subseteq {"rpm", "work", "own_ctrl"} /\ ~monitor
    /\ stage = "removed" =>
          /\ "rpm" \notin up
          /\ ~(early \/ Missed \/ stuck) => PowerCounts = {0}

(* Once probe has returned, no thread ever uses the mutex of a devfreq     *)
(* device that is not there, leaves it locked or unlocks it for another:   *)
(* only threads that came earlier can.  And nobody queues the power-off    *)
(* without its workqueue, nor does its timer expire without one, but for   *)
(* one more case (late): rknpu_remove takes the files under /proc/rknpu    *)
(* away after the workqueue, and a read or write of one may find that      *)
(* power_off fails once the work is cancelled, and queue it again.         *)
InLock == {"on_pm", "on_unlock", "off_pm", "off_unlock"}
LateUsersSafe ==
    early \/ \A t \in Threads :
        /\ pc[t] # "oops" \/ late
        /\ lock = t <=> pc[t] \in InLock /\ devfreq = "set"

(* Probe and remove come to their end whatever fails and whoever else is   *)
(* in the driver: probe and governor, work and remove wait for each        *)
(* other's mutexes and for the work, which puts itself back into the queue *)
(* when power_off fails, and none of this is a cycle.  A thread that       *)
(* crashed (early, late) may keep a mutex.                                 *)
Ends == {"bound", "failed", "removed"}
LifecycleEnds == stage \notin Ends \cup {"unbound"} ~> stage \in Ends \/ early \/ late

(* The NPU never runs at a frequency its voltage does not suffice for: not *)
(* between the two writes of a transition, not after one of them failed,   *)
(* not after the next transition, which starts from what the failure left, *)
(* and not with several threads that scale.  It takes a direct write to    *)
(* clock or regulator, or an ioctl that came before the end of probe and   *)
(* unlocks devfreq->lock for another, to get there.                        *)
NeverUndervolted == early \/ VoltSuffices

(* The frequency that governor and files are told is the one the NPU has,  *)
(* also after a transition that failed half way or that the firmware       *)
(* rounded, with the same exceptions.                                      *)
FreqReported == early \/ FreqKnown
=============================================================================
