----------------------------- MODULE RknpuPower -----------------------------
(***************************************************************************)
(* Power management (rknpu_drv.c): rknpu_power_get/put/put_delay and the   *)
(* delayed power_off_work around power_refcount, with the users that call  *)
(* them: ioctls and system resume (put_delay), the freq node (put), and    *)
(* the debugger's "power" node, which counts its own references in         *)
(* cmdline_power_refcount.                                                 *)
(*                                                                         *)
(* put_delay of the last reference does not drop it: it queues the work    *)
(* and leaves the reference to it.  The body of the work is that of        *)
(* rknpu_power_put, so the worker is one more caller of it.  A section     *)
(* under power_lock is one step; power_put_delay, cmdline_power_refcount   *)
(* and the debugger's atomic_sub are accessed without the lock, and the    *)
(* writers of the power node (in /proc/rknpu and in debugfs) exclude each  *)
(* other in no way.  overlap is a history variable: it records that an     *)
(* "off" has run beside another write, after which the counts are wrong.   *)
(***************************************************************************)
EXTENDS Integers, FiniteSets

CONSTANTS Users,     \* threads that bracket an operation with get and put
          Debuggers, \* threads that write to the debugger's power nodes
          Worker,    \* power_off_wq
          Delays,    \* the values power_put_delay may be given (0: no delay)
          MaxOn,     \* bound: how often "on" is written before "off"
          MaxRefs,   \* bound: power_refcount at which no more "on" is written
          Faults     \* "on_fail", "off_fail": rknpu_power_on/off returns an error

Callers == Users \cup Debuggers \cup {Worker}

ASSUME PowerAssumption ==
    /\ IsFiniteSet(Users) /\ IsFiniteSet(Debuggers)
    /\ Users \cap Debuggers = {} /\ Worker \notin Users \cup Debuggers
    /\ Delays \subseteq Nat /\ Delays # {}
    /\ MaxOn \in Nat /\ MaxRefs \in Nat
    /\ Faults \subseteq {"on_fail", "off_fail"}

VARIABLES refcount,  \* power_refcount
          cmdline,   \* cmdline_power_refcount
          power,     \* the clocks and power domains, see PowerStates
          queued,    \* power_off_work is pending
          delay,     \* power_put_delay
          pc,        \* pc[e]: where caller e is
          seen,      \* seen[d]: the cmdline that writer d has read and will subtract
          overlap    \* history: an "off" has run beside another write

vars == <<refcount, cmdline, power, queued, delay, pc, seen, overlap>>
writes == <<seen, overlap>>

Goto(e, label) == pc' = [pc EXCEPT ![e] = label]

Init ==
    /\ refcount = 0
    /\ cmdline = 0
    /\ power = "off"
    /\ queued = FALSE
    /\ delay \in Delays
    /\ pc = [e \in Callers |-> "idle"]
    /\ seen = [d \in Debuggers |-> 0]
    /\ overlap = FALSE

----------------------------------------------------------------------------
(* rknpu_power_on and rknpu_power_off.  A power_on that fails leaves what  *)
(* it had switched on; a power_off that fails has switched nothing off.    *)
PowerStates == {"off", "on", "failed"}

PowerOn ==
    \/ power' = "on"
    \/ "on_fail" \in Faults /\ power' = "failed"

PowerOff == power' = "off"

(* rknpu_power_get; the caller ignores its result and goes on to label.    *)
PowerGet(e, label) ==
    /\ refcount' = refcount + 1
    /\ IF refcount = 0 THEN PowerOn ELSE UNCHANGED power
    /\ Goto(e, label)
    /\ UNCHANGED <<cmdline, queued, delay, writes>>

Get(u) == pc[u] = "idle" /\ PowerGet(u, "held")

(* The operation is over: rknpu_power_put_delay, or rknpu_power_put.       *)
Release(u) ==
    /\ pc[u] = "held"
    /\ Goto(u, "putdelay") \/ Goto(u, "put")
    /\ UNCHANGED <<refcount, cmdline, power, queued, delay, writes>>

LastTwoReferences == refcount <= 2   \* mutant
LastReference == refcount = 1

(* rknpu_power_put, and the body of rknpu_power_off_delay_work: both call  *)
(* rknpu_power_put_delay when power_off fails.                             *)
Put(e) ==
    /\ pc[e] = "put"
    /\ \/ /\ ~LastReference
          /\ refcount' = IF refcount > 0 THEN refcount - 1 ELSE refcount
          /\ Goto(e, "idle")
          /\ UNCHANGED power
       \/ /\ LastReference
          /\ refcount' = refcount - 1
          /\ PowerOff
          /\ Goto(e, "idle")
       \/ /\ LastReference
          /\ "off_fail" \in Faults
          /\ Goto(e, "putdelay")
          /\ UNCHANGED <<refcount, power>>
    /\ UNCHANGED <<cmdline, queued, delay, writes>>

PutDelayNever(e) ==                  \* mutant: the delay is ignored
    /\ pc[e] = "putdelay"
    /\ Goto(e, "put")
    /\ UNCHANGED <<refcount, cmdline, power, queued, delay, writes>>

(* rknpu_power_put_delay: without a delay it is rknpu_power_put.           *)
PutDelay(e) ==
    /\ pc[e] = "putdelay"
    /\ Goto(e, IF delay = 0 THEN "put" ELSE "queue")
    /\ UNCHANGED <<refcount, cmdline, power, queued, delay, writes>>

QueueAndDrop(e) ==                   \* mutant: the reference is dropped as well
    /\ pc[e] = "queue"
    /\ queued' = (refcount = 1 \/ queued)
    /\ refcount' = IF refcount > 0 THEN refcount - 1 ELSE 0
    /\ Goto(e, "idle")
    /\ UNCHANGED <<cmdline, power, delay, writes>>

QueueNever(e) ==                     \* mutant: the last put is like any other
    /\ pc[e] = "queue"
    /\ refcount' = refcount - 1
    /\ Goto(e, "idle")
    /\ UNCHANGED <<cmdline, power, queued, delay, writes>>

(* Under power_lock: the last reference goes to the work.                  *)
Queue(e) ==
    /\ pc[e] = "queue"
    /\ IF refcount = 1
       THEN queued' = TRUE /\ UNCHANGED refcount
       ELSE /\ refcount' = IF refcount > 0 THEN refcount - 1 ELSE refcount
            /\ UNCHANGED queued
    /\ Goto(e, "idle")
    /\ UNCHANGED <<cmdline, power, delay, writes>>

(* The delay is over and the worker takes the work up.                     *)
RunWork ==
    /\ queued
    /\ pc[Worker] = "idle"
    /\ queued' = FALSE
    /\ Goto(Worker, "put")
    /\ UNCHANGED <<refcount, cmdline, power, delay, writes>>

----------------------------------------------------------------------------
(* The writes of other threads to a power node that are under way: those   *)
(* of "on" up to its rknpu_power_get, those of "off" up to its atomic_set. *)
InOff(d) == pc[d] \in {"off_read", "off_sub", "off_zero"}
InOn(d) == pc[d] = "on"

(* A debugger writes "on": count it, then rknpu_power_get.                 *)
DebugOn(d) ==
    /\ pc[d] = "idle"
    /\ cmdline < MaxOn /\ refcount < MaxRefs
    /\ cmdline' = cmdline + 1
    /\ overlap' = (overlap \/ \E o \in Debuggers \ {d} : InOff(o))
    /\ Goto(d, "on")
    /\ UNCHANGED <<refcount, power, queued, delay, seen>>

DebugOnGet(d) == InOn(d) /\ PowerGet(d, "idle")

(* A debugger writes "off": give the references of all "on"s back at once. *)
(* Each access is atomic, the sequence is not.                             *)
DebugOff(d) ==
    /\ pc[d] = "idle"
    /\ refcount > 0 /\ cmdline > 0
    /\ cmdline' = cmdline - 1
    /\ overlap' = (overlap \/ \E o \in Debuggers \ {d} : InOff(o) \/ InOn(o))
    /\ Goto(d, "off_read")
    /\ UNCHANGED <<refcount, power, queued, delay, seen>>

DebugOffReadAll(d) ==                \* mutant: also what rknpu_power_put gives back
    /\ pc[d] = "off_read"
    /\ seen' = [seen EXCEPT ![d] = cmdline + 1]
    /\ Goto(d, "off_sub")
    /\ UNCHANGED <<refcount, cmdline, power, queued, delay, overlap>>

DebugOffRead(d) ==
    /\ pc[d] = "off_read"
    /\ seen' = [seen EXCEPT ![d] = cmdline]
    /\ Goto(d, "off_sub")
    /\ UNCHANGED <<refcount, cmdline, power, queued, delay, overlap>>

DebugOffSub(d) ==
    /\ pc[d] = "off_sub"
    /\ refcount' = refcount - seen[d]
    /\ seen' = [seen EXCEPT ![d] = 0]
    /\ Goto(d, "off_zero")
    /\ UNCHANGED <<cmdline, power, queued, delay, overlap>>

DebugOffZero(d) ==
    /\ pc[d] = "off_zero"
    /\ cmdline' = 0
    /\ Goto(d, "put")
    /\ UNCHANGED <<refcount, power, queued, delay, writes>>

DebugOffSteps(d) == DebugOffRead(d) \/ DebugOffSub(d) \/ DebugOffZero(d)

(* The debugger writes "delayms".                                          *)
SetDelay(d) ==
    /\ delay' = d
    /\ UNCHANGED <<refcount, cmdline, power, queued, pc, writes>>

----------------------------------------------------------------------------
GiveBack(e) == Put(e) \/ PutDelay(e) \/ Queue(e)

Next ==
    \/ \E u \in Users : Get(u) \/ Release(u)
    \/ \E e \in Callers : GiveBack(e)
    \/ RunWork
    \/ \E d \in Debuggers : DebugOn(d) \/ DebugOnGet(d) \/ DebugOff(d) \/ DebugOffSteps(d)
    \/ \E d \in Delays : SetDelay(d)

Spec == Init /\ [][Next]_vars

(* A thread in the driver is scheduled and an armed timer expires; nothing *)
(* makes a user start or end an operation.                                 *)
FairSpec ==
    /\ Spec
    /\ \A e \in Callers : WF_vars(GiveBack(e))
    /\ WF_vars(RunWork)
    /\ \A d \in Debuggers : WF_vars(DebugOnGet(d)) /\ WF_vars(DebugOffSteps(d))
----------------------------------------------------------------------------
Labels == {"idle", "held", "putdelay", "put", "queue",
           "on", "off_read", "off_sub", "off_zero"}

(* Type correctness.  power_refcount is not negative, unless an "off" has  *)
(* run beside another write: then the same references may have been        *)
(* subtracted twice.                                                       *)
TypeOK ==
    /\ refcount \in Int
    /\ ~overlap => refcount >= 0
    /\ cmdline \in Nat
    /\ power \in PowerStates
    /\ queued \in BOOLEAN
    /\ delay \in Delays
    /\ pc \in [Callers -> Labels]
    /\ seen \in [Debuggers -> Nat]
    /\ overlap \in BOOLEAN

(* The callers that hold a reference of their own, and the references held *)
(* for the "on" writes: all that cmdline counts, without those whose get   *)
(* is still to come, until an "off" has subtracted them.                   *)
Holders == {e \in Callers : pc[e] \notin {"idle", "on"}}
Ons == {d \in Debuggers : InOn(d)}
CmdlineRefs ==
    IF \E d \in Debuggers : pc[d] = "off_zero" THEN 0 ELSE cmdline - Cardinality(Ons)
WorkRefs == IF queued THEN 1 ELSE 0

(* As long as no "off" has run beside another write to a power node,       *)
(* power_refcount counts exactly the references that somebody will give    *)
(* back: callers, the "on"s and the queued work.  None is lost when work,  *)
(* put, put_delay and a write overlap, so the power can go off, and none   *)
(* is counted twice, so it does not go off early.  Writes of "on" may      *)
(* overlap each other, and any write may overlap a put.                    *)
RefcountExact ==
    ~overlap => refcount = Cardinality(Holders) + CmdlineRefs + WorkRefs

(* While power_refcount is positive the power is on (unless the power_on   *)
(* of the first reference failed), whatever writes overlap.  As long as no *)
(* "off" has run beside another write, it is also off when the count is 0  *)
(* and on while somebody holds a reference: an ioctl never touches         *)
(* registers of a block that the delayed work of an earlier ioctl has just *)
(* switched off.                                                           *)
PoweredIffReferenced ==
    /\ power = "off" => refcount <= 0
    /\ ~overlap /\ refcount = 0 => power = "off"
    /\ ~overlap /\ Holders # {} => power # "off"
    /\ power = "failed" => "on_fail" \in Faults

(* Once everybody has left, the power goes off and stays off, unless       *)
(* power_off fails again and again, or an "off" has run beside another     *)
(* write and left the count wrong.                                         *)
OffFails == \E e \in Callers : pc[e] = "put" /\ pc'[e] = "putdelay"
IdlePowersOff ==
    <>[](\A u \in Users : pc[u] = "idle") /\ <>[](cmdline = 0) /\ []~overlap =>
        <>[](power = "off") \/ []<><<OffFails>>_vars

(* Where there is a delay, giving a reference back returns to the caller   *)
(* even if power_off fails every time: the retries are left to the work.   *)
(* That holds whatever the writers of the power nodes have done.           *)
Putting(u) == pc[u] \in {"put", "putdelay"}
PutReturns == <>[](delay # 0) => \A u \in Users : Putting(u) ~> ~Putting(u)
=============================================================================
