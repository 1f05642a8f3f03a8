------------------------- MODULE RknpuDeviceProofs --------------------------
(***************************************************************************)
(* Proofs about the life of the device: type correctness, that threads     *)
(* that came after probe use devfreq->lock and the power-off work only     *)
(* while they exist, that scaling never undervolts and always reports the  *)
(* frequency, that clocks, domains and device are switched on as the       *)
(* references ask, and that nothing is left after probe failed or remove,  *)
(* for any number of users, updaters, OPPs and domains and whatever fails. *)
(*                                                                         *)
(* IInv adds to the types what each stage of probe and remove finds        *)
(* (StageInv), where the prober is (ProberInv) and, unless an ioctl came   *)
(* too early, who is in the driver when (UsersInv), who holds              *)
(* devfreq->lock (LockInv) and how far the holder's transition is          *)
(* (ScaleInv).  PowerInv adds to IInv what is registered in each stage     *)
(* (UpInv) and, unless the run is excepted, what the one thread that       *)
(* switches the power has done so far (SwitchInv).                         *)
(***************************************************************************)
EXTENDS RknpuDevice, TLAPS, FiniteSetTheorems, WellFoundedInduction

(* Every set of naturals with a member has a least one.                    *)
LEMMA LeastNatural ==
    ASSUME NEW T \in SUBSET Nat, T # {}
    PROVE  \E x \in T : \A y \in T : x <= y
<1>1. PICK x \in T : \A y \in T : <<y, x>> \notin OpToRel(<, Nat)
  BY NatLessThanWellFounded, WFMin
<1>2. ASSUME NEW y \in T PROVE ~(y < x)
  BY <1>1 DEF OpToRel
<1>3. QED
  BY <1>2

(* The table of OPPs has a first and a last entry.  The last one has the   *)
(* fewest OPPs above it.                                                   *)
LEMMA OnDemandIsOpp == ASSUME NEW n PROVE OnDemand(n) \in Freqs
<1>1. \E f \in Freqs : \A g \in Freqs : f <= g
  BY DevfreqAssumption, LeastNatural
<1> DEFINE Above(f) == {g \in Freqs : f < g}
           Counts == {Cardinality(Above(f)) : f \in Freqs}
<1>2. \A f \in Freqs : IsFiniteSet(Above(f)) /\ Cardinality(Above(f)) \in Nat
  <2>1. \A f \in Freqs : Above(f) \in SUBSET Freqs
    OBVIOUS
  <2>2. QED
    BY <2>1, DevfreqAssumption, FS_Subset, FS_CardinalityType
<1>3. PICK n0 \in Counts : \A m \in Counts : n0 <= m
  <2> HIDE DEF Above
  <2>1. Counts \in SUBSET Nat
    BY <1>2
  <2>2. PICK f \in Freqs : TRUE
    BY DevfreqAssumption
  <2>3. Cardinality(Above(f)) \in Counts
    BY <2>2
  <2>4. QED
    BY <2>1, <2>3, LeastNatural
<1>4. PICK f \in Freqs : n0 = Cardinality(Above(f))
  BY <1>3
<1>5. ASSUME NEW g \in Freqs, f < g PROVE FALSE
  <2>1. Above(g) \in SUBSET Above(f) /\ g \in Above(f) /\ g \notin Above(g)
    BY <1>4, <1>5, DevfreqAssumption
  <2>2. Cardinality(Above(g)) <= Cardinality(Above(f)) /\ Cardinality(Above(g)) # Cardinality(Above(f))
    <3>1. Above(g) # Above(f)
      BY <2>1
    <3> HIDE DEF Above
    <3>2. QED
      BY <1>2, <1>4, <2>1, <3>1, FS_Subset
  <2>3. Cardinality(Above(f)) <= Cardinality(Above(g))
    BY <1>3, <1>4, <1>5
  <2> HIDE DEF Above
  <2>4. QED
    BY <1>2, <1>4, <1>5, <2>2, <2>3
<1>6. \E h \in Freqs : \A g \in Freqs : g <= h
  BY <1>4, <1>5, DevfreqAssumption
<1>7. QED
  BY <1>1, <1>6 DEF OnDemand, Lowest, Highest

(* The frequency target settles on is an OPP.                              *)
LEMMA RecommendedIsOpp ==
    ASSUME NEW f \in Freqs
    PROVE  Recommended(Capped(f)) \in Freqs
<1> DEFINE T == {g \in Freqs : g >= Capped(f)}
<1>1. Capped(f) \in Nat /\ T \in SUBSET Nat /\ T # {}
  BY DevfreqAssumption DEF Capped
<1>2. PICK g \in T : \A h \in T : g <= h
  BY <1>1, LeastNatural
<1>3. g \in Freqs /\ g >= Capped(f) /\ \A h \in Freqs : h >= Capped(f) => g <= h
  BY <1>2
<1>4. QED
  BY <1>3 DEF Recommended

----------------------------------------------------------------------------
(* A call of target has chosen its OPP.                                    *)
CallsChosen == \A u \in Updaters : call[u].at # "idle" => call[u].freq \in Freqs

TypeInv == TypeOK /\ CallsChosen

(* The initial state.                                                      *)
LEMMA TypeInit == Init => TypeInv
<1> USE DEF TypeInv, TypeOK, DevfreqTypeOK, CallsChosen, Labels, OnLabels, OffLabels
<1> SUFFICES ASSUME Init PROVE TypeInv
  OBVIOUS
<1>1. DevfreqTypeOK /\ CallsChosen
  <2>1. NoTarget \in CallType /\ NoTarget.at = "idle"
    BY DEF CallType, NoTarget
  <2>2. call \in [Updaters -> CallType] /\ CallsChosen
    BY <2>1 DEF Init, DevfreqInit
  <2>3. {scmi_clk, monitor, bypassed} \subseteq BOOLEAN /\ devfreq \in {"null", "err", "set"}
    BY DEF Init, DevfreqInit
  <2>4. {rate, vdd, current_freq} \subseteq Nat
    BY DevfreqAssumption DEF Init, DevfreqInit
  <2>5. QED
    BY <2>2, <2>3, <2>4
<1>2. /\ stage \in Stages /\ up \subseteq Parts
      /\ lock \in Threads \cup Updaters \cup {Nobody} /\ power_lock \in Threads \cup {Nobody}
  BY DEF Init, DevfreqInit, Stages, Parts
<1>3. doms \in [1 .. Domains -> Nat] /\ {refcount, delay, clks, usage} \subseteq Nat
  BY DEF Init
<1>4. {queued, active, early, late, stuck} \subseteq BOOLEAN /\ failed \subseteq Faults
  BY DEF Init
<1>5. QED
  BY <1>1, <1>2, <1>3, <1>4 DEF Init

(* The steps of rknpu_power_on and rknpu_power_off.                        *)
LEMMA TypePower ==
    ASSUME TypeInv, NEW t \in Threads, PowerStep(t)
    PROVE  TypeInv'
<1> USE DEF TypeInv, TypeOK, DevfreqTypeOK, CallsChosen, Labels, OnLabels, OffLabels,
        Goto, devfreqVars, history, powerVars, Threads, Clients
<1>1. CASE OnClk(t)
  BY <1>1 DEF OnClk, FaultOccurs
<1>2. CASE OnLock(t)
  BY <1>2 DEF OnLock, DevfreqLock
<1>3. CASE OnPm(t)
  <2>1. active' \in BOOLEAN
    BY <1>3 DEF OnPm
  <2>2. ret' \in [Threads -> -1 .. 1]
    BY <1>3 DEF OnPm, GetSync
  <2>3. doms' \in [1 .. Domains -> Nat] /\ usage' \in Nat
    BY <1>3 DEF OnPm
  <2>4. failed' \subseteq Faults
    BY <1>3 DEF OnPm, FaultOccurs
  <2>5. QED
    BY <1>3, <2>1, <2>2, <2>3, <2>4 DEF OnPm
<1>4. CASE OnUnlock(t)
  BY <1>4 DEF OnUnlock, DevfreqUnlock
<1>5. CASE OffLock(t)
  BY <1>5 DEF OffLock, DevfreqLock
<1>6. CASE OffPm(t)
  <2>1. active' \in BOOLEAN
    BY <1>6 DEF OffPm
  <2>2. doms' \in [1 .. Domains -> Nat] /\ usage' \in Nat
    BY <1>6 DEF OffPm, Dec
  <2>3. QED
    BY <1>6, <2>1, <2>2 DEF OffPm
<1>7. CASE OffUnlock(t)
  BY <1>7 DEF OffUnlock, DevfreqUnlock, Dec
<1>8. QED
  BY <1>1, <1>2, <1>3, <1>4, <1>5, <1>6, <1>7 DEF PowerStep

(* rknpu_power_get, rknpu_power_put and rknpu_power_put_delay.             *)
LEMMA TypeUsers ==
    ASSUME TypeInv,
           \/ \E t \in Threads : GiveBack(t)
           \/ \E c \in Clients : Get(c) \/ GetDone(c)
           \/ RunWork
    PROVE  TypeInv'
<1> USE DEF TypeInv, TypeOK, DevfreqTypeOK, CallsChosen, Labels, OnLabels, OffLabels,
        Goto, devfreqVars, history, powerVars, Threads, Clients, Returned
<1>1. ASSUME NEW t \in Threads, PutDelay(t) PROVE TypeInv'
  BY <1>1 DEF PutDelay
<1>2. ASSUME NEW t \in Threads, Queue(t) PROVE TypeInv'
  <2>1. queued' \in BOOLEAN
    BY <1>2 DEF Queue
  <2>2. QED
    BY <1>2, <2>1 DEF Queue, Dec
<1>3. ASSUME NEW t \in Threads, Put(t) PROVE TypeInv'
  BY <1>3 DEF Put, Dec
<1>4. ASSUME NEW t \in Threads, PutDone(t) PROVE TypeInv'
  BY <1>4 DEF PutDone
<1>5. ASSUME NEW u \in Clients, Get(u) PROVE TypeInv'
  BY <1>5 DEF Get
<1>6. ASSUME NEW u \in Clients, GetDone(u) PROVE TypeInv'
  BY <1>6 DEF GetDone
<1>7. CASE RunWork
  BY <1>7 DEF RunWork
<1>8. QED
  BY <1>1, <1>2, <1>3, <1>4, <1>5, <1>6, <1>7 DEF GiveBack

(* A step of probe or remove that leaves scaling and delay alone.          *)
LEMMA TypeMove ==
    ASSUME TypeInv, NEW from, NEW to \in Stages, NEW parts \in SUBSET Parts,
           Move(from, to, parts),
           pc' = pc \/ \E l \in Labels : Goto(Prober, l),
           power_lock' \in Threads \cup {Nobody}, queued' \in BOOLEAN, delay' \in Nat,
           stuck' \in BOOLEAN, failed' \in SUBSET Faults,
           DevfreqTypeOK', CallsChosen', lock' \in Threads \cup Updaters \cup {Nobody}
    PROVE  TypeInv'
BY DEF TypeInv, TypeOK, Move, Returned, powerVars, Goto, Threads, Clients

(* The steps of probe and remove leave scaling alone, most of them.        *)
LEMMA TypeSame ==
    ASSUME TypeInv, UNCHANGED devfreqVars
    PROVE  DevfreqTypeOK' /\ CallsChosen' /\ lock' \in Threads \cup Updaters \cup {Nobody}
BY DEF TypeInv, TypeOK, DevfreqTypeOK, CallsChosen, devfreqVars

(* What TypeInv says of the variables probe and remove rarely write.       *)
LEMMA TypeRest ==
    ASSUME TypeInv
    PROVE  /\ power_lock \in Threads \cup {Nobody} /\ queued \in BOOLEAN /\ delay \in Nat
           /\ stuck \in BOOLEAN /\ failed \in SUBSET Faults /\ up \in SUBSET Parts
           /\ Prober \in Threads
BY DEF TypeInv, TypeOK, Threads, Clients

(* The five that do not.                                                   *)
LEMMA TypeDevfreq ==
    ASSUME TypeInv,
           InitClock \/ AddDevice \/ AddDeviceFailed \/ DevfreqRemove \/ DevmRemoveDevice
    PROVE  DevfreqTypeOK' /\ CallsChosen' /\ lock' \in Threads \cup Updaters \cup {Nobody}
<1> USE DEF TypeInv, TypeOK, DevfreqTypeOK, CallsChosen
<1>1. CASE InitClock
  <2>1. ScmiRate[InitFreq] \in Nat
    BY DevfreqAssumption
  <2>2. QED
    BY <1>1, <2>1 DEF InitClock
<1>2. CASE AddDevice
  BY <1>2 DEF AddDevice
<1>3. CASE AddDeviceFailed \/ DevfreqRemove \/ DevmRemoveDevice
  BY <1>3 DEF AddDeviceFailed, DevfreqRemove, DevmRemoveDevice
<1>4. QED
  BY <1>1, <1>2, <1>3

(* The steps that only take parts away.                                    *)
LEMMA TypeRetreat ==
    ASSUME TypeInv,
           ErrWq \/ ErrDrm \/ RemoveCancelled \/ RemoveWq \/ RemoveParts \/ RemoveDrm
    PROVE  TypeInv'
<1>1. ASSUME NEW from, NEW to \in Stages, NEW parts, Retreat(from, to, parts),
             UNCHANGED <<power_lock, queued, pc, stuck, devfreqVars>>
      PROVE  TypeInv'
  BY <1>1 DEF Retreat, Move, Returned, TypeInv, TypeOK, DevfreqTypeOK, CallsChosen, powerVars,
              devfreqVars, Threads, Clients
<1>2. {"err_devfreq", "unwind", "destroy", "rm_parts", "rm_drm", "rm_devfreq"} \subseteq Stages
  BY DEF Stages, Removing
<1>3. CASE ErrWq
  BY <1>1, <1>2, <1>3 DEF ErrWq
<1>4. CASE ErrDrm
  BY <1>1, <1>2, <1>4 DEF ErrDrm
<1>5. CASE RemoveCancelled
  BY <1>1, <1>2, <1>5 DEF RemoveCancelled
<1>6. CASE RemoveWq
  BY <1>1, <1>2, <1>6 DEF RemoveWq
<1>7. CASE RemoveParts
  BY <1>1, <1>2, <1>7 DEF RemoveParts
<1>8. CASE RemoveDrm
  BY <1>1, <1>2, <1>8 DEF RemoveDrm
<1>9. QED
  BY <1>3, <1>4, <1>5, <1>6, <1>7, <1>8

(* rknpu_probe and its error labels.                                       *)
LEMMA TypeProbe ==
    ASSUME TypeInv, Probe
    PROVE  TypeInv'
<1> USE TypeRest, TypeMove, TypeSame
    DEF Advance, Fails, Retreat, FaultOccurs, Stages, Parts, Removing, Labels, OnLabels, OffLabels
<1>1. CASE ProbeStart
  BY <1>1 DEF ProbeStart
<1>2. CASE ProbeDrm
  BY <1>2 DEF ProbeDrm
<1>3. CASE ProbeMisc
  BY <1>3 DEF ProbeMisc
<1>4. CASE ProbeFence
  BY <1>4 DEF ProbeFence
<1>5. CASE ProbePowered
  BY <1>5 DEF ProbePowered
<1>6. CASE ProbeClock
  BY <1>6, TypeDevfreq DEF ProbeClock
<1>7. CASE ProbeAdd
  BY <1>7, TypeDevfreq DEF ProbeAdd
<1>8. CASE ProbeNoDevfreq
  BY <1>8, TypeDevfreq DEF ProbeNoDevfreq
<1>9. CASE ProbeDelay
  BY <1>9, DeviceAssumption DEF ProbeDelay
<1>10. CASE ProbeWq
  BY <1>10 DEF ProbeWq
<1>11. CASE ProbeWork
  BY <1>11 DEF ProbeWork
<1>12. CASE ProbeSram
  BY <1>12 DEF ProbeSram
<1>13. CASE ProbeOff
  <2>1. pc' \in [Threads -> Labels] /\ ret' \in [Threads -> -1 .. 1]
    BY <1>13 DEF ProbeOff, TypeInv, TypeOK, Goto, Returned
  <2>2. stuck' \in BOOLEAN
    BY <1>13 DEF ProbeOff
  <2>3. QED
    BY <1>13, <2>1, <2>2 DEF ProbeOff, TypeInv, TypeOK, powerVars
<1>14. CASE ProbeDebugger
  BY <1>14 DEF ProbeDebugger
<1>15. CASE ErrWq
  BY <1>15, TypeRetreat
<1>16. CASE ErrDevfreq
  BY <1>16, TypeDevfreq DEF ErrDevfreq
<1>17. CASE ErrDrm
  BY <1>17, TypeRetreat
<1>18. CASE DevmRelease
  BY <1>18, TypeDevfreq DEF DevmRelease
<1>19. QED
  BY <1>1, <1>2, <1>3, <1>4, <1>5, <1>6, <1>7, <1>8, <1>9, <1>10, <1>11, <1>12, <1>13, <1>14,
     <1>15, <1>16, <1>17, <1>18 DEF Probe

(* rknpu_remove.                                                           *)
LEMMA TypeRemove ==
    ASSUME TypeInv, RemoveStart \/ Remove
    PROVE  TypeInv'
<1> USE TypeRest, TypeMove, TypeSame
    DEF Retreat, Stages, Removing, Labels, OffLabels
<1>1. CASE RemoveStart
  BY <1>1 DEF RemoveStart
<1>2. CASE RemoveCancelled \/ RemoveWq \/ RemoveParts \/ RemoveDrm
  BY <1>2, TypeRetreat
<1>3. CASE RemoveDevfreq
  BY <1>3, TypeDevfreq DEF RemoveDevfreq
<1>4. CASE RemoveOff
  <2>1. CASE refcount > 0
    BY <1>4, <2>1 DEF RemoveOff
  <2>2. CASE ~(refcount > 0)
    BY <1>4, <2>2 DEF RemoveOff
  <2>3. QED
    BY <2>1, <2>2
<1>5. CASE RemoveOffDone
  <2>1. pc' \in [Threads -> Labels] /\ ret' \in [Threads -> -1 .. 1]
    BY <1>5 DEF RemoveOffDone, Move, TypeInv, TypeOK, Goto, Returned
  <2>2. stuck' \in BOOLEAN /\ power_lock' \in Threads \cup {Nobody} /\ stage' \in Stages
    BY <1>5 DEF RemoveOffDone, Move
  <2>3. QED
    BY <1>5, <2>1, <2>2 DEF RemoveOffDone, Move, TypeInv, TypeOK, powerVars
<1>6. QED
  BY <1>1, <1>2, <1>3, <1>4, <1>5 DEF Remove

(* target goes on or returns.                                              *)
LEMMA TypeCall ==
    ASSUME TypeInv, NEW u \in Updaters,
           Return(u) \/ \E l \in {"set", "lower"} : Continue(u, l) /\ call[u].at # "idle"
    PROVE  /\ call' \in [Updaters -> CallType]
           /\ CallsChosen'
           /\ lock' \in Threads \cup Updaters \cup {Nobody}
<1> USE DEF TypeInv, TypeOK, DevfreqTypeOK, CallsChosen
<1>1. CASE Return(u)
  BY <1>1 DEF Return, CallType, NoTarget
<1>2. ASSUME NEW l \in {"set", "lower"}, Continue(u, l), call[u].at # "idle"
      PROVE  /\ call' \in [Updaters -> CallType]
             /\ CallsChosen'
             /\ lock' \in Threads \cup Updaters \cup {Nobody}
  <2>1. [call[u] EXCEPT !.at = l] \in CallType /\ [call[u] EXCEPT !.at = l].freq = call[u].freq
    BY <1>2 DEF CallType
  <2>2. call' = [call EXCEPT ![u] = [call[u] EXCEPT !.at = l]] /\ UNCHANGED lock
    BY <1>2 DEF Continue
  <2>3. QED
    BY <1>2, <2>1, <2>2
<1>3. QED
  BY <1>1, <1>2

(* The devfreq core and the control files.                                 *)
LEMMA TypeScaling ==
    ASSUME TypeInv, Scaling
    PROVE  TypeInv'
<1>0. ASSUME UNCHANGED deviceVars, DevfreqTypeOK', CallsChosen',
             lock' \in Threads \cup Updaters \cup {Nobody}
      PROVE  TypeInv'
  BY <1>0 DEF TypeInv, TypeOK, deviceVars, powerVars, history
<1> DEFINE Typed == /\ DevfreqTypeOK' /\ CallsChosen'
                    /\ lock' \in Threads \cup Updaters \cup {Nobody}
<1> USE DevfreqAssumption DEF TypeInv, TypeOK, DevfreqTypeOK
<1>1. ASSUME NEW u \in Updaters, NEW f \in Freqs, Update(u, f) PROVE Typed
  <2>1. Recommended(Capped(f)) \in Freqs
    BY RecommendedIsOpp
  <2>2. QED
    BY <1>1, <2>1 DEF Update, CallsChosen, CallType
<1>2. ASSUME NEW u \in Updaters, Raise(u) PROVE Typed
  <2>1. vdd' \in Nat
    <3>1. call[u].freq \in Freqs
      BY <1>2 DEF Raise, CallsChosen
    <3>2. Voltage[call[u].freq] \in Nat
      BY <3>1
    <3>3. QED
      BY <1>2, <3>2 DEF Raise
  <2>2. QED
    BY <1>2, <2>1, TypeCall DEF Raise
<1>3. ASSUME NEW u \in Updaters, SetRate(u) PROVE Typed
  <2>1. rate' \in Nat
    <3>1. call[u].freq \in Freqs
      BY <1>3 DEF SetRate, CallsChosen
    <3>2. ScmiRate[call[u].freq] \in Nat
      BY <3>1
    <3>3. QED
      BY <1>3, <3>2 DEF SetRate, ClkSetRate
  <2>2. QED
    BY <1>3, <2>1, TypeCall DEF SetRate
<1>4. ASSUME NEW u \in Updaters, Lower(u) PROVE Typed
  <2>1. vdd' \in Nat /\ current_freq' \in Nat
    <3>1. Voltage[call[u].freq] \in Nat
      BY <1>4 DEF Lower, CallsChosen
    <3>2. vdd' \in Nat
      BY <1>4, <3>1 DEF Lower
    <3>3. QED
      BY <1>4, <3>2 DEF Lower, ClkGetRate
  <2>2. QED
    BY <1>4, <2>1, TypeCall DEF Lower
<1>5. ASSUME NEW f \in CtrlFreqs, FreqHzSet(f) PROVE Typed
  <2>1. rate' \in Nat
    BY <1>5 DEF FreqHzSet, ClkSetRate
  <2>2. QED
    BY <1>5, <2>1 DEF FreqHzSet, CallsChosen
<1>6. ASSUME NEW v \in CtrlVolts, VoltageUvSet(v) PROVE Typed
  BY <1>6 DEF VoltageUvSet, CallsChosen
<1> HIDE DEF Typed
<1>7. Typed
  BY <1>1, <1>2, <1>3, <1>4, <1>5, <1>6, OnDemandIsOpp DEF Scaling, Target
<1>8. QED
  BY <1>0, <1>7 DEF Typed, Scaling

(* Every step keeps the types.                                             *)
LEMMA TypeStep == TypeInv /\ [Next]_vars => TypeInv'
<1>1. TypeInv /\ UNCHANGED vars => TypeInv'
  BY DEF TypeInv, TypeOK, DevfreqTypeOK, CallsChosen, vars, deviceVars, devfreqVars, powerVars,
         history
<1>2. QED
  BY <1>1, TypePower, TypeUsers, TypeProbe, TypeRemove, TypeScaling DEF Next

(* Type correctness of the life of the device, for any number of users,    *)
(* updaters, OPPs and power domains; no count ever becomes negative.       *)
THEOREM DeviceTypeCorrect == Spec => []TypeOK
<1>1. Spec => []TypeInv
  BY TypeInit, TypeStep, PTL DEF Spec
<1>2. TypeInv => TypeOK
  BY DEF TypeInv
<1>3. QED
  BY <1>1, <1>2, PTL

----------------------------------------------------------------------------
(* What each stage of probe and remove finds: no clock and no governor     *)
(* before rknpu_devfreq_init, the devfreq device between there and         *)
(* rknpu_devfreq_remove, the workqueue and the work while ioctls use them, *)
(* and /proc/rknpu from the end of probe to rknpu_debugger_remove.         *)
BeforeClock == {"unbound", "drm", "misc", "fence", "power_on", "devfreq"}
WithDevfreq ==
    {"delay", "wq", "work", "sram", "power_off", "debugger", "bound", "err_wq", "err_devfreq",
     "cancel", "destroy", "rm_parts", "rm_drm", "rm_devfreq"}
WithWork == {"sram", "power_off", "debugger", "bound", "cancel", "destroy"}
WithProc == {"bound", "cancel", "destroy", "rm_parts"}
AfterWq == Removing \ {"cancel", "destroy"}

StageInv ==
    /\ stage \in BeforeClock =>
          /\ ~scmi_clk
          /\ bypassed \/ (rate = BootRate /\ vdd = BootVolt)
    /\ stage \in BeforeClock \cup {"add"} => ~monitor
    /\ ~monitor => \A u \in Updaters : call[u].at = "idle"
    /\ devfreq = "set" => stage \in WithDevfreq
    /\ devfreq = "err" => stage = "no_devfreq"
    /\ stage = "work" => "wq" \in up
    /\ stage \in WithWork => {"wq", "work"} \subseteq up
    /\ stage \in AfterWq => "wq" \notin up
    /\ "procfs" \in up => stage \in WithProc

(* The prober is in rknpu_power_on and rknpu_power_off in their stages.    *)
ProberInv ==
    /\ pc[Prober] \in {"idle"} \cup OnLabels \cup OffLabels
    /\ pc[Prober] \in OnLabels => stage = "power_on"
    /\ pc[Prober] \in OffLabels => stage \in {"power_off", "rm_power"}

(* Users who came after probe are gone before remove begins, the files     *)
(* under /proc/rknpu are in use until they are removed, and the work is    *)
(* gone before its queue, or crashes without it when one of those files    *)
(* has queued it late.                                                     *)
UsersInv ==
    /\ \A u \in Users : pc[u] # "idle" => stage = "bound"
    /\ \A n \in Nodes : pc[n] # "idle" => stage \in WithProc
    /\ pc[Worker] \notin {"idle", "oops"} =>
          stage \in {"bound", "cancel"} \/ (late /\ stage = "destroy")
    /\ queued => stage = "bound" \/ late
    /\ late => stage \in Removing \ {"cancel"}

(* The holder of devfreq->lock is who believes to hold it.                 *)
LockInv ==
    /\ \A t \in Threads :
          /\ pc[t] # "oops" \/ late
          /\ lock = t <=> pc[t] \in InLock /\ devfreq = "set"
    /\ \A u \in Updaters : lock = u <=> call[u].at # "idle"

(* How far a call of target is, and what it has done to clock and          *)
(* regulator.                                                              *)
CallInv(u) ==
    /\ call[u].at # "idle" => current_freq = call[u].old
    /\ call[u].at \in {"raise", "set"} => rate = call[u].old
    /\ call[u].at = "raise" => call[u].freq > rate
    /\ call[u].at = "set" /\ call[u].freq > rate => vdd = Voltage[call[u].freq]
    /\ call[u].at = "lower" => rate = ScmiRate[call[u].freq]

ScaleInv == scmi_clk /\ ~bypassed =>
    /\ \A u \in Updaters : CallInv(u)
    /\ Suffices(vdd, rate)
    /\ Transition \/ current_freq = rate

IInv ==
    /\ TypeInv
    /\ StageInv
    /\ ProberInv
    /\ early \/ (UsersInv /\ LockInv /\ ScaleInv)

(* The initial state.                                                      *)
LEMMA InvInit == Init => IInv
<1> SUFFICES ASSUME Init PROVE IInv
  OBVIOUS
<1>1. StageInv
  BY DEF Init, DevfreqInit, StageInv, WithDevfreq, WithWork, AfterWq, Removing, NoTarget
<1>2. ProberInv /\ UsersInv
  BY DEF Init, ProberInv, UsersInv, Threads, Clients, OnLabels, OffLabels
<1>3. LockInv
  BY DeviceAssumption, DevfreqAssumption
     DEF Init, DevfreqInit, LockInv, InLock, Threads, Clients, NoTarget
<1>4. ScaleInv
  BY DEF Init, DevfreqInit, ScaleInv
<1>5. QED
  BY <1>1, <1>2, <1>3, <1>4, TypeInit DEF IInv

----------------------------------------------------------------------------
(* What a step of probe or remove does to the others.                      *)
MoveEffect ==
    /\ UNCHANGED <<early, late, lock, call, bypassed, vdd>>
    /\ pc[Prober] \in {"idle", "on_done", "off_done"}
    /\ \/ UNCHANGED pc /\ pc[Prober] = "idle"
       \/ Goto(Prober, "on_clk") /\ stage' = "power_on"
       \/ Goto(Prober, "off_lock") /\ stage' \in {"power_off", "rm_power"}
       \/ Goto(Prober, "idle")
    /\ queued' => queued
    /\ stage = "bound" => stage' = "cancel" /\ ~queued' /\ \A u \in Users : pc[u] = "idle"
    /\ stage = "cancel" => stage' = "destroy" /\ pc[Worker] = "idle"
    /\ stage = "destroy" => stage' = "rm_parts" /\ pc[Worker] = "idle"
    /\ stage = "rm_parts" => \A n \in Nodes : pc[n] = "idle"
    /\ stage \in Removing \ {"cancel"} => stage' \in Removing \ {"cancel"}
    /\ devfreq' # devfreq => stage \in {"add", "no_devfreq", "err_devfreq", "rm_devfreq"}
    /\ scmi_clk' => \/ scmi_clk /\ UNCHANGED <<rate, current_freq>>
                    \/ /\ stage = "devfreq"
                       /\ rate' \in {rate, ScmiRate[InitFreq]} /\ current_freq' = rate'

(* Every step of probe and remove has this effect.                         *)
LEMMA Moves ==
    ASSUME TypeInv, StageInv, ProberInv, Probe \/ RemoveStart \/ Remove
    PROVE  StageInv' /\ MoveEffect
<1> USE DEF TypeInv, TypeOK, StageInv, ProberInv, MoveEffect, Removing, WithProc, Move, Advance,
        Fails, Retreat, Goto,
        devfreqVars, BeforeClock, WithDevfreq, WithWork, AfterWq, Threads, Clients, OnLabels, OffLabels
<1>1. CASE ProbeStart
  BY <1>1 DEF ProbeStart
<1>2. CASE ProbeDrm
  BY <1>2 DEF ProbeDrm
<1>3. CASE ProbeMisc
  BY <1>3 DEF ProbeMisc
<1>4. CASE ProbeFence
  BY <1>4 DEF ProbeFence
<1>5. CASE ProbePowered
  BY <1>5 DEF ProbePowered
<1>6. CASE ProbeClock
  BY <1>6 DEF ProbeClock, InitClock
<1>7. CASE ProbeAdd
  BY <1>7 DEF ProbeAdd, AddDevice
<1>8. CASE ProbeNoDevfreq
  BY <1>8 DEF ProbeNoDevfreq, AddDeviceFailed
<1>9. CASE ProbeDelay
  BY <1>9 DEF ProbeDelay
<1>10. CASE ProbeWq
  BY <1>10 DEF ProbeWq
<1>11. CASE ProbeWork
  BY <1>11 DEF ProbeWork
<1>12. CASE ProbeSram
  BY <1>12 DEF ProbeSram
<1>13. CASE ProbeOff
  BY <1>13 DEF ProbeOff
<1>14. CASE ProbeDebugger
  BY <1>14 DEF ProbeDebugger
<1>15. CASE ErrWq
  BY <1>15 DEF ErrWq
<1>16. CASE ErrDevfreq
  BY <1>16 DEF ErrDevfreq, DevfreqRemove
<1>17. CASE ErrDrm
  BY <1>17 DEF ErrDrm
<1>18. CASE DevmRelease
  BY <1>18 DEF DevmRelease, DevmRemoveDevice
<1>19. CASE RemoveStart
  BY <1>19 DEF RemoveStart
<1>20. CASE RemoveCancelled \/ RemoveWq
  BY <1>20 DEF RemoveCancelled, RemoveWq
<1>21. CASE RemoveParts
  BY <1>21 DEF RemoveParts
<1>22. CASE RemoveDrm
  BY <1>22 DEF RemoveDrm
<1>23. CASE RemoveDevfreq
  BY <1>23 DEF RemoveDevfreq, DevfreqRemove
<1>24. CASE RemoveOff
  BY <1>24 DEF RemoveOff
<1>25. CASE RemoveOffDone
  BY <1>25 DEF RemoveOffDone
<1>26. QED
  BY <1>1, <1>2, <1>3, <1>4, <1>5, <1>6, <1>7, <1>8, <1>9, <1>10, <1>11, <1>12, <1>13,
     <1>14, <1>15, <1>16, <1>17, <1>18, <1>19, <1>20, <1>21, <1>22, <1>23, <1>24, <1>25
     DEF Probe, Remove

(* Probe and remove change what there is to lock and to scale only while   *)
(* nobody who came after probe is in the driver.                           *)
LEMMA MovesSafe ==
    ASSUME IInv, Probe \/ RemoveStart \/ Remove
    PROVE  IInv'
<1> USE DEF IInv
<1>1. StageInv' /\ MoveEffect /\ TypeInv'
  BY Moves, TypeProbe, TypeRemove
<1>2. ProberInv'
  BY <1>1 DEF TypeInv, TypeOK, ProberInv, MoveEffect, Goto, Threads, Clients, OnLabels, OffLabels
<1>3. \A t \in Threads \ {Prober} : pc'[t] = pc[t]
  BY <1>1 DEF MoveEffect, Goto, TypeInv, TypeOK
<1>4. ASSUME ~early PROVE UsersInv'
  <2>1. Clients \subseteq Threads \ {Prober} /\ Worker \in Threads \ {Prober}
    BY DeviceAssumption DEF Threads, Clients
  <2>2. QED
    BY <1>1, <1>3, <1>4, <2>1 DEF UsersInv, MoveEffect, WithProc, Clients
<1>5. ASSUME ~early PROVE LockInv'
  <2>1. \A t \in Threads : pc'[t] = pc[t] \/ (t = Prober /\ pc'[t] \in {"idle", "on_clk", "off_lock"})
    BY <1>1, <1>3 DEF MoveEffect, Goto, TypeInv, TypeOK
  <2>2. pc[Prober] \notin InLock
    BY <1>1 DEF MoveEffect, InLock
  <2>3. devfreq' # devfreq => \A t \in Threads : pc[t] \notin InLock /\ pc'[t] \notin InLock
    <3>1. devfreq' # devfreq => stage \in {"add", "no_devfreq", "err_devfreq", "rm_devfreq"}
      BY <1>1 DEF MoveEffect
    <3>2. stage \in {"add", "no_devfreq", "err_devfreq", "rm_devfreq"} =>
             /\ pc[Prober] \notin InLock
             /\ \A t \in Clients \cup {Worker} : pc[t] \in {"idle", "oops"}
      BY <1>5 DEF ProberInv, UsersInv, OnLabels, OffLabels, InLock, WithProc, Clients
    <3>3. \A t \in Threads : t = Prober \/ t \in Clients \cup {Worker}
      BY DEF Threads
    <3>4. QED
      BY <2>1, <3>1, <3>2, <3>3 DEF InLock
  <2>4. QED
    BY <1>1, <1>5, <2>1, <2>2, <2>3 DEF LockInv, MoveEffect, InLock
<1>6. ASSUME ~early PROVE ScaleInv'
  <2> SUFFICES ASSUME scmi_clk', ~bypassed'
               PROVE  /\ \A u \in Updaters : CallInv(u)'
                      /\ Suffices(vdd, rate)'
                      /\ Transition' \/ current_freq' = rate'
    BY DEF ScaleInv
  <2>1. CASE scmi_clk /\ UNCHANGED <<rate, current_freq>>
    BY <1>1, <1>6, <2>1 DEF ScaleInv, MoveEffect, CallInv, Suffices, Transition
  <2>2. CASE /\ stage = "devfreq"
             /\ rate' \in {rate, ScmiRate[InitFreq]} /\ current_freq' = rate'
    <3>1. \A u \in Updaters : CallInv(u)'
      BY <1>1, <2>2 DEF StageInv, MoveEffect, CallInv, BeforeClock
    <3>2. Suffices(BootVolt, BootRate) /\ Suffices(BootVolt, ScmiRate[InitFreq])
      <4>1. PICK f \in Freqs : BootRate <= f /\ Voltage[f] <= BootVolt
        BY DevfreqAssumption DEF Suffices
      <4>2. ScmiRate[InitFreq] \in Nat /\ ScmiRate[InitFreq] <= InitFreq
        BY DevfreqAssumption
      <4>3. f \in Nat /\ InitFreq \in Nat /\ InitFreq <= f
        BY DevfreqAssumption
      <4>4. ScmiRate[InitFreq] <= f
        BY <4>2, <4>3
      <4>5. QED
        BY <4>1, <4>4 DEF Suffices
    <3>3. vdd' = BootVolt /\ rate' \in {BootRate, ScmiRate[InitFreq]}
      BY <1>1, <2>2 DEF StageInv, MoveEffect, BeforeClock
    <3>4. Suffices(vdd, rate)'
      BY <3>2, <3>3 DEF Suffices
    <3>5. QED
      BY <2>2, <3>1, <3>4
  <2>3. QED
    BY <1>1, <2>1, <2>2 DEF MoveEffect
<1>7. QED
  BY <1>1, <1>2, <1>4, <1>5, <1>6 DEF MoveEffect

----------------------------------------------------------------------------
(* A thread in the driver leaves the stages and the scaling alone.         *)
LEMMA ThreadFrame ==
    ASSUME StageInv, ScaleInv \/ early,
           UNCHANGED <<stage, up, scmi_clk, devfreq, monitor, rate, vdd, current_freq, call,
                       bypassed>>
    PROVE  StageInv' /\ (ScaleInv' \/ early)
BY DEF StageInv, ScaleInv, CallInv, Suffices, Transition

(* Who is where: a thread in the driver, but for the prober, came after    *)
(* the end of probe and is gone before the removal of the workqueue, or of *)
(* /proc/rknpu if it is in one of those files.                             *)
LEMMA Present ==
    ASSUME IInv, ~early, NEW t \in Threads, pc[t] \notin {"idle", "oops"}
    PROVE  /\ stage # "no_devfreq"
           /\ t # Prober => stage \in WithProc
           /\ t \notin Nodes \cup {Prober} => {"wq", "work"} \subseteq up
           /\ t \in Users => stage = "bound"
           /\ t = Worker => stage \in {"bound", "cancel"} \/ (late /\ stage = "destroy")
BY DEF IInv, StageInv, UsersInv, ProberInv, Threads, Clients, WithWork, WithProc, OnLabels,
       OffLabels

(* A thread locks and unlocks the mutex it found.                          *)
LEMMA PowerSafe ==
    ASSUME IInv, NEW t \in Threads, PowerStep(t)
    PROVE  IInv'
<1>1. /\ UNCHANGED <<stage, up, scmi_clk, devfreq, monitor, rate, vdd, current_freq, call, bypassed>>
      /\ UNCHANGED <<early, late, queued>>
  BY DEF PowerStep, OnClk, OnLock, OnPm, OnUnlock, OffLock, OffPm, OffUnlock, DevfreqLock,
         devfreqVars, history
<1>2. StageInv' /\ (ScaleInv' \/ early) /\ TypeInv'
  BY <1>1, ThreadFrame, TypePower DEF IInv
<1>3. pc \in [Threads -> Labels] /\ lock \in Threads \cup Updaters \cup {Nobody}
  BY DEF IInv, TypeInv, TypeOK
<1>4. PICK l \in OnLabels \cup OffLabels \cup {"oops"} :
        /\ Goto(t, l)
        /\ pc[t] \in OnLabels => l \in OnLabels \cup {"oops"}
        /\ pc[t] \in OffLabels => l \in OffLabels \cup {"oops"}
        /\ pc[t] \in OnLabels \cup OffLabels
        /\ l = "oops" => devfreq = "err"
        /\ \/ /\ UNCHANGED lock
              /\ l \in InLock /\ pc[t] \notin InLock => devfreq # "set"
              /\ pc[t] \in InLock => l \in InLock
           \/ /\ devfreq = "set" /\ lock = Nobody /\ lock' = t
              /\ l \in InLock /\ pc[t] \notin InLock
           \/ /\ DevfreqUnlock
              /\ pc[t] \in InLock /\ l \notin InLock
  BY <1>3 DEF PowerStep, OnClk, OnLock, OnPm, OnUnlock, OffLock, OffPm, OffUnlock, DevfreqLock,
         devfreqVars, OnLabels, OffLabels, InLock
<1>5. l # "oops" \/ early
  BY <1>4, Present DEF IInv, StageInv, OnLabels, OffLabels
<1>6. ProberInv'
  BY <1>1, <1>3, <1>4 DEF IInv, ProberInv, StageInv, Goto, OnLabels, OffLabels, Threads, Clients
<1>7. ASSUME ~early PROVE UsersInv'
  <2>1. \A e \in Threads :
           /\ pc'[e] # "idle" => pc[e] # "idle"
           /\ pc'[e] \notin {"idle", "oops"} => pc[e] \notin {"idle", "oops"}
    BY <1>3, <1>4 DEF Goto, OnLabels, OffLabels
  <2>2. QED
    <3>1. UsersInv /\ Worker \in Threads /\ Users \subseteq Threads /\ Nodes \subseteq Threads
      BY <1>7 DEF IInv, Threads, Clients
    <3>2. QED
      BY <1>1, <2>1, <3>1 DEF UsersInv
<1>8. ASSUME ~early PROVE LockInv'
  <2>1. LockInv
    BY <1>8 DEF IInv
  <2>2. pc'[t] = l /\ \A e \in Threads \ {t} : pc'[e] = pc[e]
    BY <1>3, <1>4 DEF Goto
  <2>3. Nobody \notin Threads /\ Nobody \notin Updaters /\ Updaters \cap Threads = {}
    BY DeviceAssumption, DevfreqAssumption DEF Threads, Clients
  <2>4. \A e \in Threads :
           /\ pc'[e] # "oops" \/ late
           /\ lock' = e <=> pc'[e] \in InLock /\ devfreq = "set"
    BY <1>4, <1>5, <1>8, <2>1, <2>2, <2>3 DEF LockInv, DevfreqUnlock
  <2>5. \A u \in Updaters : lock' = u <=> call[u].at # "idle"
    BY <1>4, <2>1, <2>3 DEF LockInv, DevfreqUnlock
  <2>6. QED
    BY <1>1, <2>4, <2>5 DEF LockInv
<1>9. QED
  BY <1>1, <1>2, <1>6, <1>7, <1>8 DEF IInv

(* Gets and puts go through no section of devfreq->lock, come when they    *)
(* may, and find the workqueue and the work in place unless they are late. *)
UserEffect(t) ==
    /\ t # Prober
    /\ Goto(t, pc'[t])
    /\ {pc[t], pc'[t]} \cap InLock = {}
    /\ early' \/ pc[t] \notin {"idle", "oops"} \/
          /\ pc[t] = "idle"
          /\ t \in Users => stage = "bound"
          /\ t \in Nodes => stage \in WithProc
          /\ t = Worker /\ pc'[t] # "oops" => stage = "bound" \/ (late /\ stage = "destroy")
    /\ early \/ pc'[t] # "oops" \/ late'
    /\ early \/ (queued' => stage = "bound" \/ late')
    /\ late => late'
    /\ late' => late \/ stage \in Cancelled

(* rknpu_power_put_delay: only a file under /proc/rknpu comes late.        *)
LEMMA Queues ==
    ASSUME IInv, NEW t \in Threads, Queue(t)
    PROVE  UserEffect(t)
<1>1. pc \in [Threads -> Labels] /\ late \in BOOLEAN
  BY DEF IInv, TypeInv, TypeOK
<1>2. pc[t] = "queue" /\ pc'[t] \in {"idle", "oops"} /\ Goto(t, pc'[t])
  BY <1>1 DEF Queue, Goto
<1>3. t # Prober
  BY <1>2 DEF IInv, ProberInv, OnLabels, OffLabels
<1>4. late' = (late \/ (t \in Nodes /\ refcount = 1 /\ stage \in Cancelled))
  BY DEF Queue
<1>5. ASSUME ~early PROVE pc'[t] # "oops" \/ late'
  <2>1. SUFFICES ASSUME refcount = 1, ~({"wq", "work"} \subseteq up) PROVE late'
    BY <1>1, <1>2 DEF Queue, Goto
  <2>2. t \in Nodes /\ stage \in WithProc
    BY <1>2, <1>3, <1>5, <2>1, Present
  <2>3. stage \in Cancelled
    BY <2>1, <2>2 DEF IInv, StageInv, WithWork, WithProc, Cancelled
  <2>4. QED
    BY <1>4, <2>1, <2>2, <2>3
<1>6. ASSUME ~early, queued' PROVE stage = "bound" \/ late'
  <2>1. CASE queued
    BY <1>4, <1>6, <2>1 DEF IInv, UsersInv
  <2>2. CASE ~queued
    <3>1. refcount = 1 /\ stage # "cancel"
      BY <1>6, <2>2 DEF Queue
    <3>2. CASE t \in Nodes
      BY <1>2, <1>3, <1>4, <1>6, <3>1, <3>2, Present DEF WithProc, Cancelled
    <3>3. CASE t \notin Nodes
      BY <1>2, <1>3, <1>4, <1>6, <3>1, <3>3, Present DEF Threads, Clients
    <3>4. QED
      BY <3>2, <3>3
  <2>3. QED
    BY <2>1, <2>2
<1>7. QED
  BY <1>2, <1>3, <1>4, <1>5, <1>6 DEF UserEffect, InLock

(* Every step of a get or a put has this effect.                           *)
LEMMA Uses ==
    ASSUME IInv,
           \/ \E t \in Threads : GiveBack(t)
           \/ \E c \in Clients : Get(c) \/ GetDone(c)
           \/ RunWork
    PROVE  \E t \in Threads : UserEffect(t)
<1>1. pc \in [Threads -> Labels]
  BY DEF IInv, TypeInv, TypeOK
<1>2. pc[Prober] \notin {"held", "retry", "queue", "put"}
  BY DEF IInv, ProberInv, OnLabels, OffLabels
<1>3. \A t \in Threads : ~early /\ pc[t] \notin {"idle", "oops"} /\ queued => stage = "bound" \/ late
  BY DEF IInv, UsersInv
<1>4. ~early /\ queued => (stage = "bound" /\ "wq" \in up) \/ late
  BY DEF IInv, UsersInv, StageInv, WithWork
<1> USE <1>1, <1>4 DEF UserEffect, Goto, InLock, history
<1>5. ASSUME NEW t \in Threads, PutDelay(t) PROVE UserEffect(t)
  BY <1>2, <1>5 DEF PutDelay
<1>6. ASSUME NEW t \in Threads, Queue(t) PROVE UserEffect(t)
  BY <1>6, Queues
<1>7. ASSUME NEW t \in Threads, Put(t) PROVE UserEffect(t)
  BY <1>2, <1>7 DEF Put
<1>8. ASSUME NEW t \in Threads, PutDone(t) PROVE UserEffect(t)
  BY <1>8 DEF PutDone
<1>9. ASSUME NEW u \in Clients, Get(u) PROVE u \in Threads /\ UserEffect(u)
  <2>1. u \in Threads /\ u # Prober /\ u # Worker
    BY DeviceAssumption DEF Threads, Clients
  <2>2. /\ pc[u] = "idle" /\ pc'[u] \in {"on_clk", "held"} /\ Goto(u, pc'[u])
        /\ UNCHANGED <<queued, late, stage>>
    BY <1>9, <2>1 DEF Get
  <2>3. early' \/ ((u \in Users => stage = "bound") /\ (u \in Nodes => stage \in WithProc))
    BY <1>9, DeviceAssumption DEF Get, CanEnter, IInv, StageInv
  <2>4. QED
    BY <2>1, <2>2, <2>3
<1>10. ASSUME NEW u \in Clients, GetDone(u) PROVE u \in Threads /\ UserEffect(u)
  BY <1>10, DeviceAssumption DEF GetDone, Threads, Clients
<1>11. ASSUME RunWork PROVE Worker \in Threads /\ UserEffect(Worker)
  <2>1. Worker \in Threads /\ Worker # Prober /\ Worker \notin Clients
    BY DeviceAssumption DEF Threads
  <2>2. Goto(Worker, pc'[Worker]) /\ pc[Worker] = "idle" /\ pc'[Worker] \in {"put", "oops"}
    BY <1>11, <2>1 DEF RunWork
  <2>3. /\ queued /\ ~queued' /\ early' = early /\ late' = late
        /\ "wq" \in up <=> pc'[Worker] # "oops"
    BY <1>11, <2>1 DEF RunWork
  <2>4. ~early /\ late /\ "wq" \in up => stage = "destroy"
    BY DEF IInv, UsersInv, StageInv, AfterWq, Removing
  <2>5. QED
    BY <2>1, <2>2, <2>3, <2>4 DEF Clients
<1>12. QED
  BY <1>5, <1>6, <1>7, <1>8, <1>9, <1>10, <1>11 DEF GiveBack

(* Gets and puts keep the invariant.                                       *)
LEMMA UsersSafe ==
    ASSUME IInv,
           \/ \E t \in Threads : GiveBack(t)
           \/ \E c \in Clients : Get(c) \/ GetDone(c)
           \/ RunWork
    PROVE  IInv'
<1>1. /\ UNCHANGED <<stage, up, scmi_clk, devfreq, monitor, rate, vdd, current_freq, call, bypassed>>
      /\ UNCHANGED lock
  BY DEF GiveBack, PutDelay, Queue, Put, PutDone, Get, GetDone, RunWork, devfreqVars
<1>2. early => early'
  BY DEF GiveBack, PutDelay, Queue, Put, PutDone, Get, GetDone, RunWork, history
<1>3. StageInv' /\ (ScaleInv' \/ early) /\ TypeInv'
  BY <1>1, ThreadFrame, TypeUsers DEF IInv
<1>4. PICK t \in Threads : UserEffect(t)
  BY Uses
<1>5. \A e \in Threads \ {t} : pc'[e] = pc[e]
  BY <1>4 DEF UserEffect, Goto, IInv, TypeInv, TypeOK
<1>6. ProberInv'
  BY <1>1, <1>4, <1>5 DEF UserEffect, IInv, ProberInv, Threads, Clients
<1>7. ASSUME ~early' PROVE UsersInv'
  <2>1. UsersInv /\ Worker \notin Clients /\ Users \cap Nodes = {} /\ Clients \subseteq Threads
    BY <1>2, <1>7, DeviceAssumption DEF IInv, Threads, Clients
  <2>2. \A u \in Users : pc'[u] # "idle" => stage' = "bound"
    BY <1>1, <1>4, <1>5, <1>7, <2>1 DEF UserEffect, UsersInv, Clients
  <2>3. \A n \in Nodes : pc'[n] # "idle" => stage' \in WithProc
    BY <1>1, <1>4, <1>5, <1>7, <2>1 DEF UserEffect, UsersInv, Clients
  <2>4. pc'[Worker] \notin {"idle", "oops"} =>
            stage' \in {"bound", "cancel"} \/ (late' /\ stage' = "destroy")
    BY <1>1, <1>4, <1>5, <1>7, <2>1 DEF UserEffect, UsersInv, Threads
  <2>5. (queued' => stage' = "bound" \/ late') /\ (late' => stage' \in Removing \ {"cancel"})
    BY <1>1, <1>2, <1>4, <1>7, <2>1 DEF UserEffect, UsersInv, Cancelled, Removing
  <2>6. QED
    BY <2>2, <2>3, <2>4, <2>5 DEF UsersInv
<1>8. ASSUME ~early' PROVE LockInv'
  <2>1. \A e \in Threads : pc'[e] \in InLock <=> pc[e] \in InLock
    BY <1>4, <1>5 DEF UserEffect
  <2>2. QED
    BY <1>1, <1>2, <1>4, <1>5, <1>8, <2>1 DEF UserEffect, IInv, LockInv
<1>9. QED
  BY <1>2, <1>3, <1>6, <1>7, <1>8 DEF IInv

----------------------------------------------------------------------------
(* update_devfreq and target keep to devfreq->lock.                        *)
LEMMA ScalingLocks ==
    ASSUME TypeInv, LockInv, NEW u \in Updaters, UNCHANGED deviceVars,
           (\E f \in Freqs : Update(u, f)) \/ Target(u)
    PROVE  LockInv'
<1>1. Nobody \notin Threads /\ Nobody \notin Updaters /\ u \notin Threads
  BY DeviceAssumption, DevfreqAssumption DEF Threads, Clients
<1>2. UNCHANGED <<pc, devfreq, late>>
  BY DEF Update, Target, Raise, SetRate, Lower, deviceVars, history
<1>3. \A v \in Updaters \ {u} : call'[v] = call[v]
  BY DEF Update, Target, Raise, SetRate, Lower, Continue, Return, TypeInv, TypeOK, DevfreqTypeOK
<1>4. \/ lock = Nobody /\ lock' = u /\ call'[u].at # "idle"
      \/ lock = u /\ lock' = u /\ call'[u].at # "idle"
      \/ lock = u /\ lock' = Nobody /\ call'[u].at = "idle"
  <2> USE DEF TypeInv, TypeOK, DevfreqTypeOK, CallType
  <2>1. ASSUME NEW f \in Freqs, Update(u, f) PROVE <1>4
    BY <2>1 DEF Update
  <2>2. CASE Target(u)
    <3>1. lock = u
      BY <2>2 DEF Target, Raise, SetRate, Lower, LockInv
    <3>2. Return(u) => lock' = Nobody /\ call'[u].at = "idle"
      BY DEF Return, NoTarget
    <3>3. \A l \in {"set", "lower"} : Continue(u, l) => lock' = lock /\ call'[u].at # "idle"
      BY DEF Continue
    <3>4. QED
      BY <2>2, <3>1, <3>2, <3>3 DEF Target, Raise, SetRate, Lower
  <2>3. QED
    BY <2>1, <2>2
<1>5. QED
  BY <1>1, <1>2, <1>3, <1>4 DEF LockInv

(* A higher voltage, or a lower rate, suffices too.                        *)
LEMMA SufficesLower ==
    ASSUME NEW v \in Nat, NEW r \in Nat, NEW q \in Nat, q <= r, Suffices(v, r)
    PROVE  Suffices(v, q)
BY DevfreqAssumption DEF Suffices

(* What an OPP asks for suffices up to its frequency.                      *)
LEMMA SufficesOpp ==
    ASSUME NEW f \in Freqs
    PROVE  /\ f \in Nat /\ ScmiRate[f] \in Nat /\ ScmiRate[f] <= f
           /\ Voltage[f] \in Nat
           /\ \A r \in Nat : r <= f => Suffices(Voltage[f], r)
BY DevfreqAssumption DEF Suffices

(* A transition keeps the voltage sufficient and the frequency known.      *)
LEMMA ScalingScales ==
    ASSUME TypeInv, LockInv, ScaleInv, NEW u \in Updaters,
           (\E f \in Freqs : Update(u, f)) \/ Target(u)
    PROVE  ScaleInv'
<1> SUFFICES ASSUME scmi_clk', ~bypassed'
             PROVE  /\ \A v \in Updaters : CallInv(v)'
                    /\ Suffices(vdd, rate)'
                    /\ Transition' \/ current_freq' = rate'
  BY DEF ScaleInv
<1>1. scmi_clk /\ ~bypassed
  <2>1. scmi_clk' = scmi_clk /\ bypassed' = bypassed
    BY DEF Update, Target, Raise, SetRate, Lower
  <2>2. QED
    BY <2>1
<1>2. /\ CallInv(u)
      /\ Suffices(vdd, rate)
      /\ Transition \/ current_freq = rate
      /\ rate \in Nat /\ vdd \in Nat /\ current_freq \in Nat
      /\ call \in [Updaters -> CallType]
      /\ call[u].at # "idle" => call[u].freq \in Freqs
  BY <1>1 DEF ScaleInv, TypeInv, TypeOK, DevfreqTypeOK, CallsChosen
<1>3. \A v \in Updaters \ {u} : call[v].at = "idle" /\ call'[v].at = "idle"
  <2>1. lock \in {u, Nobody}
    BY DEF Update, Target, Raise, SetRate, Lower, LockInv
  <2>2. \A v \in Updaters \ {u} : call[v].at = "idle"
    BY <2>1, DevfreqAssumption DEF LockInv
  <2>3. \A v \in Updaters \ {u} : call'[v] = call[v]
    BY <1>2 DEF Update, Target, Raise, SetRate, Lower, Continue, Return
  <2>4. QED
    BY <2>2, <2>3
<1>4. \A v \in Updaters \ {u} : CallInv(v)'
  BY <1>3 DEF CallInv
<1>5. SUFFICES CallInv(u)' /\ Suffices(vdd, rate)' /\ (Transition' \/ current_freq' = rate')
  BY <1>4
<1> USE <1>2
<1>6. ASSUME NEW f \in Freqs, Update(u, f)
      PROVE  CallInv(u)' /\ Suffices(vdd, rate)' /\ (Transition' \/ current_freq' = rate')
  <2>1. Recommended(Capped(f)) \in Freqs
    BY RecommendedIsOpp
  <2>2. ~Transition
    BY <1>3, <1>6 DEF Transition, Update
  <2>3. call'[u] = [at |-> IF Recommended(Capped(f)) > rate THEN "raise" ELSE "set",
                    freq |-> Recommended(Capped(f)), old |-> rate]
    BY <1>6 DEF Update
  <2>4. current_freq' = rate /\ rate' = rate /\ vdd' = vdd
    BY <1>6, <2>2 DEF Update
  <2>5. CallInv(u)'
    BY <2>1, <2>3, <2>4 DEF CallInv
  <2>6. QED
    BY <2>4, <2>5 DEF Suffices
<1>7. ASSUME Raise(u)
      PROVE  CallInv(u)' /\ Suffices(vdd, rate)' /\ (Transition' \/ current_freq' = rate')
  <2>1. call[u].at = "raise" /\ current_freq = rate /\ rate < call[u].freq /\ call[u].freq \in Freqs
    BY <1>7, SufficesOpp DEF Raise, CallInv
  <2>2. rate' = rate /\ current_freq' = current_freq
    BY <1>7 DEF Raise
  <2>3. CASE vdd' = Voltage[call[u].freq] /\ Continue(u, "set")
    <3>1. call'[u].at = "set" /\ call'[u].freq = call[u].freq /\ call'[u].old = call[u].old
      BY <2>3 DEF Continue, CallType
    <3>2. Suffices(Voltage[call[u].freq], rate)
      BY <2>1, SufficesOpp
    <3>3. QED
      BY <2>1, <2>2, <2>3, <3>1, <3>2 DEF CallInv, Suffices
  <2>4. CASE UNCHANGED vdd /\ Return(u)
    <3>1. call'[u].at = "idle"
      BY <2>4 DEF Return, NoTarget
    <3>2. QED
      BY <2>1, <2>2, <2>4, <3>1 DEF CallInv, Suffices
  <2>5. QED
    BY <1>7, <2>3, <2>4 DEF Raise
<1>8. ASSUME SetRate(u)
      PROVE  CallInv(u)' /\ Suffices(vdd, rate)' /\ (Transition' \/ current_freq' = rate')
  <2>1. call[u].at = "set" /\ current_freq = rate /\ call[u].freq \in Freqs
    BY <1>8 DEF SetRate, CallInv
  <2>2. vdd' = vdd /\ current_freq' = current_freq
    BY <1>8 DEF SetRate
  <2>3. CASE ClkSetRate(call[u].freq) /\ Continue(u, "lower")
    <3>1. call'[u].at = "lower" /\ call'[u].freq = call[u].freq /\ call'[u].old = call[u].old
      BY <2>3 DEF Continue, CallType
    <3>2. rate' = ScmiRate[call[u].freq]
      BY <1>1, <2>3 DEF ClkSetRate
    <3>3. Suffices(vdd, ScmiRate[call[u].freq])
      <4>1. CASE call[u].freq > rate
        BY <2>1, <4>1, SufficesOpp DEF CallInv
      <4>2. CASE ~(call[u].freq > rate)
        <5>1. ScmiRate[call[u].freq] \in Nat /\ ScmiRate[call[u].freq] <= rate
          BY <2>1, <4>2, SufficesOpp
        <5>2. QED
          BY <5>1, SufficesLower
      <4>3. QED
        BY <4>1, <4>2
    <3>4. CallInv(u)'
      BY <2>1, <2>2, <3>1, <3>2 DEF CallInv
    <3>5. QED
      BY <2>2, <3>1, <3>2, <3>3, <3>4 DEF Transition, Suffices
  <2>4. CASE UNCHANGED rate /\ Return(u)
    <3>1. call'[u].at = "idle"
      BY <2>4 DEF Return, NoTarget
    <3>2. QED
      BY <2>1, <2>2, <2>4, <3>1 DEF CallInv, Suffices
  <2>5. QED
    BY <1>8, <2>3, <2>4 DEF SetRate
<1>9. ASSUME Lower(u)
      PROVE  CallInv(u)' /\ Suffices(vdd, rate)' /\ (Transition' \/ current_freq' = rate')
  <2>1. /\ call[u].at = "lower" /\ current_freq = call[u].old /\ call[u].freq \in Freqs
        /\ rate = ScmiRate[call[u].freq]
    BY <1>9 DEF Lower, CallInv
  <2>2. call'[u].at = "idle" /\ rate' = rate
    BY <1>9 DEF Lower, Return, NoTarget
  <2>3. Suffices(Voltage[call[u].freq], rate)
    BY <2>1, SufficesOpp
  <2>4. vdd' \in {vdd, Voltage[call[u].freq]}
    BY <1>9 DEF Lower
  <2>5. current_freq' = rate
    BY <1>1, <1>9, <2>1 DEF Lower, ClkGetRate
  <2>6. QED
    BY <2>2, <2>3, <2>4, <2>5 DEF CallInv, Suffices
<1>10. QED
  BY <1>6, <1>7, <1>8, <1>9 DEF Target

(* The devfreq core and the control files keep the invariant.              *)
LEMMA ScalingSafe ==
    ASSUME IInv, Scaling
    PROVE  IInv'
<1>1. TypeInv'
  BY TypeScaling DEF IInv
<1>2. UNCHANGED deviceVars
  BY DEF Scaling
<1>3. ProberInv' /\ (UsersInv => UsersInv')
  BY <1>2 DEF IInv, ProberInv, UsersInv, deviceVars, history
<1>4. ASSUME NEW u \in Updaters, (\E f \in Freqs : Update(u, f)) \/ Target(u)
      PROVE  IInv'
  <2>1. UNCHANGED <<scmi_clk, devfreq, monitor, bypassed>> /\ monitor
    BY <1>4 DEF Update, Target, Raise, SetRate, Lower, IInv, StageInv
  <2>2. StageInv'
    BY <1>2, <2>1 DEF IInv, StageInv, deviceVars
  <2>3. early \/ (LockInv' /\ ScaleInv')
    BY <1>2, <1>4, ScalingLocks, ScalingScales DEF IInv
  <2>4. QED
    BY <1>1, <1>2, <1>3, <2>2, <2>3 DEF IInv, deviceVars, history
<1>5. ASSUME (\E f \in CtrlFreqs : FreqHzSet(f)) \/ (\E v \in CtrlVolts : VoltageUvSet(v))
      PROVE  IInv'
  <2>1. bypassed' /\ UNCHANGED <<scmi_clk, devfreq, monitor, lock, call>>
    BY <1>5 DEF FreqHzSet, VoltageUvSet
  <2>2. StageInv' /\ ScaleInv' /\ (LockInv => LockInv')
    BY <1>2, <2>1 DEF IInv, StageInv, ScaleInv, LockInv, deviceVars, history
  <2>3. QED
    BY <1>1, <1>2, <1>3, <2>2 DEF IInv, deviceVars, history
<1>6. QED
  BY <1>4, <1>5, OnDemandIsOpp DEF Scaling

(* Every step keeps the invariant.                                         *)
LEMMA InvStep == IInv /\ [Next]_vars => IInv'
<1>1. ASSUME IInv, UNCHANGED vars PROVE IInv'
  <2>1. TypeInv'
    BY <1>1, TypeStep DEF IInv
  <2>2. StageInv' /\ ProberInv' /\ (ScaleInv => ScaleInv')
    BY <1>1 DEF IInv, StageInv, ProberInv, ScaleInv, CallInv, Suffices, Transition, vars,
                deviceVars, devfreqVars
  <2>3. (UsersInv => UsersInv') /\ (LockInv => LockInv') /\ early' = early
    BY <1>1 DEF UsersInv, LockInv, vars, deviceVars, devfreqVars, history
  <2>4. QED
    BY <1>1, <2>1, <2>2, <2>3 DEF IInv
<1>2. QED
  BY <1>1, PowerSafe, UsersSafe, MovesSafe, ScalingSafe DEF Next

(* The inductive invariant.                                                *)
LEMMA Invariant == Spec => []IInv
BY InvInit, InvStep, PTL DEF Spec

(* Once probe has returned no thread uses the mutex of a devfreq device    *)
(* that is not there, leaves it locked or unlocks it for another, and none *)
(* queues the power-off work without its workqueue unless a file under     *)
(* /proc/rknpu was in use, and could not switch off, when rknpu_remove had *)
(* already cancelled the work.                                             *)
THEOREM DeviceLateUsersSafe == Spec => []LateUsersSafe
<1>1. IInv => LateUsersSafe
  BY DEF IInv, LockInv, LateUsersSafe
<1>2. QED
  BY <1>1, Invariant, PTL

(* No interleaving of any number of updaters, and no failure of clock or   *)
(* regulator, leaves the NPU at a frequency its voltage does not suffice   *)
(* for, with any table of OPPs whose voltages do not fall.                 *)
THEOREM DeviceNeverUndervolted == Spec => []NeverUndervolted
<1>1. IInv => NeverUndervolted
  BY DEF IInv, ScaleInv, NeverUndervolted, VoltSuffices
<1>2. QED
  BY <1>1, Invariant, PTL

(* current_freq is the rate of the clock whenever no transition is under   *)
(* way.                                                                    *)
THEOREM DeviceFreqReported == Spec => []FreqReported
<1>1. IInv => FreqReported
  BY DEF IInv, ScaleInv, FreqReported, FreqKnown
<1>2. QED
  BY <1>1, Invariant, PTL

----------------------------------------------------------------------------
(* What is registered in each stage, as far as NothingLeft needs it.       *)
ProbeParts == {"irq", "drm", "misc", "rpm"}
BeforeWq ==
    {"unbound", "drm", "misc", "fence", "power_on", "devfreq", "add", "no_devfreq", "delay", "wq"}
AfterParts == AfterWq \ {"rm_parts"}
AfterDrm == AfterParts \ {"rm_drm"}
WithRpm ==
    {"power_on", "devfreq", "add", "no_devfreq", "delay", "wq", "work", "sram", "power_off",
     "debugger"} \cup WithProc

UpInv ==
    /\ stage = "unbound" => up = {}
    /\ stage = "drm" => up \subseteq {"irq"}
    /\ stage \in BeforeWq => up \subseteq ProbeParts
    /\ stage = "work" => up \subseteq ProbeParts \cup {"wq"}
    /\ stage \in {"sram", "err_wq"} => up \subseteq ProbeParts \cup {"wq", "work"}
    /\ stage \in {"err_devfreq", "err_drm"} => up \subseteq ProbeParts \cup {"work"}
    /\ stage = "unwind" => up \subseteq {"irq", "rpm", "work"}
    /\ stage = "failed" => up \subseteq {"rpm", "work"}
    /\ stage \in AfterParts => up \cap {"debugfs", "procfs", "ctrl", "timer", "sram_mm"} = {}
    /\ stage \in AfterDrm => up \cap {"drm", "misc"} = {}
    /\ stage \in {"release", "removed"} => "rpm" \notin up
    /\ stage = "removed" => "irq" \notin up
    /\ stage \in {"failed", "removed"} => ~monitor
    /\ stage \in WithRpm => "rpm" \in up

(* Every step of probe and remove keeps it.                                *)
LEMMA UpMoves ==
    ASSUME IInv, UpInv, Probe \/ RemoveStart \/ Remove
    PROVE  UpInv'
<1>0. StageInv /\ up \subseteq Parts
  BY DEF IInv, TypeInv, TypeOK
<1> USE <1>0 DEF UpInv, StageInv, Move, Advance, Fails, Retreat, devfreqVars, ProbeParts,
        BeforeWq, BeforeClock, AfterWq, AfterParts, AfterDrm, Removing, WithRpm, WithProc, Parts
<1>1. CASE ProbeStart
  BY <1>1 DEF ProbeStart
<1>2. CASE ProbeDrm
  BY <1>2 DEF ProbeDrm
<1>3. CASE ProbeMisc
  BY <1>3 DEF ProbeMisc
<1>4. CASE ProbeFence
  BY <1>4 DEF ProbeFence
<1>5. CASE ProbePowered
  BY <1>5 DEF ProbePowered
<1>6. CASE ProbeClock
  BY <1>6 DEF ProbeClock, InitClock
<1>7. CASE ProbeAdd
  BY <1>7 DEF ProbeAdd, AddDevice
<1>8. CASE ProbeNoDevfreq
  BY <1>8 DEF ProbeNoDevfreq, AddDeviceFailed
<1>9. CASE ProbeDelay
  BY <1>9 DEF ProbeDelay
<1>10. CASE ProbeWq
  BY <1>10 DEF ProbeWq
<1>11. CASE ProbeWork
  BY <1>11 DEF ProbeWork
<1>12. CASE ProbeSram
  BY <1>12 DEF ProbeSram
<1>13. CASE ProbeOff
  BY <1>13 DEF ProbeOff
<1>14. CASE ProbeDebugger
  BY <1>14 DEF ProbeDebugger
<1>15. CASE ErrWq
  BY <1>15 DEF ErrWq
<1>16. CASE ErrDevfreq
  BY <1>16 DEF ErrDevfreq, DevfreqRemove
<1>17. CASE ErrDrm
  BY <1>17 DEF ErrDrm
<1>18. CASE DevmRelease
  BY <1>18 DEF DevmRelease, DevmRemoveDevice
<1>19. CASE RemoveStart
  BY <1>19 DEF RemoveStart
<1>20. CASE RemoveCancelled \/ RemoveWq
  BY <1>20 DEF RemoveCancelled, RemoveWq
<1>21. CASE RemoveParts
  BY <1>21 DEF RemoveParts
<1>22. CASE RemoveDrm
  BY <1>22 DEF RemoveDrm
<1>23. CASE RemoveDevfreq
  BY <1>23 DEF RemoveDevfreq, DevfreqRemove
<1>24. CASE RemoveOff
  BY <1>24 DEF RemoveOff
<1>25. CASE RemoveOffDone
  BY <1>25 DEF RemoveOffDone
<1>26. QED
  BY <1>1, <1>2, <1>3, <1>4, <1>5, <1>6, <1>7, <1>8, <1>9, <1>10, <1>11, <1>12, <1>13,
     <1>14, <1>15, <1>16, <1>17, <1>18, <1>19, <1>20, <1>21, <1>22, <1>23, <1>24, <1>25
     DEF Probe, Remove

----------------------------------------------------------------------------
(* The usage counts as the one thread that is in rknpu_power_on or         *)
(* rknpu_power_off has left them, and without one as the references ask.   *)
Busy == OnLabels \cup OffLabels

At(c, n) ==
    /\ clks = c /\ usage = n /\ doms = [d \in 1 .. Domains |-> n]
    /\ active <=> n = 1

Phase(t) ==
    /\ pc[t] = "on_clk" => At(0, 0)
    /\ pc[t] \in {"on_lock", "on_pm"} => At(1, 0)
    /\ pc[t] \in {"on_unlock", "on_done"} => At(1, 1) /\ ret[t] = 0
    /\ pc[t] \in {"off_lock", "off_pm"} => At(1, 1)
    /\ pc[t] = "off_unlock" => (ret[t] = 0 /\ At(1, 0)) \/ (ret[t] = -1 /\ At(1, 1))
    /\ pc[t] = "off_done" => (ret[t] = 0 /\ At(0, 0)) \/ (ret[t] = -1 /\ At(1, 1))

(* power_lock is held by who switches, but for probe, and by who crashed   *)
(* in its section.                                                         *)
Holding ==
    /\ \A t \in Threads \ {Prober} :
          /\ pc[t] \in Busy => power_lock = t
          /\ power_lock = t => pc[t] \in Busy \/ (t \in Nodes /\ pc[t] = "oops")
    /\ power_lock = Prober <=> stage = "rm_power" /\ pc[Prober] \in Busy

BeforeBound == BeforeWq \cup {"work", "sram", "power_off", "debugger"}

Counting ==
    /\ stage \in BeforeBound => refcount = 0
    /\ \A t \in Threads \ {Prober} :
          /\ pc[t] \in OnLabels => refcount > 0
          /\ pc[t] \in OffLabels => refcount = 0

StagesOff == {"unbound", "drm", "misc", "fence", "debugger", "release", "removed"}
StagesOn == {"devfreq", "add", "no_devfreq", "delay", "wq", "work", "sram"}
StagesCounted == {"bound", "cancel", "destroy", "rm_parts", "rm_drm", "rm_devfreq", "rm_power"}

Quiet ==
    (\A t \in Threads : pc[t] \notin Busy) =>
        /\ stage \in StagesOff => At(0, 0)
        /\ stage \in StagesOn => At(1, 1)
        /\ stage \in StagesCounted =>
              At(IF refcount > 0 THEN 1 ELSE 0, IF refcount > 0 THEN 1 ELSE 0)

Excepted == early \/ Missed \/ stuck

SwitchInv == (\A t \in Threads : Phase(t)) /\ Holding /\ Counting /\ Quiet

PowerInv == IInv /\ UpInv /\ (Excepted \/ SwitchInv)

(* The initial state.                                                      *)
LEMMA PowerInit == Init => PowerInv
<1> SUFFICES ASSUME Init PROVE PowerInv
  OBVIOUS
<1>1. UpInv
  BY DEF Init, DevfreqInit, UpInv, AfterWq, AfterParts, AfterDrm, WithRpm, WithProc, Removing
<1>2. At(0, 0) /\ \A t \in Threads : pc[t] = "idle"
  BY DEF Init, At
<1>3. (\A t \in Threads : Phase(t)) /\ Quiet
  BY <1>2 DEF Phase, Quiet, Init, StagesOff, StagesOn, StagesCounted
<1>4. Holding /\ Counting
  BY <1>2, DeviceAssumption DEF Init, Holding, Counting, Busy, OnLabels, OffLabels, Threads, Clients
<1>5. QED
  BY <1>1, <1>3, <1>4, InvInit DEF PowerInv, SwitchInv

(* Only one thread at a time is in rknpu_power_on or rknpu_power_off.      *)
LEMMA OneBusy ==
    ASSUME IInv, ~early, Holding, NEW t \in Threads, NEW e \in Threads,
           pc[t] \in Busy, pc[e] \in Busy
    PROVE  t = e
<1>1. ASSUME pc[Prober] \in Busy, NEW x \in Threads, pc[x] \in Busy PROVE x = Prober
  <2>1. stage \in {"power_on", "power_off", "rm_power"}
    BY <1>1 DEF IInv, ProberInv, Busy
  <2>2. pc[x] \notin {"idle", "oops"}
    BY <1>1 DEF Busy, OnLabels, OffLabels
  <2>3. QED
    BY <2>1, <2>2, Present DEF WithProc
<1>2. CASE t # Prober /\ e # Prober
  BY <1>2 DEF Holding
<1>3. QED
  BY <1>1, <1>2

(* A step of rknpu_power_on or rknpu_power_off goes on in the same one.    *)
LEMMA StaysBusy ==
    ASSUME IInv, ~early, NEW t \in Threads, PowerStep(t)
    PROVE  /\ \/ pc[t] \in OnLabels /\ pc'[t] \in OnLabels
              \/ pc[t] \in OffLabels /\ pc'[t] \in OffLabels
           /\ \A e \in Threads \ {t} : pc'[e] = pc[e]
           /\ UNCHANGED <<stage, up, refcount, power_lock, early, stuck>>
           /\ failed \subseteq failed'
<1>1. pc \in [Threads -> Labels]
  BY DEF IInv, TypeInv, TypeOK
<1>2. pc[t] \notin {"idle", "oops"} => devfreq # "err"
  BY Present DEF IInv, StageInv
<1>3. QED
  BY <1>1, <1>2 DEF PowerStep, OnClk, OnLock, OnPm, OnUnlock, OffLock, OffPm, OffUnlock,
         DevfreqLock, Goto, OnLabels, OffLabels, history, FaultOccurs

(* Each step of them leaves the counts as its phase says.                  *)
LEMMA PhaseStep ==
    ASSUME IInv, UpInv, ~early, ~Missed', NEW t \in Threads, Phase(t), PowerStep(t)
    PROVE  Phase(t)'
<1>1. /\ pc \in [Threads -> Labels] /\ ret \in [Threads -> -1 .. 1]
      /\ Domains \in Nat
      /\ pc'[t] # "oops"
  BY StaysBusy, DeviceAssumption DEF IInv, TypeInv, TypeOK, OnLabels, OffLabels
<1> USE <1>1 DEF Phase, Goto
<1>2. CASE OnClk(t)
  BY <1>2 DEF OnClk, At, FaultOccurs, Missed
<1>3. CASE OnLock(t)
  BY <1>3 DEF OnLock, DevfreqLock, At, powerVars
<1>4. CASE OnPm(t)
  <2>1. At(1, 0)
    BY <1>4 DEF OnPm
  <2>2. "rpm" \in up
    BY <1>4, Present DEF OnPm, IInv, ProberInv, OnLabels, OffLabels, UpInv, WithRpm
  <2>3. GetSync = 0
    BY <2>1, <2>2 DEF GetSync, At
  <2>4. /\ doms' = [d \in 1 .. Domains |-> doms[d] + 1] /\ usage' = usage + 1 /\ clks' = clks
        /\ ret' = [ret EXCEPT ![t] = GetSync] /\ active' = (active \/ GetSync = 0)
    BY <1>4 DEF OnPm, FaultOccurs, Missed
  <2>5. doms' = [d \in 1 .. Domains |-> 1] /\ usage' = 1 /\ clks' = 1
    BY <2>1, <2>4 DEF At
  <2>6. active'
    BY <2>3, <2>4
  <2>7. pc'[t] = "on_unlock" /\ ret'[t] = 0
    BY <1>4, <2>3, <2>4 DEF OnPm
  <2>8. QED
    BY <2>5, <2>6, <2>7 DEF At
<1>5. CASE OnUnlock(t)
  BY <1>5 DEF OnUnlock, At, powerVars
<1>6. CASE OffLock(t)
  BY <1>6 DEF OffLock, DevfreqLock, At, powerVars
<1>7. CASE OffPm(t)
  <2>1. At(1, 1) /\ pc'[t] = "off_unlock" /\ clks' = 1
    BY <1>7 DEF OffPm, At
  <2>2. CASE /\ usage' = Dec(usage) /\ active' = (active /\ usage' > 0)
             /\ doms' = [d \in 1 .. Domains |-> Dec(doms[d])] /\ ret' = [ret EXCEPT ![t] = 0]
    <3>1. usage' = 0 /\ ret'[t] = 0
      BY <2>1, <2>2 DEF At, Dec
    <3>2. doms' = [d \in 1 .. Domains |-> 0]
      <4>1. \A d \in 1 .. Domains : Dec(doms[d]) = 0
        BY <2>1 DEF At, Dec
      <4>2. QED
        BY <2>2, <4>1
    <3>3. ~active'
      <4>1. ~(usage' > 0)
        BY <3>1
      <4>2. QED
        BY <2>2, <4>1, Zenon
    <3>4. QED
      BY <2>1, <3>1, <3>2, <3>3 DEF At
  <2>3. CASE usage' = Dec(usage) + 1 /\ ret' = [ret EXCEPT ![t] = -1] /\ UNCHANGED <<active, doms>>
    BY <2>1, <2>3 DEF At, Dec
  <2>4. QED
    BY <1>7, <2>2, <2>3 DEF OffPm
<1>8. CASE OffUnlock(t)
  BY <1>8 DEF OffUnlock, At, Dec
<1>9. QED
  BY <1>2, <1>3, <1>4, <1>5, <1>6, <1>7, <1>8 DEF PowerStep

(* rknpu_power_on and rknpu_power_off keep the counts.                     *)
LEMMA PowerSwitch ==
    ASSUME PowerInv, NEW t \in Threads, PowerStep(t)
    PROVE  PowerInv'
<1>1. IInv' /\ UpInv'
  <2>1. UNCHANGED <<stage, up, monitor>>
    BY DEF PowerStep, OnClk, OnLock, OnPm, OnUnlock, OffLock, OffPm, OffUnlock,
           DevfreqLock, devfreqVars
  <2>2. QED
    BY <2>1, PowerSafe DEF PowerInv, UpInv
<1>2. Excepted => Excepted'
  <2>1. early' = early /\ stuck' = stuck /\ failed \subseteq failed'
    BY DEF PowerStep, OnClk, OnLock, OnPm, OnUnlock, OffLock, OffPm, OffUnlock, DevfreqLock,
           history, FaultOccurs
  <2>2. Missed => Missed'
    BY <2>1 DEF Missed
  <2>3. QED
    BY <2>1, <2>2 DEF Excepted
<1>3. ASSUME ~Excepted' PROVE SwitchInv'
  <2>1. IInv /\ UpInv /\ ~early /\ ~Missed' /\ SwitchInv
    BY <1>2, <1>3 DEF PowerInv, Excepted
  <2>2. pc[t] \in Busy /\ pc'[t] \in Busy
    BY <2>1, StaysBusy DEF Busy
  <2>3. \A e \in Threads \ {t} : pc[e] \notin Busy /\ pc'[e] \notin Busy
    BY <2>1, <2>2, StaysBusy, OneBusy DEF SwitchInv
  <2>4. \A e \in Threads : Phase(e)'
    <3>1. Phase(t)'
      BY <2>1, PhaseStep DEF SwitchInv
    <3>2. \A e \in Threads \ {t} : Phase(e)'
      BY <2>3 DEF Phase, Busy, OnLabels, OffLabels
    <3>3. QED
      BY <3>1, <3>2
  <2>5. Holding'
    <3>1. Holding /\ UNCHANGED <<stage, power_lock>>
      BY <2>1, StaysBusy DEF SwitchInv
    <3>2. \A e \in Threads : pc'[e] \in Busy <=> pc[e] \in Busy
      BY <2>2, <2>3
    <3>3. Prober \in Threads /\ \A e \in Threads : pc[e] = "oops" => pc'[e] = "oops"
      BY <2>1, <2>2, StaysBusy DEF Threads, Busy, OnLabels, OffLabels
    <3>4. QED
      BY <3>1, <3>2, <3>3 DEF Holding
  <2>6. Counting'
    BY <2>1, StaysBusy DEF SwitchInv, Counting, OnLabels, OffLabels
  <2>7. Quiet'
    BY <2>2 DEF Quiet
  <2>8. QED
    BY <2>4, <2>5, <2>6, <2>7 DEF SwitchInv
<1>4. QED
  BY <1>1, <1>3 DEF PowerInv

----------------------------------------------------------------------------
(* Gets and puts switch only while they hold power_lock, and the counts    *)
(* are right when they let it go.                                          *)
LEMMA Settles ==
    ASSUME IInv, ~early, SwitchInv, NEW t \in Threads \ {Prober},
           stage \in WithProc, UNCHANGED <<stage, powerVars>>,
           \A e \in Threads \ {t} : pc'[e] = pc[e],
           power_lock \in {Nobody, t},
           \/ power_lock' = IF pc'[t] \in Busy THEN t ELSE Nobody
           \/ power_lock' = t /\ t \in Nodes /\ pc'[t] = "oops",
           Phase(t)',
           pc'[t] \in OnLabels => refcount' > 0,
           pc'[t] \in OffLabels => refcount' = 0,
           pc'[t] \notin Busy =>
               At(IF refcount' > 0 THEN 1 ELSE 0, IF refcount' > 0 THEN 1 ELSE 0)
    PROVE  SwitchInv'
<1>1. Nobody \notin Threads /\ Prober \in Threads
  BY DeviceAssumption DEF Threads, Clients
<1>2. pc[Prober] \notin Busy
  BY DEF IInv, ProberInv, Busy, OnLabels, OffLabels, WithProc
<1>3. \A e \in Threads \ {t} : pc[e] \notin Busy /\ pc'[e] \notin Busy
  BY <1>1, <1>2 DEF SwitchInv, Holding
<1>4. \A e \in Threads : Phase(e)'
  <2>1. \A e \in Threads \ {t} : Phase(e)'
    BY <1>3 DEF Phase, Busy, OnLabels, OffLabels
  <2>2. QED
    BY <2>1
<1>5. Holding'
  <2>1. \A e \in Threads \ {Prober} :
           /\ pc'[e] \in Busy => power_lock' = e
           /\ power_lock' = e => pc'[e] \in Busy \/ (e \in Nodes /\ pc'[e] = "oops")
    BY <1>1, <1>3 DEF Busy, OnLabels, OffLabels
  <2>2. power_lock' # Prober /\ stage' # "rm_power"
    BY <1>1 DEF WithProc
  <2>3. QED
    BY <2>1, <2>2 DEF Holding
<1>6. Counting'
  <2>1. stage' \notin BeforeBound
    BY DEF BeforeBound, BeforeWq, WithProc
  <2>2. \A e \in Threads \ {t} : pc'[e] \notin OnLabels /\ pc'[e] \notin OffLabels
    BY <1>3 DEF Busy
  <2>3. QED
    BY <2>1, <2>2 DEF Counting
<1>7. Quiet'
  <2>1. stage' = stage /\ stage \notin StagesOff \cup StagesOn
    BY DEF StagesOff, StagesOn, WithProc
  <2>2. pc'[t] \notin Busy =>
            At(IF refcount > 0 THEN 1 ELSE 0, IF refcount > 0 THEN 1 ELSE 0)'
    BY DEF At, powerVars
  <2>3. QED
    BY <2>1, <2>2 DEF Quiet
<1>8. QED
  BY <1>4, <1>5, <1>6, <1>7 DEF SwitchInv

(* Steps outside of it leave all of this alone.                            *)
LEMMA StaysQuiet ==
    ASSUME SwitchInv, NEW t \in Threads, UNCHANGED <<stage, powerVars, refcount, power_lock, ret>>,
           \A e \in Threads \ {t} : pc'[e] = pc[e],
           pc[t] # "oops",
           pc[t] \notin Busy, pc'[t] \notin Busy
    PROVE  SwitchInv'
<1>1. \A e \in Threads : pc'[e] \in Busy <=> pc[e] \in Busy
  OBVIOUS
<1>2. \A e \in Threads : pc'[e] \in Busy => pc'[e] = pc[e]
  OBVIOUS
<1>3. \A e \in Threads : Phase(e)'
  <2>1. ASSUME NEW e \in Threads, pc'[e] \notin Busy PROVE Phase(e)'
    BY <2>1 DEF Phase, Busy, OnLabels, OffLabels
  <2>2. ASSUME NEW e \in Threads, pc'[e] = pc[e] PROVE Phase(e)'
    BY <2>2 DEF SwitchInv, Phase, At, powerVars
  <2>3. QED
    BY <1>2, <2>1, <2>2
<1>4. Holding'
  <2>1. Prober \in Threads
    BY DEF Threads, Clients
  <2>2. QED
    BY <1>1, <2>1 DEF SwitchInv, Holding
<1>5. Counting'
  <2>1. \A e \in Threads : (pc'[e] \in OnLabels => pc[e] \in OnLabels)
                        /\ (pc'[e] \in OffLabels => pc[e] \in OffLabels)
    BY <1>2 DEF Busy
  <2>2. QED
    BY <2>1 DEF SwitchInv, Counting
<1>6. Quiet'
  BY <1>1 DEF SwitchInv, Quiet, At, powerVars
<1>7. QED
  BY <1>3, <1>4, <1>5, <1>6 DEF SwitchInv

(* What a get or a put finds while nobody holds power_lock.                *)
LEMMA FoundCounts ==
    ASSUME IInv, ~early, SwitchInv, stage \in WithProc, power_lock = Nobody
    PROVE  /\ \A e \in Threads : pc[e] \notin Busy
           /\ At(IF refcount > 0 THEN 1 ELSE 0, IF refcount > 0 THEN 1 ELSE 0)
<1>1. Nobody \notin Threads
  BY DeviceAssumption DEF Threads, Clients
<1>2. pc[Prober] \notin Busy
  BY DEF IInv, ProberInv, Busy, OnLabels, OffLabels, WithProc
<1>3. \A e \in Threads : pc[e] \notin Busy
  BY <1>1, <1>2 DEF SwitchInv, Holding
<1>4. QED
  BY <1>3 DEF SwitchInv, Quiet, StagesCounted, WithProc

(* Every step of a get or a put keeps the counts.                          *)
LEMMA UsersSwitch ==
    ASSUME IInv, ~early, ~early', SwitchInv,
           \/ \E t \in Threads : GiveBack(t)
           \/ \E c \in Clients : Get(c) \/ GetDone(c)
           \/ RunWork
    PROVE  SwitchInv'
<1>0. /\ pc \in [Threads -> Labels] /\ ret \in [Threads -> -1 .. 1] /\ refcount \in Nat
      /\ Prober \notin Clients /\ Clients \subseteq Threads /\ Clients = Users \cup Nodes
      /\ Worker \in Threads /\ Worker # Prober
      /\ pc[Prober] \notin {"held", "retry", "queue", "put"}
  BY DeviceAssumption DEF IInv, TypeInv, TypeOK, ProberInv, OnLabels, OffLabels, Threads, Clients
<1>1. \A t \in Threads : pc[t] \notin {"idle", "oops"} /\ t # Prober =>
          stage \in WithProc /\ (t \in Nodes \/ {"wq", "work"} \subseteq up)
  BY Present
<1>2. ASSUME NEW t \in Threads, PutDelay(t) PROVE SwitchInv'
  <2>1. pc[t] \notin Busy \cup {"oops"} /\ pc'[t] \notin Busy
        /\ \A e \in Threads \ {t} : pc'[e] = pc[e]
    BY <1>0, <1>2 DEF PutDelay, Goto, Busy, OnLabels, OffLabels
  <2>2. QED
    BY <1>2, <2>1, StaysQuiet DEF PutDelay
<1>3. ASSUME RunWork PROVE SwitchInv'
  <2>1. pc[Worker] \notin Busy \cup {"oops"} /\ pc'[Worker] \notin Busy
        /\ \A e \in Threads \ {Worker} : pc'[e] = pc[e]
    BY <1>0, <1>3 DEF RunWork, Goto, Busy, OnLabels, OffLabels
  <2>2. UNCHANGED <<stage, powerVars, refcount, power_lock, ret>>
    BY <1>3 DEF RunWork
  <2>3. QED
    BY <1>0, <2>1, <2>2, StaysQuiet
<1>4. ASSUME NEW t \in Threads, Queue(t) PROVE SwitchInv'
  <2>1. t # Prober /\ stage \in WithProc /\ (t \in Nodes \/ {"wq", "work"} \subseteq up)
        /\ power_lock = Nobody
    BY <1>0, <1>1, <1>4 DEF Queue
  <2>2. At(IF refcount > 0 THEN 1 ELSE 0, IF refcount > 0 THEN 1 ELSE 0)
    BY <2>1, FoundCounts
  <2>3. /\ \/ pc'[t] = "idle" /\ power_lock' = Nobody
           \/ pc'[t] = "oops" /\ power_lock' = t /\ t \in Nodes
        /\ \A e \in Threads \ {t} : pc'[e] = pc[e]
        /\ UNCHANGED <<stage, powerVars>>
    BY <1>0, <1>4, <2>1 DEF Queue, Goto
  <2>4. refcount' > 0 <=> refcount > 0
    BY <1>0, <1>4 DEF Queue, Dec
  <2>5. pc'[t] \notin Busy /\ Phase(t)'
    BY <2>3 DEF Phase, Busy, OnLabels, OffLabels
  <2>6. QED
    BY <2>1, <2>2, <2>3, <2>4, <2>5, Settles DEF Busy
<1>5. ASSUME NEW t \in Threads, Put(t) PROVE SwitchInv'
  <2>1. t # Prober /\ stage \in WithProc /\ power_lock = Nobody
    BY <1>0, <1>1, <1>5 DEF Put
  <2>2. At(IF refcount > 0 THEN 1 ELSE 0, IF refcount > 0 THEN 1 ELSE 0)
    BY <2>1, FoundCounts
  <2>3. /\ UNCHANGED <<stage, powerVars>> /\ \A e \in Threads \ {t} : pc'[e] = pc[e]
        /\ refcount' = Dec(refcount)
        /\ refcount = 1 => pc'[t] = "off_lock" /\ power_lock' = t
        /\ refcount # 1 => pc'[t] = "idle" /\ power_lock' = Nobody
    BY <1>0, <1>5, <2>1 DEF Put, Goto
  <2>4. CASE refcount = 1
    <3>1. refcount' = 0 /\ pc'[t] = "off_lock" /\ power_lock' = t /\ At(1, 1)
      BY <2>2, <2>3, <2>4 DEF Dec
    <3>2. At(1, 1)'
      BY <2>3, <3>1 DEF At, powerVars
    <3>3. Phase(t)' /\ pc'[t] \in Busy /\ pc'[t] \notin OnLabels
      BY <3>1, <3>2 DEF Phase, Busy, OnLabels, OffLabels
    <3>4. QED
      BY <2>1, <2>3, <3>1, <3>3, Settles
  <2>5. CASE refcount # 1
    <3>1. refcount' > 0 <=> refcount > 0
      BY <1>0, <2>3, <2>5 DEF Dec
    <3>2. pc'[t] = "idle" /\ power_lock' = Nobody
      BY <2>3, <2>5
    <3>3. pc'[t] \notin Busy /\ Phase(t)'
      BY <3>2 DEF Phase, Busy, OnLabels, OffLabels
    <3>4. QED
      BY <2>1, <2>2, <2>3, <3>1, <3>2, <3>3, Settles DEF Busy
  <2>6. QED
    BY <2>4, <2>5
<1>6. ASSUME NEW t \in Threads, PutDone(t) PROVE SwitchInv'
  <2>1. t # Prober /\ pc[t] = "off_done" /\ stage \in WithProc
    BY <1>1, <1>6 DEF PutDone
  <2>2. power_lock = t /\ refcount = 0
    BY <2>1 DEF SwitchInv, Holding, Counting, Busy, OffLabels
  <2>3. (ret[t] = 0 /\ At(0, 0)) \/ (ret[t] = -1 /\ At(1, 1))
    BY <2>1 DEF SwitchInv, Phase
  <2>4. /\ UNCHANGED <<stage, powerVars>> /\ \A e \in Threads \ {t} : pc'[e] = pc[e]
        /\ pc'[t] \in {"idle", "retry"} /\ power_lock' = Nobody
        /\ refcount' = IF ret[t] = 0 THEN 0 ELSE 1
    BY <1>0, <1>6, <2>2 DEF PutDone, Goto
  <2>5. At(IF refcount' > 0 THEN 1 ELSE 0, IF refcount' > 0 THEN 1 ELSE 0)
    BY <2>3, <2>4
  <2>6. pc'[t] \notin Busy /\ Phase(t)'
    BY <2>4 DEF Phase, Busy, OnLabels, OffLabels
  <2>7. QED
    BY <2>1, <2>2, <2>4, <2>5, <2>6, Settles DEF Busy
<1>7. ASSUME NEW u \in Clients, Get(u) PROVE SwitchInv'
  <2>1. u \in Threads /\ u # Prober /\ stage \in WithProc /\ power_lock = Nobody
    BY <1>0, <1>7 DEF Get, CanEnter, IInv, StageInv, WithProc
  <2>2. At(IF refcount > 0 THEN 1 ELSE 0, IF refcount > 0 THEN 1 ELSE 0)
    BY <2>1, FoundCounts
  <2>3. /\ UNCHANGED <<stage, powerVars>> /\ \A e \in Threads \ {u} : pc'[e] = pc[e]
        /\ refcount' > 0
        /\ refcount = 0 => pc'[u] = "on_clk" /\ power_lock' = u
        /\ refcount # 0 => pc'[u] = "held" /\ power_lock' = Nobody
    BY <1>0, <1>7, <2>1 DEF Get, Goto
  <2>4. CASE refcount = 0
    <3>1. pc'[u] = "on_clk" /\ power_lock' = u /\ At(0, 0)
      BY <2>2, <2>3, <2>4
    <3>2. At(0, 0)'
      BY <2>3, <3>1 DEF At, powerVars
    <3>3. Phase(u)' /\ pc'[u] \in Busy /\ pc'[u] \notin OffLabels
      BY <3>1, <3>2 DEF Phase, Busy, OnLabels, OffLabels
    <3>4. QED
      BY <2>1, <2>3, <3>1, <3>3, Settles
  <2>5. CASE refcount # 0
    <3>1. refcount > 0 /\ pc'[u] = "held" /\ power_lock' = Nobody
      BY <1>0, <2>3, <2>5
    <3>2. pc'[u] \notin Busy /\ Phase(u)'
      BY <3>1 DEF Phase, Busy, OnLabels, OffLabels
    <3>3. QED
      BY <2>1, <2>2, <2>3, <3>1, <3>2, Settles DEF Busy
  <2>6. QED
    BY <2>4, <2>5
<1>8. ASSUME NEW u \in Clients, GetDone(u) PROVE SwitchInv'
  <2>1. u \in Threads /\ u # Prober /\ pc[u] = "on_done" /\ stage \in WithProc
    BY <1>0, <1>1, <1>8 DEF GetDone
  <2>2. power_lock = u /\ refcount > 0 /\ At(1, 1)
    BY <2>1 DEF SwitchInv, Holding, Counting, Phase, Busy, OnLabels
  <2>3. /\ UNCHANGED <<stage, powerVars, refcount>> /\ \A e \in Threads \ {u} : pc'[e] = pc[e]
        /\ pc'[u] = "held" /\ power_lock' = Nobody
    BY <1>0, <1>8, <2>1 DEF GetDone, Goto
  <2>4. pc'[u] \notin Busy /\ Phase(u)'
    BY <2>3 DEF Phase, Busy, OnLabels, OffLabels
  <2>5. QED
    BY <2>1, <2>2, <2>3, <2>4, Settles DEF Busy
<1>9. QED
  BY <1>2, <1>3, <1>4, <1>5, <1>6, <1>7, <1>8 DEF GiveBack

----------------------------------------------------------------------------
(* Most steps of probe and remove do not switch, and go to a stage with    *)
(* the same counts or into the error labels, where nothing is promised.    *)
Keeps ==
    /\ UNCHANGED <<pc, refcount, powerVars, power_lock>>
    /\ ret' = [ret EXCEPT ![Prober] = 0]
    /\ pc[Prober] = "idle"
    /\ stage' \in StagesOff => stage \in StagesOff \/ (stage = "rm_power" /\ refcount = 0)
    /\ stage' \in StagesOn => stage \in StagesOn
    /\ stage' \in StagesCounted => stage \in StagesCounted \/ stage = "debugger"
    /\ stage' \in BeforeBound => stage \in BeforeBound

(* The others are alone in the driver, at the start or the end of a        *)
(* rknpu_power_on or rknpu_power_off.                                      *)
Switches ==
    /\ stage \notin WithProc /\ stage' \notin WithProc
    /\ UNCHANGED powerVars
    /\ \A t \in Threads \ {Prober} : pc'[t] = pc[t]
    /\ \/ stage = "fence" /\ pc'[Prober] = "on_clk" /\ stage' = "power_on"
          /\ UNCHANGED <<refcount, power_lock>>
       \/ stage = "power_on" /\ pc[Prober] = "on_done" /\ pc'[Prober] = "idle"
          /\ (ret[Prober] = 0 => stage' = "devfreq") /\ UNCHANGED <<refcount, power_lock>>
       \/ stage = "sram" /\ pc'[Prober] = "off_lock" /\ stage' = "power_off"
          /\ UNCHANGED <<refcount, power_lock>>
       \/ stage = "power_off" /\ pc[Prober] = "off_done" /\ pc'[Prober] = "idle"
          /\ stage' = "debugger" /\ refcount' = 0 /\ UNCHANGED power_lock
          /\ (ret[Prober] = 0 \/ stuck')
       \/ stage = "rm_power" /\ pc[Prober] = "idle" /\ pc'[Prober] = "off_lock"
          /\ stage' = "rm_power" /\ refcount > 0 /\ UNCHANGED refcount
          /\ power_lock' = Prober
       \/ stage = "rm_power" /\ pc[Prober] = "off_done" /\ pc'[Prober] = "idle"
          /\ stage' = "release" /\ UNCHANGED refcount /\ power_lock' = Nobody
          /\ (ret[Prober] = 0 \/ stuck')

(* Every step of probe and remove is one of the two.                       *)
LEMMA MovesSwitch ==
    ASSUME IInv, Probe \/ RemoveStart \/ Remove
    PROVE  Keeps \/ Switches
<1>0. /\ pc \in [Threads -> Labels] /\ refcount \in Nat /\ ProberInv
      /\ Prober \in Threads
  BY DEF IInv, TypeInv, TypeOK, Threads, Clients
<1> USE <1>0 DEF ProberInv, Move, Advance, Fails, Retreat, Goto, Returned, WithProc,
        OnLabels, OffLabels
<1>1. CASE ProbeStart
  BY <1>1 DEF ProbeStart, Keeps, StagesOff, StagesOn, StagesCounted, BeforeBound, BeforeWq
<1>2. CASE ProbeDrm
  BY <1>2 DEF ProbeDrm, Keeps, StagesOff, StagesOn, StagesCounted, BeforeBound, BeforeWq
<1>3. CASE ProbeMisc
  BY <1>3 DEF ProbeMisc, Keeps, StagesOff, StagesOn, StagesCounted, BeforeBound, BeforeWq
<1>4. CASE ProbeFence
  <2>1. CASE Fails("fence", "err_drm", "fence") /\ UNCHANGED pc
    BY <2>1 DEF Keeps, StagesOff, StagesOn, StagesCounted, BeforeBound, BeforeWq
  <2>2. CASE Advance("fence", "power_on", {"rpm"}) /\ Goto(Prober, "on_clk")
    BY <2>2 DEF Switches
  <2>3. QED
    BY <1>4, <2>1, <2>2 DEF ProbeFence
<1>5. CASE ProbePowered
  BY <1>5 DEF ProbePowered, Switches
<1>6. CASE ProbeClock
  BY <1>6 DEF ProbeClock, Keeps, StagesOff, StagesOn, StagesCounted, BeforeBound, BeforeWq
<1>7. CASE ProbeAdd
  BY <1>7 DEF ProbeAdd, Keeps, StagesOff, StagesOn, StagesCounted, BeforeBound, BeforeWq
<1>8. CASE ProbeNoDevfreq
  BY <1>8 DEF ProbeNoDevfreq, Keeps, StagesOff, StagesOn, StagesCounted, BeforeBound, BeforeWq
<1>9. CASE ProbeDelay
  BY <1>9 DEF ProbeDelay, Keeps, StagesOff, StagesOn, StagesCounted, BeforeBound, BeforeWq
<1>10. CASE ProbeWq
  BY <1>10 DEF ProbeWq, Keeps, StagesOff, StagesOn, StagesCounted, BeforeBound, BeforeWq
<1>11. CASE ProbeWork
  BY <1>11 DEF ProbeWork, Keeps, StagesOff, StagesOn, StagesCounted, BeforeBound, BeforeWq
<1>12. CASE ProbeSram
  <2>1. CASE Fails("sram", "err_wq", "sram") /\ UNCHANGED pc
    BY <2>1 DEF Keeps, StagesOff, StagesOn, StagesCounted, BeforeBound, BeforeWq
  <2>2. CASE Advance("sram", "power_off", {"sram_mm"}) /\ Goto(Prober, "off_lock")
    BY <2>2 DEF Switches
  <2>3. QED
    BY <1>12, <2>1, <2>2 DEF ProbeSram
<1>13. CASE ProbeOff
  <2>1. ret[Prober] = 0 \/ stuck'
    BY <1>13 DEF ProbeOff
  <2>2. QED
    BY <1>13, <2>1 DEF ProbeOff, Switches
<1>14. CASE ProbeDebugger
  BY <1>14 DEF ProbeDebugger, Keeps, StagesOff, StagesOn, StagesCounted, BeforeBound, BeforeWq
<1>15. CASE ErrWq
  BY <1>15 DEF ErrWq, Keeps, StagesOff, StagesOn, StagesCounted, BeforeBound, BeforeWq
<1>16. CASE ErrDevfreq
  BY <1>16 DEF ErrDevfreq, Keeps, StagesOff, StagesOn, StagesCounted, BeforeBound, BeforeWq
<1>17. CASE ErrDrm
  BY <1>17 DEF ErrDrm, Keeps, StagesOff, StagesOn, StagesCounted, BeforeBound, BeforeWq
<1>18. CASE DevmRelease
  BY <1>18 DEF DevmRelease, Keeps, StagesOff, StagesOn, StagesCounted, BeforeBound, BeforeWq
<1>19. CASE RemoveStart
  BY <1>19 DEF RemoveStart, Keeps, StagesOff, StagesOn, StagesCounted, BeforeBound, BeforeWq
<1>20. CASE RemoveCancelled \/ RemoveWq
  BY <1>20 DEF RemoveCancelled, RemoveWq, Keeps, StagesOff, StagesOn, StagesCounted,
               BeforeBound, BeforeWq
<1>21. CASE RemoveParts
  BY <1>21 DEF RemoveParts, Keeps, StagesOff, StagesOn, StagesCounted, BeforeBound, BeforeWq
<1>22. CASE RemoveDrm
  BY <1>22 DEF RemoveDrm, Keeps, StagesOff, StagesOn, StagesCounted, BeforeBound, BeforeWq
<1>23. CASE RemoveDevfreq
  BY <1>23 DEF RemoveDevfreq, Keeps, StagesOff, StagesOn, StagesCounted, BeforeBound, BeforeWq
<1>24. CASE RemoveOff
  <2>1. CASE refcount > 0
    BY <1>24, <2>1 DEF RemoveOff, Switches
  <2>2. CASE ~(refcount > 0)
    BY <1>24, <2>2 DEF RemoveOff, Keeps, StagesOff, StagesOn, StagesCounted, BeforeBound, BeforeWq
  <2>3. QED
    BY <2>1, <2>2
<1>25. CASE RemoveOffDone
  <2>1. ret[Prober] = 0 \/ stuck'
    BY <1>25 DEF RemoveOffDone
  <2>2. QED
    BY <1>25, <2>1 DEF RemoveOffDone, Switches
<1>26. QED
  BY <1>1, <1>2, <1>3, <1>4, <1>5, <1>6, <1>7, <1>8, <1>9, <1>10, <1>11, <1>12, <1>13,
     <1>14, <1>15, <1>16, <1>17, <1>18, <1>19, <1>20, <1>21, <1>22, <1>23, <1>24, <1>25
     DEF Probe, Remove

(* The first kind keeps the counts.                                        *)
LEMMA KeepsSwitch ==
    ASSUME IInv, SwitchInv, Keeps
    PROVE  SwitchInv'
<1>1. Prober \in Threads /\ pc[Prober] \notin Busy /\ ret \in [Threads -> -1 .. 1]
      /\ refcount \in Nat
  BY DEF Keeps, Busy, OnLabels, OffLabels, Threads, Clients, IInv, TypeInv, TypeOK
<1>2. \A t \in Threads : Phase(t)'
  <2>1. Phase(Prober)'
    BY <1>1 DEF Keeps, Phase, Busy, OnLabels, OffLabels
  <2>2. ASSUME NEW t \in Threads, t # Prober PROVE Phase(t)'
    <3>1. ret'[t] = ret[t] /\ pc'[t] = pc[t] /\ UNCHANGED powerVars
      BY <1>1, <2>2 DEF Keeps
    <3>2. QED
      BY <2>2, <3>1 DEF SwitchInv, Phase, At, powerVars
  <2>3. QED
    BY <2>1, <2>2
<1>3. Holding'
  BY <1>1 DEF SwitchInv, Keeps, Holding
<1>4. Counting'
  BY DEF SwitchInv, Keeps, Counting
<1>5. ASSUME \A t \in Threads : pc[t] \notin Busy
      PROVE  /\ stage' \in StagesOff => At(0, 0)
             /\ stage' \in StagesOn => At(1, 1)
             /\ stage' \in StagesCounted =>
                   At(IF refcount > 0 THEN 1 ELSE 0, IF refcount > 0 THEN 1 ELSE 0)
  <2>1. /\ stage \in StagesOff => At(0, 0)
        /\ stage \in StagesOn => At(1, 1)
        /\ stage \in StagesCounted =>
              At(IF refcount > 0 THEN 1 ELSE 0, IF refcount > 0 THEN 1 ELSE 0)
    BY <1>5 DEF SwitchInv, Quiet
  <2>2. stage = "debugger" => refcount = 0 /\ stage \in StagesOff
    BY DEF SwitchInv, Counting, BeforeBound, StagesOff
  <2>3. stage = "rm_power" => stage \in StagesCounted
    BY DEF StagesCounted
  <2>4. QED
    BY <1>1, <2>1, <2>2, <2>3 DEF Keeps
<1>6. Quiet'
  BY <1>5 DEF Keeps, Quiet, At, powerVars
<1>7. QED
  BY <1>2, <1>3, <1>4, <1>6 DEF SwitchInv

(* The second kind too.                                                    *)
LEMMA SwitchesSwitch ==
    ASSUME IInv, ~early, SwitchInv, Switches, ~stuck'
    PROVE  SwitchInv'
<1>1. /\ Prober \in Threads /\ Nobody \notin Threads
      /\ power_lock \in Threads \cup {Nobody}
  BY DeviceAssumption DEF Threads, Clients, IInv, TypeInv, TypeOK
<1>2. \A t \in Threads \ {Prober} : pc[t] \in {"idle", "oops"} /\ pc'[t] = pc[t]
                                     /\ (t \in Nodes => pc[t] = "idle")
  BY Present DEF Switches, IInv, UsersInv
<1>3. \A t \in Threads \ {Prober} : pc[t] \notin Busy /\ pc'[t] \notin Busy
  BY <1>2 DEF Busy, OnLabels, OffLabels
<1>4. power_lock \in {Prober, Nobody}
      /\ (power_lock = Prober <=> stage = "rm_power" /\ pc[Prober] \in Busy)
  BY <1>1, <1>2, <1>3 DEF SwitchInv, Holding
<1>5. pc[Prober] \notin Busy =>
          /\ stage \in StagesOff => At(0, 0)
          /\ stage \in StagesOn => At(1, 1)
          /\ stage \in StagesCounted =>
                At(IF refcount > 0 THEN 1 ELSE 0, IF refcount > 0 THEN 1 ELSE 0)
  BY <1>3 DEF SwitchInv, Quiet
<1>6. Phase(Prober) /\ (stage \in BeforeBound => refcount = 0)
  BY <1>1 DEF SwitchInv, Counting
<1>7. stage \in {"fence", "sram"} => pc[Prober] \notin Busy
  BY DEF IInv, ProberInv, Busy, OnLabels, OffLabels
<1>8. ASSUME Phase(Prober)',
             power_lock' \in {Prober, Nobody},
             power_lock' = Prober <=> stage' = "rm_power" /\ pc'[Prober] \in Busy,
             stage' \in BeforeBound => refcount' = 0,
             pc'[Prober] \in Busy \/ Quiet'
      PROVE  SwitchInv'
  <2>1. \A t \in Threads : Phase(t)'
    <3>1. \A t \in Threads \ {Prober} : Phase(t)'
      BY <1>2 DEF Phase
    <3>2. QED
      BY <1>8, <3>1
  <2>2. Holding'
    BY <1>1, <1>3, <1>8 DEF Holding
  <2>3. Counting'
    BY <1>3, <1>8 DEF Counting, Busy
  <2>4. Quiet'
    BY <1>1, <1>8 DEF Quiet
  <2>5. QED
    BY <2>1, <2>2, <2>3, <2>4 DEF SwitchInv
<1> DEFINE Same == UNCHANGED <<refcount, power_lock>>
<1>9. CASE stage = "fence" /\ pc'[Prober] = "on_clk" /\ stage' = "power_on" /\ Same
  <2>1. At(0, 0)
    BY <1>5, <1>7, <1>9 DEF StagesOff
  <2>2. At(0, 0)'
    BY <2>1 DEF Switches, At, powerVars
  <2>3. Phase(Prober)' /\ pc'[Prober] \in Busy
    BY <1>9, <2>2 DEF Phase, Busy, OnLabels
  <2>4. refcount' = 0
    BY <1>6, <1>9 DEF BeforeBound, BeforeWq
  <2>5. QED
    BY <1>4, <1>8, <1>9, <2>3, <2>4
<1>10. CASE stage = "power_on" /\ pc[Prober] = "on_done" /\ pc'[Prober] = "idle"
            /\ (ret[Prober] = 0 => stage' = "devfreq") /\ Same
  <2>1. At(1, 1) /\ ret[Prober] = 0
    BY <1>6, <1>10 DEF Phase
  <2>2. At(1, 1)' /\ stage' = "devfreq"
    BY <1>10, <2>1 DEF Switches, At, powerVars
  <2>3. Phase(Prober)' /\ pc'[Prober] \notin Busy
    BY <1>10 DEF Phase, Busy, OnLabels, OffLabels
  <2>4. Quiet'
    BY <2>2 DEF Quiet, StagesOff, StagesCounted
  <2>5. refcount' = 0
    BY <1>6, <1>10 DEF BeforeBound, BeforeWq
  <2>6. QED
    BY <1>4, <1>8, <1>10, <2>2, <2>3, <2>4, <2>5
<1>11. CASE stage = "sram" /\ pc'[Prober] = "off_lock" /\ stage' = "power_off" /\ Same
  <2>1. At(1, 1)
    BY <1>5, <1>7, <1>11 DEF StagesOn
  <2>2. At(1, 1)'
    BY <2>1 DEF Switches, At, powerVars
  <2>3. Phase(Prober)' /\ pc'[Prober] \in Busy
    BY <1>11, <2>2 DEF Phase, Busy, OffLabels
  <2>4. refcount' = 0
    BY <1>6, <1>11 DEF BeforeBound, BeforeWq
  <2>5. QED
    BY <1>4, <1>8, <1>11, <2>3, <2>4
<1>12. CASE stage = "power_off" /\ pc[Prober] = "off_done" /\ pc'[Prober] = "idle"
            /\ stage' = "debugger" /\ refcount' = 0 /\ UNCHANGED power_lock
            /\ (ret[Prober] = 0 \/ stuck')
  <2>1. At(0, 0)
    BY <1>6, <1>12 DEF Phase
  <2>2. At(0, 0)'
    BY <2>1 DEF Switches, At, powerVars
  <2>3. Phase(Prober)' /\ pc'[Prober] \notin Busy
    BY <1>12 DEF Phase, Busy, OnLabels, OffLabels
  <2>4. Quiet'
    BY <1>12, <2>2 DEF Quiet, StagesOn, StagesCounted
  <2>5. QED
    BY <1>4, <1>8, <1>12, <2>3, <2>4
<1>13. CASE stage = "rm_power" /\ pc[Prober] = "idle" /\ pc'[Prober] = "off_lock"
            /\ stage' = "rm_power" /\ refcount > 0 /\ UNCHANGED refcount
            /\ power_lock' = Prober
  <2>1. At(1, 1)
    BY <1>5, <1>13 DEF StagesCounted, Busy, OnLabels, OffLabels
  <2>2. At(1, 1)'
    BY <2>1 DEF Switches, At, powerVars
  <2>3. Phase(Prober)' /\ pc'[Prober] \in Busy
    BY <1>13, <2>2 DEF Phase, Busy, OffLabels
  <2>4. stage' \notin BeforeBound
    BY <1>13 DEF BeforeBound, BeforeWq
  <2>5. QED
    BY <1>8, <1>13, <2>3, <2>4
<1>14. CASE stage = "rm_power" /\ pc[Prober] = "off_done" /\ pc'[Prober] = "idle"
            /\ stage' = "release" /\ UNCHANGED refcount /\ power_lock' = Nobody
            /\ (ret[Prober] = 0 \/ stuck')
  <2>1. At(0, 0)
    BY <1>6, <1>14 DEF Phase
  <2>2. At(0, 0)'
    BY <2>1 DEF Switches, At, powerVars
  <2>3. Phase(Prober)' /\ pc'[Prober] \notin Busy
    BY <1>14 DEF Phase, Busy, OnLabels, OffLabels
  <2>4. Quiet'
    BY <1>14, <2>2 DEF Quiet, StagesOn, StagesCounted
  <2>5. stage' \notin BeforeBound
    BY <1>14 DEF BeforeBound, BeforeWq
  <2>6. QED
    BY <1>1, <1>8, <1>14, <2>3, <2>4, <2>5
<1>15. QED
  BY <1>9, <1>10, <1>11, <1>12, <1>13, <1>14 DEF Switches

(* What excepts a run stays.                                               *)
LEMMA ExceptedStays ==
    ASSUME IInv, Next, Excepted
    PROVE  Excepted'
<1> USE DEF history
<1>1. (early => early') /\ (stuck => stuck') /\ failed \subseteq failed'
  <2>1. ASSUME NEW t \in Threads, PowerStep(t)
        PROVE  (early => early') /\ (stuck => stuck') /\ failed \subseteq failed'
    BY <2>1 DEF PowerStep, OnClk, OnLock, OnPm, OnUnlock, OffLock, OffPm, OffUnlock,
                DevfreqLock, FaultOccurs
  <2>2. CASE \/ \E t \in Threads : GiveBack(t)
             \/ \E c \in Clients : Get(c) \/ GetDone(c)
             \/ RunWork
    BY <2>2 DEF GiveBack, PutDelay, Queue, Put, PutDone, Get, GetDone, RunWork
  <2>3. CASE Probe
    <3>1. CASE ProbeOff
      <4>1. early' = early /\ failed' = failed
        BY <3>1 DEF ProbeOff
      <4>2. stuck => stuck'
        BY <3>1 DEF ProbeOff
      <4>3. QED
        BY <4>1, <4>2
    <3>2. CASE ~ProbeOff
      <4>1. early' = early /\ failed \subseteq failed'
        BY <2>3, <3>2
           DEF Probe, ProbeStart, ProbeDrm, ProbeMisc, ProbeFence, ProbePowered, ProbeClock,
               ProbeAdd, ProbeNoDevfreq, ProbeDelay, ProbeWq, ProbeWork, ProbeSram,
               ProbeDebugger, ErrWq, ErrDevfreq, ErrDrm, DevmRelease,
               Move, Advance, Fails, Retreat, FaultOccurs
      <4>2. stuck' = stuck
        BY <2>3, <3>2
           DEF Probe, ProbeStart, ProbeDrm, ProbeMisc, ProbeFence, ProbePowered, ProbeClock,
               ProbeAdd, ProbeNoDevfreq, ProbeDelay, ProbeWq, ProbeWork, ProbeSram,
               ProbeDebugger, ErrWq, ErrDevfreq, ErrDrm, DevmRelease
      <4>3. QED
        BY <4>1, <4>2
    <3>3. QED
      BY <3>1, <3>2
  <2>4. CASE RemoveStart \/ Remove
    <3>1. early' = early /\ failed' = failed
      BY <2>4 DEF Remove, RemoveStart, RemoveCancelled, RemoveWq, RemoveParts, RemoveDrm, RemoveDevfreq,
                  RemoveOff, RemoveOffDone, Move, Retreat
    <3>2. stuck => stuck'
      <4>1. CASE RemoveOffDone
        BY <4>1 DEF RemoveOffDone
      <4>2. CASE ~RemoveOffDone
        BY <2>4, <4>2 DEF Remove, RemoveStart, RemoveCancelled, RemoveWq, RemoveParts,
                          RemoveDrm, RemoveDevfreq,
                          RemoveOff
      <4>3. QED
        BY <4>1, <4>2
    <3>3. QED
      BY <3>1, <3>2
  <2>5. CASE Scaling
    BY <2>5 DEF Scaling, deviceVars
  <2>6. QED
    BY <2>1, <2>2, <2>3, <2>4, <2>5 DEF Next
<1>2. Missed => Missed'
  BY <1>1 DEF Missed
<1>3. QED
  BY <1>1, <1>2 DEF Excepted

(* Every step keeps the invariant.                                         *)
LEMMA PowerStays == PowerInv /\ [Next]_vars => PowerInv'
<1> SUFFICES ASSUME PowerInv, [Next]_vars PROVE PowerInv'
  OBVIOUS
<1>1. IInv'
  BY InvStep DEF PowerInv
<1>2. CASE \E t \in Threads : PowerStep(t)
  BY <1>2, PowerSwitch
<1>3. CASE \/ \E t \in Threads : GiveBack(t)
           \/ \E c \in Clients : Get(c) \/ GetDone(c)
           \/ RunWork
  <2>1. UNCHANGED <<stage, up, monitor>>
    BY <1>3 DEF GiveBack, PutDelay, Queue, Put, PutDone, Get, GetDone, RunWork, devfreqVars
  <2>2. UpInv'
    BY <2>1 DEF PowerInv, UpInv
  <2>3. Next
    BY <1>3 DEF Next
  <2>4. Excepted' \/ SwitchInv'
    BY <1>3, <2>3, ExceptedStays, UsersSwitch DEF PowerInv, Excepted
  <2>5. QED
    BY <1>1, <2>2, <2>4 DEF PowerInv
<1>4. CASE Probe \/ RemoveStart \/ Remove
  <2>1. UpInv'
    BY <1>4, UpMoves DEF PowerInv
  <2>2. Next
    BY <1>4 DEF Next
  <2>3. Excepted' \/ SwitchInv'
    BY <1>4, <2>2, ExceptedStays, MovesSwitch, KeepsSwitch, SwitchesSwitch DEF PowerInv, Excepted
  <2>4. QED
    BY <1>1, <2>1, <2>3 DEF PowerInv
<1>5. CASE Scaling \/ UNCHANGED vars
  <2>1. UNCHANGED deviceVars /\ UNCHANGED monitor
    BY <1>5 DEF Scaling, Update, Target, Raise, SetRate, Lower, FreqHzSet, VoltageUvSet, vars,
                devfreqVars
  <2>2. UpInv'
    BY <2>1 DEF PowerInv, UpInv, deviceVars
  <2>3. Excepted => Excepted'
    BY <2>1 DEF Excepted, Missed, deviceVars, history
  <2>4. SwitchInv => SwitchInv'
    <3>1. \A t \in Threads : Phase(t) => Phase(t)'
      BY <2>1 DEF Phase, At, deviceVars, powerVars
    <3>2. Holding => Holding'
      BY <2>1 DEF Holding, deviceVars
    <3>3. Counting => Counting'
      BY <2>1 DEF Counting, deviceVars
    <3>4. Quiet => Quiet'
      BY <2>1 DEF Quiet, At, deviceVars, powerVars
    <3>5. QED
      BY <3>1, <3>2, <3>3, <3>4 DEF SwitchInv
  <2>5. QED
    BY <1>1, <2>2, <2>3, <2>4 DEF PowerInv
<1>6. QED
  BY <1>2, <1>3, <1>4, <1>5 DEF Next

(* The inductive invariant.                                                *)
LEMMA PowerInvariant == Spec => []PowerInv
BY PowerInit, PowerStays, PTL DEF Spec

(* While the device is bound and nobody switches, its clocks, every power  *)
(* domain and the device itself are on exactly once if power_refcount is   *)
(* positive and off otherwise, for any number of domains and ioctls,       *)
(* whatever fails in probe and however often power_off gives up.           *)
THEOREM DevicePowerMatchesCount == Spec => []PowerMatchesCount
<1>1. ASSUME PowerInv PROVE PowerMatchesCount
  <2> SUFFICES ASSUME stage = "bound", power_lock = Nobody, ~Excepted
               PROVE  PowerCounts = IF refcount > 0 THEN {1} ELSE {0}
    BY DEF PowerMatchesCount, Excepted
  <2>1. At(IF refcount > 0 THEN 1 ELSE 0, IF refcount > 0 THEN 1 ELSE 0)
    BY <1>1, FoundCounts DEF PowerInv, Excepted, WithProc
  <2>2. QED
    BY <2>1 DEF At, PowerCounts
<1>2. QED
  BY <1>1, PowerInvariant, PTL

(* Whatever way rknpu_probe failed and whenever rknpu_remove was called,   *)
(* no node, interrupt, timer or workqueue is left, the governor is stopped *)
(* and an unloaded driver has switched everything off.                     *)
THEOREM DeviceNothingLeft == Spec => []NothingLeft
<1>1. ASSUME PowerInv PROVE NothingLeft
  <2>1. stage \in {"failed", "removed"} => up \subseteq {"rpm", "work", "own_ctrl"} /\ ~monitor
    <3>1. up \subseteq Parts /\ UpInv
      BY <1>1 DEF PowerInv, IInv, TypeInv, TypeOK
    <3>2. stage = "removed" =>
            up \cap {"wq", "debugfs", "procfs", "ctrl", "timer", "sram_mm", "drm", "misc", "irq"} = {}
      BY <1>1, <3>1 DEF PowerInv, IInv, StageInv, UpInv, AfterWq, AfterParts, AfterDrm, Removing
    <3>3. QED
      BY <3>1, <3>2 DEF UpInv, Parts
  <2>2. stage = "removed" => "rpm" \notin up
    BY <1>1 DEF PowerInv, UpInv
  <2>3. ASSUME stage = "removed", ~Excepted PROVE PowerCounts = {0}
    <3>1. ~early /\ IInv /\ SwitchInv
      BY <1>1, <2>3 DEF PowerInv, Excepted
    <3>2. \A t \in Threads : pc[t] \in {"idle", "oops"}
      BY <2>3, <3>1, Present DEF IInv, ProberInv, WithProc
    <3>3. \A t \in Threads : pc[t] \notin Busy
      BY <3>2 DEF Busy, OnLabels, OffLabels
    <3>4. At(0, 0)
      BY <2>3, <3>1, <3>3 DEF SwitchInv, Quiet, StagesOff
    <3>5. QED
      BY <3>4 DEF At, PowerCounts
  <2>4. QED
    BY <2>1, <2>2, <2>3 DEF NothingLeft, Excepted
<1>2. QED
  BY <1>1, PowerInvariant, PTL

=============================================================================
