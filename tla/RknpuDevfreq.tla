---------------------------- MODULE RknpuDevfreq ----------------------------
(***************************************************************************)
(* Frequency and voltage scaling (rknpu_devfreq_dkms.c): the target        *)
(* callback, which the devfreq core calls under devfreq->lock for the      *)
(* governor's poll, a thermal limit or a write to its sysfs files, the     *)
(* load it is told, and the debugfs files freq_hz and voltage_uv           *)
(* (rknpu_debugfs_ctrl.c), which write clock and regulator directly.       *)
(*                                                                         *)
(* One step is one access to the clock or the regulator.  The regulator    *)
(* takes the lowest voltage of the range it is given.  rknpu_freq_store,   *)
(* the one caller of target without the lock, is not in the model: nobody  *)
(* calls rknpu_devfreq_create_sysfs.                                       *)
(***************************************************************************)
EXTENDS Integers, FiniteSets

CONSTANTS
    Updaters,      \* the threads that run update_devfreq of the devfreq core
    Freqs,         \* the frequencies of the OPP table
    Voltage,       \* Voltage[f]: the opp-microvolt of the OPP f
    ScmiRate,      \* ScmiRate[f]: what the firmware makes of the rate f
    BootRate, BootVolt,      \* what the firmware left the NPU with
    InitFreq,      \* the rate rknpu_devfreq_init asks for: 200 MHz
    MaxFreq,       \* RKNPU_MAX_FREQ
    CtrlFreqs, CtrlVolts,    \* what is written to freq_hz and voltage_uv
    DevfreqFaults, \* "volt_fail", "clk_fail", "add_fail": a call below fails
    Nobody         \* no holder of a mutex

Volts == {Voltage[f] : f \in Freqs}

(* Some OPP with at least this rate asks for no more than this voltage.    *)
Suffices(volt, hz) == \E f \in Freqs : hz <= f /\ Voltage[f] <= volt

ASSUME DevfreqAssumption ==
    /\ Nobody \notin Updaters
    /\ IsFiniteSet(Freqs) /\ Freqs # {} /\ Freqs \subseteq Nat
    /\ CtrlFreqs \subseteq Nat /\ CtrlVolts \subseteq Nat
    /\ {BootRate, BootVolt, InitFreq, MaxFreq} \subseteq Nat
    /\ \E f \in Freqs : f >= MaxFreq
    /\ \E f \in Freqs : f <= MaxFreq
    /\ Voltage \in [Freqs -> Nat]
    /\ \A f, g \in Freqs : f <= g => Voltage[f] <= Voltage[g]
    /\ ScmiRate \in [Freqs \cup CtrlFreqs \cup {InitFreq} -> Nat]
    /\ \A f \in Freqs \cup {InitFreq} : ScmiRate[f] <= f
    /\ Suffices(BootVolt, BootRate)
    /\ \A f \in Freqs : InitFreq <= f
    /\ DevfreqFaults \subseteq {"volt_fail", "clk_fail", "add_fail"}

VARIABLES
    scmi_clk,      \* rknpu_dev->scmi_clk # NULL
    devfreq,       \* rknpu_dev->devfreq: "null", "err" (an ERR_PTR) or "set"
    monitor,       \* the devfreq device exists and its governor polls
    lock,          \* the holder of devfreq->lock
    rate,          \* the rate of the SCMI clock
    vdd,           \* the voltage of the regulator
    current_freq,  \* rknpu_dev->current_freq
    call,          \* call[u]: the target call of u, see CallType
    bypassed       \* history: a debugfs file has written clock or regulator

devfreqVars == <<scmi_clk, devfreq, monitor, lock, rate, vdd, current_freq, call, bypassed>>

CallType ==
    [at : {"idle", "raise", "set", "lower"},
     freq : Freqs \cup {0},       \* target_freq
     old : Nat]                   \* old_freq
NoTarget == [at |-> "idle", freq |-> 0, old |-> 0]

DevfreqInit ==
    /\ scmi_clk = FALSE
    /\ devfreq = "null"
    /\ monitor = FALSE
    /\ lock = Nobody
    /\ rate = BootRate
    /\ vdd = BootVolt
    /\ current_freq = 0
    /\ call = [u \in Updaters |-> NoTarget]
    /\ bypassed = FALSE

----------------------------------------------------------------------------
(* The calls below, each with its failure: regulator_set_voltage,          *)
(* clk_set_rate and clk_get_rate (on NULL they do nothing and return 0).   *)
VoltFails == "volt_fail" \in DevfreqFaults
ClkFails == "clk_fail" \in DevfreqFaults
ClkSetRate(f) == rate' = IF scmi_clk THEN ScmiRate[f] ELSE rate
ClkGetRate == IF scmi_clk THEN rate ELSE 0

(* rknpu_devfreq_get_dev_status: busy while there is a power reference.    *)
Load(refs) == IF refs > 0 THEN 95 ELSE 0

(* What simple_ondemand makes of that load (upthreshold 70), or a frequency*)
(* that a limit or another governor asks for.                              *)
Lowest == CHOOSE f \in Freqs : \A g \in Freqs : f <= g
Highest == CHOOSE f \in Freqs : \A g \in Freqs : g <= f
OnDemand(load) == IF load > 70 THEN Highest ELSE Lowest

(* update_devfreq, under devfreq->lock, up to the first access of target.  *)
(* The frequency is cut to RKNPU_MAX_FREQ and devfreq_recommended_opp      *)
(* makes it the OPP at or above it.  Without a clock target does nothing.  *)
Capped(f) == IF f > MaxFreq THEN MaxFreq ELSE f
Recommended(f) == CHOOSE g \in Freqs : g >= f /\ \A h \in Freqs : h >= f => g <= h

Update(u, f) ==
    /\ monitor /\ scmi_clk
    /\ call[u].at = "idle"
    /\ lock = Nobody
    /\ lock' = u
    /\ call' = [call EXCEPT ![u] = [at |-> IF Recommended(Capped(f)) > rate THEN "raise" ELSE "set",
                                    freq |-> Recommended(Capped(f)), old |-> rate]]
    /\ UNCHANGED <<scmi_clk, devfreq, monitor, rate, vdd, current_freq, bypassed>>

(* target goes on, or returns, upon which the devfreq core unlocks.        *)
Continue(u, label) == call' = [call EXCEPT ![u].at = label] /\ UNCHANGED lock
Return(u) == call' = [call EXCEPT ![u] = NoTarget] /\ lock' = Nobody

RaiseLater(u) ==                  \* mutant: the voltage follows the frequency
    /\ call[u].at = "raise"
    /\ Continue(u, "set")
    /\ UNCHANGED <<scmi_clk, devfreq, monitor, rate, vdd, current_freq, bypassed>>

(* Scale the voltage up before the frequency.                              *)
Raise(u) ==
    /\ call[u].at = "raise"
    /\ \/ vdd' = Voltage[call[u].freq] /\ Continue(u, "set")
       \/ VoltFails /\ UNCHANGED vdd /\ Return(u)
    /\ UNCHANGED <<scmi_clk, devfreq, monitor, rate, current_freq, bypassed>>

SetRate(u) ==
    /\ call[u].at = "set"
    /\ \/ ClkSetRate(call[u].freq) /\ Continue(u, "lower")
       \/ ClkFails /\ UNCHANGED rate /\ Return(u)
    /\ UNCHANGED <<scmi_clk, devfreq, monitor, vdd, current_freq, bypassed>>

LowerFirmware(u) ==               \* mutant: the frequency that was asked for is noted
    /\ call[u].at = "lower"
    /\ UNCHANGED vdd
    /\ current_freq' = call[u].freq
    /\ Return(u)
    /\ UNCHANGED <<scmi_clk, devfreq, monitor, rate, bypassed>>

(* Scale the voltage down after the frequency (a failure is ignored), and  *)
(* note the frequency the clock now has, if that has changed.              *)
Lower(u) ==
    /\ call[u].at = "lower"
    /\ \/ call[u].freq < call[u].old /\ vdd' = Voltage[call[u].freq]
       \/ (call[u].freq < call[u].old => VoltFails) /\ UNCHANGED vdd
    /\ current_freq' = IF ClkGetRate # call[u].old THEN ClkGetRate ELSE current_freq
    /\ Return(u)
    /\ UNCHANGED <<scmi_clk, devfreq, monitor, rate, bypassed>>

Target(u) == Raise(u) \/ SetRate(u) \/ Lower(u)

----------------------------------------------------------------------------
(* freq_hz_set and voltage_uv_set: no lock, no OPP, no current_freq.       *)
(* Bound: one such write, after which the properties promise nothing.      *)
FreqHzSet(f) ==
    /\ ~bypassed
    /\ ClkSetRate(f)
    /\ bypassed' = TRUE
    /\ UNCHANGED <<scmi_clk, devfreq, monitor, lock, vdd, current_freq, call>>

VoltageUvSet(v) ==
    /\ ~bypassed
    /\ vdd' = v
    /\ bypassed' = TRUE
    /\ UNCHANGED <<scmi_clk, devfreq, monitor, lock, rate, current_freq, call>>

----------------------------------------------------------------------------
(* rknpu_devfreq_init.  Without a clock there is no scaling.  The clock is *)
(* set to the lowest OPP, which may fail, before the device is registered; *)
(* the registration starts the governor, and returns an ERR_PTR when it    *)
(* fails.                                                                  *)
InitClock ==
    /\ scmi_clk' = TRUE
    /\ \/ rate' = ScmiRate[InitFreq]
       \/ ClkFails /\ UNCHANGED rate
    /\ current_freq' = rate'
    /\ UNCHANGED <<devfreq, monitor, lock, vdd, call, bypassed>>

AddDevice ==
    /\ \/ devfreq' = "set" /\ monitor' = TRUE
       \/ "add_fail" \in DevfreqFaults /\ devfreq' = "err" /\ UNCHANGED monitor
    /\ UNCHANGED <<scmi_clk, lock, rate, vdd, current_freq, call, bypassed>>

AddDeviceFailed ==
    /\ devfreq' = "null"
    /\ UNCHANGED <<scmi_clk, monitor, lock, rate, vdd, current_freq, call, bypassed>>

(* rknpu_devfreq_remove: the governor polls on until the devfreq device is *)
(* removed with the others that belong to the driver (devm).               *)
DevfreqRemove ==
    /\ scmi_clk' = FALSE
    /\ devfreq' = "null"
    /\ UNCHANGED <<monitor, lock, rate, vdd, current_freq, call, bypassed>>

DevmRemoveDevice ==
    /\ \A u \in Updaters : call[u].at = "idle"
    /\ monitor' = FALSE
    /\ UNCHANGED <<scmi_clk, devfreq, lock, rate, vdd, current_freq, call, bypassed>>

----------------------------------------------------------------------------
(* Type correctness.                                                       *)
DevfreqTypeOK ==
    /\ {scmi_clk, monitor, bypassed} \subseteq BOOLEAN
    /\ devfreq \in {"null", "err", "set"}
    /\ {rate, vdd, current_freq} \subseteq Nat
    /\ call \in [Updaters -> CallType]

(* What scaling is for: some OPP of at least this rate gets by with this   *)
(* voltage, and current_freq, which governor and files report, is the rate *)
(* of the clock.  A direct write ends both.                                *)
VoltSuffices == scmi_clk /\ ~bypassed => Suffices(vdd, rate)
Transition == \E u \in Updaters : call[u].at = "lower"
FreqKnown == scmi_clk /\ ~bypassed /\ ~Transition => current_freq = rate
=============================================================================
