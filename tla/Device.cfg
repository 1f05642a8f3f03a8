SPECIFICATION FairSpec
CONSTANTS
    Users = {u1}
    Nodes = {n1}
    Prober = Prober
    Worker = Worker
    Nobody = Nobody
    Updaters = {gov}
    Freqs <- MCFreqs
    Voltage <- MCVoltage
    ScmiRate <- MCScmiRate
    BootRate = 1000
    BootVolt = 1050
    InitFreq = 200
    MaxFreq = 1000
    CtrlFreqs = {1000}
    CtrlVolts = {825}
    DevfreqFaults = {"volt_fail", "clk_fail", "add_fail"}
    Domains = 2
    Delay = 500
    MaxFaults = 1
    Faults = {"resource", "drm", "misc", "fence", "scmi", "wq", "sram", "debugfs", "clk_on", "pd_on", "pm_on", "iommu_on"}
CHECK_DEADLOCK FALSE
INVARIANTS
    TypeOK
    PowerMatchesCount
    NothingLeft
    LateUsersSafe
    NeverUndervolted
    FreqReported
PROPERTIES
    LifecycleEnds
