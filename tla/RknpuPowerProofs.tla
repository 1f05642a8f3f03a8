-------------------------- MODULE RknpuPowerProofs --------------------------
(***************************************************************************)
(* Proofs about the power reference count: as long as no "off" has run     *)
(* beside another write to a power node it is exact, and the NPU has power *)
(* exactly while it is not 0, for any number of users, any number of       *)
(* threads that write to the power nodes, any delays and any number of     *)
(* "on" writes.  With such an overlap only the power's following a         *)
(* positive count is left.                                                 *)
(***************************************************************************)
EXTENDS RknpuPower, TLAPS, FiniteSetTheorems

Types ==
    /\ refcount \in Int
    /\ cmdline \in Nat
    /\ power \in PowerStates
    /\ queued \in BOOLEAN
    /\ delay \in Delays
    /\ pc \in [Callers -> Labels]
    /\ seen \in [Debuggers -> Nat]
    /\ overlap \in BOOLEAN

(* Who may be where: only users hold, only debuggers are in a node.        *)
Places ==
    /\ \A d \in Debuggers : pc[d] # "held"
    /\ \A e \in Callers \ Debuggers : ~InOn(e) /\ ~InOff(e)

(* Without an overlap, an "off" is alone in the nodes and subtracts what   *)
(* cmdline still says, and cmdline counts every "on" that is under way.    *)
Apart ==
    /\ \A d, o \in Debuggers : d # o /\ InOff(d) => ~InOff(o) /\ ~InOn(o)
    /\ \A d \in Debuggers : pc[d] = "off_sub" => seen[d] = cmdline
    /\ Cardinality(Ons) <= cmdline

Counted == refcount = Cardinality(Holders) + CmdlineRefs + WorkRefs

Exact == Apart /\ Counted

IInv == Types /\ Places /\ (~overlap => Exact)

IsHolder(l) == l \notin {"idle", "on"}

(* The callers are distinct.                                               *)
LEMMA CallersDistinct ==
    /\ Worker \in Callers /\ Worker \notin Debuggers
    /\ \A u \in Users : u \in Callers /\ u \notin Debuggers
    /\ \A d \in Debuggers : d \in Callers
BY PowerAssumption DEF Callers

(* There are finitely many holders and writers of "on".                    *)
LEMMA HoldersFinite ==
    /\ IsFiniteSet(Holders) /\ Cardinality(Holders) \in Nat
    /\ IsFiniteSet(Ons) /\ Cardinality(Ons) \in Nat
<1>1. IsFiniteSet(Users \cup Debuggers)
  BY PowerAssumption, FS_Union
<1>2. IsFiniteSet(Callers)
  BY <1>1, FS_AddElement DEF Callers
<1>3. Holders \in SUBSET Callers /\ Ons \in SUBSET Debuggers
  BY DEF Holders, Ons
<1>4. QED
  BY <1>2, <1>3, PowerAssumption, FS_Subset, FS_CardinalityType

(* A caller that takes a reference up.                                     *)
LEMMA Enters ==
    ASSUME Types, NEW e \in Callers, NEW l, Goto(e, l), ~IsHolder(pc[e]), IsHolder(l)
    PROVE  Cardinality(Holders') = Cardinality(Holders) + 1
<1>1. Holders' = Holders \cup {e} /\ e \notin Holders
  BY DEF Goto, Holders, Types, IsHolder
<1>2. QED
  BY <1>1, HoldersFinite, FS_AddElement

(* A caller that gives its reference away.                                 *)
LEMMA Leaves ==
    ASSUME Types, NEW e \in Callers, NEW l, Goto(e, l), IsHolder(pc[e]), ~IsHolder(l)
    PROVE  /\ Cardinality(Holders') = Cardinality(Holders) - 1
           /\ Cardinality(Holders) > 0
<1>1. Holders' = Holders \ {e} /\ e \in Holders
  BY DEF Goto, Holders, Types, IsHolder
<1>2. Cardinality(Holders') = Cardinality(Holders) - 1
  BY <1>1, HoldersFinite, FS_RemoveElement
<1>3. Cardinality(Holders) # 0
  BY <1>1, HoldersFinite, FS_EmptySet
<1>4. QED
  BY <1>2, <1>3, HoldersFinite

(* A caller that neither takes nor gives.                                  *)
LEMMA Stays ==
    ASSUME Types, NEW e \in Callers, NEW l, Goto(e, l), IsHolder(pc[e]) <=> IsHolder(l)
    PROVE  Holders' = Holders
BY DEF Goto, Holders, Types, IsHolder

(* A writer that starts or ends an "on".                                   *)
LEMMA OnBegins ==
    ASSUME Types, NEW d \in Debuggers, Goto(d, "on"), ~InOn(d)
    PROVE  Cardinality(Ons') = Cardinality(Ons) + 1
<1>1. Ons' = Ons \cup {d} /\ d \notin Ons
  BY CallersDistinct DEF Goto, Ons, InOn, Types
<1>2. QED
  BY <1>1, HoldersFinite, FS_AddElement

LEMMA OnEnds ==
    ASSUME Types, NEW d \in Debuggers, NEW l, Goto(d, l), l # "on", InOn(d)
    PROVE  /\ Cardinality(Ons') = Cardinality(Ons) - 1
           /\ Cardinality(Ons) > 0
<1>1. Ons' = Ons \ {d} /\ d \in Ons
  BY CallersDistinct DEF Goto, Ons, InOn, Types
<1>2. Cardinality(Ons') = Cardinality(Ons) - 1
  BY <1>1, HoldersFinite, FS_RemoveElement
<1>3. Cardinality(Ons) # 0
  BY <1>1, HoldersFinite, FS_EmptySet
<1>4. QED
  BY <1>2, <1>3, HoldersFinite

(* A step of a caller outside the sequence of a node changes nothing there.*)
LEMMA NodesStay ==
    ASSUME Types, NEW e \in Callers, NEW l, Goto(e, l), l \in Labels,
           ~InOn(e), ~InOff(e), l \notin {"on", "off_read", "off_sub", "off_zero"},
           UNCHANGED <<cmdline, seen>>
    PROVE  /\ Ons' = Ons /\ CmdlineRefs' = CmdlineRefs
           /\ \A d \in Debuggers : (InOff(d)' <=> InOff(d)) /\ (InOn(d)' <=> InOn(d))
           /\ \A d \in Debuggers : (pc[d] = "off_sub")' <=> pc[d] = "off_sub"
           /\ Apart => Apart'
<1>1. \A d \in Debuggers : d \in Callers
  BY CallersDistinct
<1>2. /\ \A d \in Debuggers : (InOff(d)' <=> InOff(d)) /\ (InOn(d)' <=> InOn(d))
      /\ \A d \in Debuggers : pc'[d] = "off_sub" <=> pc[d] = "off_sub"
      /\ \A d \in Debuggers : pc'[d] = "off_zero" <=> pc[d] = "off_zero"
  BY <1>1 DEF Goto, Types, InOff, InOn
<1>3. Ons' = Ons
  BY <1>2 DEF Ons
<1>4. CmdlineRefs' = CmdlineRefs
  BY <1>2, <1>3 DEF CmdlineRefs
<1>5. Apart => Apart'
  BY <1>2, <1>3 DEF Apart
<1>6. QED
  BY <1>2, <1>3, <1>4, <1>5

(* The parts of the count are natural numbers, and so is the count.        *)
LEMMA PartsNat ==
    ASSUME Types, Apart
    PROVE  CmdlineRefs \in Nat /\ WorkRefs \in Nat /\ (Counted => refcount \in Nat)
<1>1. CmdlineRefs \in Nat /\ WorkRefs \in Nat
  BY HoldersFinite DEF Types, Apart, CmdlineRefs, WorkRefs
<1>2. QED
  BY <1>1, HoldersFinite DEF Counted

(* A holder keeps the count above 0.                                       *)
LEMMA HolderCounts ==
    ASSUME Types, Exact, NEW e \in Callers, IsHolder(pc[e])
    PROVE  /\ refcount > 0
           /\ refcount >= 1 + CmdlineRefs + WorkRefs
           /\ CmdlineRefs \in Nat /\ WorkRefs \in Nat
<1>1. e \in Holders
  BY DEF Holders, IsHolder
<1>2. Cardinality(Holders) # 0
  BY <1>1, HoldersFinite, FS_EmptySet
<1>4. QED
  BY <1>2, PartsNat, HoldersFinite DEF Exact, Counted
----------------------------------------------------------------------------
(* The probe leaves no reference behind.                                   *)
LEMMA InitIInv == Init => IInv
<1> SUFFICES ASSUME Init PROVE IInv
  OBVIOUS
<1>1. Holders = {} /\ Ons = {}
  BY CallersDistinct DEF Init, Holders, Ons, InOn
<1>2. Types /\ Places
  <2>1. pc = [e \in Callers |-> "idle"] /\ pc \in [Callers -> Labels]
    BY DEF Init, Labels
  <2>2. Types
    <3>1. seen \in [Debuggers -> Nat]
      BY DEF Init
    <3>2. power \in PowerStates /\ queued \in BOOLEAN /\ overlap \in BOOLEAN
      BY DEF Init, PowerStates
    <3>3. refcount \in Int /\ cmdline \in Nat /\ delay \in Delays
      BY DEF Init
    <3>4. QED
      BY <2>1, <3>1, <3>2, <3>3 DEF Types
  <2>3. Places
    BY <2>1, CallersDistinct DEF Places, InOn, InOff
  <2>4. QED
    BY <2>2, <2>3
<1>3. CmdlineRefs = 0 /\ WorkRefs = 0
  BY <1>1, FS_EmptySet DEF Init, CmdlineRefs, WorkRefs
<1>4. Exact
  BY <1>1, <1>3, CallersDistinct, FS_EmptySet DEF Init, Exact, Counted, Apart, InOff, InOn
<1>5. QED
  BY <1>2, <1>4 DEF IInv

(* The types and the places need no invariant beside them.                 *)
LEMMA ShapeNext == ASSUME Types, Places, [Next]_vars PROVE Types' /\ Places'
<1>0. /\ \A d \in Debuggers : d \in Callers
      /\ \A u \in Users : u \in Callers /\ u \notin Debuggers
      /\ Worker \in Callers \ Debuggers
  BY CallersDistinct
<1>1. ASSUME NEW e \in Callers, NEW l \in Labels, Goto(e, l),
             e \in Debuggers => l # "held",
             e \notin Debuggers => l \notin {"on", "off_read", "off_sub", "off_zero"}
      PROVE  pc' \in [Callers -> Labels] /\ Places'
  BY <1>0, <1>1 DEF Goto, Types, Places, InOn, InOff
<1>2. ASSUME NEW u \in Users, Get(u) PROVE Types' /\ Places'
  BY <1>0, <1>1, <1>2 DEF Get, PowerGet, PowerOn, PowerStates, Types, Labels, writes
<1>3. ASSUME NEW u \in Users, Release(u) PROVE Types' /\ Places'
  BY <1>0, <1>1, <1>3 DEF Release, Types, Labels, writes
<1>4. ASSUME NEW e \in Callers, Put(e) PROVE Types' /\ Places'
  <2>1. refcount' \in Int /\ power' \in PowerStates
        /\ UNCHANGED <<cmdline, queued, delay, seen, overlap>>
    BY <1>4 DEF Put, PowerOff, PowerStates, Types, writes
  <2>2. \E l \in {"idle", "putdelay"} : Goto(e, l)
    BY <1>4 DEF Put
  <2>3. QED
    BY <1>1, <2>1, <2>2 DEF Types, Labels
<1>5. ASSUME NEW e \in Callers, PutDelay(e) PROVE Types' /\ Places'
  BY <1>1, <1>5 DEF PutDelay, Types, Labels, writes
<1>6. ASSUME NEW e \in Callers, Queue(e) PROVE Types' /\ Places'
  <2>1. refcount' \in Int /\ queued' \in {queued, TRUE}
        /\ UNCHANGED <<cmdline, power, delay, seen, overlap>> /\ Goto(e, "idle")
    <3>1. CASE refcount = 1
      BY <1>6, <3>1 DEF Queue, Types, writes
    <3>2. CASE refcount # 1
      BY <1>6, <3>2 DEF Queue, Types, writes
    <3>3. QED
      BY <3>1, <3>2
  <2>2. QED
    BY <1>1, <2>1 DEF Types, Labels
<1>7. CASE RunWork
  BY <1>0, <1>1, <1>7 DEF RunWork, Types, Labels, writes
<1>8. ASSUME NEW d \in Debuggers, DebugOn(d) \/ DebugOnGet(d) PROVE Types' /\ Places'
  <2>1. CASE DebugOn(d)
    BY <1>0, <1>1, <2>1 DEF DebugOn, Types, Labels
  <2>2. CASE DebugOnGet(d)
    BY <1>0, <1>1, <2>2
       DEF DebugOnGet, PowerGet, PowerOn, PowerStates, Types, Labels, writes
  <2>3. QED
    BY <1>8, <2>1, <2>2
<1>9. ASSUME NEW d \in Debuggers, DebugOff(d) \/ DebugOffSteps(d) PROVE Types' /\ Places'
  <2>1. CASE DebugOff(d)
    BY <1>0, <1>1, <2>1 DEF DebugOff, Types, Labels
  <2>2. CASE DebugOffRead(d)
    BY <1>0, <1>1, <2>2 DEF DebugOffRead, Types, Labels
  <2>3. CASE DebugOffSub(d)
    BY <1>0, <1>1, <2>3 DEF DebugOffSub, Types, Labels
  <2>4. CASE DebugOffZero(d)
    BY <1>0, <1>1, <2>4 DEF DebugOffZero, Types, Labels, writes
  <2>5. QED
    BY <1>9, <2>1, <2>2, <2>3, <2>4 DEF DebugOffSteps
<1>10. ASSUME NEW d \in Delays, SetDelay(d) PROVE Types' /\ Places'
  BY <1>10 DEF SetDelay, Types, Places, InOn, InOff, writes
<1>11. CASE UNCHANGED vars
  BY <1>11 DEF vars, Types, Places, InOn, InOff
<1>12. QED
  BY <1>2, <1>3, <1>4, <1>5, <1>6, <1>7, <1>8, <1>9, <1>10, <1>11 DEF Next, GiveBack
----------------------------------------------------------------------------
(* rknpu_power_get of a user.                                              *)
LEMMA GetStep == ASSUME Types, Places, Exact, NEW u \in Users, Get(u) PROVE Exact'
<1>1. u \in Callers /\ ~InOn(u) /\ ~InOff(u) /\ Goto(u, "held") /\ pc[u] = "idle"
  BY CallersDistinct DEF Get, PowerGet, Places
<1>2. refcount' = refcount + 1 /\ UNCHANGED <<cmdline, queued, seen>>
  BY DEF Get, PowerGet, writes
<1>3. Cardinality(Holders') = Cardinality(Holders) + 1
  BY <1>1, Enters DEF IsHolder
<1>4. Apart' /\ CmdlineRefs' = CmdlineRefs /\ WorkRefs' = WorkRefs
  BY <1>1, <1>2, NodesStay DEF Exact, Labels, WorkRefs
<1>5. CmdlineRefs \in Nat /\ WorkRefs \in Nat
  BY PartsNat DEF Exact
<1>6. QED
  BY <1>2, <1>3, <1>4, <1>5, HoldersFinite DEF Exact, Counted

(* The rknpu_power_get of a debugger: its reference is one of cmdline's.   *)
LEMMA DebugOnGetStep ==
    ASSUME Types, Exact, NEW d \in Debuggers, DebugOnGet(d)
    PROVE  Exact'
<1>1. d \in Callers /\ pc[d] = "on" /\ InOn(d) /\ Goto(d, "idle")
  BY CallersDistinct DEF DebugOnGet, PowerGet, InOn
<1>2. refcount' = refcount + 1 /\ UNCHANGED <<cmdline, queued, seen>>
  BY DEF DebugOnGet, PowerGet, writes
<1>3. Holders' = Holders
  BY <1>1, Stays DEF IsHolder
<1>4. Cardinality(Ons') = Cardinality(Ons) - 1 /\ Cardinality(Ons) > 0
  BY <1>1, OnEnds
<1>5. /\ \A o \in Debuggers : (InOff(o)' <=> InOff(o)) /\ (InOn(o)' => InOn(o))
      /\ \A o \in Debuggers : pc'[o] = "off_sub" <=> pc[o] = "off_sub"
      /\ \A o \in Debuggers : pc[o] # "off_zero" /\ pc'[o] # "off_zero"
  BY <1>1, CallersDistinct DEF Goto, Types, InOff, InOn, Exact, Apart
<1>6. Apart'
  BY <1>2, <1>4, <1>5, HoldersFinite DEF Exact, Apart, Types
<1>7. CmdlineRefs' = CmdlineRefs + 1 /\ WorkRefs' = WorkRefs
  BY <1>2, <1>4, <1>5, HoldersFinite DEF CmdlineRefs, WorkRefs, Types
<1>8. CmdlineRefs \in Nat /\ WorkRefs \in Nat
  BY PartsNat DEF Exact
<1>9. QED
  BY <1>2, <1>3, <1>6, <1>7, <1>8, HoldersFinite DEF Exact, Counted

(* Steps that only move a caller that is and stays a holder.               *)
LEMMA MoveStep ==
    ASSUME Types, Exact, NEW e \in Callers, NEW l \in {"put", "putdelay", "queue"}, Goto(e, l),
           IsHolder(pc[e]), ~InOff(e), UNCHANGED <<refcount, cmdline, queued, seen>>
    PROVE  Exact'
<1>1. Holders' = Holders
  BY Stays DEF IsHolder
<1>2. Apart' /\ CmdlineRefs' = CmdlineRefs /\ WorkRefs' = WorkRefs
  BY NodesStay DEF Exact, Labels, WorkRefs, IsHolder, InOn
<1>3. QED
  BY <1>1, <1>2 DEF Exact, Counted

(* Steps that drop the reference of a holder and count it down.            *)
LEMMA DropStep ==
    ASSUME Types, Exact, NEW e \in Callers, Goto(e, "idle"), IsHolder(pc[e]), ~InOff(e),
           refcount' = refcount - 1, UNCHANGED <<cmdline, queued, seen>>
    PROVE  Exact'
<1>1. Cardinality(Holders') = Cardinality(Holders) - 1
  BY Leaves DEF IsHolder
<1>2. Apart' /\ CmdlineRefs' = CmdlineRefs /\ WorkRefs' = WorkRefs
  BY NodesStay DEF Exact, Labels, WorkRefs, IsHolder, InOn
<1>3. CmdlineRefs \in Nat /\ WorkRefs \in Nat
  BY PartsNat DEF Exact
<1>4. QED
  BY <1>1, <1>2, <1>3, HoldersFinite DEF Exact, Counted

(* rknpu_power_put, by a user, a debugger or the delayed work.             *)
LEMMA PutStep == ASSUME Types, Exact, NEW e \in Callers, Put(e) PROVE Exact'
<1>1. pc[e] = "put" /\ IsHolder(pc[e]) /\ ~InOff(e)
  BY DEF Put, IsHolder, InOff
<1>2. refcount > 0
  BY <1>1, HolderCounts
<1>3. UNCHANGED <<cmdline, queued, seen>>
  BY DEF Put, writes
<1>4. \/ Goto(e, "idle") /\ refcount' = refcount - 1
      \/ Goto(e, "putdelay") /\ UNCHANGED refcount
  BY <1>2 DEF Put
<1>5. QED
  BY <1>1, <1>3, <1>4, DropStep, MoveStep

(* The last put_delay: its reference becomes that of the work.  Nobody     *)
(* else has one, so the work cannot have been queued already.              *)
LEMMA QueueStep == ASSUME Types, Exact, NEW e \in Callers, Queue(e) PROVE Exact'
<1>1. pc[e] = "queue" /\ IsHolder(pc[e]) /\ ~InOff(e) /\ ~InOn(e) /\ Goto(e, "idle")
  BY DEF Queue, IsHolder, InOff, InOn
<1>2. /\ refcount > 0
      /\ refcount >= 1 + CmdlineRefs + WorkRefs /\ CmdlineRefs \in Nat /\ WorkRefs \in Nat
  BY <1>1, HolderCounts
<1>3. CASE refcount # 1
  <2>1. refcount' = refcount - 1 /\ UNCHANGED <<cmdline, queued, seen>>
    BY <1>2, <1>3 DEF Queue, writes
  <2>2. QED
    BY <1>1, <2>1, DropStep
<1>4. CASE refcount = 1
  <2>1. queued' = TRUE /\ UNCHANGED <<refcount, cmdline, seen>>
    BY <1>4 DEF Queue, writes
  <2>2. WorkRefs = 0 /\ WorkRefs' = 1
    BY <1>2, <1>4, <2>1 DEF WorkRefs
  <2>3. Cardinality(Holders') = Cardinality(Holders) - 1
    BY <1>1, Leaves DEF IsHolder
  <2>4. Apart' /\ CmdlineRefs' = CmdlineRefs
    BY <1>1, <2>1, NodesStay DEF Exact, Labels
  <2>5. QED
    BY <1>2, <2>1, <2>2, <2>3, <2>4, HoldersFinite DEF Exact, Counted
<1>5. QED
  BY <1>3, <1>4

(* The work takes its reference over.                                      *)
LEMMA RunWorkStep == ASSUME Types, Places, Exact, RunWork PROVE Exact'
<1>1. Goto(Worker, "put") /\ pc[Worker] = "idle" /\ queued /\ queued' = FALSE
  BY DEF RunWork
<1>2. UNCHANGED <<refcount, cmdline, seen>>
  BY DEF RunWork, writes
<1>3. Cardinality(Holders') = Cardinality(Holders) + 1
  BY <1>1, CallersDistinct, Enters DEF IsHolder
<1>4. Apart' /\ CmdlineRefs' = CmdlineRefs
  BY <1>1, <1>2, CallersDistinct, NodesStay DEF Exact, Labels, Places
<1>5. WorkRefs = 1 /\ WorkRefs' = 0
  BY <1>1 DEF WorkRefs
<1>6. CmdlineRefs \in Nat
  BY PartsNat DEF Exact
<1>7. QED
  BY <1>2, <1>3, <1>4, <1>5, <1>6, HoldersFinite DEF Exact, Counted

(* The write of "on" that counts itself: it does not overlap an "off".     *)
LEMMA DebugOnStep ==
    ASSUME Types, Exact, NEW d \in Debuggers, DebugOn(d), ~overlap'
    PROVE  Exact'
<1>1. d \in Callers /\ pc[d] = "idle" /\ ~InOn(d) /\ Goto(d, "on")
  BY CallersDistinct DEF DebugOn, InOn
<1>2. cmdline' = cmdline + 1 /\ UNCHANGED <<refcount, queued, seen>>
  BY DEF DebugOn
<1>3. \A o \in Debuggers : ~InOff(o)
  BY <1>1 DEF DebugOn, InOff
<1>4. \A o \in Debuggers : ~InOff(o)'
  BY <1>1, <1>3, CallersDistinct DEF Goto, Types, InOff
<1>5. Holders' = Holders
  BY <1>1, Stays DEF IsHolder
<1>6. Cardinality(Ons') = Cardinality(Ons) + 1
  BY <1>1, OnBegins
<1>7. Apart'
  BY <1>2, <1>4, <1>6, HoldersFinite DEF Exact, Apart, Types, InOff
<1>8. CmdlineRefs' = CmdlineRefs /\ WorkRefs' = WorkRefs
  BY <1>2, <1>3, <1>4, <1>6, HoldersFinite DEF CmdlineRefs, WorkRefs, Types, InOff
<1>9. QED
  BY <1>2, <1>5, <1>7, <1>8 DEF Exact, Counted

(* A write of "off" that finds the nodes empty: between DebugOff and       *)
(* DebugOffZero the references of the "on"s are counted by cmdline, then   *)
(* by nobody, and its own then by rknpu_power_put.                         *)
LEMMA DebugOffStep ==
    ASSUME Types, Exact, NEW d \in Debuggers, DebugOff(d), ~overlap'
    PROVE  Exact'
<1>1. d \in Callers /\ pc[d] = "idle" /\ ~InOn(d) /\ Goto(d, "off_read")
  BY CallersDistinct DEF DebugOff, InOn
<1>2. cmdline' = cmdline - 1 /\ cmdline > 0 /\ UNCHANGED <<refcount, queued, seen>>
  BY DEF DebugOff
<1>3. \A o \in Debuggers : ~InOff(o) /\ ~InOn(o)
  BY <1>1 DEF DebugOff, InOff, InOn
<1>4. \A o \in Debuggers : ~InOn(o)' /\ (InOff(o)' => o = d)
  BY <1>1, <1>3, CallersDistinct DEF Goto, Types, InOff, InOn
<1>5. /\ \A o \in Debuggers : pc'[o] # "off_sub"
      /\ \A o \in Debuggers : pc[o] # "off_zero" /\ pc'[o] # "off_zero"
  BY <1>1, <1>3, CallersDistinct DEF Goto, Types, InOff
<1>6. Ons = {} /\ Ons' = {}
  BY <1>3, <1>4 DEF Ons
<1>7. Cardinality(Ons) = 0 /\ Cardinality(Ons') = 0
  BY <1>6, FS_EmptySet
<1>8. Cardinality(Holders') = Cardinality(Holders) + 1
  BY <1>1, Enters DEF IsHolder
<1>9. Apart'
  <2>1. Cardinality(Ons)' <= cmdline'
    BY <1>2, <1>7 DEF Types
  <2>2. QED
    BY <1>4, <1>5, <2>1 DEF Apart
<1>10. CmdlineRefs' = CmdlineRefs - 1 /\ WorkRefs' = WorkRefs /\ CmdlineRefs = cmdline
  BY <1>2, <1>5, <1>7 DEF CmdlineRefs, WorkRefs, Types
<1>11. WorkRefs \in Nat
  BY PartsNat DEF Exact
<1>12. QED
  BY <1>2, <1>8, <1>9, <1>10, <1>11, HoldersFinite DEF Exact, Counted, Types

LEMMA DebugOffSequence ==
    ASSUME Types, Exact, NEW d \in Debuggers, DebugOffSteps(d)
    PROVE  Exact'
<1>1. d \in Callers /\ InOff(d)
  BY CallersDistinct DEF DebugOffSteps, DebugOffRead, DebugOffSub, DebugOffZero, InOff
<1>2. \A o \in Debuggers \ {d} : ~InOff(o) /\ ~InOn(o)
  BY <1>1 DEF Exact, Apart
<1>3. \E l \in {"off_sub", "off_zero", "put"} : Goto(d, l)
  BY DEF DebugOffSteps, DebugOffRead, DebugOffSub, DebugOffZero
<1>4. \A o \in Debuggers \ {d} : pc'[o] = pc[o]
  BY <1>3, CallersDistinct DEF Goto, Types
<1>5. \A o \in Debuggers \ {d} : ~InOff(o)' /\ ~InOn(o)'
  BY <1>2, <1>4 DEF InOff, InOn
<1>6. ~InOn(d) /\ ~InOn(d)'
  BY <1>1, <1>3 DEF Goto, Types, InOff, InOn
<1>7. Ons = {} /\ Ons' = {}
  BY <1>2, <1>5, <1>6 DEF Ons
<1>8. Cardinality(Ons) = 0 /\ Cardinality(Ons') = 0
  BY <1>7, FS_EmptySet
<1>9. Holders' = Holders
  BY <1>1, <1>3, Stays DEF IsHolder, InOff
<1>10. \A o \in Debuggers \ {d} : pc[o] # "off_zero" /\ pc'[o] # "off_zero"
                                  /\ pc'[o] # "off_sub"
  BY <1>2, <1>5 DEF InOff
<1>11. CASE DebugOffRead(d)
  <2>1. /\ pc[d] = "off_read" /\ pc'[d] = "off_sub" /\ seen'[d] = cmdline
        /\ UNCHANGED <<refcount, cmdline, queued>>
    BY <1>1, <1>11 DEF DebugOffRead, Goto, Types
  <2>2. Apart'
    BY <1>5, <1>6, <1>8, <1>10, <2>1 DEF Apart, Types
  <2>3. CmdlineRefs' = CmdlineRefs /\ WorkRefs' = WorkRefs
    BY <1>8, <1>10, <2>1 DEF CmdlineRefs, WorkRefs
  <2>4. QED
    BY <1>9, <2>1, <2>2, <2>3 DEF Exact, Counted
<1>12. CASE DebugOffSub(d)
  <2>1. /\ pc[d] = "off_sub" /\ pc'[d] = "off_zero" /\ refcount' = refcount - cmdline
        /\ UNCHANGED <<cmdline, queued>>
    BY <1>1, <1>12 DEF DebugOffSub, Goto, Types, Exact, Apart
  <2>2. Apart'
    BY <1>5, <1>6, <1>8, <1>10, <2>1 DEF Apart, Types
  <2>3. CmdlineRefs = cmdline /\ CmdlineRefs' = 0 /\ WorkRefs' = WorkRefs
    BY <1>8, <1>10, <2>1 DEF CmdlineRefs, WorkRefs, Types
  <2>4. WorkRefs \in Nat
    BY PartsNat DEF Exact
  <2>5. QED
    BY <1>9, <2>1, <2>2, <2>3, <2>4, HoldersFinite DEF Exact, Counted, Types
<1>13. CASE DebugOffZero(d)
  <2>1. /\ pc[d] = "off_zero" /\ pc'[d] = "put" /\ cmdline' = 0
        /\ UNCHANGED <<refcount, queued>>
    BY <1>1, <1>13 DEF DebugOffZero, Goto, Types
  <2>2. Apart'
    BY <1>5, <1>6, <1>8, <1>10, <2>1 DEF Apart
  <2>3. CmdlineRefs = 0 /\ CmdlineRefs' = 0 /\ WorkRefs' = WorkRefs
    BY <1>8, <1>10, <2>1 DEF CmdlineRefs, WorkRefs
  <2>4. QED
    BY <1>9, <2>1, <2>2, <2>3 DEF Exact, Counted
<1>14. QED
  BY <1>11, <1>12, <1>13 DEF DebugOffSteps
----------------------------------------------------------------------------
(* Without an overlap, the count stays exact.                              *)
LEMMA ExactNext ==
    ASSUME Types, Places, Exact, [Next]_vars, ~overlap'
    PROVE  Exact'
<1>1. ASSUME NEW u \in Users, Get(u) \/ Release(u) PROVE Exact'
  <2>1. CASE Release(u)
    <3>1. u \in Callers /\ pc[u] = "held" /\ IsHolder(pc[u]) /\ ~InOff(u)
      BY <2>1, CallersDistinct DEF Release, IsHolder, InOff
    <3>2. /\ \E l \in {"put", "putdelay", "queue"} : Goto(u, l)
          /\ UNCHANGED <<refcount, cmdline, queued, seen>>
      BY <2>1 DEF Release, writes
    <3>3. QED
      BY <3>1, <3>2, MoveStep
  <2>2. QED
    BY <1>1, <2>1, GetStep
<1>2. ASSUME NEW e \in Callers, GiveBack(e) PROVE Exact'
  <2>1. CASE PutDelay(e)
    <3>1. pc[e] = "putdelay" /\ IsHolder(pc[e]) /\ ~InOff(e)
      BY <2>1 DEF PutDelay, IsHolder, InOff
    <3>2. /\ \E l \in {"put", "putdelay", "queue"} : Goto(e, l)
          /\ UNCHANGED <<refcount, cmdline, queued, seen>>
      BY <2>1 DEF PutDelay, writes
    <3>3. QED
      BY <3>1, <3>2, MoveStep
  <2>2. QED
    BY <1>2, <2>1, PutStep, QueueStep DEF GiveBack
<1>3. ASSUME NEW d \in Debuggers,
             DebugOn(d) \/ DebugOnGet(d) \/ DebugOff(d) \/ DebugOffSteps(d)
      PROVE  Exact'
  BY <1>3, DebugOnStep, DebugOnGetStep, DebugOffStep, DebugOffSequence
<1>4. CASE UNCHANGED <<refcount, cmdline, queued, pc, seen>>
  BY <1>4 DEF Exact, Apart, Counted, Holders, Ons, CmdlineRefs, WorkRefs, InOn, InOff
<1>5. CASE (\E d \in Delays : SetDelay(d)) \/ UNCHANGED vars
  BY <1>4, <1>5 DEF SetDelay, vars, writes
<1>6. QED
  BY <1>1, <1>2, <1>3, <1>5, RunWorkStep DEF Next

(* An overlap is remembered.                                               *)
LEMMA OverlapStays == [Next]_vars /\ overlap => overlap'
BY DEF Next, vars, writes, Get, PowerGet, Release, GiveBack, Put, PutDelay, Queue, RunWork,
       DebugOn, DebugOnGet, DebugOff, DebugOffSteps, DebugOffRead, DebugOffSub, DebugOffZero,
       SetDelay

(* The invariant is inductive.                                             *)
LEMMA NextIInv == IInv /\ [Next]_vars => IInv'
<1> SUFFICES ASSUME IInv, [Next]_vars PROVE IInv'
  OBVIOUS
<1>1. Types' /\ Places'
  BY ShapeNext DEF IInv
<1>2. ~overlap' => Exact'
  BY OverlapStays, ExactNext DEF IInv
<1>3. QED
  BY <1>1, <1>2 DEF IInv

(* Every reachable state satisfies the inductive invariant.                *)
THEOREM Invariance == Spec => []IInv
BY InitIInv, NextIInv, PTL DEF Spec

(* power_refcount does not go below 0, unless an "off" has run beside      *)
(* another write to a power node.                                          *)
THEOREM PowerTypeCorrect == Spec => []TypeOK
<1>1. IInv => TypeOK
  BY PartsNat DEF IInv, Types, Exact, TypeOK
<1>2. QED
  BY <1>1, Invariance, PTL

(* power_refcount counts every reference once and only once, unless an     *)
(* "off" has run beside another write to a power node.                     *)
THEOREM PowerRefcountExact == Spec => []RefcountExact
<1>1. IInv => RefcountExact
  BY DEF IInv, Exact, Counted, RefcountExact
<1>2. QED
  BY <1>1, Invariance, PTL

----------------------------------------------------------------------------
(* Without power the count is not positive, whatever writes overlap; the   *)
(* converse as long as no "off" has run beside another write.              *)
OffUncounted ==
    /\ power = "off" => refcount <= 0
    /\ ~overlap /\ refcount = 0 => power = "off"
    /\ power = "failed" => "on_fail" \in Faults

(* The power follows the count.                                            *)
LEMMA OffUncountedStep ==
    ASSUME IInv, OffUncounted, [Next]_vars
    PROVE  OffUncounted'
<1>0. refcount \in Int /\ power \in PowerStates /\ (overlap => overlap')
  BY OverlapStays DEF IInv, Types
<1>1. ASSUME NEW e \in Callers, NEW l, PowerGet(e, l) PROVE OffUncounted'
  <2>1. ~overlap => refcount >= 0
    BY PartsNat DEF IInv, Exact
  <2>2. QED
    BY <1>0, <1>1, <2>1 DEF PowerGet, PowerOn, PowerStates, OffUncounted
<1>2. ASSUME NEW e \in Callers, Put(e) PROVE OffUncounted'
  <2>1. ~overlap => refcount > 0
    BY <1>2, HolderCounts DEF IInv, Put, IsHolder
  <2>2. QED
    BY <1>0, <1>2, <2>1 DEF Put, PowerOff, LastReference, OffUncounted
<1>3. ASSUME NEW e \in Callers, Queue(e) PROVE OffUncounted'
  <2>1. ~overlap => refcount > 0
    BY <1>3, HolderCounts DEF IInv, Queue, IsHolder
  <2>2. QED
    BY <1>0, <1>3, <2>1 DEF Queue, OffUncounted
<1>4. ASSUME NEW d \in Debuggers, DebugOffSub(d) PROVE OffUncounted'
  <2>1. /\ d \in Callers /\ pc[d] = "off_sub" /\ power' = power
        /\ refcount' = refcount - seen[d] /\ seen[d] \in Nat
    BY <1>4, CallersDistinct DEF DebugOffSub, IInv, Types
  <2>2. ASSUME ~overlap' PROVE refcount' > 0
    <3>1. Types /\ Exact
      BY <1>0, <2>2 DEF IInv
    <3>2. refcount >= 1 + CmdlineRefs + WorkRefs /\ WorkRefs \in Nat
      BY <2>1, <3>1, HolderCounts DEF IsHolder
    <3>3. seen[d] = cmdline /\ \A o \in Debuggers \ {d} : ~InOff(o) /\ ~InOn(o)
      BY <2>1, <3>1 DEF Exact, Apart, InOff
    <3>4. Ons = {} /\ \A o \in Debuggers : pc[o] # "off_zero"
      BY <2>1, <3>3 DEF Ons, InOn, InOff
    <3>5. CmdlineRefs = seen[d]
      BY <2>1, <3>3, <3>4, FS_EmptySet DEF CmdlineRefs
    <3>6. QED
      BY <1>0, <2>1, <3>2, <3>5
  <2>3. QED
    BY <1>0, <2>1, <2>2 DEF OffUncounted
<1>5. CASE UNCHANGED <<refcount, power>>
  BY <1>0, <1>5 DEF OffUncounted
<1>6. QED
  <2>1. \/ \E u \in Users : PowerGet(u, "held")
        \/ \E d \in Debuggers : PowerGet(d, "idle") \/ DebugOffSub(d)
        \/ \E e \in Callers : Put(e) \/ Queue(e)
        \/ UNCHANGED <<refcount, power>>
    BY DEF Next, vars, GiveBack, Get, Release, PutDelay, RunWork, DebugOn, DebugOnGet,
           DebugOff, DebugOffSteps, DebugOffRead, DebugOffZero, SetDelay
  <2>2. QED
    BY <1>1, <1>2, <1>3, <1>4, <1>5, <2>1, CallersDistinct

(* While power_refcount is positive the power is not off, also when        *)
(* rknpu_power_off fails and whatever writes overlap.  As long as no "off" *)
(* has run beside another write, it is off exactly when the count is 0,    *)
(* and not off while somebody holds a reference.                           *)
THEOREM PowerFollowsRefcount == Spec => []PoweredIffReferenced
<1>1. Init => OffUncounted
  BY DEF Init, OffUncounted
<1>2. IInv /\ OffUncounted /\ [Next]_vars => OffUncounted'
  BY OffUncountedStep
<1>3. IInv /\ OffUncounted => PoweredIffReferenced
  <2> SUFFICES ASSUME IInv, OffUncounted PROVE PoweredIffReferenced
    OBVIOUS
  <2>1. ASSUME ~overlap, Holders # {} PROVE power # "off"
    <3>1. PICK e \in Callers : IsHolder(pc[e])
      BY <2>1 DEF Holders, IsHolder
    <3>2. refcount > 0
      BY <2>1, <3>1, HolderCounts DEF IInv
    <3>3. QED
      BY <3>2 DEF OffUncounted, IInv, Types
  <2>2. QED
    BY <2>1 DEF OffUncounted, PoweredIffReferenced
<1>4. QED
  BY <1>1, <1>2, <1>3, Invariance, PTL DEF Spec
=============================================================================
