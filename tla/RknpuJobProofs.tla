--------------------------- MODULE RknpuJobProofs ---------------------------
(***************************************************************************)
(* Proofs about the job engine, for every number of jobs, every request    *)
(* and, unless a theorem says otherwise, every combination of faults.      *)
(*                                                                         *)
(* RknpuJobInvariants has the invariants and says what they are for.       *)
(***************************************************************************)
EXTENDS RknpuJobInvariants, TLAPS, FiniteSetTheorems, SequenceTheorems, WellFoundedInduction

----------------------------------------------------------------------------
(* Facts about the operators of the model.                                 *)

(* Every set of naturals with a member has a least one, which Min names.   *)
LEMMA MinIsMember ==
    ASSUME NEW T \in SUBSET Nat, T # {}
    PROVE  Min(T) \in T /\ \A y \in T : Min(T) <= y
<1>1. IsWellFoundedOn(OpToRel(<, Nat), Nat)
  BY NatLessThanWellFounded
<1>2. PICK x \in T : \A y \in T : <<y, x>> \notin OpToRel(<, Nat)
  BY <1>1, WFMin
<1>3. ASSUME NEW y \in T PROVE ~(y < x)
  BY <1>2 DEF OpToRel
<1>4. \A y \in T : x <= y
  BY <1>3
<1>5. QED
  BY <1>4 DEF Min

(* Cores are natural numbers, and so a non-empty set of them has a Min.    *)
LEMMA MinCore == ASSUME NEW C \in SUBSET Cores, C # {} PROVE Min(C) \in C /\ Min(C) \in Cores
<1>1. C \in SUBSET Nat
  BY JobAssumption DEF Cores
<1>2. QED
  BY <1>1, MinIsMember

(* There is a core.                                                        *)
LEMMA ZeroCore == 0 \in Cores
BY JobAssumption DEF Cores

(* rknpu_schedule_core_index finds a core: some core has the fewest tasks. *)
LEMMA ScheduleCoreIsCore ==
    ASSUME task_num \in [Cores -> Int]
    PROVE  ScheduleCore \in Cores
<1> DEFINE Least == {c \in Cores : \A d \in Cores : task_num[c] <= task_num[d]}
<1>1. Least # {}
  <2>1. 0 \in Cores /\ (1 \in Cores \/ Cores = {0}) /\ Cores \in SUBSET {0, 1, 2}
    BY JobAssumption DEF Cores
  <2>2. CASE Cores = {0}
    <3>1. \A d \in Cores : task_num[0] <= task_num[d]
      BY <2>2
    <3>2. QED
      BY <2>1, <3>1
  <2>3. CASE Cores = {0, 1}
    <3>1. (\A d \in Cores : task_num[0] <= task_num[d]) \/ (\A d \in Cores : task_num[1] <= task_num[d])
      BY <2>3
    <3>2. QED
      BY <2>3, <3>1
  <2>4. CASE Cores = {0, 1, 2}
    <3>1. \/ \A d \in Cores : task_num[0] <= task_num[d]
          \/ \A d \in Cores : task_num[1] <= task_num[d]
          \/ \A d \in Cores : task_num[2] <= task_num[d]
      BY <2>4
    <3>2. QED
      BY <2>4, <3>1
  <2>5. Cores = {0} \/ Cores = {0, 1} \/ Cores = {0, 1, 2}
    <3>1. NumCores = 1 \/ NumCores = 2 \/ NumCores = 3
      BY JobAssumption
    <3>2. QED
      BY <3>1 DEF Cores
  <2>6. QED
    BY <2>2, <2>3, <2>4, <2>5
<1>2. Least \in SUBSET Cores
  OBVIOUS
<1>3. QED
  BY <1>1, <1>2, MinCore DEF ScheduleCore

(* A mask has a size.                                                      *)
LEMMA MaskSize == ASSUME NEW C \in SUBSET Cores PROVE IsFiniteSet(C) /\ Cardinality(C) \in Nat
<1>1. IsFiniteSet(Cores)
  <2>1. NumCores - 1 \in Int
    BY JobAssumption
  <2>2. QED
    BY <2>1, FS_Interval DEF Cores
<1>2. QED
  BY <1>1, FS_Subset, FS_CardinalityType

(* The queue t is s without some of its entries: each position of t comes  *)
(* from one of s, in the same order.                                       *)
Thins(s, t) ==
    \E f \in [DOMAIN t -> DOMAIN s] :
        /\ \A n \in DOMAIN t : t[n] = s[f[n]]
        /\ \A m, n \in DOMAIN t : m < n => f[m] < f[n]

(* A queue is thinned by leaving it alone,                                 *)
LEMMA SameThins == ASSUME NEW s \in Seq(Jobs) PROVE Thins(s, s)
<1> DEFINE f == [n \in DOMAIN s |-> n]
<1>1. f \in [DOMAIN s -> DOMAIN s] /\ \A n \in DOMAIN s : f[n] = n
  OBVIOUS
<1> HIDE DEF f
<1>2. QED
  BY <1>1 DEF Thins

(* by taking out the entry at any position,                                *)
LEMMA RemoveAtThins ==
    ASSUME NEW s \in Seq(Jobs), NEW x \in 1 .. Len(s)
    PROVE  RemoveAt(s, x) \in Seq(Jobs) /\ Thins(s, RemoveAt(s, x))
<1> DEFINE a == SubSeq(s, 1, x - 1)
           b == SubSeq(s, x + 1, Len(s))
           t == a \o b
           f == [n \in DOMAIN t |-> IF n < x THEN n ELSE n + 1]
<1>1. Len(s) \in Nat /\ DOMAIN s = 1 .. Len(s) /\ x \in Int
  OBVIOUS
<1>2. a \in Seq(Jobs) /\ Len(a) = x - 1 /\ \A n \in 1 .. x - 1 : a[n] = s[n]
  OBVIOUS
<1>3. b \in Seq(Jobs) /\ Len(b) = Len(s) - x /\ \A n \in 1 .. Len(s) - x : b[n] = s[n + x]
  OBVIOUS
<1> HIDE DEF a, b
<1>4. t \in Seq(Jobs) /\ Len(t) = Len(a) + Len(b)
  <2>1. a \in Seq(Jobs) /\ b \in Seq(Jobs)
    BY <1>2, <1>3
  <2>2. QED
    BY <2>1, ConcatProperties
<1>5. DOMAIN t = 1 .. Len(s) - 1 /\ \A n \in 1 .. Len(s) - 1 : t[n] = s[IF n < x THEN n ELSE n + 1]
  <2>1. DOMAIN t = 1 .. Len(s) - 1
    <3>1. DOMAIN t = 1 .. Len(t)
      BY <1>4
    <3> HIDE DEF t
    <3>2. QED
      BY <1>1, <1>2, <1>3, <1>4, <3>1
  <2>2. ASSUME NEW n \in 1 .. Len(s) - 1 PROVE t[n] = s[IF n < x THEN n ELSE n + 1]
    <3>1. t[n] = IF n <= Len(a) THEN a[n] ELSE b[n - Len(a)]
      <4>1. n \in 1 .. Len(a) + Len(b)
        BY <1>1, <1>2, <1>3
      <4>2. QED
        BY <1>2, <1>3, <4>1
    <3> HIDE DEF t
    <3>2. CASE n < x
      BY <1>1, <1>2, <3>1, <3>2
    <3>3. CASE ~(n < x)
      <4>1. n - Len(a) = n + 1 - x /\ n + 1 - x \in 1 .. Len(s) - x /\ ~(n <= Len(a))
        BY <1>1, <1>2, <3>3
      <4>2. b[n + 1 - x] = s[(n + 1 - x) + x]
        BY <1>3, <4>1
      <4>3. (n + 1 - x) + x = n + 1
        BY <1>1
      <4>4. QED
        BY <3>1, <3>3, <4>1, <4>2, <4>3
    <3>4. QED
      BY <3>2, <3>3
  <2>3. QED
    BY <2>1, <2>2
<1> HIDE DEF t
<1>6. f \in [DOMAIN t -> DOMAIN s] /\ \A n \in DOMAIN t : f[n] = IF n < x THEN n ELSE n + 1
  BY <1>1, <1>5
<1> HIDE DEF f
<1>7. Thins(s, t)
  <2>1. \A n \in DOMAIN t : t[n] = s[f[n]]
    BY <1>5, <1>6
  <2>2. \A m, n \in DOMAIN t : m < n => f[m] < f[n]
    BY <1>1, <1>5, <1>6
  <2>3. QED
    BY <1>6, <2>1, <2>2 DEF Thins
<1>8. QED
  BY <1>4, <1>7 DEF RemoveAt, t, a, b

(* by list_del_init of a job that may be in it,                            *)
LEMMA RemoveFirstThins ==
    ASSUME NEW s \in Seq(Jobs), NEW j \in Jobs
    PROVE  RemoveFirst(s, j) \in Seq(Jobs) /\ Thins(s, RemoveFirst(s, j))
<1> DEFINE I == {i \in 1 .. Len(s) : s[i] = j}
<1>1. CASE I = {}
  <2>1. RemoveFirst(s, j) = s
    BY <1>1 DEF RemoveFirst
  <2>2. QED
    BY <2>1, SameThins
<1>2. CASE I # {}
  <2>1. I \in SUBSET Nat
    OBVIOUS
  <2>2. Min(I) \in 1 .. Len(s)
    BY <1>2, <2>1, MinIsMember
  <2>3. RemoveFirst(s, j) = RemoveAt(s, Min(I))
    BY <1>2 DEF RemoveFirst, SelectInSeq
  <2>4. QED
    BY <2>2, <2>3, RemoveAtThins
<1>3. QED
  BY <1>1, <1>2

(* and by taking the first job.                                            *)
LEMMA TailThins ==
    ASSUME NEW s \in Seq(Jobs), s # <<>>
    PROVE  /\ Head(s) \in Jobs /\ Tail(s) \in Seq(Jobs)
           /\ 1 \in DOMAIN s /\ Head(s) = s[1]
           /\ \A n \in DOMAIN Tail(s) : n \in Nat /\ n + 1 \in DOMAIN s /\ Tail(s)[n] = s[n + 1]
           /\ Thins(s, Tail(s))
<1> DEFINE t == Tail(s)
           f == [n \in DOMAIN t |-> n + 1]
<1>1. /\ Head(s) \in Jobs /\ t \in Seq(Jobs) /\ Len(t) = Len(s) - 1
      /\ \A n \in 1 .. Len(t) : t[n] = s[n + 1]
  BY HeadTailProperties
<1>2. /\ Len(s) \in Nat /\ Len(t) \in Nat
      /\ DOMAIN s = 1 .. Len(s) /\ DOMAIN t = 1 .. Len(t)
  BY <1>1, LenProperties
<1>3. Len(s) # 0 /\ Head(s) = s[1]
  BY EmptySeq
<1> HIDE DEF t
<1>4. \A n \in DOMAIN t : n \in Nat /\ n + 1 \in DOMAIN s /\ t[n] = s[n + 1]
  BY <1>1, <1>2
<1>5. f \in [DOMAIN t -> DOMAIN s] /\ \A n \in DOMAIN t : f[n] = n + 1
  BY <1>4
<1> HIDE DEF f
<1>6. Thins(s, t)
  <2>1. \A m, n \in DOMAIN t : m < n => f[m] < f[n]
    BY <1>2, <1>5
  <2>2. QED
    BY <1>4, <1>5, <2>1 DEF Thins
<1>7. QED
  BY <1>1, <1>2, <1>3, <1>4, <1>6 DEF t

----------------------------------------------------------------------------
(* What a step other than the submit itself may do to a job.               *)
Keeps(r, s) ==
    /\ s.nonblock = r.nonblock /\ s.pc_mode = r.pc_mode
    /\ r.done = TRUE => s.done = TRUE
    /\ r.irq_entry \subseteq s.irq_entry
    /\ \/ s.ret = r.ret \/ s.ret = "EINVAL"
       \/ s.ret = "0" /\ s.done = TRUE
       \/ s.ret = "ETIMEDOUT" /\ s.nonblock = FALSE

(* The updates of a struct rknpu_job give one again, and keep what Keeps   *)
(* asks for.                                                               *)
LEMMA JobUpdates ==
    ASSUME NEW r \in JobType, NEW c \in Cores
    PROVE  /\ Keeps(r, r)
           /\ LET s == [r EXCEPT !.life = "freed"] IN s \in JobType /\ Keeps(r, s)
           /\ LET s == [r EXCEPT !.stamped = TRUE] IN s \in JobType /\ Keeps(r, s)
           /\ LET s == [r EXCEPT !.run_count = r.run_count - 1] IN s \in JobType /\ Keeps(r, s)
           /\ LET s == [r EXCEPT !.committed = TRUE, !.int_mask = r.int_mask \cup {c}]
              IN  s \in JobType /\ Keeps(r, s)
           /\ LET s == [r EXCEPT !.irq_entry = r.irq_entry \cup {c}] IN s \in JobType /\ Keeps(r, s)
           /\ LET s == [r EXCEPT !.ret = "EINVAL"] IN s \in JobType /\ Keeps(r, s)
           /\ LET s == [r EXCEPT !.mask = {c}, !.run_count = 1, !.interrupt_count = 1]
              IN  s \in JobType /\ Keeps(r, s)
           /\ LET s == [r EXCEPT !.submit_count = [r.submit_count EXCEPT ![c] = r.submit_count[c] + 1]]
              IN  s \in JobType /\ Keeps(r, s)
<1> USE DEF JobType, Keeps, Errno
<1>1. Keeps(r, r)
  OBVIOUS
<1>2. LET s == [r EXCEPT !.life = "freed"] IN s \in JobType /\ Keeps(r, s)
  OBVIOUS
<1>3. LET s == [r EXCEPT !.stamped = TRUE] IN s \in JobType /\ Keeps(r, s)
  OBVIOUS
<1>4. LET s == [r EXCEPT !.run_count = r.run_count - 1] IN s \in JobType /\ Keeps(r, s)
  OBVIOUS
<1>5. LET s == [r EXCEPT !.committed = TRUE, !.int_mask = r.int_mask \cup {c}]
      IN  s \in JobType /\ Keeps(r, s)
  OBVIOUS
<1>6. LET s == [r EXCEPT !.irq_entry = r.irq_entry \cup {c}] IN s \in JobType /\ Keeps(r, s)
  OBVIOUS
<1>7. LET s == [r EXCEPT !.ret = "EINVAL"] IN s \in JobType /\ Keeps(r, s)
  OBVIOUS
<1>8. LET s == [r EXCEPT !.mask = {c}, !.run_count = 1, !.interrupt_count = 1]
      IN  s \in JobType /\ Keeps(r, s)
  <2> DEFINE s1 == [r EXCEPT !.mask = {c}]
             s2 == [s1 EXCEPT !.run_count = 1]
  <2>1. s1 \in JobType /\ Keeps(r, s1)
    OBVIOUS
  <2> HIDE DEF s1
  <2>2. s2 \in JobType /\ Keeps(r, s2)
    BY <2>1
  <2>3. [r EXCEPT !.mask = {c}, !.run_count = 1, !.interrupt_count = 1]
            = [s2 EXCEPT !.interrupt_count = 1]
    BY DEF s1
  <2> HIDE DEF s2
  <2>4. QED
    BY <2>2, <2>3
<1>9. LET s == [r EXCEPT !.submit_count = [r.submit_count EXCEPT ![c] = r.submit_count[c] + 1]]
      IN  s \in JobType /\ Keeps(r, s)
  OBVIOUS
<1>10. QED
  BY <1>1, <1>2, <1>3, <1>4, <1>5, <1>6, <1>7, <1>8, <1>9 DEF JobType

(* The updates that depend on a value: a result, a fence, the completion.  *)
LEMMA JobResults ==
    ASSUME NEW r \in JobType, NEW f \in FenceStates, NEW e \in Errno
    PROVE  /\ LET s == [r EXCEPT !.fence = f] IN s \in JobType /\ Keeps(r, s)
           /\ LET s == [r EXCEPT !.ret = "0", !.fence = f]
              IN  s \in JobType /\ (r.done = TRUE => Keeps(r, s))
           /\ LET s == [r EXCEPT !.interrupt_count = r.interrupt_count - 1, !.done = TRUE]
              IN  s \in JobType /\ Keeps(r, s) /\ s.done = TRUE
           /\ LET s == [r EXCEPT !.interrupt_count = r.interrupt_count - 1]
              IN  s \in JobType /\ Keeps(r, s)
           /\ LET s == [r EXCEPT !.ret = e]
              IN  /\ s \in JobType
                  /\ r.nonblock = FALSE /\ (e = "0" => r.done = TRUE) /\ e # "ENOMEM"
                        /\ e # "ERESTARTSYS" => Keeps(r, s)
<1> USE DEF JobType, Keeps, Errno
<1>1. LET s == [r EXCEPT !.fence = f] IN s \in JobType /\ Keeps(r, s)
  OBVIOUS
<1>2. LET s == [r EXCEPT !.ret = "0", !.fence = f]
      IN  s \in JobType /\ (r.done = TRUE => Keeps(r, s))
  OBVIOUS
<1>3. LET s == [r EXCEPT !.interrupt_count = r.interrupt_count - 1, !.done = TRUE]
      IN  s \in JobType /\ Keeps(r, s) /\ s.done = TRUE
  <2>1. PICK x \in Int : x = r.interrupt_count - 1
    OBVIOUS
  <2>2. LET s == [r EXCEPT !.interrupt_count = x, !.done = TRUE]
        IN  s \in JobType /\ Keeps(r, s) /\ s.done = TRUE
    OBVIOUS
  <2>3. QED
    BY <2>1, <2>2
<1>6. LET s == [r EXCEPT !.interrupt_count = r.interrupt_count - 1]
      IN  s \in JobType /\ Keeps(r, s)
  OBVIOUS
<1>4. LET s == [r EXCEPT !.ret = e]
      IN  /\ s \in JobType
          /\ r.nonblock = FALSE /\ (e = "0" => r.done = TRUE) /\ e # "ENOMEM"
                /\ e # "ERESTARTSYS" => Keeps(r, s)
  OBVIOUS
<1>5. QED
  BY <1>1, <1>2, <1>3, <1>4, <1>6

(* Every job is kept.                                                      *)
JobsKept == job' \in [Jobs -> JobType] /\ \A i \in Jobs : Keeps(job[i], job'[i])

(* One job is written, and the update keeps what Keeps asks for.           *)
LEMMA OneJobKept ==
    ASSUME job \in [Jobs -> JobType], NEW k \in Jobs, NEW s \in JobType, Keeps(job[k], s),
           job' = [job EXCEPT ![k] = s]
    PROVE  JobsKept /\ job'[k] = s /\ \A i \in Jobs \ {k} : job'[i] = job[i]
<1>1. \A i \in Jobs : job'[i] = IF i = k THEN s ELSE job[i]
  OBVIOUS
<1>2. \A i \in Jobs : Keeps(job[i], job[i])
  BY DEF Keeps
<1>3. QED
  BY <1>1, <1>2 DEF JobsKept

(* Nothing happens to the jobs.                                            *)
LEMMA NoJobChanged == ASSUME job \in [Jobs -> JobType], UNCHANGED job PROVE JobsKept
BY DEF Keeps, JobsKept

----------------------------------------------------------------------------
(* What a step leaves of the parts of the invariant.                       *)

(* Another thread i is not touched, or woken up.                           *)
Steady(i) ==
    local'[i] = local[i] /\ (pc'[i] = pc[i] \/ (pc[i] = "asleep" /\ pc'[i] = "wait"))

(* Queues and cores only lose jobs.                                        *)
QueuesThin ==
    \A c \in Cores : Thins(todo[c], todo'[c]) /\ (cur'[c] = cur[c] \/ cur'[c] = NoJob)

(* Nobody learns of a job.                                                 *)
NoneLearnt == \A i \in Jobs : Unknown(i) => Unknown(i)'

(* A thread that is steady still fits, and its job is no less queued.      *)
LEMMA SteadyFits ==
    ASSUME IInv, NEW i \in Jobs, Keeps(job[i], job'[i]), Steady(i)
    PROVE  ThreadFits(i)' /\ ResultFits(i)' /\ (Unqueued(i)' => Unqueued(i))
<1>1. ThreadFits(i) /\ ResultFits(i)
  BY DEF IInv, Fits, ThreadsFit, ResultsFit
<1>2. Keeps(job[i], job'[i])
  OBVIOUS
<1>3. job[i].nonblock \in BOOLEAN /\ job'[i].nonblock = job[i].nonblock
  BY <1>2 DEF IInv, TypeOK, JobType, Keeps
<1>4. Cleaning(i)' => Cleaning(i)
  BY <1>3 DEF Steady, Cleaning, ResetLabels
<1>5. Unqueued(i)' => Unqueued(i)
  BY <1>4 DEF Steady, Unqueued
<1>6. ThreadFits(i)'
  BY <1>1, <1>2, <1>3, <1>4 DEF ThreadFits, Steady, Keeps
<1>7. ResultFits(i)'
  BY <1>1, <1>2, <1>3 DEF ResultFits, Steady, Keeps
<1>8. QED
  BY <1>5, <1>6, <1>7

(* Handlers that do not move still fit.                                    *)
LEMMA HandlersStay == ASSUME IInv, JobsKept, UNCHANGED irq PROVE HandlersFit'
<1> SUFFICES ASSUME NEW c \in Cores PROVE HandlerFits(c)'
  BY DEF HandlersFit
<1>1. HandlerFits(c)
  BY DEF IInv, Fits, HandlersFit
<1>2. irq[c].at = "signal" => irq[c].job \in Jobs
  BY <1>1 DEF HandlerFits
<1>3. irq[c].at = "signal" => job'[irq[c].job].done = TRUE
  BY <1>1, <1>2 DEF HandlerFits, JobsKept, Keeps
<1>4. QED
  BY <1>1, <1>3 DEF HandlerFits

(* So do calls of rknpu_job_next.                                          *)
LEMMA CallsStay == ASSUME IInv, UNCHANGED nx PROVE CallsFit'
BY DEF IInv, Fits, CallsFit, CallFits

(* Thinner queues hold a job at most once and in no other order.           *)
LEMMA ThinQueues ==
    ASSUME IInv, QueuesThin, todo' \in [Cores -> Seq(Jobs)]
    PROVE  Once' /\ GangNeverCrossed'
<1>1. ASSUME NEW c \in Cores
      PROVE  \E f \in [DOMAIN todo'[c] -> DOMAIN todo[c]] :
                /\ \A n \in DOMAIN todo'[c] : todo'[c][n] = todo[c][f[n]]
                /\ \A m, n \in DOMAIN todo'[c] : m < n => f[m] < f[n]
  BY DEF QueuesThin, Thins
<1>2. ASSUME NEW c \in Cores
      PROVE  \A n \in DOMAIN todo[c] : n \in Nat /\ todo[c][n] \in Jobs
  BY DEF IInv, TypeOK, CoresTypeOK
<1>3. ASSUME NEW c \in Cores
      PROVE  \A n \in DOMAIN todo'[c] : n \in Nat /\ todo'[c][n] \in Jobs
  <2>1. todo'[c] \in Seq(Jobs)
    OBVIOUS
  <2>2. QED
    BY <2>1
<1>4. NoJob \notin Jobs
  BY JobAssumption
<1>5. ASSUME NEW c \in Cores
      PROVE  /\ \A m, n \in DOMAIN todo'[c] : todo'[c][m] = todo'[c][n] => m = n
             /\ \A n \in DOMAIN todo'[c] : todo'[c][n] # cur'[c]
  <2>1. PICK f \in [DOMAIN todo'[c] -> DOMAIN todo[c]] :
                /\ \A n \in DOMAIN todo'[c] : todo'[c][n] = todo[c][f[n]]
                /\ \A m, n \in DOMAIN todo'[c] : m < n => f[m] < f[n]
    BY <1>1
  <2>2. ASSUME NEW m \in DOMAIN todo'[c], NEW n \in DOMAIN todo'[c], todo'[c][m] = todo'[c][n]
        PROVE  m = n
    <3>1. f[m] \in DOMAIN todo[c] /\ f[n] \in DOMAIN todo[c] /\ todo[c][f[m]] = todo[c][f[n]]
      BY <2>1, <2>2
    <3>2. f[m] = f[n] /\ f[m] \in Nat
      BY <1>2, <3>1 DEF IInv, Once
    <3>3. m \in Nat /\ n \in Nat /\ (m < n => f[m] < f[n]) /\ (n < m => f[n] < f[m])
      BY <1>3, <2>1
    <3>4. QED
      BY <3>2, <3>3
  <2>3. ASSUME NEW n \in DOMAIN todo'[c] PROVE todo'[c][n] # cur'[c]
    <3>1. f[n] \in DOMAIN todo[c] /\ todo'[c][n] = todo[c][f[n]]
      BY <2>1
    <3>2. todo[c][f[n]] # cur[c] /\ todo[c][f[n]] # NoJob
      BY <1>2, <1>4, <3>1 DEF IInv, Once
    <3>3. QED
      BY <3>1, <3>2 DEF QueuesThin
  <2>4. QED
    BY <2>2, <2>3
<1>6. ASSUME NEW j \in Jobs, NEW k \in Jobs, NEW c \in Cores, Ahead(j, k, c)'
      PROVE  Ahead(j, k, c)
  <2>1. PICK f \in [DOMAIN todo'[c] -> DOMAIN todo[c]] :
                /\ \A n \in DOMAIN todo'[c] : todo'[c][n] = todo[c][f[n]]
                /\ \A m, n \in DOMAIN todo'[c] : m < n => f[m] < f[n]
    BY <1>1
  <2>2. CASE cur'[c] = j /\ k \in ToSet(todo'[c])
    <3>1. cur[c] = j
      BY <1>4, <2>2 DEF QueuesThin
    <3>2. PICK n \in DOMAIN todo'[c] : k = todo'[c][n]
      BY <2>2 DEF ToSet
    <3>3. f[n] \in DOMAIN todo[c] /\ k = todo[c][f[n]]
      BY <2>1, <3>2
    <3>4. QED
      BY <3>1, <3>3 DEF Ahead, ToSet
  <2>3. CASE \E m, n \in DOMAIN todo'[c] : m < n /\ todo'[c][m] = j /\ todo'[c][n] = k
    <3>1. PICK m \in DOMAIN todo'[c], n \in DOMAIN todo'[c] :
                m < n /\ todo'[c][m] = j /\ todo'[c][n] = k
      BY <2>3
    <3>2. f[m] \in DOMAIN todo[c] /\ f[n] \in DOMAIN todo[c] /\ f[m] < f[n]
              /\ todo[c][f[m]] = j /\ todo[c][f[n]] = k
      BY <2>1, <3>1
    <3>3. QED
      BY <3>2 DEF Ahead
  <2>4. QED
    BY <1>6, <2>2, <2>3 DEF Ahead
<1>7. Once'
  BY <1>5 DEF Once
<1>8. GangNeverCrossed'
  BY <1>6 DEF IInv, GangNeverCrossed
<1>9. QED
  BY <1>7, <1>8

(* Queues and cores that stay as they are are as thin.                     *)
LEMMA QueuesStay ==
    ASSUME IInv, UNCHANGED <<cur, todo>>
    PROVE  Once' /\ GangNeverCrossed' /\ todo' \in [Cores -> Seq(Jobs)] /\ QueuesThin
<1>1. todo' \in [Cores -> Seq(Jobs)]
  BY DEF IInv, TypeOK, CoresTypeOK
<1>2. QueuesThin
  BY SameThins DEF QueuesThin, IInv, TypeOK, CoresTypeOK
<1>3. QED
  BY <1>1, <1>2, ThinQueues

(* The parts of the invariant, put together: the thread of j moves, the    *)
(* others are steady, and nobody learns of a job.                          *)
LEMMA ThreadMoves ==
    ASSUME IInv, NEW j \in Jobs, JobsKept, TypeOK', Once', GangNeverCrossed',
           CallsFit', HandlersFit', NoneLearnt,
           \A i \in Jobs \ {j} : Steady(i),
           ThreadFits(j)', ResultFits(j)', Unqueued(j)' => Unqueued(j)
    PROVE  IInv'
<1>1. \A i \in Jobs : ThreadFits(i)' /\ ResultFits(i)' /\ (Unqueued(i)' => Unqueued(i))
  BY SteadyFits DEF JobsKept
<1>2. Fresh'
  BY <1>1 DEF Fresh, NoneLearnt, IInv, Fits
<1>3. QED
  BY <1>1, <1>2 DEF IInv, Fits, ThreadsFit, ResultsFit

(* A step of nobody's thread.                                              *)
LEMMA OthersMove ==
    ASSUME IInv, JobsKept, TypeOK', Once', GangNeverCrossed',
           CallsFit', HandlersFit', NoneLearnt, \A i \in Jobs : Steady(i)
    PROVE  IInv'
<1>1. \A i \in Jobs : ThreadFits(i)' /\ ResultFits(i)' /\ (Unqueued(i)' => Unqueued(i))
  BY SteadyFits DEF JobsKept
<1>2. Fresh'
  BY <1>1 DEF Fresh, NoneLearnt, IInv, Fits
<1>3. QED
  BY <1>1, <1>2 DEF IInv, Fits, ThreadsFit, ResultsFit

(* A thread that keeps to its own variables, and to thinning the queues,   *)
(* teaches nobody of a job.                                                *)
LEMMA KeepsToItself ==
    ASSUME IInv, NEW j \in Jobs, QueuesThin, UNCHANGED <<irq, nx, work>>,
           \A c \in Cores : hw'[c].job = hw[c].job \/ hw'[c].job = NoJob,
           \A i \in Jobs \ {j} : local'[i] = local[i],
           local'[j].victim = local[j].victim \/ local'[j].victim = NoJob
    PROVE  NoneLearnt
<1> SUFFICES ASSUME NEW i \in Jobs, Unknown(i) PROVE Unknown(i)'
  BY DEF NoneLearnt
<1>1. NoJob \notin Jobs
  BY JobAssumption
<1>2. ASSUME NEW c \in Cores, NEW n \in DOMAIN todo'[c] PROVE todo'[c][n] # i
  <2>1. PICK f \in [DOMAIN todo'[c] -> DOMAIN todo[c]] :
            \A m \in DOMAIN todo'[c] : todo'[c][m] = todo[c][f[m]]
    BY DEF QueuesThin, Thins
  <2>2. f[n] \in DOMAIN todo[c] /\ todo'[c][n] = todo[c][f[n]]
    BY <2>1
  <2>3. QED
    BY <2>2 DEF Unknown
<1>3. \A c \in Cores : cur'[c] # i /\ irq'[c].job # i /\ hw'[c].job # i
  BY <1>1 DEF QueuesThin, Unknown
<1>4. QED
  BY <1>1, <1>2, <1>3 DEF Unknown

(* The local variables a thread may come to,                               *)
LEMMA LocalUpdates ==
    ASSUME NEW v \in LocalType, NEW C \in SUBSET Cores
    PROVE  /\ [v EXCEPT !.rest = C] \in LocalType /\ [v EXCEPT !.rest = C].victim = v.victim
           /\ [v EXCEPT !.rest = C].ret = v.ret
           /\ [v EXCEPT !.victim = NoJob, !.rest = C] \in LocalType
<1>1. /\ [v EXCEPT !.rest = C] \in LocalType /\ [v EXCEPT !.rest = C].victim = v.victim
      /\ [v EXCEPT !.rest = C].ret = v.ret
  BY DEF LocalType
<1>2. [v EXCEPT !.victim = NoJob, !.rest = C] \in LocalType
  BY DEF LocalType
<1>3. QED
  BY <1>1, <1>2

(* among them those of a thread that returns.                              *)
LEMMA ReturnLocal ==
    ASSUME NEW e \in Errno
    PROVE  /\ [NewLocal EXCEPT !.ret = e] \in LocalType
           /\ [NewLocal EXCEPT !.ret = e].victim = NoJob /\ [NewLocal EXCEPT !.ret = e].ret = e
BY DEF LocalType, NewLocal

(* The thread of j goes to l with the local variables v, and does nothing  *)
(* that the others would see but to jobs, to soft_reseting, to the count   *)
(* of domain users and to the hardware, and to take jobs off the cores.    *)
LEMMA OwnMove ==
    ASSUME IInv, NEW j \in Jobs, NEW v \in LocalType, NEW l \in Labels, JobsKept,
           pc' = [pc EXCEPT ![j] = l], local' = [local EXCEPT ![j] = v],
           v.victim = local[j].victim \/ v.victim = NoJob,
           QueuesThin, CoresTypeOK', HardwareTypeOK', UNCHANGED <<work, irq, nx>>,
           \A c \in Cores : hw'[c].job = hw[c].job \/ hw'[c].job = NoJob,
           ThreadFits(j)', ResultFits(j)', Unqueued(j)' => Unqueued(j)
    PROVE  IInv'
<1>1. /\ local' \in [Jobs -> LocalType] /\ local'[j] = v
      /\ \A i \in Jobs \ {j} : local'[i] = local[i]
  BY DEF IInv, TypeOK
<1>2. pc' \in [Jobs -> Labels] /\ \A i \in Jobs \ {j} : pc'[i] = pc[i]
  BY DEF IInv, TypeOK
<1>3. \A i \in Jobs \ {j} : Steady(i)
  BY <1>1, <1>2 DEF Steady
<1>4. TypeOK'
  <2>1. irq' \in [Cores -> IrqType] /\ nx' \in [Executors -> NextType]
    BY DEF IInv, TypeOK
  <2>2. QED
    BY <1>1, <1>2, <2>1 DEF TypeOK, JobsKept
<1>5. NoneLearnt
  BY <1>1, KeepsToItself
<1>6. CallsFit' /\ HandlersFit'
  BY CallsStay, HandlersStay
<1>7. Once' /\ GangNeverCrossed'
  BY ThinQueues DEF CoresTypeOK
<1>8. QED
  BY <1>3, <1>4, <1>5, <1>6, <1>7, ThreadMoves

(* The same for a thread that touches the hardware no more than the rest.  *)
LEMMA QuietMove ==
    ASSUME IInv, NEW j \in Jobs, NEW v \in LocalType, NEW l \in Labels, JobsKept,
           pc' = [pc EXCEPT ![j] = l], local' = [local EXCEPT ![j] = v],
           v.victim = local[j].victim \/ v.victim = NoJob,
           UNCHANGED <<coreVars, work, irq, nx, hwVars>>,
           soft_reseting' \in BOOLEAN, domref' \in Int,
           ThreadFits(j)', ResultFits(j)', Unqueued(j)' => Unqueued(j)
    PROVE  IInv'
<1>1. HardwareTypeOK' /\ \A c \in Cores : hw'[c].job = hw[c].job
  BY DEF IInv, TypeOK, HardwareTypeOK, hwVars
<1>2. CoresTypeOK' /\ QueuesThin
  BY QueuesStay DEF IInv, TypeOK, CoresTypeOK, coreVars
<1>3. QED
  BY <1>1, <1>2, OwnMove

(* A thread that goes on and changes only its place.                       *)
LEMMA GoesOn ==
    ASSUME IInv, NEW j \in Jobs, NEW l \in Labels, JobsKept, Goto(j, l),
           UNCHANGED <<coreVars, work, local, irq, nx, hwVars>>,
           soft_reseting' \in BOOLEAN, domref' \in Int,
           ThreadFits(j)', ResultFits(j)', Unqueued(j)' => Unqueued(j)
    PROVE  IInv'
<1>1. local[j] \in LocalType /\ local' = [local EXCEPT ![j] = local[j]]
  BY DEF IInv, TypeOK
<1>2. pc' = [pc EXCEPT ![j] = l]
  BY DEF Goto
<1>3. QED
  BY <1>1, <1>2, QuietMove

----------------------------------------------------------------------------
(* The steps of a thread.                                                  *)

(* What is known of the thread that moves and of its job.                  *)
LEMMA ThreadFacts ==
    ASSUME IInv, NEW j \in Jobs
    PROVE  /\ job[j] \in JobType /\ local[j] \in LocalType /\ pc[j] \in Labels
           /\ job[j].nonblock \in BOOLEAN /\ job[j].ret \in Errno
           /\ local[j].rest \in SUBSET Cores
           /\ ThreadFits(j) /\ ResultFits(j)
           /\ soft_reseting \in BOOLEAN /\ domref \in Int
           /\ job \in [Jobs -> JobType]
BY DEF IInv, TypeOK, CoresTypeOK, Fits, ThreadsFit, ResultsFit, JobType, LocalType

(* Scheduled keeps the invariant: only a blocking submit goes on to wait.  *)
LEMMA ScheduledStep == ASSUME IInv, NEW j \in Jobs, Scheduled(j) PROVE IInv'
<1>1. JobsKept
  BY ThreadFacts, NoJobChanged DEF Scheduled
<1>2. CASE job[j].nonblock = TRUE
  <2> DEFINE v == [NewLocal EXCEPT !.ret = job[j].ret]
             l == IF job[j].ret = "0" THEN "ret" ELSE "abort"
  <2>1. v \in LocalType /\ v.victim = NoJob /\ l \in Labels
    BY ThreadFacts, ReturnLocal DEF Labels
  <2>2. local' = [local EXCEPT ![j] = v] /\ pc' = [pc EXCEPT ![j] = l]
    BY <1>2 DEF Scheduled, Goto
  <2>3. pc'[j] = l /\ job'[j] = job[j]
    BY <2>2 DEF Scheduled, IInv, TypeOK
  <2>4. ThreadFits(j)' /\ ResultFits(j)' /\ ~Unqueued(j)'
    BY <1>2, <2>3, ThreadFacts DEF ThreadFits, ResultFits, Cleaning, Unqueued, ResetLabels
  <2>5. QED
    BY <1>1, <2>1, <2>2, <2>4, ThreadFacts, QuietMove DEF Scheduled, devVars
<1>3. CASE job[j].nonblock = FALSE
  <2> DEFINE l == IF job[j].pc_mode THEN "wait" ELSE "decide"
  <2>1. l \in Labels /\ Goto(j, l)
    BY <1>3 DEF Labels, Scheduled
  <2>2. pc'[j] = l /\ job'[j] = job[j] /\ local'[j] = local[j]
    BY <1>3, <2>1 DEF Scheduled, IInv, TypeOK, Goto
  <2>3. ThreadFits(j)' /\ ResultFits(j)' /\ ~Unqueued(j)'
    BY <1>3, <2>2, ThreadFacts DEF ThreadFits, ResultFits, Cleaning, Unqueued, ResetLabels
  <2>4. QED
    BY <1>1, <1>3, <2>1, <2>3, ThreadFacts, GoesOn DEF Scheduled, devVars
<1>4. QED
  BY <1>2, <1>3, ThreadFacts

(* FenceIn keeps the invariant: the job stays with its thread.             *)
LEMMA FenceInStep == ASSUME IInv, NEW j \in Jobs, FenceIn(j) PROVE IInv'
<1>1. JobsKept /\ job' = job
  BY ThreadFacts, NoJobChanged DEF FenceIn
<1>2. pc[j] = "fence_in" /\ Unqueued(j)
  BY DEF FenceIn, Unqueued
<1> DEFINE l == IF job[j].out THEN "fence_out" ELSE AfterFences(job[j])
<1>3. CASE Goto(j, l) /\ UNCHANGED local
  <2>1. l \in Labels /\ l \in {"fence_out", "clean", "sched"}
             /\ (l = "clean" => job[j].nonblock = TRUE)
    BY ThreadFacts DEF Labels, AfterFences
  <2>2. pc'[j] = l /\ local'[j] = local[j]
    BY <1>3 DEF Goto, IInv, TypeOK
  <2> HIDE DEF l
  <2>3. ThreadFits(j)' /\ ResultFits(j)'
    BY <1>1, <1>2, <2>1, <2>2, ThreadFacts DEF ThreadFits, ResultFits, Cleaning, ResetLabels
  <2>4. QED
    BY <1>1, <1>2, <1>3, <2>1, <2>3, ThreadFacts, GoesOn DEF FenceIn, devVars
<1>4. CASE \E e \in {"EINVAL", "ERESTARTSYS"} : SubmitFails(j, e)
  <2>1. PICK e \in {"EINVAL", "ERESTARTSYS"} : SubmitFails(j, e)
    BY <1>4
  <2>2. e \in Errno /\ "ret" \in Labels
    BY DEF Errno, Labels
  <2>3. /\ [NewLocal EXCEPT !.ret = e] \in LocalType
        /\ [NewLocal EXCEPT !.ret = e].victim = NoJob /\ [NewLocal EXCEPT !.ret = e].ret = e
    BY <2>2, ReturnLocal
  <2>4. local' = [local EXCEPT ![j] = [NewLocal EXCEPT !.ret = e]] /\ pc' = [pc EXCEPT ![j] = "ret"]
    BY <2>1 DEF SubmitFails, Goto
  <2>5. pc'[j] = "ret" /\ local'[j].ret = e
    BY <2>3, <2>4 DEF IInv, TypeOK
  <2>6. ThreadFits(j)' /\ ResultFits(j)'
    BY <1>1, <2>5, ThreadFacts DEF ThreadFits, ResultFits, Cleaning, ResetLabels
  <2>7. QED
    BY <1>1, <1>2, <2>2, <2>3, <2>4, <2>6, ThreadFacts, QuietMove DEF FenceIn, devVars
<1>5. QED
  BY <1>3, <1>4 DEF FenceIn

(* So does FenceOut.                                                       *)
LEMMA FenceOutStep == ASSUME IInv, NEW j \in Jobs, FenceOut(j) PROVE IInv'
<1>1. pc[j] = "fence_out" /\ Unqueued(j)
  BY DEF FenceOut, Unqueued
<1>2. PICK f \in NewFence :
          IF f = "none"
          THEN /\ SubmitFails(j, "ENOMEM")
               /\ job' = [job EXCEPT ![j].life = "freed"]
          ELSE /\ job' = [job EXCEPT ![j].fence = f]
               /\ Goto(j, AfterFences(job[j]))
               /\ UNCHANGED local
  BY DEF FenceOut
<1>3. CASE f = "none"
  <2>1. SubmitFails(j, "ENOMEM") /\ job' = [job EXCEPT ![j].life = "freed"]
    BY <1>2, <1>3
  <2>2. JobsKept
    <3> DEFINE s == [job[j] EXCEPT !.life = "freed"]
    <3>1. s \in JobType /\ Keeps(job[j], s)
      BY ThreadFacts, JobUpdates, ZeroCore
    <3>2. job' = [job EXCEPT ![j] = s]
      BY <2>1
    <3> HIDE DEF s
    <3>3. QED
      BY <3>1, <3>2, ThreadFacts, OneJobKept
  <2>3. "ENOMEM" \in Errno /\ "ret" \in Labels
    BY DEF Errno, Labels
  <2> DEFINE v == [NewLocal EXCEPT !.ret = "ENOMEM"]
  <2>4. v \in LocalType /\ v.victim = NoJob /\ v.ret = "ENOMEM"
    BY <2>3, ReturnLocal
  <2>5. local' = [local EXCEPT ![j] = v] /\ pc' = [pc EXCEPT ![j] = "ret"]
    BY <2>1 DEF SubmitFails, Goto
  <2> HIDE DEF v
  <2>6. pc'[j] = "ret" /\ local'[j].ret = "ENOMEM"
    BY <2>4, <2>5 DEF IInv, TypeOK
  <2>7. ThreadFits(j)' /\ ResultFits(j)'
    BY <2>2, <2>6, ThreadFacts DEF ThreadFits, ResultFits, Cleaning, ResetLabels, JobsKept, Keeps
  <2>8. QED
    BY <1>1, <2>2, <2>3, <2>4, <2>5, <2>7, ThreadFacts, QuietMove DEF FenceOut, devVars
<1>4. CASE f # "none"
  <2> DEFINE l == AfterFences(job[j])
  <2>1. job' = [job EXCEPT ![j].fence = f] /\ Goto(j, l) /\ UNCHANGED local
    BY <1>2, <1>4
  <2>2. f \in FenceStates
    BY SMTT(30) DEF NewFence, FenceStates
  <2>3. JobsKept
    <3> DEFINE s == [job[j] EXCEPT !.fence = f]
    <3>1. s \in JobType /\ Keeps(job[j], s)
      BY <2>2, ThreadFacts, JobResults DEF Errno
    <3>2. job' = [job EXCEPT ![j] = s]
      BY <2>1
    <3> HIDE DEF s
    <3>3. QED
      BY <3>1, <3>2, ThreadFacts, OneJobKept
  <2>4. l \in Labels /\ l \in {"clean", "sched"} /\ (l = "clean" => job[j].nonblock = TRUE)
    BY ThreadFacts DEF Labels, AfterFences
  <2> HIDE DEF l
  <2>5. pc'[j] = l /\ local'[j] = local[j]
    BY <2>1 DEF Goto, IInv, TypeOK
  <2>6. ThreadFits(j)' /\ ResultFits(j)'
    BY ZenonT(40), <1>1, <2>3, <2>4, <2>5, ThreadFacts
       DEF ThreadFits, ResultFits, Cleaning, ResetLabels, JobsKept, Keeps
  <2>7. QED
    BY <1>1, <2>1, <2>3, <2>4, <2>6, ThreadFacts, GoesOn DEF FenceOut, devVars
<1>5. QED
  BY <1>3, <1>4

(* Keeping twice is keeping.                                               *)
LEMMA KeepsTwice ==
    ASSUME NEW r \in JobType, NEW s \in JobType, NEW t \in JobType, Keeps(r, s), Keeps(s, t)
    PROVE  Keeps(r, t)
BY DEF Keeps

(* Schedule keeps the invariant.                                           *)
LEMMA ScheduleStep == ASSUME IInv, NEW j \in Jobs, Schedule(j) PROVE IInv'
<1>1. pc[j] = "sched" /\ Unqueued(j)
  BY DEF Schedule, Unqueued
<1> DEFINE placed == IF job[j].mask # {} THEN job[j]
                     ELSE [job[j] EXCEPT !.mask = {ScheduleCore}, !.run_count = 1,
                                         !.interrupt_count = 1]
<1>2. placed \in JobType /\ Keeps(job[j], placed)
  <2>1. ScheduleCore \in Cores
    BY ScheduleCoreIsCore DEF IInv, TypeOK, CoresTypeOK
  <2>2. QED
    BY Zenon, <2>1, ThreadFacts, JobUpdates
<1>3. \/ /\ job' = [job EXCEPT ![j] = placed]
         /\ domref' = domref + 1
         /\ Goto(j, "enqueue")
      \/ /\ job' = [job EXCEPT ![j] = [placed EXCEPT !.ret = "EINVAL"]]
         /\ Goto(j, "scheduled")
         /\ UNCHANGED domref
  BY DEF Schedule
<1> HIDE DEF placed
<1>4. PICK s \in JobType : Keeps(job[j], s) /\ job' = [job EXCEPT ![j] = s]
  <2>1. [placed EXCEPT !.ret = "EINVAL"] \in JobType /\ Keeps(placed, [placed EXCEPT !.ret = "EINVAL"])
    BY Zenon, <1>2, JobUpdates, ZeroCore
  <2>2. Keeps(job[j], [placed EXCEPT !.ret = "EINVAL"])
    BY <1>2, <2>1, ThreadFacts, KeepsTwice
  <2>3. QED
    BY <1>2, <1>3, <2>1, <2>2
<1>5. JobsKept
  BY <1>4, ThreadFacts, OneJobKept
<1>6. PICK l \in {"enqueue", "scheduled"} : Goto(j, l)
  BY <1>3
<1>7. l \in Labels /\ domref' \in Int
  BY <1>3, ThreadFacts DEF Labels
<1>8. pc'[j] = l /\ local'[j] = local[j]
  BY <1>6 DEF Goto, IInv, TypeOK, Schedule
<1>9. ThreadFits(j)' /\ ResultFits(j)'
  BY ZenonT(40), <1>1, <1>5, <1>8, ThreadFacts
     DEF ThreadFits, ResultFits, Cleaning, ResetLabels, JobsKept, Keeps
<1>10. QED
  BY <1>1, <1>5, <1>6, <1>7, <1>9, ThreadFacts, GoesOn DEF Schedule

(* A round of the wait ends in another one or in its result.               *)
LEMMA WaitRoundFits ==
    ASSUME IInv, NEW j \in Jobs, NEW b \in BOOLEAN, WaitRound(j, b), pc[j] \in {"wait", "asleep"},
           UNCHANGED <<job, coreVars, devVars, irq, nx, hwVars>>
    PROVE  IInv'
<1>1. JobsKept
  BY ThreadFacts, NoJobChanged
<1>2. PICK n \in Nat : n = WaitsCounted(j)
  BY ThreadFacts DEF WaitsCounted, LocalType
<1> DEFINE v == [local[j] EXCEPT !.waits = n, !.expired = b]
<1>3. local' = [local EXCEPT ![j] = v]
  BY <1>2, ThreadFacts DEF WaitRound, IInv, TypeOK
<1>4. v \in LocalType /\ v.victim = local[j].victim /\ v.ret = local[j].ret
  BY ThreadFacts DEF LocalType
<1> HIDE DEF v
<1>5. PICK l \in {"wait", "waited"} : pc' = [pc EXCEPT ![j] = l]
  BY DEF WaitRound, Goto
<1>6. l \in Labels
  BY DEF Labels
<1>7. pc'[j] = l /\ local'[j].ret = local[j].ret /\ job[j].nonblock = FALSE
  BY <1>3, <1>4, <1>5, ThreadFacts DEF IInv, TypeOK, ThreadFits
<1>8. ThreadFits(j)' /\ ResultFits(j)' /\ ~Unqueued(j)'
  BY <1>7, ThreadFacts DEF ThreadFits, ResultFits, Cleaning, ResetLabels, Unqueued
<1>9. QED
  BY <1>1, <1>3, <1>4, <1>5, <1>6, <1>8, ThreadFacts, QuietMove DEF devVars

(* WaitCheck keeps the invariant.                                          *)
LEMMA WaitCheckStep == ASSUME IInv, NEW j \in Jobs, WaitCheck(j) PROVE IInv'
<1>1. CASE WaitRound(j, FALSE)
  BY <1>1, WaitRoundFits DEF WaitCheck
<1>2. CASE Goto(j, "asleep") /\ UNCHANGED local
  <2>1. JobsKept
    BY ThreadFacts, NoJobChanged DEF WaitCheck
  <2>2. "asleep" \in Labels /\ pc'[j] = "asleep" /\ job[j].nonblock = FALSE /\ job' = job
    BY <1>2, ThreadFacts DEF Labels, WaitCheck, Goto, IInv, TypeOK, ThreadFits
  <2>3. ThreadFits(j)' /\ ResultFits(j)' /\ ~Unqueued(j)'
    BY <1>2, <2>2, ThreadFacts DEF ThreadFits, ResultFits, Cleaning, ResetLabels, Unqueued
  <2>4. QED
    BY <1>2, <2>1, <2>2, <2>3, ThreadFacts, GoesOn DEF WaitCheck, devVars
<1>3. QED
  BY <1>1, <1>2 DEF WaitCheck

(* So does WaitTimeout.                                                    *)
LEMMA WaitTimeoutStep == ASSUME IInv, NEW j \in Jobs, WaitTimeout(j) PROVE IInv'
<1>1. (~WaitOver(j)) \in BOOLEAN
  OBVIOUS
<1>2. QED
  BY <1>1, WaitRoundFits DEF WaitTimeout

(* So does Waited: the result is "0" only for a job that is done.          *)
LEMMA WaitedStep == ASSUME IInv, NEW j \in Jobs, Waited(j) PROVE IInv'
<1>1. pc[j] = "waited" /\ job[j].nonblock = FALSE
  BY ThreadFacts DEF Waited, ThreadFits
<1>2. CASE job' = [job EXCEPT ![j].ret = WaitResult(j)] /\ Goto(j, "decide")
  <2> DEFINE e == WaitResult(j)
             s == [job[j] EXCEPT !.ret = e]
  <2>1. e \in Errno /\ (e = "0" => job[j].done = TRUE) /\ e # "ENOMEM" /\ e # "ERESTARTSYS"
    BY ThreadFacts DEF WaitResult, Errno, JobType
  <2> HIDE DEF e
  <2>2. s \in JobType /\ Keeps(job[j], s) /\ s.ret = e /\ s.done = job[j].done
    BY <1>1, <2>1, ThreadFacts DEF JobType, Keeps, Errno
  <2>3. job' = [job EXCEPT ![j] = s]
    BY <1>2 DEF e
  <2> HIDE DEF s
  <2>4. JobsKept /\ job'[j] = s
    BY <2>2, <2>3, ThreadFacts, OneJobKept
  <2>5. "decide" \in Labels /\ pc'[j] = "decide" /\ local'[j] = local[j]
    BY <1>2 DEF Goto, Labels, IInv, TypeOK, Waited
  <2>6. ThreadFits(j)' /\ ResultFits(j)' /\ ~Unqueued(j)'
    BY <1>1, <2>1, <2>2, <2>4, <2>5, ThreadFacts
       DEF ThreadFits, ResultFits, Cleaning, ResetLabels, Unqueued, Keeps
  <2>7. QED
    BY <1>2, <2>4, <2>5, <2>6, ThreadFacts, GoesOn DEF Waited, devVars
<1>3. CASE Goto(j, "unlink") /\ UNCHANGED job
  <2>1. JobsKept
    BY <1>3, ThreadFacts, NoJobChanged
  <2>2. "unlink" \in Labels /\ pc'[j] = "unlink" /\ local'[j] = local[j]
    BY <1>3 DEF Goto, Labels, IInv, TypeOK, Waited
  <2>3. ThreadFits(j)' /\ ResultFits(j)' /\ ~Unqueued(j)'
    BY <1>1, <1>3, <2>2, ThreadFacts DEF ThreadFits, ResultFits, Cleaning, ResetLabels, Unqueued
  <2>4. QED
    BY <1>3, <2>1, <2>2, <2>3, ThreadFacts, GoesOn DEF Waited, devVars
<1>4. QED
  BY <1>2, <1>3 DEF Waited

(* A job that was never committed leaves the queues.                       *)
LEMMA UnlinkStep == ASSUME IInv, NEW j \in Jobs, Unlink(j) PROVE IInv'
<1>1. pc[j] = "unlink" /\ job[j].nonblock = FALSE
  BY ThreadFacts DEF Unlink, ThreadFits
<1> DEFINE s == [job[j] EXCEPT !.ret = "EINVAL"]
<1>2. s \in JobType /\ Keeps(job[j], s) /\ s.ret = "EINVAL"
  BY ZenonT(40), ThreadFacts DEF JobType, Keeps, Errno
<1>3. job' = [job EXCEPT ![j] = s]
  BY DEF Unlink
<1> HIDE DEF s
<1>4. JobsKept /\ job'[j] = s
  BY <1>2, <1>3, ThreadFacts, OneJobKept
<1>5. ASSUME NEW c \in Cores PROVE todo'[c] \in Seq(Jobs) /\ Thins(todo[c], todo'[c])
  <2>1. todo[c] \in Seq(Jobs)
    BY DEF IInv, TypeOK, CoresTypeOK
  <2>2. todo'[c] = RemoveFirst(todo[c], j) \/ todo'[c] = todo[c]
    BY DEF Unlink
  <2>3. QED
    BY <2>1, <2>2, SameThins, RemoveFirstThins
<1>6. QueuesThin
  BY <1>5 DEF QueuesThin, Unlink
<1>7. CoresTypeOK' /\ HardwareTypeOK' /\ hw' = hw
  <2>1. todo' \in [Cores -> Seq(Jobs)]
    BY <1>5 DEF Unlink
  <2>2. QED
    BY <2>1 DEF Unlink, IInv, TypeOK, CoresTypeOK, HardwareTypeOK, devVars, hwVars
<1>8. "decide" \in Labels /\ pc' = [pc EXCEPT ![j] = "decide"] /\ pc'[j] = "decide"
  BY DEF Unlink, Labels, Goto, IInv, TypeOK
<1>9. local' = [local EXCEPT ![j] = local[j]] /\ local'[j] = local[j]
  BY DEF Unlink, IInv, TypeOK
<1>10. ThreadFits(j)' /\ ResultFits(j)' /\ ~Unqueued(j)'
  BY <1>1, <1>2, <1>4, <1>8, <1>9, ThreadFacts
     DEF ThreadFits, ResultFits, Cleaning, ResetLabels, Unqueued, Keeps
<1>11. QED
  BY <1>4, <1>6, <1>7, <1>8, <1>9, <1>10, ThreadFacts, OwnMove DEF Unlink, devVars

(* Decide keeps the invariant: what it passes on is what it read.          *)
LEMMA DecideStep == ASSUME IInv, NEW j \in Jobs, Decide(j) PROVE IInv'
<1>1. JobsKept /\ job' = job
  BY ThreadFacts, NoJobChanged DEF Decide
<1>2. pc[j] = "decide" /\ job[j].nonblock = FALSE
  BY ThreadFacts DEF Decide, ThreadFits
<1> DEFINE v == [NewLocal EXCEPT !.ret = job[j].ret]
           l == IF job[j].ret = "0" THEN "free" ELSE "abort"
<1>3. v \in LocalType /\ v.victim = NoJob /\ v.ret = job[j].ret /\ l \in Labels
          /\ l \in {"free", "abort"}
  BY ThreadFacts, ReturnLocal DEF Labels
<1>4. local' = [local EXCEPT ![j] = v] /\ pc' = [pc EXCEPT ![j] = l]
  BY DEF Decide, Goto
<1> HIDE DEF v, l
<1>5. pc'[j] = l /\ local'[j].ret = job[j].ret
  BY <1>3, <1>4 DEF IInv, TypeOK
<1>6. ThreadFits(j)' /\ ResultFits(j)' /\ ~Unqueued(j)'
  BY <1>1, <1>2, <1>3, <1>5, ThreadFacts
     DEF ThreadFits, ResultFits, Cleaning, Unqueued, ResetLabels
<1>7. QED
  BY <1>1, <1>3, <1>4, <1>6, ThreadFacts, QuietMove DEF Decide, devVars

(* So does FreeJob.                                                        *)
LEMMA FreeJobStep == ASSUME IInv, NEW j \in Jobs, FreeJob(j) PROVE IInv'
<1> DEFINE s == [job[j] EXCEPT !.life = "freed"]
<1>1. s \in JobType /\ Keeps(job[j], s)
  BY ThreadFacts, JobUpdates, ZeroCore
<1>2. job' = [job EXCEPT ![j] = s]
  BY DEF FreeJob
<1> HIDE DEF s
<1>3. JobsKept
  BY <1>1, <1>2, ThreadFacts, OneJobKept
<1>4. "ret" \in Labels /\ Goto(j, "ret") /\ pc'[j] = "ret" /\ local'[j] = local[j] /\ pc[j] = "free"
  BY DEF FreeJob, Labels, Goto, IInv, TypeOK
<1>5. ThreadFits(j)' /\ ResultFits(j)' /\ ~Unqueued(j)'
  BY ZenonT(40), <1>3, <1>4, ThreadFacts
     DEF ThreadFits, ResultFits, Cleaning, Unqueued, ResetLabels, JobsKept, Keeps
<1>6. QED
  BY <1>3, <1>4, <1>5, ThreadFacts, GoesOn DEF FreeJob, devVars

(* So does Abort.                                                          *)
LEMMA AbortStep == ASSUME IInv, NEW j \in Jobs, Abort(j) PROVE IInv'
<1>1. JobsKept /\ job' = job
  BY ThreadFacts, NoJobChanged DEF Abort
<1>2. "clear" \in Labels /\ Goto(j, "clear") /\ pc'[j] = "clear" /\ local'[j] = local[j]
          /\ pc[j] = "abort"
  BY DEF Abort, Labels, Goto, IInv, TypeOK
<1>3. ThreadFits(j)' /\ ResultFits(j)' /\ ~Unqueued(j)'
  BY <1>1, <1>2, ThreadFacts DEF ThreadFits, ResultFits, Cleaning, Unqueued, ResetLabels
<1>4. domref' \in Int
  BY ThreadFacts DEF Abort
<1>5. QED
  BY <1>1, <1>2, <1>3, <1>4, ThreadFacts, GoesOn DEF Abort

(* So does AbortClear, which takes cores from the job.                     *)
LEMMA AbortClearStep == ASSUME IInv, NEW j \in Jobs, AbortClear(j) PROVE IInv'
<1>1. JobsKept /\ job' = job
  BY ThreadFacts, NoJobChanged DEF AbortClear
<1>2. "cleared" \in Labels /\ pc' = [pc EXCEPT ![j] = "cleared"] /\ pc'[j] = "cleared"
          /\ pc[j] = "clear"
  BY DEF AbortClear, Labels, Goto, IInv, TypeOK
<1>3. local' = [local EXCEPT ![j] = local[j]] /\ local'[j] = local[j]
  BY DEF AbortClear, IInv, TypeOK
<1>4. ThreadFits(j)' /\ ResultFits(j)' /\ ~Unqueued(j)'
  BY <1>1, <1>2, <1>3, ThreadFacts DEF ThreadFits, ResultFits, Cleaning, Unqueued, ResetLabels
<1>5. \A c \in Cores : cur'[c] = cur[c] \/ cur'[c] = NoJob
  BY DEF AbortClear
<1>6. QueuesThin
  BY <1>5, SameThins DEF QueuesThin, AbortClear, IInv, TypeOK, CoresTypeOK
<1>7. cur' \in [Cores -> Jobs \cup {NoJob}]
  BY DEF AbortClear, IInv, TypeOK, CoresTypeOK
<1>8. task_num' \in [Cores -> Int]
  <2>1. job[j].tasks \in Int /\ task_num \in [Cores -> Int]
    BY ThreadFacts DEF JobType, IInv, TypeOK, CoresTypeOK
  <2>2. QED
    BY <2>1 DEF AbortClear
<1>9. CoresTypeOK' /\ HardwareTypeOK' /\ hw' = hw
  BY <1>7, <1>8 DEF AbortClear, IInv, TypeOK, CoresTypeOK, HardwareTypeOK, devVars, hwVars
<1>10. QED
  BY <1>1, <1>2, <1>3, <1>4, <1>6, <1>9, ThreadFacts, OwnMove DEF AbortClear, devVars

(* So does AbortCleared: only the job of a blocking submit times out.      *)
LEMMA AbortClearedStep == ASSUME IInv, NEW j \in Jobs, AbortCleared(j) PROVE IInv'
<1>1. JobsKept /\ job' = job
  BY ThreadFacts, NoJobChanged DEF AbortCleared
<1>2. PICK l \in {"rst_begin", "free"} :
          Goto(j, l) /\ (l = "rst_begin" => job[j].ret = "ETIMEDOUT")
  BY DEF AbortCleared
<1>3. l \in Labels /\ pc'[j] = l /\ local'[j] = local[j]
  BY <1>2 DEF AbortCleared, Labels, Goto, IInv, TypeOK
<1>4. l = "rst_begin" => job[j].nonblock = FALSE
  BY <1>2, ThreadFacts DEF ThreadFits
<1>5. ThreadFits(j)' /\ ResultFits(j)' /\ ~Unqueued(j)'
  BY <1>1, <1>2, <1>3, <1>4, ThreadFacts
     DEF AbortCleared, ThreadFits, ResultFits, Cleaning, Unqueued, ResetLabels
<1>6. QED
  BY <1>1, <1>2, <1>3, <1>5, ThreadFacts, GoesOn DEF AbortCleared, devVars

(* A thread inside rknpu_soft_reset that goes on to l: within the reset, or *)
(* out of it, a NONBLOCK submit to its victim and a blocking one to the    *)
(* end of its abort.                                                       *)
LEMMA ResetFits ==
    ASSUME IInv, NEW j \in Jobs, pc[j] \in ResetLabels, NEW l \in ResetLabels \cup {AfterReset(j)},
           job' = job, pc'[j] = l, local'[j] = local[j]
    PROVE  /\ l \in Labels /\ ThreadFits(j)' /\ ResultFits(j)' /\ (Unqueued(j)' => Unqueued(j))
<1>1. l \in Labels /\ l \in {"rst_begin", "rst_wake", "rst_ctl", "rst_end", "clean_cur", "free"}
          /\ (l = "clean_cur" => job[j].nonblock = TRUE) /\ (l = "free" => job[j].nonblock = FALSE)
  BY ThreadFacts DEF ResetLabels, AfterReset, Labels
<1>2. Cleaning(j)' => Cleaning(j)
  BY <1>1 DEF Cleaning, ResetLabels
<1>3. ThreadFits(j)' /\ ResultFits(j)'
  BY <1>1, <1>2, ThreadFacts DEF ThreadFits, ResultFits
<1>4. Unqueued(j)' => Unqueued(j)
  BY <1>1, <1>2 DEF Unqueued
<1>5. QED
  BY <1>1, <1>3, <1>4

(* ResetBegin and ResetEnd keep the invariant.                             *)
LEMMA ResetFlagStep == ASSUME IInv, NEW j \in Jobs, ResetBegin(j) \/ ResetEnd(j) PROVE IInv'
<1>1. JobsKept /\ job' = job
  BY ThreadFacts, NoJobChanged DEF ResetBegin, ResetEnd
<1>2. PICK l \in ResetLabels \cup {AfterReset(j)} : Goto(j, l)
  BY DEF ResetBegin, ResetEnd, ResetLabels
<1>3. pc[j] \in ResetLabels /\ pc'[j] = l /\ local'[j] = local[j]
  BY <1>2 DEF ResetBegin, ResetEnd, ResetLabels, Goto, IInv, TypeOK
<1>4. l \in Labels /\ ThreadFits(j)' /\ ResultFits(j)' /\ (Unqueued(j)' => Unqueued(j))
  BY <1>1, <1>3, ResetFits
<1>5. soft_reseting' \in BOOLEAN /\ domref' \in Int
  BY ThreadFacts DEF ResetBegin, ResetEnd
<1>6. QED
  BY <1>1, <1>2, <1>4, <1>5, GoesOn DEF ResetBegin, ResetEnd

(* So does ResetControl, after which the hardware has no job.              *)
LEMMA ResetControlStep == ASSUME IInv, NEW j \in Jobs, ResetControl(j) PROVE IInv'
<1>1. JobsKept /\ job' = job
  BY ThreadFacts, NoJobChanged DEF ResetControl
<1>2. PICK l \in ResetLabels \cup {AfterReset(j)} : Goto(j, l)
  BY DEF ResetControl, ResetLabels
<1>3. pc[j] \in ResetLabels /\ pc'[j] = l /\ local'[j] = local[j] /\ pc' = [pc EXCEPT ![j] = l]
          /\ local' = [local EXCEPT ![j] = local[j]]
  BY <1>2 DEF ResetControl, ResetLabels, Goto, IInv, TypeOK
<1>4. l \in Labels /\ ThreadFits(j)' /\ ResultFits(j)' /\ (Unqueued(j)' => Unqueued(j))
  BY <1>1, <1>3, ResetFits
<1>5. HardwareTypeOK' /\ \A c \in Cores : hw'[c].job = hw[c].job \/ hw'[c].job = NoJob
  BY DEF ResetControl, IInv, TypeOK, HardwareTypeOK, IdleHw
<1>6. QueuesThin /\ CoresTypeOK'
  BY QueuesStay DEF ResetControl, IInv, TypeOK, CoresTypeOK, coreVars, devVars
<1>7. QED
  BY <1>1, <1>3, <1>4, <1>5, <1>6, ThreadFacts, OwnMove DEF ResetControl, devVars

(* So does ResetWake, which wakes threads that wait for their jobs.        *)
LEMMA ResetWakeStep == ASSUME IInv, NEW j \in Jobs, ResetWake(j) PROVE IInv'
<1>1. JobsKept /\ job' = job
  BY ThreadFacts, NoJobChanged DEF ResetWake
<1>2. pc[j] = "rst_wake" /\ pc'[j] = "rst_ctl" /\ local' = local
  BY DEF ResetWake, WakeUp, IInv, TypeOK
<1>3. ThreadFits(j)' /\ ResultFits(j)' /\ (Unqueued(j)' => Unqueued(j))
  <2>1. "rst_ctl" \in ResetLabels /\ pc[j] \in ResetLabels
    BY <1>2 DEF ResetLabels
  <2>2. QED
    BY <1>1, <1>2, <2>1, ResetFits
<1>4. \A i \in Jobs \ {j} : Steady(i)
  BY <1>2 DEF ResetWake, WakeUp, Steady, IInv, TypeOK
<1>5. pc' \in [Jobs -> Labels]
  BY DEF ResetWake, WakeUp, IInv, TypeOK, Labels
<1>6. QueuesThin /\ CoresTypeOK' /\ HardwareTypeOK' /\ hw' = hw /\ UNCHANGED <<irq, nx, work>>
  BY QueuesStay DEF ResetWake, IInv, TypeOK, CoresTypeOK, HardwareTypeOK, coreVars, devVars, hwVars
<1>7. TypeOK'
  BY <1>1, <1>2, <1>5, <1>6 DEF TypeOK, IInv
<1>8. NoneLearnt
  BY <1>2, <1>6, KeepsToItself
<1>9. CallsFit' /\ HandlersFit' /\ Once' /\ GangNeverCrossed'
  BY <1>1, <1>6, CallsStay, HandlersStay, ThinQueues DEF CoresTypeOK
<1>10. QED
  BY <1>1, <1>3, <1>4, <1>7, <1>8, <1>9, ThreadMoves

(* Clean keeps the invariant: its victim is a job that a core runs.        *)
LEMMA CleanStep == ASSUME IInv, NEW j \in Jobs, Clean(j) PROVE IInv'
<1>1. JobsKept /\ job' = job
  BY ThreadFacts, NoJobChanged DEF Clean
<1>2. pc[j] = "clean" /\ job[j].nonblock = TRUE /\ Unqueued(j)
  BY ThreadFacts DEF Clean, ThreadFits, Unqueued
<1> DEFINE c == Min(local[j].rest)
<1>3. CASE Goto(j, "sched") /\ UNCHANGED local
  <2>1. "sched" \in Labels /\ pc'[j] = "sched" /\ local'[j] = local[j]
    BY <1>3 DEF Labels, Goto, IInv, TypeOK
  <2>2. ThreadFits(j)' /\ ResultFits(j)'
    BY <1>1, <1>2, <2>1, ThreadFacts DEF ThreadFits, ResultFits, Cleaning, ResetLabels
  <2>3. QED
    BY <1>1, <1>2, <1>3, <2>1, <2>2, ThreadFacts, GoesOn DEF Clean, devVars
<1>4. CASE local' = [local EXCEPT ![j].rest = @ \ {c}] /\ UNCHANGED pc
  <2> DEFINE v == [local[j] EXCEPT !.rest = local[j].rest \ {c}]
  <2>1. v \in LocalType /\ v.victim = local[j].victim /\ v.ret = local[j].ret
    <3>1. local[j].rest \ {c} \in SUBSET Cores
      BY ThreadFacts
    <3>2. QED
      BY <3>1, ThreadFacts, LocalUpdates
  <2>2. local' = [local EXCEPT ![j] = v]
    BY <1>4
  <2> HIDE DEF v
  <2>3. "clean" \in Labels /\ pc' = [pc EXCEPT ![j] = "clean"] /\ pc'[j] = "clean"
    BY <1>2, <1>4 DEF Labels, IInv, TypeOK
  <2>4. local'[j] = v
    BY <2>2 DEF IInv, TypeOK
  <2>5. ThreadFits(j)' /\ ResultFits(j)'
    BY <1>1, <1>2, <2>1, <2>3, <2>4, ThreadFacts DEF ThreadFits, ResultFits, Cleaning, ResetLabels
  <2>6. QED
    BY <1>1, <1>2, <2>1, <2>2, <2>3, <2>5, ThreadFacts, QuietMove DEF Clean, devVars
<1>5. CASE /\ local[j].rest # {} /\ cur[c] # NoJob
           /\ local' = [local EXCEPT ![j].victim = cur[c]]
           /\ Goto(j, "rst_begin")
  <2>1. c \in Cores
    BY <1>5, ThreadFacts, MinCore
  <2> HIDE DEF c
  <2>2. cur[c] \in Jobs
    BY <1>5, <2>1 DEF IInv, TypeOK, CoresTypeOK
  <2> DEFINE v == [local[j] EXCEPT !.victim = cur[c]]
  <2>3. v \in LocalType /\ v.victim = cur[c] /\ v.ret = local[j].ret /\ v.rest = local[j].rest
    BY <2>2, ThreadFacts DEF LocalType
  <2>4. local' = [local EXCEPT ![j] = v]
    BY <1>5
  <2> HIDE DEF v
  <2>5. /\ local' \in [Jobs -> LocalType] /\ local'[j] = v
        /\ \A i \in Jobs \ {j} : local'[i] = local[i]
    BY <2>3, <2>4 DEF IInv, TypeOK
  <2>6. pc' \in [Jobs -> Labels] /\ pc'[j] = "rst_begin" /\ \A i \in Jobs \ {j} : pc'[i] = pc[i]
    BY <1>5 DEF Goto, Labels, IInv, TypeOK
  <2>7. ThreadFits(j)' /\ ResultFits(j)'
    BY <1>1, <1>2, <1>5, <2>2, <2>3, <2>5, <2>6, ThreadFacts
       DEF ThreadFits, ResultFits, Cleaning, ResetLabels
  <2>8. UNCHANGED <<irq, nx, work, hw, cur, todo>> /\ CoresTypeOK' /\ HardwareTypeOK'
    BY DEF Clean, IInv, TypeOK, CoresTypeOK, HardwareTypeOK, coreVars, devVars, hwVars
  <2>9. TypeOK'
    BY <1>1, <2>5, <2>6, <2>8 DEF TypeOK, IInv
  <2>10. NoneLearnt
    BY <2>1, <2>3, <2>5, <2>8 DEF NoneLearnt, Unknown
  <2>11. CallsFit' /\ HandlersFit' /\ Once' /\ GangNeverCrossed'
    BY <1>1, <2>8, CallsStay, HandlersStay, QueuesStay
  <2>12. \A i \in Jobs \ {j} : Steady(i)
    BY <2>5, <2>6 DEF Steady
  <2>13. QED
    BY <1>1, <1>2, <2>7, <2>9, <2>10, <2>11, <2>12, ThreadMoves
<1>6. QED
  BY <1>3, <1>4, <1>5 DEF Clean

(* So does CleanCur.                                                       *)
LEMMA CleanCurStep == ASSUME IInv, NEW j \in Jobs, CleanCur(j) PROVE IInv'
<1>1. JobsKept /\ job' = job
  BY ThreadFacts, NoJobChanged DEF CleanCur
<1>2. pc[j] = "clean_cur" /\ Cleaning(j) /\ Unqueued(j) /\ job[j].nonblock = TRUE
  BY ThreadFacts DEF CleanCur, Cleaning, Unqueued, ThreadFits
<1>3. "clean_work" \in Labels /\ pc' = [pc EXCEPT ![j] = "clean_work"] /\ pc'[j] = "clean_work"
  BY DEF CleanCur, Labels, Goto, IInv, TypeOK
<1>4. local' = [local EXCEPT ![j] = local[j]] /\ local'[j] = local[j]
  BY DEF CleanCur, IInv, TypeOK
<1>5. ThreadFits(j)' /\ ResultFits(j)'
  BY <1>1, <1>2, <1>3, <1>4, ThreadFacts DEF ThreadFits, ResultFits, Cleaning, ResetLabels
<1>6. cur' \in [Cores -> Jobs \cup {NoJob}] /\ \A c \in Cores : cur'[c] = cur[c] \/ cur'[c] = NoJob
  BY DEF CleanCur, IInv, TypeOK, CoresTypeOK
<1>7. QueuesThin
  BY <1>6, SameThins DEF QueuesThin, CleanCur, IInv, TypeOK, CoresTypeOK
<1>8. CoresTypeOK' /\ HardwareTypeOK' /\ hw' = hw
  BY <1>6 DEF CleanCur, IInv, TypeOK, CoresTypeOK, HardwareTypeOK, devVars, hwVars
<1>9. QED
  BY <1>1, <1>2, <1>3, <1>4, <1>5, <1>7, <1>8, ThreadFacts, OwnMove DEF CleanCur, devVars

(* So does CleanWork, which hands on the victim and finds the next one.    *)
LEMMA CleanWorkStep == ASSUME IInv, NEW j \in Jobs, CleanWork(j) PROVE IInv'
<1>1. JobsKept /\ job' = job
  BY ThreadFacts, NoJobChanged DEF CleanWork
<1>2. /\ pc[j] = "clean_work" /\ Unqueued(j) /\ job[j].nonblock = TRUE
      /\ local[j].rest # {} /\ local[j].victim \in Jobs
  BY ThreadFacts DEF CleanWork, Cleaning, Unqueued, ThreadFits
<1> DEFINE c == Min(local[j].rest)
<1>3. c \in Cores
  BY <1>2, ThreadFacts, MinCore
<1>4. todo[c] \in Seq(Jobs)
  BY <1>3 DEF IInv, TypeOK, CoresTypeOK
<1>5. work' = work \/ work' = work \cup {local[j].victim}
  BY DEF CleanWork, ScheduleCleanup
<1>6. \/ /\ todo[c] # <<>>
         /\ local' = [local EXCEPT ![j].victim = Head(todo[c])]
         /\ todo' = [todo EXCEPT ![c] = Tail(@)]
         /\ UNCHANGED pc
      \/ /\ local' = [local EXCEPT ![j].victim = NoJob, ![j].rest = @ \ {c}]
         /\ Goto(j, "clean")
         /\ UNCHANGED todo
  BY DEF CleanWork
<1>7. UNCHANGED <<cur, task_num, soft_reseting, domref, irq, nx, hw, line, executed>>
  BY DEF CleanWork, hwVars
<1> HIDE DEF c
<1>8. CASE /\ todo[c] # <<>>
           /\ local' = [local EXCEPT ![j].victim = Head(todo[c])]
           /\ todo' = [todo EXCEPT ![c] = Tail(@)]
           /\ UNCHANGED pc
  <2>1. /\ Head(todo[c]) \in Jobs /\ Tail(todo[c]) \in Seq(Jobs) /\ 1 \in DOMAIN todo[c]
        /\ Head(todo[c]) = todo[c][1] /\ Thins(todo[c], Tail(todo[c]))
    BY <1>4, <1>8, TailThins
  <2>2. PICK k \in Jobs : k = Head(todo[c])
    BY <2>1
  <2> DEFINE v == [local[j] EXCEPT !.victim = k]
  <2>3. v \in LocalType /\ v.victim = k /\ v.ret = local[j].ret /\ v.rest = local[j].rest
    BY <2>2, ThreadFacts DEF LocalType
  <2>4. local' = [local EXCEPT ![j] = v]
    BY <1>8, <2>2
  <2> HIDE DEF v
  <2>5. /\ local' \in [Jobs -> LocalType] /\ local'[j] = v
        /\ \A i \in Jobs \ {j} : local'[i] = local[i]
    BY <2>3, <2>4 DEF IInv, TypeOK
  <2>6. ThreadFits(j)' /\ ResultFits(j)'
    BY <1>1, <1>2, <1>8, <2>2, <2>3, <2>5, ThreadFacts DEF ThreadFits, ResultFits, Cleaning
  <2>7. todo' \in [Cores -> Seq(Jobs)]
    BY <1>3, <1>8, <2>1 DEF IInv, TypeOK, CoresTypeOK
  <2>8. ASSUME NEW d \in Cores PROVE Thins(todo[d], todo'[d])
    <3>1. CASE d = c
      BY <1>8, <2>1, <3>1 DEF IInv, TypeOK, CoresTypeOK
    <3>2. CASE d # c
      BY <1>8, <3>2, SameThins DEF IInv, TypeOK, CoresTypeOK
    <3>3. QED
      BY <3>1, <3>2
  <2>9. QueuesThin
    BY <1>7, <2>8 DEF QueuesThin
  <2>10. TypeOK'
    BY <1>1, <1>2, <1>5, <1>7, <1>8, <2>5, <2>7 DEF TypeOK, IInv, CoresTypeOK, HardwareTypeOK
  <2>11. NoneLearnt
    <3> SUFFICES ASSUME NEW i \in Jobs, Unknown(i) PROVE Unknown(i)'
      BY DEF NoneLearnt
    <3>1. k # i /\ local[j].victim # i
      BY <1>3, <2>1, <2>2 DEF Unknown
    <3>2. ASSUME NEW d \in Cores, NEW n \in DOMAIN todo'[d] PROVE todo'[d][n] # i
      <4>1. PICK f \in [DOMAIN todo'[d] -> DOMAIN todo[d]] :
                \A m \in DOMAIN todo'[d] : todo'[d][m] = todo[d][f[m]]
        BY <2>8 DEF Thins
      <4>2. f[n] \in DOMAIN todo[d] /\ todo'[d][n] = todo[d][f[n]]
        BY <4>1
      <4>3. QED
        BY <4>2 DEF Unknown
    <3>3. QED
      BY <1>5, <1>7, <2>3, <2>5, <3>1, <3>2 DEF Unknown
  <2>12. CallsFit' /\ HandlersFit' /\ Once' /\ GangNeverCrossed'
    BY <1>1, <1>7, <2>7, <2>9, CallsStay, HandlersStay, ThinQueues
  <2>13. \A i \in Jobs \ {j} : Steady(i)
    BY <1>8, <2>5 DEF Steady
  <2>14. QED
    BY <1>1, <1>2, <2>6, <2>10, <2>11, <2>12, <2>13, ThreadMoves
<1>9. CASE /\ local' = [local EXCEPT ![j].victim = NoJob, ![j].rest = @ \ {c}]
           /\ Goto(j, "clean")
           /\ UNCHANGED todo
  <2> DEFINE v == [local[j] EXCEPT !.victim = NoJob, !.rest = local[j].rest \ {c}]
  <2>1. v \in LocalType /\ v.victim = NoJob /\ v.ret = local[j].ret
    <3>1. local[j].rest \ {c} \in SUBSET Cores
      BY ThreadFacts
    <3>2. QED
      BY ZenonT(40), <3>1, ThreadFacts, LocalUpdates DEF LocalType
  <2>2. local' = [local EXCEPT ![j] = v]
    BY <1>9 DEF IInv, TypeOK
  <2> HIDE DEF v
  <2>3. /\ local' \in [Jobs -> LocalType] /\ local'[j] = v
        /\ \A i \in Jobs \ {j} : local'[i] = local[i]
    BY <2>1, <2>2 DEF IInv, TypeOK
  <2>4. pc' \in [Jobs -> Labels] /\ pc'[j] = "clean" /\ \A i \in Jobs \ {j} : pc'[i] = pc[i]
    BY <1>9 DEF Goto, Labels, IInv, TypeOK
  <2>5. ThreadFits(j)' /\ ResultFits(j)'
    BY <1>1, <1>2, <2>1, <2>3, <2>4, ThreadFacts DEF ThreadFits, ResultFits, Cleaning, ResetLabels
  <2>6. TypeOK'
    BY <1>1, <1>2, <1>5, <1>7, <1>9, <2>3, <2>4 DEF TypeOK, IInv, CoresTypeOK, HardwareTypeOK
  <2>7. NoneLearnt
    <3> SUFFICES ASSUME NEW i \in Jobs, Unknown(i) PROVE Unknown(i)'
      BY DEF NoneLearnt
    <3>1. NoJob # i
      BY JobAssumption
    <3>2. QED
      BY <1>5, <1>7, <1>9, <2>1, <2>3, <3>1 DEF Unknown
  <2>8. CallsFit' /\ HandlersFit' /\ Once' /\ GangNeverCrossed'
    BY <1>1, <1>7, <1>9, CallsStay, HandlersStay, QueuesStay
  <2>9. \A i \in Jobs \ {j} : Steady(i)
    BY <2>3, <2>4 DEF Steady
  <2>10. QED
    BY <1>1, <1>2, <2>5, <2>6, <2>7, <2>8, <2>9, ThreadMoves
<1>10. QED
  BY <1>6, <1>8, <1>9

(* CleanupWork frees a job.                                                *)
LEMMA CleanupWorkStep == ASSUME IInv, NEW j \in Jobs, CleanupWork(j) PROVE IInv'
<1> DEFINE s == [job[j] EXCEPT !.life = "freed"]
<1>1. s \in JobType /\ Keeps(job[j], s)
  BY ThreadFacts, JobUpdates, ZeroCore
<1>2. job' = [job EXCEPT ![j] = s]
  BY DEF CleanupWork
<1> HIDE DEF s
<1>3. JobsKept
  BY <1>1, <1>2, ThreadFacts, OneJobKept
<1>4. UNCHANGED <<cur, todo, pc, local, irq, nx, hw>> /\ work' \subseteq work
  BY DEF CleanupWork, coreVars, hwVars
<1>5. TypeOK'
  BY <1>3, <1>4 DEF CleanupWork, JobsKept, TypeOK, IInv, CoresTypeOK, HardwareTypeOK, coreVars, hwVars
<1>6. NoneLearnt
  BY <1>4 DEF NoneLearnt, Unknown
<1>7. CallsFit' /\ HandlersFit' /\ Once' /\ GangNeverCrossed' /\ \A i \in Jobs : Steady(i)
  BY <1>3, <1>4, CallsStay, HandlersStay, QueuesStay DEF Steady
<1>8. QED
  BY <1>3, <1>5, <1>6, <1>7, OthersMove

(* Kick calls rknpu_job_next.                                              *)
LEMMA KickStep == ASSUME IInv, NEW j \in Jobs, Kick(j) PROVE IInv'
<1>1. JobsKept /\ job' = job
  BY ThreadFacts, NoJobChanged DEF Kick
<1>2. pc[j] = "kick"
  BY DEF Kick
<1>3. CASE Goto(j, "scheduled") /\ UNCHANGED <<local, nx>>
  <2>1. "scheduled" \in Labels /\ pc'[j] = "scheduled" /\ local'[j] = local[j]
    BY <1>3 DEF Labels, Goto, IInv, TypeOK
  <2>2. ThreadFits(j)' /\ ResultFits(j)' /\ ~Unqueued(j)'
    BY <1>1, <1>2, <2>1, ThreadFacts DEF ThreadFits, ResultFits, Cleaning, ResetLabels, Unqueued
  <2>3. QED
    BY <1>1, <1>3, <2>1, <2>2, ThreadFacts, GoesOn DEF Kick, devVars
<1> DEFINE c == Min(local[j].rest)
<1>4. CASE /\ local[j].rest # {} /\ CallNext(j, c)
           /\ local' = [local EXCEPT ![j].rest = @ \ {c}]
           /\ UNCHANGED pc
  <2>1. c \in Cores
    BY <1>4, ThreadFacts, MinCore
  <2> HIDE DEF c
  <2> DEFINE v == [local[j] EXCEPT !.rest = local[j].rest \ {c}]
  <2>2. v \in LocalType /\ v.victim = local[j].victim /\ v.ret = local[j].ret
    <3>1. local[j].rest \ {c} \in SUBSET Cores
      BY ThreadFacts
    <3>2. QED
      BY <3>1, ThreadFacts, LocalUpdates
  <2>3. local' = [local EXCEPT ![j] = v]
    BY <1>4
  <2> HIDE DEF v
  <2>4. /\ local' \in [Jobs -> LocalType] /\ local'[j] = v
        /\ \A i \in Jobs \ {j} : local'[i] = local[i]
    BY <2>2, <2>3 DEF IInv, TypeOK
  <2>5. ThreadFits(j)' /\ ResultFits(j)' /\ ~Unqueued(j)'
    BY ZenonT(40), <1>1, <1>2, <1>4, <2>2, <2>4, ThreadFacts
       DEF ThreadFits, ResultFits, Cleaning, ResetLabels, Unqueued
  <2> DEFINE r == [at |-> "check", core |-> c, job |-> NoJob, left |-> {}]
  <2>6. j \in Executors /\ nx' = [nx EXCEPT ![j] = r]
    BY <1>4 DEF Executors, CallNext
  <2>7. r \in NextType /\ r.at = "check" /\ r.job = NoJob
    BY <2>1 DEF NextType
  <2> HIDE DEF r
  <2>8. nx' \in [Executors -> NextType] /\ nx'[j] = r /\ \A e \in Executors \ {j} : nx'[e] = nx[e]
    BY <2>6, <2>7 DEF IInv, TypeOK
  <2>9. UNCHANGED <<cur, todo, irq, hw, work>>
    BY DEF Kick, coreVars, devVars, hwVars
  <2>10. TypeOK'
    BY <1>1, <1>4, <2>4, <2>8
       DEF Kick, TypeOK, IInv, CoresTypeOK, HardwareTypeOK, coreVars, devVars, hwVars
  <2>11. NoneLearnt
    BY <2>2, <2>4, <2>7, <2>8, <2>9, JobAssumption DEF NoneLearnt, Unknown
  <2>12. CallsFit'
    BY <2>7, <2>8 DEF IInv, Fits, CallsFit, CallFits
  <2>13. HandlersFit' /\ Once' /\ GangNeverCrossed' /\ \A i \in Jobs \ {j} : Steady(i)
    BY <1>1, <1>4, <2>4, <2>9, HandlersStay, QueuesStay DEF Steady
  <2>14. QED
    BY <1>1, <2>5, <2>10, <2>11, <2>12, <2>13, ThreadMoves
<1>5. QED
  BY <1>3, <1>4 DEF Kick

(* Submit keeps the invariant: the struct rknpu_job it fills is nobody     *)
(* else's yet.                                                             *)
LEMMA SubmitStep == ASSUME IInv, NEW j \in Jobs, NEW a \in Requests, Submit(j, a) PROVE IInv'
<1>1. pc[j] = "new" /\ Unqueued(j)
  BY DEF Submit, Unqueued
<1>2. Unknown(j)
  BY <1>1 DEF IInv, Fits, Fresh
<1>3. a \in RequestType
  BY JobAssumption
<1>4. /\ a.mask \in SUBSET Cores /\ a.nonblock \in BOOLEAN /\ a.pc_mode \in BOOLEAN
      /\ a.mapped \in BOOLEAN /\ a.out \in BOOLEAN /\ a.in \in BOOLEAN /\ a.tasks \in Nat
  BY <1>3 DEF RequestType
<1>5. PICK m \in Nat : m = Cardinality(a.mask)
  BY <1>4, MaskSize
<1> DEFINE s == [NewJob EXCEPT !.mask = a.mask, !.nonblock = a.nonblock, !.pc_mode = a.pc_mode,
                         !.mapped = a.mapped, !.tasks = a.tasks, !.run_count = m,
                         !.interrupt_count = m, !.out = a.out,
                         !.life = "live"]
<1>6. job' = [job EXCEPT ![j] = s]
  BY <1>5 DEF Submit
<1>7. NewJob \in JobType /\ NewJob.ret = "0"
  <2>1. [c \in Cores |-> 0] \in [Cores -> Nat]
    OBVIOUS
  <2>2. QED
    BY <2>1 DEF NewJob, JobType, Errno, FenceStates
<1>8. s \in JobType /\ s.nonblock = a.nonblock /\ s.ret = "0"
  <2> DEFINE r1 == [NewJob EXCEPT !.mask = a.mask, !.nonblock = a.nonblock, !.pc_mode = a.pc_mode]
             r2 == [r1 EXCEPT !.mapped = a.mapped]
             r3 == [r2 EXCEPT !.tasks = a.tasks]
             r4 == [r3 EXCEPT !.run_count = m]
             r5 == [r4 EXCEPT !.interrupt_count = m]
             r6 == [r5 EXCEPT !.out = a.out, !.life = "live"]
  <2>1. r1 \in JobType /\ r1.nonblock = a.nonblock /\ r1.ret = "0"
    BY <1>4, <1>7 DEF JobType
  <2>2. s = r6
    OBVIOUS
  <2> HIDE DEF r1
  <2>3. r2 \in JobType /\ r2.nonblock = a.nonblock /\ r2.ret = "0"
    BY <1>4, <2>1 DEF JobType
  <2> HIDE DEF r2
  <2>4. r3 \in JobType /\ r3.nonblock = a.nonblock /\ r3.ret = "0"
    BY <1>4, <2>3 DEF JobType
  <2> HIDE DEF r3
  <2>5. r4 \in JobType /\ r4.nonblock = a.nonblock /\ r4.ret = "0"
    BY <1>4, <2>4 DEF JobType
  <2> HIDE DEF r4
  <2>6. r5 \in JobType /\ r5.nonblock = a.nonblock /\ r5.ret = "0"
    BY <1>4, <2>5 DEF JobType
  <2> HIDE DEF r5
  <2>7. r6 \in JobType /\ r6.nonblock = a.nonblock /\ r6.ret = "0"
    BY <1>4, <2>6 DEF JobType
  <2>8. QED
    BY <2>2, <2>7
<1> HIDE DEF s
<1>9. s.nonblock = a.nonblock /\ s.ret = "0"
  BY <1>8
<1>10. job' \in [Jobs -> JobType] /\ job'[j] = s /\ \A i \in Jobs \ {j} : job'[i] = job[i]
  BY <1>6, <1>8 DEF IInv, TypeOK
<1> DEFINE v == [local[j] EXCEPT !.rest = a.mask]
           l == IF a.in THEN "fence_in" ELSE IF a.out THEN "fence_out" ELSE AfterFences(a)
<1>11. v \in LocalType /\ v.victim = local[j].victim /\ v.ret = local[j].ret
  BY <1>4, ThreadFacts, LocalUpdates
<1>12. local' = [local EXCEPT ![j] = v] /\ pc' = [pc EXCEPT ![j] = l]
  BY DEF Submit, Goto
<1>13. l \in {"fence_in", "fence_out", "clean", "sched"} /\ (l = "clean" => a.nonblock = TRUE)
  BY <1>4 DEF AfterFences
<1> HIDE DEF v, l
<1>14. /\ local' \in [Jobs -> LocalType] /\ local'[j] = v
       /\ \A i \in Jobs \ {j} : local'[i] = local[i]
  BY <1>11, <1>12 DEF IInv, TypeOK
<1>15. pc' \in [Jobs -> Labels] /\ pc'[j] = l /\ \A i \in Jobs \ {j} : pc'[i] = pc[i]
  BY <1>12, <1>13 DEF IInv, TypeOK, Labels
<1>16. UNCHANGED <<cur, todo, irq, hw, work, nx>>
  BY DEF Submit, coreVars, devVars, hwVars
<1>17. TypeOK'
  BY <1>10, <1>14, <1>15
     DEF Submit, TypeOK, IInv, CoresTypeOK, HardwareTypeOK, coreVars, devVars, hwVars
<1>18. ThreadFits(j)' /\ ResultFits(j)'
  BY <1>1, <1>4, <1>9, <1>10, <1>11, <1>13, <1>14, <1>15, ThreadFacts
     DEF ThreadFits, ResultFits, Cleaning, ResetLabels
<1>19. ASSUME NEW i \in Jobs
       PROVE  ThreadFits(i)' /\ ResultFits(i)' /\ (Unqueued(i)' => Unqueued(i))
  <2>1. CASE i = j
    BY <1>1, <1>18, <2>1
  <2>2. CASE i # j
    <3>1. Keeps(job[i], job'[i]) /\ Steady(i)
      BY <1>10, <1>14, <1>15, <2>2 DEF Keeps, Steady
    <3>2. QED
      BY <3>1, SteadyFits
  <2>3. QED
    BY <2>1, <2>2
<1>20. NoneLearnt
  BY <1>11, <1>14, <1>16 DEF NoneLearnt, Unknown
<1>21. Fresh'
  BY <1>19, <1>20 DEF Fresh, NoneLearnt, IInv, Fits
<1>22. HandlersFit'
  BY <1>2, <1>10, <1>16 DEF HandlersFit, HandlerFits, IInv, Fits, Unknown
<1>23. CallsFit' /\ Once' /\ GangNeverCrossed'
  BY <1>16, CallsStay, QueuesStay
<1>24. QED
  BY <1>17, <1>19, <1>21, <1>22, <1>23 DEF IInv, Fits, ThreadsFit, ResultsFit

(* Enqueue keeps the invariant.  A job that is on no core and in no queue  *)
(* comes last in all of them, so nothing is ahead of it on one core and    *)
(* behind it on another.                                                   *)
LEMMA EnqueueStep == ASSUME IInv, NEW j \in Jobs, Enqueue(j) PROVE IInv'
<1>1. pc[j] = "enqueue" /\ Unqueued(j)
  BY DEF Enqueue, Unqueued
<1>2. Unknown(j)
  BY <1>1 DEF IInv, Fits, Fresh
<1>3. JobsKept /\ job' = job
  BY ThreadFacts, NoJobChanged DEF Enqueue
<1>4. job[j].mask \in SUBSET Cores /\ job[j].tasks \in Int
  BY ThreadFacts DEF JobType
<1> DEFINE v == [local[j] EXCEPT !.rest = job[j].mask]
<1>5. v \in LocalType /\ v.victim = local[j].victim /\ v.ret = local[j].ret
  BY <1>4, ThreadFacts, LocalUpdates
<1>6. local' = [local EXCEPT ![j] = v] /\ pc' = [pc EXCEPT ![j] = "kick"]
  BY DEF Enqueue, Goto
<1> HIDE DEF v
<1>7. /\ local' \in [Jobs -> LocalType] /\ local'[j] = v
      /\ \A i \in Jobs \ {j} : local'[i] = local[i]
  BY <1>5, <1>6 DEF IInv, TypeOK
<1>8. pc' \in [Jobs -> Labels] /\ pc'[j] = "kick" /\ \A i \in Jobs \ {j} : pc'[i] = pc[i]
  BY <1>6 DEF IInv, TypeOK, Labels
<1>9. UNCHANGED <<cur, irq, hw, work, nx>>
  BY DEF Enqueue, devVars, hwVars
<1>10. ASSUME NEW c \in Cores
       PROVE  /\ todo'[c] \in Seq(Jobs)
              /\ \A n \in DOMAIN todo[c] : n \in DOMAIN todo'[c] /\ todo'[c][n] = todo[c][n]
              /\ \A n \in DOMAIN todo'[c] :
                    /\ n \in Nat
                    /\ \/ n \in DOMAIN todo[c] /\ todo'[c][n] = todo[c][n]
                       \/ todo'[c][n] = j /\ \A m \in DOMAIN todo'[c] : m <= n
  <2>1. todo[c] \in Seq(Jobs)
    BY DEF IInv, TypeOK, CoresTypeOK
  <2>2. Len(todo[c]) \in Nat /\ DOMAIN todo[c] = 1 .. Len(todo[c])
    BY <2>1
  <2>3. CASE todo'[c] = todo[c]
    BY <2>1, <2>2, <2>3
  <2>4. CASE todo'[c] = Append(todo[c], j)
    <3>1. /\ todo'[c] \in Seq(Jobs) /\ Len(todo'[c]) = Len(todo[c]) + 1
          /\ \A n \in 1 .. Len(todo[c]) : todo'[c][n] = todo[c][n]
          /\ todo'[c][Len(todo[c]) + 1] = j
      BY <2>1, <2>4, AppendProperties
    <3>2. DOMAIN todo'[c] = 1 .. Len(todo[c]) + 1
      BY <3>1
    <3>3. QED
      BY <2>2, <3>1, <3>2
  <2>5. QED
    BY <2>3, <2>4 DEF Enqueue
<1>11. todo' \in [Cores -> Seq(Jobs)]
  BY <1>10 DEF Enqueue
<1>12. task_num' \in [Cores -> Int]
  <2>1. task_num \in [Cores -> Int]
    BY DEF IInv, TypeOK, CoresTypeOK
  <2>2. QED
    BY <1>4, <2>1 DEF Enqueue
<1>13. TypeOK'
  <2>1. CoresTypeOK'
    BY <1>11, <1>12 DEF Enqueue, IInv, TypeOK, CoresTypeOK, devVars
  <2>2. HardwareTypeOK' /\ irq' \in [Cores -> IrqType] /\ nx' \in [Executors -> NextType]
    BY DEF Enqueue, IInv, TypeOK, HardwareTypeOK, hwVars
  <2>3. QED
    BY <1>3, <1>7, <1>8, <2>1, <2>2 DEF TypeOK, JobsKept
<1>14. ThreadFits(j)' /\ ResultFits(j)' /\ ~Unqueued(j)'
  BY <1>1, <1>3, <1>5, <1>7, <1>8, ThreadFacts
     DEF ThreadFits, ResultFits, Cleaning, ResetLabels, Unqueued
<1>15. ASSUME NEW i \in Jobs, i # j
       PROVE  /\ ThreadFits(i)' /\ ResultFits(i)' /\ (Unqueued(i)' => Unqueued(i))
              /\ Unknown(i) => Unknown(i)'
  <2>1. Keeps(job[i], job'[i]) /\ Steady(i)
    BY <1>3, <1>7, <1>8, <1>15 DEF JobsKept, Steady
  <2>2. Unknown(i) => \A c \in Cores : \A n \in DOMAIN todo'[c] : todo'[c][n] # i
    BY <1>10, <1>15 DEF Unknown
  <2>3. Unknown(i) => Unknown(i)'
    BY <1>5, <1>7, <1>9, <2>2 DEF Unknown
  <2>4. QED
    BY <2>1, <2>3, SteadyFits
<1>16. Fresh'
  BY <1>14, <1>15 DEF Fresh, IInv, Fits
<1>17. Once'
  <2> SUFFICES ASSUME NEW c \in Cores
               PROVE  /\ \A m, n \in DOMAIN todo'[c] : todo'[c][m] = todo'[c][n] => m = n
                      /\ \A n \in DOMAIN todo'[c] : todo'[c][n] # cur'[c]
    BY DEF Once
  <2>1. /\ \A m, n \in DOMAIN todo[c] : todo[c][m] = todo[c][n] => m = n
        /\ \A n \in DOMAIN todo[c] : todo[c][n] # cur[c] /\ todo[c][n] # j
        /\ cur[c] # j
    BY <1>2 DEF IInv, Once, Unknown
  <2>2. ASSUME NEW m \in DOMAIN todo'[c], NEW n \in DOMAIN todo'[c], todo'[c][m] = todo'[c][n]
        PROVE  m = n
    BY <1>10, <2>1, <2>2
  <2>3. ASSUME NEW n \in DOMAIN todo'[c] PROVE todo'[c][n] # cur'[c]
    BY <1>9, <1>10, <2>1
  <2>4. QED
    BY <2>2, <2>3
<1>18. ASSUME NEW h \in Jobs, NEW k \in Jobs, NEW c \in Cores, Ahead(h, k, c)'
       PROVE  h # j /\ (k # j => Ahead(h, k, c))
  <2>1. cur[c] # j /\ \A n \in DOMAIN todo[c] : todo[c][n] # j
    BY <1>2 DEF Unknown
  <2>2. CASE cur'[c] = h /\ k \in ToSet(todo'[c])
    <3>1. PICK n \in DOMAIN todo'[c] : k = todo'[c][n]
      BY <2>2 DEF ToSet
    <3>2. cur[c] = h /\ (k # j => k \in ToSet(todo[c]))
      BY <1>9, <1>10, <2>2, <3>1 DEF ToSet
    <3>3. QED
      BY <2>1, <3>2 DEF Ahead
  <2>3. CASE \E m, n \in DOMAIN todo'[c] : m < n /\ todo'[c][m] = h /\ todo'[c][n] = k
    <3>1. PICK m \in DOMAIN todo'[c], n \in DOMAIN todo'[c] :
              m < n /\ todo'[c][m] = h /\ todo'[c][n] = k
      BY <2>3
    <3>2. m \in Nat /\ n \in Nat /\ ~(n <= m)
      BY <1>10, <3>1
    <3>3. m \in DOMAIN todo[c] /\ todo[c][m] = h
      BY <1>10, <3>1, <3>2
    <3>4. k # j => n \in DOMAIN todo[c] /\ todo[c][n] = k
      BY <1>10, <3>1
    <3>5. QED
      BY <2>1, <3>1, <3>3, <3>4 DEF Ahead
  <2>4. QED
    BY <1>18, <2>2, <2>3 DEF Ahead
<1>19. GangNeverCrossed'
  BY <1>18 DEF IInv, GangNeverCrossed
<1>20. CallsFit' /\ HandlersFit'
  BY <1>3, <1>9, CallsStay, HandlersStay
<1>21. QED
  BY <1>13, <1>14, <1>15, <1>16, <1>17, <1>19, <1>20 DEF IInv, Fits, ThreadsFit, ResultsFit

----------------------------------------------------------------------------
(* The steps of rknpu_job_next.                                            *)

(* What is known of a call of rknpu_job_next.                              *)
LEMMA CallFacts ==
    ASSUME IInv, NEW e \in Executors
    PROVE  /\ nx \in [Executors -> NextType] /\ nx[e] \in NextType /\ nx[e].core \in Cores
           /\ nx[e].job \in Jobs \cup {NoJob} /\ nx[e].left \in SUBSET Cores
           /\ CallFits(e) /\ NoCall \in NextType /\ job \in [Jobs -> JobType]
BY ZeroCore DEF IInv, TypeOK, NextType, Fits, CallsFit, NoCall

(* The call of e goes on to r, and the rest is as the step says.           *)
LEMMA OneCall ==
    ASSUME IInv, NEW e \in Executors, NEW r \in NextType, nx' = [nx EXCEPT ![e] = r],
           r.at \in {"dec", "commit"} => r.job \in Jobs, r.at = "commit" => r.left # {}
    PROVE  /\ nx' \in [Executors -> NextType] /\ CallsFit' /\ nx'[e] = r
           /\ \A d \in Executors \ {e} : nx'[d] = nx[d]
<1>1. /\ nx' \in [Executors -> NextType] /\ nx'[e] = r
      /\ \A d \in Executors \ {e} : nx'[d] = nx[d]
  BY CallFacts
<1>2. \A d \in Executors : CallFits(d)'
  BY <1>1 DEF IInv, Fits, CallsFit, CallFits
<1>3. QED
  BY <1>1, <1>2 DEF CallsFit

(* The call of e returns.                                                  *)
LEMMA CallReturns ==
    ASSUME IInv, NEW e \in Executors, ReturnNext(e)
    PROVE  /\ nx' \in [Executors -> NextType] /\ CallsFit'
           /\ \A d \in Executors : nx'[d].job = nx[d].job \/ nx'[d].job = NoJob
<1>1. NoCall.at = "none" /\ NoCall.job = NoJob
  BY DEF NoCall
<1>2. nx' = [nx EXCEPT ![e] = NoCall] /\ NoCall \in NextType
  BY CallFacts DEF ReturnNext
<1>3. /\ nx' \in [Executors -> NextType] /\ CallsFit' /\ nx'[e] = NoCall
      /\ \A d \in Executors \ {e} : nx'[d] = nx[d]
  BY <1>1, <1>2, OneCall
<1>4. QED
  BY <1>1, <1>3

(* NextCheck keeps the invariant.                                          *)
LEMMA NextCheckStep == ASSUME IInv, NEW e \in Executors, NextCheck(e) PROVE IInv'
<1>1. JobsKept /\ job' = job
  BY CallFacts, NoJobChanged DEF NextCheck
<1>2. /\ nx' \in [Executors -> NextType] /\ CallsFit'
      /\ \A d \in Executors : nx'[d].job = nx[d].job \/ nx'[d].job = NoJob
  <2>1. CASE ReturnNext(e)
    BY <2>1, CallReturns
  <2>2. CASE nx' = [nx EXCEPT ![e].at = "pop"]
    <3> DEFINE r == [nx[e] EXCEPT !.at = "pop"]
    <3>1. r \in NextType /\ r.at = "pop" /\ r.job = nx[e].job
      BY CallFacts DEF NextType
    <3>2. nx' = [nx EXCEPT ![e] = r]
      BY <2>2
    <3> HIDE DEF r
    <3>3. /\ nx' \in [Executors -> NextType] /\ CallsFit' /\ nx'[e] = r
          /\ \A d \in Executors \ {e} : nx'[d] = nx[d]
      BY <3>1, <3>2, OneCall
    <3>4. QED
      BY <3>1, <3>3
  <2>3. QED
    BY <2>1, <2>2 DEF NextCheck
<1>3. UNCHANGED <<cur, todo, pc, local, irq, hw, work>>
  BY DEF NextCheck, coreVars, devVars, hwVars
<1>4. TypeOK'
  BY <1>1, <1>2
     DEF NextCheck, TypeOK, IInv, CoresTypeOK, HardwareTypeOK, coreVars, devVars, hwVars
<1>5. NoneLearnt
  BY <1>2, <1>3, JobAssumption DEF NoneLearnt, Unknown
<1>6. HandlersFit' /\ Once' /\ GangNeverCrossed' /\ \A i \in Jobs : Steady(i)
  BY <1>1, <1>3, HandlersStay, QueuesStay DEF Steady
<1>7. QED
  BY <1>1, <1>2, <1>4, <1>5, <1>6, OthersMove

(* NextPop keeps the invariant: the first job of the queue goes to the     *)
(* core, ahead of those that were behind it.                               *)
LEMMA NextPopStep == ASSUME IInv, NEW e \in Executors, NextPop(e) PROVE IInv'
<1> DEFINE c == nx[e].core
           k == Head(todo[c])
<1>1. c \in Cores
  BY CallFacts
<1>2. todo[c] \in Seq(Jobs) /\ todo \in [Cores -> Seq(Jobs)] /\ cur \in [Cores -> Jobs \cup {NoJob}]
  BY <1>1 DEF IInv, TypeOK, CoresTypeOK
<1>3. UNCHANGED <<pc, local, irq, hw, work>>
  BY DEF NextPop, devVars, hwVars
<1>4. \A i \in Jobs : Steady(i)
  BY <1>3 DEF Steady
<1>5. CASE ReturnNext(e) /\ UNCHANGED <<cur, todo, job>>
  <2>1. JobsKept
    BY <1>5, CallFacts, NoJobChanged
  <2>2. /\ nx' \in [Executors -> NextType] /\ CallsFit'
        /\ \A d \in Executors : nx'[d].job = nx[d].job \/ nx'[d].job = NoJob
    BY <1>5, CallReturns
  <2>3. TypeOK'
    BY <1>5, <2>2 DEF NextPop, TypeOK, IInv, CoresTypeOK, HardwareTypeOK, devVars, hwVars
  <2>4. NoneLearnt
    BY <1>3, <1>5, <2>2, JobAssumption DEF NoneLearnt, Unknown
  <2>5. HandlersFit' /\ Once' /\ GangNeverCrossed'
    BY <1>3, <1>5, <2>1, HandlersStay, QueuesStay
  <2>6. QED
    BY <1>4, <2>1, <2>2, <2>3, <2>4, <2>5, OthersMove
<1>6. CASE /\ todo[c] # <<>>
           /\ nx' = [nx EXCEPT ![e].at = "dec", ![e].job = k]
           /\ todo' = [todo EXCEPT ![c] = Tail(@)]
           /\ cur' = [cur EXCEPT ![c] = k]
           /\ job' = [job EXCEPT ![k].stamped = TRUE]
  <2>1. /\ k \in Jobs /\ Tail(todo[c]) \in Seq(Jobs)
        /\ 1 \in DOMAIN todo[c] /\ k = todo[c][1]
        /\ \A n \in DOMAIN Tail(todo[c]) :
              n \in Nat /\ n + 1 \in DOMAIN todo[c] /\ Tail(todo[c])[n] = todo[c][n + 1]
    BY <1>2, <1>6, TailThins
  <2> DEFINE s == [job[k] EXCEPT !.stamped = TRUE]
  <2>2. s \in JobType /\ Keeps(job[k], s)
    BY Zenon, <2>1, CallFacts, JobUpdates, ZeroCore
  <2>3. job' = [job EXCEPT ![k] = s]
    BY <1>6
  <2> HIDE DEF s
  <2>4. JobsKept
    BY <2>1, <2>2, <2>3, CallFacts, OneJobKept
  <2> DEFINE r == [nx[e] EXCEPT !.at = "dec", !.job = k]
  <2>5. r \in NextType /\ r.at = "dec" /\ r.job = k
    BY <2>1, CallFacts DEF NextType
  <2>6. nx' = [nx EXCEPT ![e] = r]
    BY <1>6, CallFacts
  <2> HIDE DEF r
  <2>7. /\ nx' \in [Executors -> NextType] /\ CallsFit' /\ nx'[e] = r
        /\ \A d \in Executors \ {e} : nx'[d] = nx[d]
    BY <2>1, <2>5, <2>6, OneCall
  <2>8. /\ cur' \in [Cores -> Jobs \cup {NoJob}] /\ cur'[c] = k
        /\ \A d \in Cores \ {c} : cur'[d] = cur[d]
    BY <1>1, <1>2, <1>6, <2>1
  <2>9. /\ todo' \in [Cores -> Seq(Jobs)] /\ todo'[c] = Tail(todo[c])
        /\ \A d \in Cores \ {c} : todo'[d] = todo[d]
    BY <1>1, <1>2, <1>6, <2>1
  <2>10. PICK d \in Cores, h \in Jobs : d = c /\ h = k
    BY <1>1, <2>1
  <2>11. \A n \in DOMAIN todo'[d] :
            n \in Nat /\ n + 1 \in DOMAIN todo[d] /\ todo'[d][n] = todo[d][n + 1]
    BY <2>1, <2>9, <2>10
  <2>12. /\ 1 \in DOMAIN todo[d] /\ h = todo[d][1] /\ cur'[d] = h
         /\ \A i \in Cores \ {d} : cur'[i] = cur[i] /\ todo'[i] = todo[i]
         /\ nx'[e].job = h
    BY <2>1, <2>5, <2>7, <2>8, <2>9, <2>10
  <2> HIDE DEF c, k
  <2>13. TypeOK'
    BY <2>4, <2>7, <2>8, <2>9
       DEF NextPop, TypeOK, IInv, CoresTypeOK, HardwareTypeOK, devVars, hwVars, JobsKept
  <2>14. NoneLearnt
    <3> SUFFICES ASSUME NEW i \in Jobs, Unknown(i) PROVE Unknown(i)'
      BY DEF NoneLearnt
    <3>1. h # i
      BY <2>12 DEF Unknown
    <3>2. \A b \in Cores : cur'[b] # i /\ \A n \in DOMAIN todo'[b] : todo'[b][n] # i
      BY <2>11, <2>12, <3>1 DEF Unknown
    <3>3. QED
      BY <1>3, <2>7, <2>12, <3>1, <3>2 DEF Unknown
  <2>15. Once'
    <3> SUFFICES ASSUME NEW b \in Cores
                 PROVE  /\ \A m, n \in DOMAIN todo'[b] : todo'[b][m] = todo'[b][n] => m = n
                        /\ \A n \in DOMAIN todo'[b] : todo'[b][n] # cur'[b]
      BY DEF Once
    <3>1. CASE b # d
      BY <2>12, <3>1 DEF IInv, Once
    <3>2. CASE b = d
      <4>1. \A m, n \in DOMAIN todo[d] : todo[d][m] = todo[d][n] => m = n
        BY DEF IInv, Once
      <4>2. ASSUME NEW m \in DOMAIN todo'[d], NEW n \in DOMAIN todo'[d], todo'[d][m] = todo'[d][n]
            PROVE  m = n
        <5>1. m + 1 = n + 1 /\ m \in Nat /\ n \in Nat
          BY <2>11, <4>1, <4>2
        <5>2. QED
          BY <5>1
      <4>3. ASSUME NEW n \in DOMAIN todo'[d] PROVE todo'[d][n] # cur'[d]
        <5>1. n \in Nat /\ n + 1 # 1 /\ n + 1 \in DOMAIN todo[d] /\ n # 0
          <6>1. todo'[d] \in Seq(Jobs)
            BY <2>9
          <6>2. n \in Nat /\ n # 0
            BY <6>1
          <6>3. QED
            BY <2>11, <6>2
        <5>2. QED
          BY <2>11, <2>12, <4>1, <5>1
      <4>4. QED
        BY <3>2, <4>2, <4>3
    <3>3. QED
      BY <3>1, <3>2
  <2>16. ASSUME NEW i \in Jobs, NEW j \in Jobs, NEW b \in Cores, Ahead(i, j, b)'
         PROVE  Ahead(i, j, b)
    <3>1. CASE b # d
      BY <2>12, <2>16, <3>1 DEF Ahead
    <3>2. CASE b = d
      <4>1. CASE cur'[d] = i /\ j \in ToSet(todo'[d])
        <5>1. PICK n \in DOMAIN todo'[d] : j = todo'[d][n]
          BY <4>1 DEF ToSet
        <5>2. n + 1 \in DOMAIN todo[d] /\ j = todo[d][n + 1] /\ n \in Nat /\ n # 0
          <6>1. todo'[d] \in Seq(Jobs)
            BY <2>9
          <6>2. n \in Nat /\ n # 0
            BY <6>1
          <6>3. QED
            BY <2>11, <5>1, <6>2
        <5>3. 1 \in DOMAIN todo[d] /\ todo[d][1] = i /\ 1 < n + 1
          BY <2>12, <4>1, <5>2
        <5>4. QED
          BY <3>2, <5>2, <5>3 DEF Ahead
      <4>2. CASE \E m, n \in DOMAIN todo'[d] : m < n /\ todo'[d][m] = i /\ todo'[d][n] = j
        <5>1. PICK m \in DOMAIN todo'[d], n \in DOMAIN todo'[d] :
                  m < n /\ todo'[d][m] = i /\ todo'[d][n] = j
          BY <4>2
        <5>2. /\ m + 1 \in DOMAIN todo[d] /\ n + 1 \in DOMAIN todo[d] /\ m + 1 < n + 1
              /\ todo[d][m + 1] = i /\ todo[d][n + 1] = j
          BY <2>11, <5>1
        <5>3. QED
          BY <3>2, <5>2 DEF Ahead
      <4>3. QED
        BY <2>16, <3>2, <4>1, <4>2 DEF Ahead
    <3>3. QED
      BY <3>1, <3>2
  <2>17. GangNeverCrossed'
    BY <2>16 DEF IInv, GangNeverCrossed
  <2>18. HandlersFit'
    BY <1>3, <2>4, HandlersStay
  <2>19. QED
    BY <1>4, <2>4, <2>7, <2>13, <2>14, <2>15, <2>17, <2>18, OthersMove
<1>7. QED
  BY <1>5, <1>6 DEF NextPop

(* NextDec keeps the invariant.                                            *)
LEMMA NextDecStep == ASSUME IInv, NEW e \in Executors, NextDec(e) PROVE IInv'
<1>1. PICK k \in Jobs : k = nx[e].job
  BY SMTT(30), CallFacts DEF NextDec, CallFits
<1> DEFINE s == [job[k] EXCEPT !.run_count = job[k].run_count - 1]
<1>2. s \in JobType /\ Keeps(job[k], s)
  BY CallFacts, JobUpdates, ZeroCore
<1>3. job' = [job EXCEPT ![k] = s]
  BY <1>1 DEF NextDec
<1> HIDE DEF s
<1>4. JobsKept
  BY <1>2, <1>3, CallFacts, OneJobKept
<1> DEFINE start == IF LastToReach(k) THEN CommitCores(job[k].mask) ELSE {}
<1>5. start \in SUBSET Cores
  <2>1. job[k].mask \in SUBSET Cores
    BY CallFacts DEF JobType
  <2>2. QED
    BY <2>1 DEF CommitCores
<1>6. IF start = {} THEN ReturnNext(e)
                    ELSE nx' = [nx EXCEPT ![e].at = "commit", ![e].left = start]
  BY <1>1 DEF NextDec
<1> HIDE DEF start
<1>7. /\ nx' \in [Executors -> NextType] /\ CallsFit'
      /\ \A d \in Executors : nx'[d].job = nx[d].job \/ nx'[d].job = NoJob
  <2>1. CASE start = {}
    BY <1>6, <2>1, CallReturns
  <2>2. CASE start # {}
    <3> DEFINE r == [nx[e] EXCEPT !.at = "commit", !.left = start]
    <3>1. r \in NextType /\ r.at = "commit" /\ r.job = nx[e].job /\ r.left = start
      BY <1>5, CallFacts DEF NextType
    <3>2. nx' = [nx EXCEPT ![e] = r]
      BY <1>6, <2>2, CallFacts
    <3> HIDE DEF r
    <3>3. /\ nx' \in [Executors -> NextType] /\ CallsFit' /\ nx'[e] = r
          /\ \A d \in Executors \ {e} : nx'[d] = nx[d]
      BY <1>1, <2>2, <3>1, <3>2, OneCall
    <3>4. QED
      BY <3>1, <3>3
  <2>3. QED
    BY <2>1, <2>2
<1>8. UNCHANGED <<cur, todo, pc, local, irq, hw, work>>
  BY DEF NextDec, coreVars, devVars, hwVars
<1>9. TypeOK'
  BY <1>4, <1>7
     DEF NextDec, TypeOK, IInv, CoresTypeOK, HardwareTypeOK, coreVars, devVars, hwVars, JobsKept
<1>10. NoneLearnt
  BY <1>7, <1>8, JobAssumption DEF NoneLearnt, Unknown
<1>11. HandlersFit' /\ Once' /\ GangNeverCrossed' /\ \A i \in Jobs : Steady(i)
  BY <1>4, <1>8, HandlersStay, QueuesStay DEF Steady
<1>12. QED
  BY <1>4, <1>7, <1>9, <1>10, <1>11, OthersMove

(* A commit gives the core a batch of the job, or refuses it.              *)
LEMMA CommitFacts ==
    ASSUME IInv, NEW k \in Jobs, NEW c \in Cores, SubcoreCommit(k, c), UNCHANGED executed
    PROVE  /\ JobsKept /\ HardwareTypeOK'
           /\ \A d \in Cores : hw'[d].job = hw[d].job \/ hw'[d].job = k
<1>1. job \in [Jobs -> JobType] /\ job[k] \in JobType /\ HardwareTypeOK
  BY DEF IInv, TypeOK
<1>2. CASE job[k].pc_mode /\ job[k].mapped
  <2> DEFINE s == [job[k] EXCEPT !.committed = TRUE, !.int_mask = job[k].int_mask \cup {c}]
  <2>1. s \in JobType /\ Keeps(job[k], s)
    BY <1>1, JobUpdates
  <2>2. job' = [job EXCEPT ![k] = s]
    BY <1>1, <1>2 DEF SubcoreCommit
  <2> HIDE DEF s
  <2>3. JobsKept
    BY <1>1, <2>1, <2>2, OneJobKept
  <2>4. PICK t \in Int : t = BatchTasks(k, c)
    <3>1. /\ job[k].tasks \in Int /\ MaxSubmit \in Int
          /\ job[k].submit_count[c] \in Int
      BY <1>1, JobAssumption DEF JobType
    <3>2. QED
      BY <3>1 DEF BatchTasks
  <2>5. hw' = [hw EXCEPT ![c] = [job |-> k, tasks |-> t]]
    BY <1>2, <2>4 DEF SubcoreCommit
  <2>6. hw' \in [Cores -> [job : Jobs \cup {NoJob}, tasks : Int]]
            /\ \A d \in Cores : hw'[d].job = hw[d].job \/ hw'[d].job = k
    BY <1>1, <2>5 DEF HardwareTypeOK
  <2>7. line' \in [Cores -> {"none", "ok", "bad"}]
    BY SMTT(30), <1>1, <1>2 DEF SubcoreCommit, HardwareTypeOK
  <2>8. QED
    BY SMTT(30), <1>1, <2>3, <2>6, <2>7 DEF HardwareTypeOK
<1>3. CASE ~(job[k].pc_mode /\ job[k].mapped)
  <2> DEFINE s == [job[k] EXCEPT !.ret = "EINVAL"]
  <2>1. s \in JobType /\ Keeps(job[k], s)
    BY <1>1, JobUpdates
  <2>2. job' = [job EXCEPT ![k] = s] /\ UNCHANGED <<hw, line>>
    BY <1>1, <1>3 DEF SubcoreCommit
  <2> HIDE DEF s
  <2>3. JobsKept
    BY <1>1, <2>1, <2>2, OneJobKept
  <2>4. QED
    BY <1>1, <2>2, <2>3 DEF HardwareTypeOK
<1>4. QED
  BY <1>2, <1>3

(* NextCommit keeps the invariant.                                         *)
LEMMA NextCommitStep == ASSUME IInv, NEW e \in Executors, NextCommit(e) PROVE IInv'
<1>1. PICK k \in Jobs : k = nx[e].job
  BY CallFacts DEF NextCommit, CallFits
<1>2. nx[e].left # {} /\ nx[e].at = "commit"
  BY CallFacts DEF NextCommit, CallFits
<1>3. PICK c \in Cores : c = Min(nx[e].left)
  BY <1>2, CallFacts, MinCore
<1>4. /\ JobsKept /\ HardwareTypeOK'
      /\ \A d \in Cores : hw'[d].job = hw[d].job \/ hw'[d].job = k
  BY <1>1, <1>3, CommitFacts DEF NextCommit
<1>5. /\ nx' \in [Executors -> NextType] /\ CallsFit'
      /\ \A d \in Executors : nx'[d].job = nx[d].job \/ nx'[d].job = NoJob
  <2>1. CASE nx[e].left = {c}
    BY <1>3, <2>1, CallReturns DEF NextCommit
  <2>2. CASE nx[e].left # {c}
    <3> DEFINE r == [nx[e] EXCEPT !.left = nx[e].left \ {c}]
    <3>1. r \in NextType /\ r.at = "commit" /\ r.job = k /\ r.left # {}
      BY <1>1, <1>2, <2>2, CallFacts DEF NextType
    <3>2. nx' = [nx EXCEPT ![e] = r]
      BY <1>3, <2>2 DEF NextCommit
    <3> HIDE DEF r
    <3>3. /\ nx' \in [Executors -> NextType] /\ CallsFit' /\ nx'[e] = r
          /\ \A d \in Executors \ {e} : nx'[d] = nx[d]
      BY <3>1, <3>2, OneCall
    <3>4. QED
      BY <1>1, <3>1, <3>3
  <2>3. QED
    BY <2>1, <2>2
<1>6. UNCHANGED <<cur, todo, pc, local, irq, work>>
  BY DEF NextCommit, coreVars, devVars
<1>7. TypeOK'
  BY <1>4, <1>5 DEF NextCommit, TypeOK, IInv, CoresTypeOK, coreVars, devVars, JobsKept
<1>8. NoneLearnt
  BY <1>1, <1>4, <1>5, <1>6, JobAssumption DEF NoneLearnt, Unknown
<1>9. HandlersFit' /\ Once' /\ GangNeverCrossed' /\ \A i \in Jobs : Steady(i)
  BY <1>4, <1>6, HandlersStay, QueuesStay DEF Steady
<1>10. QED
  BY <1>4, <1>5, <1>7, <1>8, <1>9, OthersMove

----------------------------------------------------------------------------
(* The steps of the interrupt handlers and of the hardware.                *)

(* What is known of a handler.                                             *)
LEMMA HandlerFacts ==
    ASSUME IInv, NEW c \in Cores
    PROVE  /\ irq \in [Cores -> IrqType] /\ irq[c] \in IrqType /\ HandlerFits(c)
           /\ IdleIrq \in IrqType /\ job \in [Jobs -> JobType] /\ HardwareTypeOK
           /\ c \in Executors /\ cur[c] \in Jobs \cup {NoJob} /\ line[c] \in {"none", "ok", "bad"}
BY DEF IInv, TypeOK, CoresTypeOK, IrqType, Fits, HandlersFit, IdleIrq, Executors, HardwareTypeOK

(* The handler of core c goes on to r.                                     *)
LEMMA OneHandler ==
    ASSUME IInv, NEW c \in Cores, NEW r \in IrqType, irq' = [irq EXCEPT ![c] = r], JobsKept,
           r.at \notin {"idle", "stray"} => r.job \in Jobs,
           r.at = "signal" => job'[r.job].done = TRUE
    PROVE  /\ irq' \in [Cores -> IrqType] /\ HandlersFit' /\ irq'[c] = r
           /\ \A d \in Cores \ {c} : irq'[d] = irq[d]
<1>1. /\ irq' \in [Cores -> IrqType] /\ irq'[c] = r
      /\ \A d \in Cores \ {c} : irq'[d] = irq[d]
  BY HandlerFacts
<1>2. ASSUME NEW d \in Cores PROVE HandlerFits(d)'
  <2>1. CASE d = c
    BY <1>1, <2>1 DEF HandlerFits
  <2>2. CASE d # c
    <3>1. irq'[d] = irq[d] /\ HandlerFits(d)
      BY <1>1, <2>2, HandlerFacts
    <3>2. irq[d].at = "signal" => irq[d].job \in Jobs
      BY <3>1 DEF HandlerFits
    <3>3. irq[d].at = "signal" => job'[irq[d].job].done = TRUE
      BY <3>1, <3>2 DEF HandlerFits, JobsKept, Keeps
    <3>4. QED
      BY <3>1, <3>3 DEF HandlerFits
  <2>3. QED
    BY <2>1, <2>2
<1>3. QED
  BY <1>1, <1>2 DEF HandlersFit

(* The handler of core c is through.                                       *)
LEMMA HandlerReturns ==
    ASSUME IInv, NEW c \in Cores, irq' = [irq EXCEPT ![c] = IdleIrq], JobsKept
    PROVE  /\ irq' \in [Cores -> IrqType] /\ HandlersFit'
           /\ \A d \in Cores : irq'[d].job = irq[d].job \/ irq'[d].job = NoJob
<1>1. IdleIrq.at = "idle" /\ IdleIrq.job = NoJob
  BY DEF IdleIrq
<1>2. /\ irq' \in [Cores -> IrqType] /\ HandlersFit' /\ irq'[c] = IdleIrq
      /\ \A d \in Cores \ {c} : irq'[d] = irq[d]
  BY <1>1, HandlerFacts, OneHandler
<1>3. QED
  BY <1>1, <1>2

(* The handler of core c calls rknpu_job_next.                             *)
LEMMA HandlerCalls ==
    ASSUME IInv, NEW c \in Cores, CallNext(c, c)
    PROVE  /\ nx' \in [Executors -> NextType] /\ CallsFit'
           /\ \A d \in Executors : nx'[d].job = nx[d].job \/ nx'[d].job = NoJob
<1> DEFINE r == [at |-> "check", core |-> c, job |-> NoJob, left |-> {}]
<1>1. r \in NextType /\ r.at = "check" /\ r.job = NoJob
  BY DEF NextType
<1>2. nx' = [nx EXCEPT ![c] = r] /\ c \in Executors
  BY DEF CallNext, Executors
<1> HIDE DEF r
<1>3. /\ nx' \in [Executors -> NextType] /\ CallsFit' /\ nx'[c] = r
      /\ \A d \in Executors \ {c} : nx'[d] = nx[d]
  BY <1>1, <1>2, OneCall
<1>4. QED
  BY <1>1, <1>3

(* A step of a handler or of the hardware, which knows no job that was not *)
(* known before.                                                           *)
LEMMA HandlerMove ==
    ASSUME IInv, JobsKept, CoresTypeOK', HardwareTypeOK', QueuesThin,
           irq' \in [Cores -> IrqType], HandlersFit', nx' \in [Executors -> NextType], CallsFit',
           UNCHANGED <<pc, local>>,
           \A d \in Executors : nx'[d].job = nx[d].job \/ nx'[d].job = NoJob,
           \A i \in Jobs : Unknown(i) => /\ i \notin work'
                                         /\ \A d \in Cores : irq'[d].job # i /\ hw'[d].job # i
    PROVE  IInv'
<1>1. NoneLearnt
  <2> SUFFICES ASSUME NEW i \in Jobs, Unknown(i) PROVE Unknown(i)'
    BY DEF NoneLearnt
  <2>1. NoJob \notin Jobs
    BY JobAssumption
  <2>2. ASSUME NEW d \in Cores, NEW n \in DOMAIN todo'[d] PROVE todo'[d][n] # i
    <3>1. PICK f \in [DOMAIN todo'[d] -> DOMAIN todo[d]] :
              \A m \in DOMAIN todo'[d] : todo'[d][m] = todo[d][f[m]]
      BY DEF QueuesThin, Thins
    <3>2. f[n] \in DOMAIN todo[d] /\ todo'[d][n] = todo[d][f[n]]
      BY <3>1
    <3>3. QED
      BY <3>2 DEF Unknown
  <2>3. \A d \in Cores : cur'[d] # i
    BY <2>1 DEF QueuesThin, Unknown
  <2>4. QED
    BY <2>1, <2>2, <2>3 DEF Unknown
<1>2. TypeOK'
  BY DEF TypeOK, IInv, JobsKept
<1>3. Once' /\ GangNeverCrossed' /\ \A i \in Jobs : Steady(i)
  BY ThinQueues DEF CoresTypeOK, Steady
<1>4. QED
  BY <1>1, <1>2, <1>3, OthersMove

(* The same for a handler that keeps to itself and to the jobs.            *)
LEMMA HandlerGoesOn ==
    ASSUME IInv, JobsKept, NEW c \in Cores, NEW r \in IrqType, irq' = [irq EXCEPT ![c] = r],
           r.at \notin {"idle", "stray"} => r.job \in Jobs,
           r.at = "signal" => job'[r.job].done = TRUE,
           r.job \in {irq[c].job, cur[c], NoJob},
           CoresTypeOK', HardwareTypeOK', QueuesThin, work' = work,
           nx' = nx \/ CallNext(c, c), UNCHANGED <<pc, local>>,
           \A d \in Cores : hw'[d].job \in {hw[d].job, irq[c].job, NoJob}
    PROVE  IInv'
<1>1. /\ irq' \in [Cores -> IrqType] /\ HandlersFit' /\ irq'[c] = r
      /\ \A d \in Cores \ {c} : irq'[d] = irq[d]
  BY OneHandler
<1>2. /\ nx' \in [Executors -> NextType] /\ CallsFit'
      /\ \A d \in Executors : nx'[d].job = nx[d].job \/ nx'[d].job = NoJob
  <2>1. CASE nx' = nx
    BY <2>1, CallsStay DEF IInv, TypeOK
  <2>2. CASE CallNext(c, c)
    BY <2>2, HandlerCalls
  <2>3. QED
    BY <2>1, <2>2
<1>3. NoJob \notin Jobs
  BY JobAssumption
<1>4. ASSUME NEW i \in Jobs, Unknown(i)
      PROVE  i \notin work' /\ \A d \in Cores : irq'[d].job # i /\ hw'[d].job # i
  BY <1>1, <1>3, <1>4 DEF Unknown
<1>5. QED
  BY <1>1, <1>2, <1>4, HandlerMove

(* What does not change keeps its type.                                    *)
LEMMA CoresStay ==
    ASSUME IInv, UNCHANGED <<coreVars, devVars>>
    PROVE  CoresTypeOK' /\ QueuesThin
<1>1. UNCHANGED <<cur, todo>>
  BY DEF coreVars
<1>2. QED
  BY <1>1, QueuesStay DEF IInv, TypeOK, CoresTypeOK, coreVars, devVars

(* A handler clears or leaves the interrupt status of its core.            *)
LEMMA LineStays ==
    ASSUME IInv, NEW c \in Cores, UNCHANGED <<hw, executed>>,
           line' = line \/ line' = [line EXCEPT ![c] = "none"]
    PROVE  HardwareTypeOK' /\ \A d \in Cores : hw'[d].job = hw[d].job
BY DEF IInv, TypeOK, HardwareTypeOK

(* IrqEnter keeps the invariant.                                           *)
LEMMA IrqEnterStep == ASSUME IInv, NEW c \in Cores, IrqEnter(c) PROVE IInv'
<1>1. /\ CoresTypeOK' /\ QueuesThin /\ work' = work /\ UNCHANGED <<pc, local, nx>>
      /\ HardwareTypeOK' /\ \A d \in Cores : hw'[d].job = hw[d].job
  BY CoresStay, LineStays DEF IrqEnter, devVars, hwVars
<1>2. CASE cur[c] = NoJob
  <2> DEFINE r == [irq[c] EXCEPT !.at = "stray"]
  <2>1. r \in IrqType /\ r.at = "stray" /\ r.job = irq[c].job
    BY HandlerFacts DEF IrqType
  <2>2. irq' = [irq EXCEPT ![c] = r] /\ JobsKept
    BY <1>2, HandlerFacts, NoJobChanged DEF IrqEnter
  <2> HIDE DEF r
  <2>3. QED
    BY <1>1, <2>1, <2>2, HandlerGoesOn
<1>3. CASE cur[c] # NoJob
  <2>1. PICK k \in Jobs : k = cur[c]
    BY <1>3, HandlerFacts
  <2> DEFINE r == [irq[c] EXCEPT !.at = "status", !.job = k]
             s == [job[k] EXCEPT !.irq_entry = job[k].irq_entry \cup {c}]
  <2>2. r \in IrqType /\ r.at = "status" /\ r.job = k
    BY HandlerFacts DEF IrqType
  <2>3. irq' = [irq EXCEPT ![c] = r] /\ job' = [job EXCEPT ![k] = s]
    BY <1>3, <2>1, HandlerFacts DEF IrqEnter
  <2>4. s \in JobType /\ Keeps(job[k], s)
    BY HandlerFacts, JobUpdates
  <2> HIDE DEF r, s
  <2>5. JobsKept
    BY <2>3, <2>4, HandlerFacts, OneJobKept
  <2>6. QED
    BY <1>1, <2>1, <2>2, <2>3, <2>5, HandlerGoesOn
<1>4. QED
  BY <1>2, <1>3

(* IrqStray keeps the invariant.                                           *)
LEMMA IrqStrayStep == ASSUME IInv, NEW c \in Cores, IrqStray(c) PROVE IInv'
<1>1. CoresTypeOK' /\ QueuesThin /\ work' = work /\ UNCHANGED <<pc, local>>
  BY CoresStay DEF IrqStray, devVars
<1>2. HardwareTypeOK' /\ \A d \in Cores : hw'[d].job = hw[d].job
  BY LineStays DEF IrqStray
<1>3. JobsKept
  BY HandlerFacts, NoJobChanged DEF IrqStray
<1>4. IdleIrq \in IrqType /\ IdleIrq.at = "idle" /\ IdleIrq.job = NoJob
  BY HandlerFacts DEF IdleIrq
<1>5. irq' = [irq EXCEPT ![c] = IdleIrq] /\ CallNext(c, c)
  BY DEF IrqStray
<1>6. QED
  BY <1>1, <1>2, <1>3, <1>4, <1>5, HandlerGoesOn

(* IrqStatus keeps the invariant.                                          *)
LEMMA IrqStatusStep == ASSUME IInv, NEW c \in Cores, IrqStatus(c) PROVE IInv'
<1>1. CoresTypeOK' /\ QueuesThin /\ work' = work /\ UNCHANGED <<pc, local, nx>>
  BY CoresStay DEF IrqStatus, devVars
<1>2. HardwareTypeOK' /\ \A d \in Cores : hw'[d].job = hw[d].job
  BY LineStays DEF IrqStatus, hwVars
<1>3. JobsKept
  BY HandlerFacts, NoJobChanged DEF IrqStatus
<1> DEFINE r == [irq[c] EXCEPT !.at = "compare", !.status = line[c]]
<1>4. r \in IrqType /\ r.at = "compare" /\ r.job = irq[c].job
  BY HandlerFacts DEF IrqType
<1>5. irq' = [irq EXCEPT ![c] = r] /\ irq[c].job \in Jobs
  BY HandlerFacts DEF IrqStatus, HandlerFits
<1> HIDE DEF r
<1>6. QED
  BY <1>1, <1>2, <1>3, <1>4, <1>5, HandlerGoesOn

(* IrqCompare keeps the invariant.                                         *)
LEMMA IrqCompareStep == ASSUME IInv, NEW c \in Cores, IrqCompare(c) PROVE IInv'
<1>1. CoresTypeOK' /\ QueuesThin /\ work' = work /\ UNCHANGED <<pc, local, nx>>
  BY CoresStay DEF IrqCompare, devVars
<1>2. HardwareTypeOK' /\ \A d \in Cores : hw'[d].job = hw[d].job
  BY LineStays DEF IrqCompare
<1>3. JobsKept
  BY HandlerFacts, NoJobChanged DEF IrqCompare
<1> DEFINE s == [irq[c] EXCEPT !.at = "count"]
<1>4. PICK r \in {s, IdleIrq} : irq' = [irq EXCEPT ![c] = r]
  BY HandlerFacts DEF IrqCompare
<1>5. s \in IrqType /\ s.at = "count" /\ s.job = irq[c].job
  BY HandlerFacts DEF IrqType
<1>6. irq[c].job \in Jobs /\ IdleIrq \in IrqType /\ IdleIrq.at = "idle" /\ IdleIrq.job = NoJob
  BY HandlerFacts DEF IrqCompare, HandlerFits, IdleIrq
<1> HIDE DEF s
<1>7. /\ r \in IrqType /\ (r.at \notin {"idle", "stray"} => r.job \in Jobs)
      /\ r.at # "signal" /\ r.job \in {irq[c].job, NoJob}
  BY <1>5, <1>6
<1>8. QED
  BY <1>1, <1>2, <1>3, <1>4, <1>7, HandlerGoesOn

(* IrqCount keeps the invariant.                                           *)
LEMMA IrqCountStep == ASSUME IInv, NEW c \in Cores, IrqCount(c) PROVE IInv'
<1>1. CoresTypeOK' /\ QueuesThin /\ work' = work /\ UNCHANGED <<pc, local, nx>>
  BY CoresStay DEF IrqCount, devVars
<1>2. HardwareTypeOK' /\ \A d \in Cores : hw'[d].job = hw[d].job
  BY LineStays DEF IrqCount, hwVars
<1>3. PICK k \in Jobs : k = irq[c].job
  BY HandlerFacts DEF IrqCount, HandlerFits
<1> DEFINE s == [job[k] EXCEPT !.submit_count =
                    [job[k].submit_count EXCEPT ![c] = job[k].submit_count[c] + 1]]
<1>4. s \in JobType /\ Keeps(job[k], s)
  BY HandlerFacts, JobUpdates
<1>5. job' = [job EXCEPT ![k] = s]
  BY <1>3, HandlerFacts DEF IrqCount
<1> HIDE DEF s
<1>6. JobsKept
  BY <1>4, <1>5, HandlerFacts, OneJobKept
<1>7. PICK l \in {"recommit", "finish"} : irq' = [irq EXCEPT ![c].at = l]
  BY DEF IrqCount
<1> DEFINE r == [irq[c] EXCEPT !.at = l]
<1>8. r \in IrqType /\ r.at = l /\ r.job = k /\ irq' = [irq EXCEPT ![c] = r]
  BY <1>3, <1>7, HandlerFacts DEF IrqType
<1> HIDE DEF r
<1>9. QED
  BY <1>1, <1>2, <1>3, <1>6, <1>8, HandlerGoesOn

(* IrqRecommit keeps the invariant.                                        *)
LEMMA IrqRecommitStep == ASSUME IInv, NEW c \in Cores, IrqRecommit(c) PROVE IInv'
<1>1. CoresTypeOK' /\ QueuesThin /\ work' = work /\ UNCHANGED <<pc, local, nx>>
  BY CoresStay DEF IrqRecommit, devVars
<1>2. PICK k \in Jobs : k = irq[c].job
  BY HandlerFacts DEF IrqRecommit, HandlerFits
<1>3. /\ JobsKept /\ HardwareTypeOK'
      /\ \A d \in Cores : hw'[d].job = hw[d].job \/ hw'[d].job = k
  BY <1>2, CommitFacts DEF IrqRecommit
<1>4. /\ IdleIrq \in IrqType /\ IdleIrq.at = "idle" /\ IdleIrq.job = NoJob
      /\ irq' = [irq EXCEPT ![c] = IdleIrq]
  BY HandlerFacts DEF IdleIrq, IrqRecommit
<1>5. QED
  BY <1>1, <1>2, <1>3, <1>4, HandlerGoesOn

(* IrqFinish keeps the invariant.                                          *)
LEMMA IrqFinishStep == ASSUME IInv, NEW c \in Cores, IrqFinish(c) PROVE IInv'
<1>1. work' = work /\ UNCHANGED <<pc, local, nx, todo, soft_reseting, domref>>
  BY DEF IrqFinish, devVars
<1>2. HardwareTypeOK' /\ \A d \in Cores : hw'[d].job = hw[d].job
  BY LineStays DEF IrqFinish, hwVars
<1>3. JobsKept
  BY HandlerFacts, NoJobChanged DEF IrqFinish
<1>4. PICK k \in Jobs : k = irq[c].job
  BY HandlerFacts DEF IrqFinish, HandlerFits
<1>5. cur' \in [Cores -> Jobs \cup {NoJob}] /\ \A d \in Cores : cur'[d] = cur[d] \/ cur'[d] = NoJob
  BY DEF IrqFinish, IInv, TypeOK, CoresTypeOK
<1>6. task_num' \in [Cores -> Int]
  <2>1. job[k].tasks \in Int
    BY HandlerFacts DEF JobType
  <2>2. QED
    BY <1>4, <2>1 DEF IrqFinish, IInv, TypeOK, CoresTypeOK
<1>7. CoresTypeOK' /\ QueuesThin
  BY <1>1, <1>5, <1>6, SameThins DEF QueuesThin, IInv, TypeOK, CoresTypeOK
<1> DEFINE r == [irq[c] EXCEPT !.at = "complete"]
<1>8. r \in IrqType /\ r.at = "complete" /\ r.job = k /\ irq' = [irq EXCEPT ![c] = r]
  BY <1>4, HandlerFacts DEF IrqType, IrqFinish
<1> HIDE DEF r
<1>9. QED
  BY <1>1, <1>2, <1>3, <1>4, <1>7, <1>8, HandlerGoesOn

(* IrqComplete keeps the invariant: who is to signal the end of a job has  *)
(* marked it DONE.                                                         *)
LEMMA IrqCompleteStep == ASSUME IInv, NEW c \in Cores, IrqComplete(c) PROVE IInv'
<1>1. work' = work /\ UNCHANGED <<pc, local, cur, todo, task_num, soft_reseting>>
  BY DEF IrqComplete, coreVars
<1>2. HardwareTypeOK' /\ \A d \in Cores : hw'[d].job = hw[d].job
  BY LineStays DEF IrqComplete, hwVars
<1>3. PICK k \in Jobs : k = irq[c].job
  BY HandlerFacts DEF IrqComplete, HandlerFits
<1>4. CoresTypeOK' /\ QueuesThin
  <2>1. domref' \in Int
    BY DEF IrqComplete, IInv, TypeOK, CoresTypeOK
  <2>2. QED
    BY <1>1, <2>1, QueuesStay DEF IInv, TypeOK, CoresTypeOK
<1>5. job[k] \in JobType /\ job[k].done \in BOOLEAN /\ "none" \in FenceStates /\ "0" \in Errno
  BY HandlerFacts DEF JobType, FenceStates, Errno
<1>6. CASE LastToFinish(k)
  <2> DEFINE s == [job[k] EXCEPT !.interrupt_count = job[k].interrupt_count - 1, !.done = TRUE]
             r == [irq[c] EXCEPT !.at = "signal"]
  <2>1. s \in JobType /\ Keeps(job[k], s) /\ s.done = TRUE
    BY <1>5, JobResults
  <2>2. job' = [job EXCEPT ![k] = s]
    BY <1>3, <1>5, <1>6, HandlerFacts DEF IrqComplete
  <2> HIDE DEF s
  <2>3. JobsKept /\ job'[k] = s
    BY <2>1, <2>2, HandlerFacts, OneJobKept
  <2>4. r \in IrqType /\ r.at = "signal" /\ r.job = k
    BY <1>3, HandlerFacts DEF IrqType
  <2>5. irq' = [irq EXCEPT ![c] = r] /\ nx' = nx
    BY <1>3, <1>6, HandlerFacts DEF IrqComplete
  <2> HIDE DEF r
  <2>6. QED
    BY <1>1, <1>2, <1>3, <1>4, <2>1, <2>3, <2>4, <2>5, HandlerGoesOn
<1>7. CASE ~LastToFinish(k)
  <2> DEFINE s == [job[k] EXCEPT !.interrupt_count = job[k].interrupt_count - 1]
  <2>1. s \in JobType /\ Keeps(job[k], s)
    BY <1>5, JobResults
  <2>2. job' = [job EXCEPT ![k] = s]
    <3>1. job' = [job EXCEPT ![k] = [job[k] EXCEPT !.interrupt_count = job[k].interrupt_count - 1,
                                                   !.done = job[k].done]]
      BY <1>3, <1>5, <1>7, HandlerFacts DEF IrqComplete
    <3>2. PICK x \in Int : x = job[k].interrupt_count - 1
      BY <1>5 DEF JobType
    <3>3. [job[k] EXCEPT !.interrupt_count = x, !.done = job[k].done]
              = [job[k] EXCEPT !.interrupt_count = x]
      BY <1>5 DEF JobType
    <3>4. QED
      BY <3>1, <3>2, <3>3
  <2> HIDE DEF s
  <2>3. JobsKept
    BY <2>1, <2>2, HandlerFacts, OneJobKept
  <2>4. IdleIrq \in IrqType /\ IdleIrq.at = "idle" /\ IdleIrq.job = NoJob
    BY HandlerFacts DEF IdleIrq
  <2>5. irq' = [irq EXCEPT ![c] = IdleIrq] /\ CallNext(c, c)
    BY <1>3, <1>7 DEF IrqComplete
  <2>6. QED
    BY <1>1, <1>2, <1>4, <2>3, <2>4, <2>5, HandlerGoesOn
<1>8. QED
  BY <1>6, <1>7

(* IrqSignal keeps the invariant: the result 0 is that of a DONE job, and  *)
(* waiters it wakes find themselves where they were.                       *)
LEMMA IrqSignalStep == ASSUME IInv, NEW c \in Cores, IrqSignal(c) PROVE IInv'
<1>1. UNCHANGED <<local, cur, todo, task_num, soft_reseting, domref, hw, line, executed>>
  BY DEF IrqSignal, coreVars, hwVars
<1>2. PICK k \in Jobs : k = irq[c].job
  BY HandlerFacts DEF IrqSignal, HandlerFits
<1>3. job[k] \in JobType /\ job[k].done = TRUE /\ "0" \in Errno
  BY <1>2, HandlerFacts DEF IrqSignal, HandlerFits, Errno
<1>4. PICK f \in FenceStates : f = IF job[k].fence = "none" THEN "none" ELSE "signaled"
  BY DEF FenceStates
<1> DEFINE s == [job[k] EXCEPT !.ret = "0", !.fence = f]
<1>5. s \in JobType /\ Keeps(job[k], s)
  BY <1>3, JobResults
<1>6. job' = [job EXCEPT ![k] = s]
  BY <1>2, <1>4, HandlerFacts DEF IrqSignal
<1> HIDE DEF s
<1>7. JobsKept
  BY <1>5, <1>6, HandlerFacts, OneJobKept
<1>8. /\ irq' \in [Cores -> IrqType] /\ HandlersFit'
      /\ \A d \in Cores : irq'[d].job = irq[d].job \/ irq'[d].job = NoJob
  BY <1>7, HandlerReturns DEF IrqSignal
<1>9. /\ nx' \in [Executors -> NextType] /\ CallsFit'
      /\ \A d \in Executors : nx'[d].job = nx[d].job \/ nx'[d].job = NoJob
  BY HandlerCalls DEF IrqSignal
<1>10. \A i \in Jobs : pc'[i] \in Labels /\ Steady(i)
  BY <1>1 DEF IrqSignal, WakeUp, IInv, TypeOK, Steady, Labels
<1>11. pc' \in [Jobs -> Labels]
  BY <1>10 DEF IrqSignal, WakeUp
<1>12. work' \in SUBSET Jobs /\ work' \subseteq work \cup {k}
  BY <1>2 DEF IrqSignal, ScheduleCleanup, IInv, TypeOK, CoresTypeOK
<1>13. TypeOK'
  BY <1>1, <1>7, <1>8, <1>9, <1>11, <1>12
     DEF TypeOK, IInv, CoresTypeOK, HardwareTypeOK, JobsKept
<1>14. NoneLearnt
  BY <1>1, <1>2, <1>8, <1>9, <1>12, JobAssumption DEF NoneLearnt, Unknown
<1>15. Once' /\ GangNeverCrossed'
  BY <1>1, QueuesStay
<1>16. QED
  BY <1>7, <1>8, <1>9, <1>10, <1>13, <1>14, <1>15, OthersMove

(* The steps of the hardware keep the invariant: nobody sees them yet.     *)
LEMMA HardwareStep == ASSUME IInv, NEW c \in Cores, HwFinish(c) \/ HwBadIrq(c) PROVE IInv'
<1>1. UNCHANGED <<job, coreVars, devVars, pc, local, irq, nx>>
  BY DEF HwFinish, HwBadIrq
<1>2. CoresTypeOK' /\ QueuesThin /\ JobsKept /\ work' = work
  BY <1>1, CoresStay, HandlerFacts, NoJobChanged DEF devVars
<1>3. HandlersFit' /\ CallsFit'
  BY <1>1, <1>2, HandlersStay, CallsStay
<1>4. HardwareTypeOK' /\ \A d \in Cores : hw'[d].job = hw[d].job \/ hw'[d].job = NoJob
  <2>1. CASE HwFinish(c)
    <3>1. PICK k \in Jobs : k = hw[c].job
      BY <2>1 DEF HwFinish, IInv, TypeOK, HardwareTypeOK
    <3>2. IdleHw \in [job : Jobs \cup {NoJob}, tasks : Int] /\ IdleHw.job = NoJob
      BY DEF IdleHw
    <3>3. /\ hw' \in [Cores -> [job : Jobs \cup {NoJob}, tasks : Int]]
          /\ \A d \in Cores : hw'[d].job = hw[d].job \/ hw'[d].job = NoJob
      BY <2>1, <3>2 DEF HwFinish, IInv, TypeOK, HardwareTypeOK
    <3>4. line' \in [Cores -> {"none", "ok", "bad"}]
      BY <2>1 DEF HwFinish, IInv, TypeOK, HardwareTypeOK
    <3>5. executed' \in [Jobs -> [Cores -> Int]]
      <4>1. executed[k] \in [Cores -> Int] /\ hw[c].tasks \in Int
        BY DEF IInv, TypeOK, HardwareTypeOK
      <4> DEFINE x == [executed[k] EXCEPT ![c] = executed[k][c] + hw[c].tasks]
      <4>2. x \in [Cores -> Int]
        BY <4>1
      <4>3. executed' = [executed EXCEPT ![k] = x]
        BY <2>1, <3>1 DEF HwFinish, IInv, TypeOK, HardwareTypeOK
      <4> HIDE DEF x
      <4>4. QED
        BY <4>2, <4>3 DEF IInv, TypeOK, HardwareTypeOK
    <3>6. QED
      BY <3>3, <3>4, <3>5 DEF HardwareTypeOK
  <2>2. CASE HwBadIrq(c)
    BY <2>2 DEF HwBadIrq, IInv, TypeOK, HardwareTypeOK
  <2>3. QED
    BY <2>1, <2>2
<1>5. irq' \in [Cores -> IrqType] /\ nx' \in [Executors -> NextType]
  BY <1>1 DEF IInv, TypeOK
<1>6. ASSUME NEW i \in Jobs, Unknown(i)
      PROVE  i \notin work' /\ \A d \in Cores : irq'[d].job # i /\ hw'[d].job # i
  BY <1>1, <1>2, <1>4, <1>6, JobAssumption DEF Unknown
<1>7. QED
  BY <1>1, <1>2, <1>3, <1>4, <1>5, <1>6, HandlerMove

----------------------------------------------------------------------------
(* The theorems.                                                           *)

(* At module load nobody knows any job and the queues are empty.           *)
LEMMA InitFits == ASSUME Init PROVE IInv
<1>1. NewJob \in JobType /\ NewJob.nonblock = FALSE /\ NewJob.ret = "0"
  <2>1. [c \in Cores |-> 0] \in [Cores -> Nat]
    OBVIOUS
  <2>2. QED
    BY <2>1 DEF NewJob, JobType, Errno, FenceStates
<1>2. NewLocal \in LocalType /\ NewLocal.ret = "none" /\ NewLocal.victim = NoJob
  BY DEF NewLocal, LocalType
<1>3. NoCall \in NextType /\ NoCall.at = "none" /\ NoCall.job = NoJob
  BY ZeroCore DEF NoCall, NextType
<1>4. IdleIrq \in IrqType /\ IdleIrq.at = "idle" /\ IdleIrq.job = NoJob
  BY DEF IdleIrq, IrqType
<1>5. IdleHw \in [job : Jobs \cup {NoJob}, tasks : Int] /\ IdleHw.job = NoJob
  BY DEF IdleHw
<1>6. /\ \A j \in Jobs : job[j] = NewJob /\ pc[j] = "new" /\ local[j] = NewLocal
      /\ \A c \in Cores : cur[c] = NoJob /\ todo[c] = <<>> /\ irq[c] = IdleIrq /\ hw[c] = IdleHw
      /\ \A e \in Executors : nx[e] = NoCall
      /\ work = {}
  BY DEF Init
<1>7. TypeOK
  <2>1. job \in [Jobs -> JobType] /\ local \in [Jobs -> LocalType] /\ irq \in [Cores -> IrqType]
            /\ nx \in [Executors -> NextType]
    BY <1>1, <1>2, <1>3, <1>4 DEF Init
  <2>2. pc \in [Jobs -> Labels]
    BY DEF Init, Labels
  <2>3. CoresTypeOK
    <3>1. <<>> \in Seq(Jobs)
      OBVIOUS
    <3>2. todo \in [Cores -> Seq(Jobs)]
      BY <3>1 DEF Init
    <3>3. cur \in [Cores -> Jobs \cup {NoJob}] /\ task_num \in [Cores -> Int]
      BY DEF Init
    <3>4. soft_reseting = FALSE
      BY DEF Init
    <3>5. domref \in Int /\ work \in SUBSET Jobs
      BY DEF Init
    <3>6. soft_reseting \in BOOLEAN
      BY <3>4
    <3>7. QED
      BY <3>2, <3>3, <3>5, <3>6 DEF CoresTypeOK
  <2>4. HardwareTypeOK
    BY <1>5 DEF Init, HardwareTypeOK
  <2>5. QED
    BY <2>1, <2>2, <2>3, <2>4 DEF TypeOK
<1>8. CallsFit /\ HandlersFit
  BY <1>3, <1>4, <1>6 DEF CallsFit, CallFits, HandlersFit, HandlerFits
<1>9. ThreadsFit /\ ResultsFit
  BY <1>1, <1>2, <1>6 DEF ThreadsFit, ThreadFits, ResultsFit, ResultFits, Cleaning, ResetLabels
<1>10. Fresh
  BY <1>2, <1>3, <1>4, <1>5, <1>6, JobAssumption DEF Fresh, Unknown
<1>11. Once /\ GangNeverCrossed
  BY <1>6 DEF Once, GangNeverCrossed, Ahead, ToSet
<1>12. QED
  BY <1>7, <1>8, <1>9, <1>10, <1>11 DEF IInv, Fits

(* A step that changes nothing keeps the invariant.                        *)
LEMMA StutterStep == ASSUME IInv, UNCHANGED vars PROVE IInv'
<1>1. /\ UNCHANGED <<job, coreVars, devVars, pc, local, irq, nx, hwVars>>
      /\ UNCHANGED <<hw, line, executed>>
  BY DEF vars, hwVars
<1>2. CoresTypeOK' /\ QueuesThin /\ JobsKept /\ work' = work
  BY <1>1, CoresStay, NoJobChanged DEF devVars, IInv, TypeOK
<1>3. HandlersFit' /\ CallsFit'
  BY <1>1, <1>2, HandlersStay, CallsStay
<1>4. HardwareTypeOK' /\ irq' \in [Cores -> IrqType] /\ nx' \in [Executors -> NextType]
  BY <1>1 DEF IInv, TypeOK, HardwareTypeOK
<1>5. ASSUME NEW i \in Jobs, Unknown(i)
      PROVE  i \notin work' /\ \A d \in Cores : irq'[d].job # i /\ hw'[d].job # i
  BY <1>1, <1>2, <1>5 DEF Unknown
<1>6. QED
  BY <1>1, <1>2, <1>3, <1>4, <1>5, HandlerMove

(* Every step keeps the invariant.                                         *)
LEMMA StepFits == ASSUME IInv, [Next]_vars PROVE IInv'
<1>1. ASSUME NEW j \in Jobs, NEW a \in Requests, Submit(j, a) PROVE IInv'
  BY <1>1, SubmitStep
<1>2. ASSUME NEW j \in Jobs, Thread(j) PROVE IInv'
  <2>1. ASSUME FenceIn(j) \/ FenceOut(j) \/ Schedule(j) \/ Enqueue(j) \/ Kick(j) \/ Scheduled(j)
        PROVE  IInv'
    BY <2>1, FenceInStep, FenceOutStep, ScheduleStep, EnqueueStep, KickStep, ScheduledStep
  <2>2. ASSUME WaitCheck(j) \/ WaitTimeout(j) \/ Waited(j) \/ Unlink(j) \/ Decide(j) \/ FreeJob(j)
        PROVE  IInv'
    BY <2>2, WaitCheckStep, WaitTimeoutStep, WaitedStep, UnlinkStep, DecideStep, FreeJobStep
  <2>3. ASSUME Abort(j) \/ AbortClear(j) \/ AbortCleared(j) \/ Reset(j)
        PROVE  IInv'
    BY <2>3, AbortStep, AbortClearStep, AbortClearedStep, ResetFlagStep, ResetWakeStep,
       ResetControlStep DEF Reset
  <2>4. ASSUME Clean(j) \/ CleanCur(j) \/ CleanWork(j) PROVE IInv'
    BY <2>4, CleanStep, CleanCurStep, CleanWorkStep
  <2>5. QED
    BY <1>2, <2>1, <2>2, <2>3, <2>4 DEF Thread
<1>3. ASSUME NEW j \in Jobs, CleanupWork(j) PROVE IInv'
  BY <1>3, CleanupWorkStep
<1>4. ASSUME NEW e \in Executors, NextCall(e) PROVE IInv'
  BY <1>4, NextCheckStep, NextPopStep, NextDecStep, NextCommitStep DEF NextCall
<1>5. ASSUME NEW c \in Cores, Handler(c) PROVE IInv'
  BY <1>5, IrqEnterStep, IrqStrayStep, IrqStatusStep, IrqCompareStep, IrqCountStep,
     IrqRecommitStep, IrqFinishStep, IrqCompleteStep, IrqSignalStep DEF Handler
<1>6. ASSUME NEW c \in Cores, HwFinish(c) \/ HwBadIrq(c) PROVE IInv'
  BY <1>6, HardwareStep
<1>7. QED
  BY <1>1, <1>2, <1>3, <1>4, <1>5, <1>6, StutterStep DEF Next

(* The inductive invariant holds in every behaviour.                       *)
THEOREM JobInvariance == Spec => []IInv
<1>1. Init => IInv
  BY InitFits
<1>2. IInv /\ [Next]_vars => IInv'
  BY StepFits
<1>3. QED
  BY <1>1, <1>2, PTL DEF Spec

(* The structures of the job engine keep their types, whatever goes wrong  *)
(* in the hardware and in the calls rknpu_submit makes.                    *)
THEOREM JobTypeCorrect == Spec => []TypeOK
<1>1. IInv => TypeOK
  BY DEF IInv
<1>2. QED
  BY <1>1, JobInvariance, PTL

(* Two jobs that share cores are served in the same order on all of them,  *)
(* with any number of jobs and also through aborts and timeout_clean: the  *)
(* list_add_tail of all cores is one critical section, and everything else *)
(* only takes jobs out of the queues.                                      *)
THEOREM JobGangNeverCrossed == Spec => []GangNeverCrossed
<1>1. IInv => GangNeverCrossed
  BY DEF IInv
<1>2. QED
  BY <1>1, JobInvariance, PTL

(* A blocking submit returns 0 only for a job that an interrupt marked     *)
(* DONE, whatever faults occur and however threads, handlers and resets    *)
(* race for job->ret.                                                      *)
THEOREM JobSuccessMeansDone == Spec => []SuccessMeansDone
<1>1. IInv => SuccessMeansDone
  <2> SUFFICES ASSUME IInv, NEW j \in Jobs, local[j].ret = "0", ~job[j].nonblock, job[j].pc_mode
               PROVE  job[j].done
    BY DEF SuccessMeansDone
  <2>1. job[j].nonblock = FALSE /\ job[j].pc_mode = TRUE
    BY DEF IInv, TypeOK, JobType
  <2>2. QED
    BY <2>1 DEF IInv, Fits, ResultsFit, ResultFits
<1>2. QED
  BY <1>1, JobInvariance, PTL

----------------------------------------------------------------------------
(***************************************************************************)
(* What a job engine does whose jobs are not late.  The driver is not      *)
(* robust against every fault (the README lists what the runs find), so    *)
(* each theorem names the faults it excludes, and no more than those:      *)
(*                                                                         *)
(*   - without timeout_clean ("overtime"), a handler owns its core until   *)
(*     it gives it up (Owned);                                             *)
(*   - without time limits at all, and for mapped PC jobs, a job is not    *)
(*     freed while a core knows it (Orderly), for the count of unfinished  *)
(*     cores never runs ahead of the cores themselves;                     *)
(*   - without interrupts of other devices on the shared line as well,     *)
(*     DONE means that every task was executed once (Exact).               *)
(*                                                                         *)
(* Each invariant is inductive only together with the ones before it.      *)
(***************************************************************************)

----------------------------------------------------------------------------
(* What the steps leave alone.                                             *)

(* The part of a struct rknpu_job that tells how far it has come.          *)
SameProgress(i) ==
    /\ job'[i].mask = job[i].mask /\ job'[i].tasks = job[i].tasks
    /\ job'[i].run_count = job[i].run_count /\ job'[i].interrupt_count = job[i].interrupt_count
    /\ job'[i].submit_count = job[i].submit_count /\ job'[i].done = job[i].done
    /\ job'[i].int_mask = job[i].int_mask /\ job'[i].irq_entry = job[i].irq_entry
    /\ job'[i].nonblock = job[i].nonblock
    /\ job'[i].pc_mode = job[i].pc_mode /\ job'[i].mapped = job[i].mapped

(* The steps of the thread of j that only the thread itself sees.          *)
Private(j) ==
    \/ FenceIn(j) \/ FenceOut(j) \/ Scheduled(j) \/ WaitCheck(j) \/ WaitTimeout(j)
    \/ Waited(j) \/ Decide(j) \/ FreeJob(j) \/ Abort(j) \/ AbortCleared(j) \/ Clean(j)

(* Another thread i is not touched at all.                                 *)
Untouched(i) == job'[i] = job[i] /\ pc'[i] = pc[i] /\ local'[i] = local[i]

(* An update of one job that leaves its progress alone.                    *)
LEMMA OneJobProgress ==
    ASSUME IInv, NEW j \in Jobs, NEW l \in {"freed"}, NEW f \in FenceStates, NEW e \in Errno,
           \/ job' = [job EXCEPT ![j].life = l] \/ job' = [job EXCEPT ![j].fence = f]
           \/ job' = [job EXCEPT ![j].ret = e]
           \/ job' = job
    PROVE  (\A i \in Jobs : SameProgress(i)) /\ \A i \in Jobs \ {j} : job'[i] = job[i]
<1>1. job \in [Jobs -> JobType]
  BY DEF IInv, TypeOK
<1>2. CASE job' = [job EXCEPT ![j].life = l]
  BY <1>1, <1>2 DEF SameProgress, JobType
<1>3. CASE job' = [job EXCEPT ![j].fence = f]
  BY <1>1, <1>3 DEF SameProgress, JobType
<1>4. CASE job' = [job EXCEPT ![j].ret = e]
  BY <1>1, <1>4 DEF SameProgress, JobType
<1>5. CASE job' = job
  BY <1>1, <1>5 DEF SameProgress
<1>6. QED
  BY <1>2, <1>3, <1>4, <1>5

(* A private step changes no core, no queue, no handler, no call and no    *)
(* hardware, and no job but its own, and not the progress of that.         *)
LEMMA PrivateFrame ==
    ASSUME IInv, NEW j \in Jobs, Private(j)
    PROVE  /\ UNCHANGED <<cur, todo, task_num, soft_reseting, work, irq, nx, hw, line, executed>>
           /\ \A i \in Jobs : SameProgress(i)
           /\ \A i \in Jobs \ {j} : Untouched(i)
<1>1. UNCHANGED <<cur, todo, task_num, soft_reseting, work, irq, nx, hw, line, executed>>
  BY DEF Private, FenceIn, FenceOut, Scheduled, WaitCheck, WaitTimeout, Waited, Decide, FreeJob,
         Abort, AbortCleared, Clean, coreVars, devVars, hwVars
<1>2. \A i \in Jobs \ {j} : pc'[i] = pc[i] /\ local'[i] = local[i]
  <2>1. pc \in [Jobs -> Labels] /\ local \in [Jobs -> LocalType]
    BY DEF IInv, TypeOK
  <2>2. CASE FenceIn(j) \/ FenceOut(j) \/ Scheduled(j) \/ Waited(j)
    BY <2>1, <2>2 DEF FenceIn, FenceOut, Scheduled, Waited, SubmitFails, Goto
  <2>3. CASE WaitCheck(j) \/ WaitTimeout(j)
    BY <2>1, <2>3 DEF WaitCheck, WaitTimeout, WaitRound, Goto
  <2>4. CASE Decide(j) \/ FreeJob(j) \/ Abort(j) \/ AbortCleared(j) \/ Clean(j)
    BY <2>1, <2>4 DEF Decide, FreeJob, Abort, AbortCleared, Clean, Goto
  <2>5. QED
    BY <2>2, <2>3, <2>4 DEF Private
<1>3. (\A i \in Jobs : SameProgress(i)) /\ \A i \in Jobs \ {j} : job'[i] = job[i]
  <2>1. "none" \in FenceStates /\ "0" \in Errno
    BY DEF FenceStates, Errno
  <2>2. CASE job' = job
    BY <2>1, <2>2, OneJobProgress
  <2>3. CASE job' = [job EXCEPT ![j].life = "freed"]
    BY <2>1, <2>3, OneJobProgress
  <2>4. CASE FenceOut(j)
    <3>1. PICK f \in FenceStates :
              \/ job' = [job EXCEPT ![j].life = "freed"] \/ job' = [job EXCEPT ![j].fence = f]
      BY <2>4 DEF FenceOut, NewFence, FenceStates
    <3>2. QED
      BY <2>1, <3>1, OneJobProgress
  <2>5. CASE Waited(j)
    <3>1. PICK e \in Errno : job' = job \/ job' = [job EXCEPT ![j].ret = e]
      BY <2>5 DEF Waited, WaitResult, Errno
    <3>2. QED
      BY <2>1, <3>1, OneJobProgress
  <2>6. QED
    BY <2>2, <2>3, <2>4, <2>5
       DEF Private, FenceIn, Scheduled, WaitCheck, WaitTimeout, Decide, FreeJob,
           Abort, AbortCleared, Clean
<1>4. QED
  BY <1>1, <1>2, <1>3 DEF Untouched

----------------------------------------------------------------------------
(* A handler owns its core.                                                *)

(* Handlers that stay where they are keep their cores, if the cores and    *)
(* the marks in irq_entry stay.                                            *)
LEMMA OwnedStays ==
    ASSUME IInv, Owned, UNCHANGED irq,
           \A c \in Cores : irq[c].at \in Working => cur'[c] = cur[c],
           \A i \in Jobs : (\E c \in Cores : irq[c].job = i) =>
                                job[i].irq_entry \subseteq job'[i].irq_entry
    PROVE  Owned'
<1> SUFFICES ASSUME NEW c \in Cores, irq[c].at \in Working
             PROVE  cur'[c] = irq[c].job /\ c \in job'[irq[c].job].irq_entry
  BY DEF Owned
<1>1. irq[c].job \in Jobs
  BY HandlerFacts DEF HandlerFits, Working
<1>2. QED
  BY <1>1 DEF Owned

(* The handler of c moves; the others keep their cores.                    *)
LEMMA OwnedMoves ==
    ASSUME IInv, Owned, NEW c \in Cores, NEW r \in IrqType, irq' = [irq EXCEPT ![c] = r],
           \A d \in Cores \ {c} : cur'[d] = cur[d],
           \A i \in Jobs : job[i].irq_entry \subseteq job'[i].irq_entry,
           r.at \in Working => r.job \in Jobs /\ cur'[c] = r.job /\ c \in job'[r.job].irq_entry
    PROVE  Owned'
<1>1. irq'[c] = r /\ \A d \in Cores \ {c} : irq'[d] = irq[d]
  BY HandlerFacts
<1> SUFFICES ASSUME NEW d \in Cores, irq'[d].at \in Working
             PROVE  cur'[d] = irq'[d].job /\ d \in job'[irq'[d].job].irq_entry
  BY DEF Owned
<1>2. CASE d = c
  BY <1>1, <1>2
<1>3. CASE d # c
  <2>1. irq'[d] = irq[d] /\ irq[d].job \in Jobs
    BY <1>1, <1>3, HandlerFacts DEF HandlerFits, Working
  <2>2. QED
    BY <1>3, <2>1 DEF Owned
<1>4. QED
  BY <1>2, <1>3

(* A call of rknpu_job_next does to a job only what Keeps allows.          *)
LEMMA CallKeepsJobs == ASSUME IInv, NEW e \in Executors, NextCall(e) PROVE JobsKept
<1>1. job \in [Jobs -> JobType]
  BY DEF IInv, TypeOK
<1>2. CASE NextCheck(e)
  BY <1>1, <1>2, NoJobChanged DEF NextCheck
<1>3. CASE NextPop(e)
  <2>1. CASE UNCHANGED job
    BY <1>1, <2>1, NoJobChanged
  <2>2. CASE ~UNCHANGED job
    <3>1. nx[e].core \in Cores /\ todo[nx[e].core] \in Seq(Jobs)
      BY CallFacts DEF NextType, IInv, TypeOK, CoresTypeOK
    <3>2. PICK k \in Jobs : job' = [job EXCEPT ![k].stamped = TRUE]
      BY SMTT(30), <1>3, <2>2, <3>1, TailThins DEF NextPop
    <3> DEFINE s == [job[k] EXCEPT !.stamped = TRUE]
    <3>3. s \in JobType /\ Keeps(job[k], s) /\ job' = [job EXCEPT ![k] = s]
      BY <1>1, <3>2, ZeroCore, JobUpdates
    <3> HIDE DEF s
    <3>4. QED
      BY <1>1, <3>3, OneJobKept
  <2>3. QED
    BY <2>1, <2>2
<1>4. CASE NextDec(e)
  <2>1. PICK k \in Jobs : k = nx[e].job
    BY <1>4, CallFacts DEF NextDec, CallFits
  <2> DEFINE s == [job[k] EXCEPT !.run_count = job[k].run_count - 1]
  <2>2. s \in JobType /\ Keeps(job[k], s)
    BY <1>1, ZeroCore, JobUpdates
  <2>3. job' = [job EXCEPT ![k] = s]
    BY <1>4, <2>1 DEF NextDec
  <2> HIDE DEF s
  <2>4. QED
    BY <1>1, <2>2, <2>3, OneJobKept
<1>5. CASE NextCommit(e)
  <2>1. PICK k \in Jobs, c \in Cores : SubcoreCommit(k, c)
    <3>1. nx[e].job \in Jobs /\ nx[e].left # {} /\ nx[e].left \in SUBSET Cores
      BY <1>5, CallFacts DEF NextCommit, CallFits, NextType
    <3>2. QED
      BY <1>5, <3>1, MinCore DEF NextCommit
  <2>2. QED
    BY <1>5, <2>1, CommitFacts DEF NextCommit
<1>6. QED
  BY <1>2, <1>3, <1>4, <1>5 DEF NextCall

(* So does a handler.                                                      *)
LEMMA HandlerKeepsJobs == ASSUME IInv, NEW c \in Cores, Handler(c) PROVE JobsKept
<1>1. job \in [Jobs -> JobType] /\ cur[c] \in Jobs \cup {NoJob}
  BY HandlerFacts
<1>2. CASE UNCHANGED job
  BY <1>1, <1>2, NoJobChanged
<1>3. CASE IrqEnter(c) /\ ~UNCHANGED job
  <2>1. PICK k \in Jobs : k = cur[c]
    BY <1>1, <1>3 DEF IrqEnter
  <2> DEFINE s == [job[k] EXCEPT !.irq_entry = job[k].irq_entry \cup {c}]
  <2>2. job' = [job EXCEPT ![k] = s]
    BY <1>1, <1>3, <2>1 DEF IrqEnter
  <2>3. s \in JobType /\ Keeps(job[k], s)
    BY <1>1, JobUpdates
  <2> HIDE DEF s
  <2>4. QED
    BY <1>1, <2>2, <2>3, OneJobKept
<1>4. CASE irq[c].at \in {"count", "recommit", "complete", "signal"}
  <2>1. PICK k \in Jobs : k = irq[c].job
    BY <1>4, HandlerFacts DEF HandlerFits
  <2>2. job[k] \in JobType /\ job[k].done \in BOOLEAN /\ "none" \in FenceStates /\ "0" \in Errno
    BY <1>1 DEF JobType, FenceStates, Errno
  <2>3. CASE IrqCount(c)
    <3> DEFINE s == [job[k] EXCEPT !.submit_count =
                        [job[k].submit_count EXCEPT ![c] = job[k].submit_count[c] + 1]]
    <3>1. s \in JobType /\ Keeps(job[k], s)
      BY <2>2, JobUpdates
    <3>2. job' = [job EXCEPT ![k] = s]
      BY <1>1, <2>1, <2>3 DEF IrqCount
    <3> HIDE DEF s
    <3>3. QED
      BY Zenon, <1>1, <3>1, <3>2, OneJobKept
  <2>4. CASE IrqRecommit(c)
    BY <2>1, <2>4, CommitFacts DEF IrqRecommit
  <2>5. CASE IrqComplete(c)
    <3>1. PICK x \in Int : x = job[k].interrupt_count - 1
      BY <2>2 DEF JobType
    <3>2. PICK d \in BOOLEAN : d = (LastToFinish(k) \/ job[k].done)
      OBVIOUS
    <3> DEFINE s == [job[k] EXCEPT !.interrupt_count = x, !.done = d]
    <3>3. job' = [job EXCEPT ![k] = s]
      BY <1>1, <2>1, <2>5, <3>1, <3>2 DEF IrqComplete
    <3>4. s \in JobType /\ Keeps(job[k], s)
      BY <2>2, <3>2 DEF JobType, Keeps
    <3> HIDE DEF s
    <3>5. QED
      BY <1>1, <3>3, <3>4, OneJobKept
  <2>6. CASE IrqSignal(c)
    <3>1. job[k].done = TRUE
      BY <2>1, <2>6, HandlerFacts DEF IrqSignal, HandlerFits
    <3>2. PICK f \in FenceStates : f = IF job[k].fence = "none" THEN "none" ELSE "signaled"
      BY DEF FenceStates
    <3> DEFINE s == [job[k] EXCEPT !.ret = "0", !.fence = f]
    <3>3. s \in JobType /\ Keeps(job[k], s)
      BY <2>2, <3>1, JobResults
    <3>4. job' = [job EXCEPT ![k] = s]
      BY <1>1, <2>1, <2>6, <3>2 DEF IrqSignal
    <3> HIDE DEF s
    <3>5. QED
      BY <1>1, <3>3, <3>4, OneJobKept
  <2>7. QED
    BY <1>2, <1>3, <2>3, <2>4, <2>5, <2>6
       DEF Handler, IrqStray, IrqStatus, IrqCompare, IrqFinish
<1>5. QED
  BY <1>2, <1>3, <1>4
     DEF Handler, IrqStray, IrqStatus, IrqCompare, IrqFinish, IrqCount, IrqRecommit, IrqComplete,
         IrqSignal

(* Without timeout_clean finding a victim, nobody comes to clean.          *)
LEMMA NobodyCleans ==
    ASSUME NoOvertime, OwnInv, [Next]_vars
    PROVE  NoCleaning'
<1> USE DEF OwnInv
<1>1. \A i \in Jobs : job[i].nonblock \in BOOLEAN /\ pc[i] \in Labels
  BY ThreadFacts
<1>2. ASSUME NEW j \in Jobs, pc'[j] \notin ResetLabels \cup {"clean_cur", "clean_work"},
             \A i \in Jobs \ {j} : pc'[i] = pc[i] \/ (pc[i] = "asleep" /\ pc'[i] = "wait"),
             \A i \in Jobs \ {j} : job'[i].nonblock = job[i].nonblock
      PROVE  NoCleaning'
  BY <1>2 DEF NoCleaning, Cleaning, ResetLabels
<1>3. ASSUME \A i \in Jobs : pc'[i] = pc[i] \/ (pc[i] = "asleep" /\ pc'[i] = "wait"),
             \A i \in Jobs : job'[i].nonblock = job[i].nonblock
      PROVE  NoCleaning'
  BY <1>3 DEF NoCleaning, Cleaning, ResetLabels
<1>4. ASSUME NEW j \in Jobs, NEW a \in Requests, Submit(j, a) PROVE NoCleaning'
  <2>1. pc'[j] \in {"fence_in", "fence_out", "clean", "sched"} /\ \A i \in Jobs \ {j} : pc'[i] = pc[i]
    BY <1>4 DEF Submit, Goto, AfterFences, IInv, TypeOK
  <2>2. \A i \in Jobs \ {j} : job'[i] = job[i]
    BY <1>4 DEF Submit, IInv, TypeOK
  <2>3. QED
    BY <1>2, <2>1, <2>2 DEF ResetLabels
<1>5. ASSUME NEW j \in Jobs, Thread(j) PROVE NoCleaning'
  <2>1. CASE Private(j) /\ ~AbortCleared(j)
    <3>1. pc'[j] \notin ResetLabels \cup {"clean_cur", "clean_work"}
      <4>1. pc \in [Jobs -> Labels]
        BY DEF IInv, TypeOK
      <4>2. CASE FenceIn(j) \/ FenceOut(j) \/ Scheduled(j) \/ Waited(j) \/ Decide(j) \/ FreeJob(j)
                    \/ Abort(j)
        BY <4>1, <4>2 DEF FenceIn, FenceOut, Scheduled, Waited, Decide, FreeJob, Abort,
                          SubmitFails, Goto, AfterFences, ResetLabels
      <4>3. CASE WaitCheck(j) \/ WaitTimeout(j)
        BY <4>1, <4>3 DEF WaitCheck, WaitTimeout, WaitRound, Goto, ResetLabels
      <4>4. CASE Clean(j)
        BY <4>1, <4>4 DEF Clean, Goto, ResetLabels, NoOvertime
      <4>5. QED
        BY <2>1, <4>2, <4>3, <4>4 DEF Private
    <3>2. QED
      BY <1>2, <2>1, <3>1, PrivateFrame DEF Untouched
  <2>2. CASE AbortCleared(j)
    <3>1. \A i \in Jobs \ {j} : pc'[i] = pc[i]
      BY <2>2 DEF AbortCleared, Goto, IInv, TypeOK
    <3>2. pc'[j] \in {"rst_begin", "free"} /\ (pc'[j] = "rst_begin" => job[j].ret = "ETIMEDOUT")
      BY <2>2 DEF AbortCleared, Goto, IInv, TypeOK
    <3>3. job' = job /\ (job[j].nonblock = TRUE => job[j].ret # "ETIMEDOUT")
      BY <2>2, ThreadFacts DEF AbortCleared, ThreadFits
    <3>4. pc'[j] = "rst_begin" => job'[j].nonblock = FALSE
      BY <1>1, <3>2, <3>3
    <3>5. \A i \in Jobs \ {j} : ~Cleaning(i)'
      BY <3>1, <3>3 DEF NoCleaning, Cleaning
    <3>6. ~Cleaning(j)'
      BY <3>2, <3>4 DEF Cleaning, ResetLabels
    <3>7. QED
      BY <3>5, <3>6 DEF NoCleaning
  <2>3. CASE Reset(j)
    <3>1. pc[j] \in ResetLabels /\ job' = job
      BY <2>3 DEF Reset, ResetBegin, ResetWake, ResetControl, ResetEnd, ResetLabels
    <3>2. job[j].nonblock = FALSE
      BY <1>1, <3>1 DEF NoCleaning, Cleaning
    <3>3. pc'[j] \in ResetLabels \cup {"free"}
      BY <1>1, <2>3, <3>2 DEF Reset, ResetBegin, ResetWake, ResetControl, ResetEnd, ResetLabels,
                              Goto, WakeUp, AfterReset, IInv, TypeOK
    <3>4. \A i \in Jobs \ {j} : pc'[i] = pc[i] \/ (pc[i] = "asleep" /\ pc'[i] = "wait")
      BY <2>3 DEF Reset, ResetBegin, ResetWake, ResetControl, ResetEnd, Goto, WakeUp, IInv, TypeOK
    <3>5. QED
      BY <3>1, <3>2, <3>3, <3>4 DEF NoCleaning, Cleaning, ResetLabels
  <2>4. CASE CleanCur(j) \/ CleanWork(j)
    BY <2>4 DEF CleanCur, CleanWork, NoCleaning, Cleaning
  <2>5. CASE Schedule(j) \/ Unlink(j)
    <3>1. pc'[j] \in {"enqueue", "scheduled", "decide"} /\ \A i \in Jobs \ {j} : pc'[i] = pc[i]
      BY <2>5 DEF Schedule, Unlink, Goto, IInv, TypeOK
    <3>2. \A i \in Jobs \ {j} : job'[i] = job[i]
      BY <2>5 DEF Schedule, Unlink, IInv, TypeOK
    <3>3. QED
      BY <1>2, <3>1, <3>2 DEF ResetLabels
  <2>6. CASE Enqueue(j) \/ Kick(j) \/ AbortClear(j)
    <3>1. pc'[j] \in {"kick", "scheduled", "cleared"} /\ \A i \in Jobs \ {j} : pc'[i] = pc[i]
      BY <2>6 DEF Enqueue, Kick, AbortClear, Goto, IInv, TypeOK
    <3>2. job' = job
      BY <2>6 DEF Enqueue, Kick, AbortClear
    <3>3. QED
      BY <1>2, <3>1, <3>2 DEF ResetLabels
  <2>7. QED
    BY <1>5, <2>1, <2>2, <2>3, <2>4, <2>5, <2>6 DEF Thread, Private
<1>6. ASSUME NEW j \in Jobs, CleanupWork(j) PROVE NoCleaning'
  <2>1. pc' = pc /\ \A i \in Jobs : job'[i].nonblock = job[i].nonblock
    BY <1>6 DEF CleanupWork, IInv, TypeOK, JobType
  <2>2. QED
    BY <1>3, <2>1
<1>7. ASSUME NEW e \in Executors, NextCall(e) PROVE NoCleaning'
  <2>1. pc' = pc
    BY <1>7 DEF NextCall, NextCheck, NextPop, NextDec, NextCommit
  <2>2. \A i \in Jobs : job'[i].nonblock = job[i].nonblock
    BY <1>7, CallKeepsJobs DEF JobsKept, Keeps
  <2>3. QED
    BY <1>3, <2>1, <2>2
<1>8. ASSUME NEW c \in Cores, Handler(c) PROVE NoCleaning'
  <2>1. \A i \in Jobs : pc'[i] = pc[i] \/ (pc[i] = "asleep" /\ pc'[i] = "wait")
    BY <1>8 DEF Handler, IrqEnter, IrqStray, IrqStatus, IrqCompare, IrqCount, IrqRecommit,
                IrqFinish, IrqComplete, IrqSignal, WakeUp
  <2>2. \A i \in Jobs : job'[i].nonblock = job[i].nonblock
    BY <1>8, HandlerKeepsJobs DEF JobsKept, Keeps
  <2>3. QED
    BY <1>3, <2>1, <2>2
<1>9. ASSUME NEW c \in Cores, HwFinish(c) \/ HwBadIrq(c) PROVE NoCleaning'
  BY <1>3, <1>9 DEF HwFinish, HwBadIrq
<1>10. CASE UNCHANGED vars
  BY <1>3, <1>10 DEF vars
<1>11. QED
  BY <1>4, <1>5, <1>6, <1>7, <1>8, <1>9, <1>10 DEF Next

(* Every step leaves a handler its core until it gives it up.              *)
LEMMA OwnedStep ==
    ASSUME NoOvertime, OwnInv, [Next]_vars
    PROVE  Owned'
<1> USE DEF OwnInv
<1>1. ASSUME NEW j \in Jobs, NEW a \in Requests, Submit(j, a) PROVE Owned'
  <2>1. cur' = cur /\ irq' = irq /\ \A i \in Jobs \ {j} : job'[i] = job[i]
    BY <1>1 DEF Submit, coreVars, IInv, TypeOK
  <2>2. \A c \in Cores : irq[c].job # j
    BY <1>1 DEF Submit, IInv, Fits, Fresh, Unqueued, Unknown
  <2>3. QED
    BY <2>1, <2>2, OwnedStays
<1>2. ASSUME NEW j \in Jobs, Thread(j) PROVE Owned'
  <2>1. CASE Private(j)
    BY <2>1, PrivateFrame, OwnedStays DEF SameProgress
  <2>2. CASE Reset(j) \/ Kick(j) \/ Enqueue(j) \/ CleanWork(j)
    <3>1. cur' = cur /\ irq' = irq /\ job' = job
      BY <2>2 DEF Reset, ResetBegin, ResetWake, ResetControl, ResetEnd, Kick, Enqueue, CleanWork,
                  coreVars
    <3>2. QED
      BY <3>1, OwnedStays
  <2>3. CASE Unlink(j)
    <3>1. cur' = cur /\ irq' = irq /\ \A i \in Jobs : job'[i].irq_entry = job[i].irq_entry
      BY <2>3 DEF Unlink, IInv, TypeOK, JobType
    <3>2. QED
      BY <3>1, OwnedStays
  <2>4. CASE Schedule(j)
    <3>1. cur' = cur /\ irq' = irq /\ \A i \in Jobs \ {j} : job'[i] = job[i]
      BY <2>4 DEF Schedule, coreVars, IInv, TypeOK
    <3>2. \A c \in Cores : irq[c].job # j
      BY <2>4 DEF Schedule, IInv, Fits, Fresh, Unqueued, Unknown
    <3>3. QED
      BY <3>1, <3>2, OwnedStays
  <2>5. CASE AbortClear(j)
    <3>1. irq' = irq /\ job' = job
      BY <2>5 DEF AbortClear
    <3>2. ASSUME NEW c \in Cores, irq[c].at \in Working PROVE cur'[c] = cur[c]
      <4>1. c \notin UnseenCores(j)
        BY <3>2 DEF Owned, UnseenCores
      <4>2. QED
        BY <2>5, <4>1 DEF AbortClear
    <3>3. QED
      BY <3>1, <3>2, OwnedStays
  <2>6. CASE CleanCur(j)
    BY <2>6 DEF CleanCur, NoCleaning, Cleaning
  <2>7. QED
    BY <1>2, <2>1, <2>2, <2>3, <2>4, <2>5, <2>6 DEF Thread, Private
<1>3. ASSUME NEW j \in Jobs, CleanupWork(j) PROVE Owned'
  <2>1. cur' = cur /\ irq' = irq /\ \A i \in Jobs : job'[i].irq_entry = job[i].irq_entry
    BY <1>3 DEF CleanupWork, coreVars, IInv, TypeOK, JobType
  <2>2. QED
    BY <2>1, OwnedStays
<1>4. ASSUME NEW e \in Executors, NextCall(e) PROVE Owned'
  <2>1. irq' = irq /\ \A i \in Jobs : job[i].irq_entry \subseteq job'[i].irq_entry
    BY Zenon, <1>4, CallKeepsJobs DEF NextCall, NextCheck, NextPop, NextDec, NextCommit, JobsKept, Keeps
  <2>2. ASSUME NEW c \in Cores, irq[c].at \in Working PROVE cur'[c] = cur[c]
    <3>1. cur[c] # NoJob
      BY <2>2, HandlerFacts, JobAssumption DEF Owned, HandlerFits, Working
    <3>2. CASE NextPop(e)
      BY <3>1, <3>2 DEF NextPop, IInv, TypeOK, CoresTypeOK
    <3>3. QED
      BY <1>4, <3>2 DEF NextCall, NextCheck, NextDec, NextCommit, coreVars
  <2>3. QED
    BY <2>1, <2>2, OwnedStays
<1>5. ASSUME NEW c \in Cores, Handler(c) PROVE Owned'
  <2>1. \A i \in Jobs : job[i].irq_entry \subseteq job'[i].irq_entry
    BY <1>5, HandlerKeepsJobs DEF JobsKept, Keeps
  <2>2. \A d \in Cores \ {c} : cur'[d] = cur[d]
    BY <1>5 DEF Handler, IrqEnter, IrqStray, IrqStatus, IrqCompare, IrqCount, IrqRecommit,
                IrqFinish, IrqComplete, IrqSignal, coreVars, IInv, TypeOK, CoresTypeOK
  <2>3. IdleIrq \in IrqType /\ IdleIrq.at \notin Working /\ irq[c] \in IrqType
    BY HandlerFacts DEF IdleIrq, Working
  <2>4. CASE irq' = [irq EXCEPT ![c] = IdleIrq]
    BY <2>1, <2>2, <2>3, <2>4, OwnedMoves
  <2>5. ASSUME NEW l \in {"stray", "complete", "signal"}, irq' = [irq EXCEPT ![c].at = l]
        PROVE  Owned'
    <3> DEFINE r == [irq[c] EXCEPT !.at = l]
    <3>1. r \in IrqType /\ r.at \notin Working /\ irq' = [irq EXCEPT ![c] = r]
      BY <2>3, <2>5 DEF IrqType, Working
    <3> HIDE DEF r
    <3>2. QED
      BY <2>1, <2>2, <3>1, OwnedMoves
  <2>6. CASE IrqEnter(c) /\ cur[c] # NoJob
    <3>1. PICK k \in Jobs : k = cur[c]
      BY <2>6, HandlerFacts
    <3> DEFINE r == [irq[c] EXCEPT !.at = "status", !.job = k]
    <3>2. r \in IrqType /\ r.job = k /\ irq' = [irq EXCEPT ![c] = r]
      BY <2>3, <2>6, <3>1 DEF IrqType, IrqEnter
    <3>3. cur' = cur /\ c \in job'[k].irq_entry
      BY <2>6, <3>1, HandlerFacts DEF IrqEnter, coreVars, JobType
    <3> HIDE DEF r
    <3>4. QED
      BY <2>1, <2>2, <3>1, <3>2, <3>3, OwnedMoves
  <2>7. ASSUME irq[c].at \in Working, cur' = cur,
               NEW r \in IrqType, r.job = irq[c].job, irq' = [irq EXCEPT ![c] = r]
        PROVE  Owned'
    <3>1. irq[c].job \in Jobs
      BY <2>7, HandlerFacts DEF HandlerFits, Working
    <3>2. QED
      BY <2>1, <2>2, <2>7, <3>1, OwnedMoves DEF Owned
  <2>8. CASE IrqStatus(c)
    <3> DEFINE r == [irq[c] EXCEPT !.at = "compare", !.status = line[c]]
    <3>1. r \in IrqType /\ r.job = irq[c].job /\ irq' = [irq EXCEPT ![c] = r]
      BY <2>3, <2>8, HandlerFacts DEF IrqType, IrqStatus
    <3> HIDE DEF r
    <3>2. QED
      BY <2>7, <2>8, <3>1 DEF IrqStatus, coreVars, Working
  <2>9. CASE IrqCompare(c)
    <3> DEFINE r == [irq[c] EXCEPT !.at = "count"]
    <3>1. irq' = [irq EXCEPT ![c] = r] \/ irq' = [irq EXCEPT ![c] = IdleIrq]
      BY <2>9, HandlerFacts DEF IrqCompare
    <3>2. r \in IrqType /\ r.job = irq[c].job
      BY <2>3 DEF IrqType
    <3> HIDE DEF r
    <3>3. QED
      BY <2>4, <2>7, <2>9, <3>1, <3>2 DEF IrqCompare, coreVars, Working
  <2>10. CASE IrqCount(c)
    <3>1. PICK l \in {"recommit", "finish"} : irq' = [irq EXCEPT ![c].at = l]
      BY <2>10 DEF IrqCount
    <3> DEFINE r == [irq[c] EXCEPT !.at = l]
    <3>2. r \in IrqType /\ r.job = irq[c].job /\ irq' = [irq EXCEPT ![c] = r]
      BY <2>3, <3>1 DEF IrqType
    <3> HIDE DEF r
    <3>3. QED
      BY <2>7, <2>10, <3>2 DEF IrqCount, coreVars, Working
  <2>11. QED
    BY <1>5, <2>4, <2>5, <2>6, <2>8, <2>9, <2>10
       DEF Handler, IrqEnter, IrqStray, IrqRecommit, IrqFinish, IrqComplete, IrqSignal
<1>6. ASSUME NEW c \in Cores, HwFinish(c) \/ HwBadIrq(c) PROVE Owned'
  BY <1>6, OwnedStays DEF HwFinish, HwBadIrq, coreVars
<1>7. CASE UNCHANGED vars
  BY <1>7, OwnedStays DEF vars, coreVars
<1>8. QED
  BY <1>1, <1>2, <1>3, <1>4, <1>5, <1>6, <1>7 DEF Next

(* Nobody cleans and no handler works when the module is loaded.           *)
LEMMA InitOwned == ASSUME Init PROVE OwnInv
<1>1. \A j \in Jobs : pc[j] = "new"
  BY DEF Init
<1>2. \A c \in Cores : irq[c].at = "idle"
  BY DEF Init, IdleIrq
<1>3. QED
  BY <1>1, <1>2, InitFits DEF OwnInv, NoCleaning, Cleaning, ResetLabels, Owned, Working

(* Unless timeout_clean takes jobs off their cores, the invariant of the   *)
(* handlers holds in every behaviour.                                      *)
THEOREM JobOwnInvariance == ASSUME NoOvertime PROVE Spec => []OwnInv
<1>1. Init => OwnInv
  BY InitOwned
<1>2. OwnInv /\ [Next]_vars => OwnInv'
  <2>1. OwnInv /\ [Next]_vars => IInv'
    BY StepFits DEF OwnInv
  <2>2. OwnInv /\ [Next]_vars => NoCleaning'
    BY NobodyCleans
  <2>3. OwnInv /\ [Next]_vars => Owned'
    BY OwnedStep
  <2>4. QED
    BY <2>1, <2>2, <2>3 DEF OwnInv
<1>3. QED
  BY <1>1, <1>2, PTL DEF Spec

(* While an interrupt handler works on a job the core belongs to that job, *)
(* in spite of timeouts, aborts, resets and interrupts of other devices,   *)
(* as long as no job gets older than rknpu_job_timeout_clean allows.       *)
THEOREM JobHandlerOwnsCore == ASSUME NoOvertime PROVE Spec => []HandlerOwnsCore
<1>1. OwnInv => HandlerOwnsCore
  BY DEF OwnInv, Owned, HandlerOwnsCore, Working
<1>2. QED
  BY <1>1, JobOwnInvariance, PTL

----------------------------------------------------------------------------
(* A job is not freed while a core knows it.                               *)

(* The cores where a job is become fewer.                                  *)
AtShrinks(i) == \A c \in Cores : At(i, c)' => At(i, c)

LeavesUnfinished(i) == AtShrinks(i) /\ Unfinished(i)' \subseteq Unfinished(i)

(* What a step may do to job i and to its thread.                          *)
SameOrder(i) ==
    /\ job'[i].pc_mode = job[i].pc_mode /\ job'[i].mapped = job[i].mapped
    /\ job'[i].mask = job[i].mask /\ job'[i].done = job[i].done
    /\ job'[i].interrupt_count = job[i].interrupt_count

ThreadBehaves(i) ==
    /\ job'[i].life = job[i].life \/ (job'[i].life = "freed" /\ Gone(i))
    /\ job'[i].ret = job[i].ret \/ job'[i].ret = "0" \/ (job'[i].ret = "EINVAL" /\ Gone(i))
    /\ pc[i] = "new" => pc'[i] = "new"
    /\ pc'[i] \in Early => pc[i] \in Early /\ job'[i].life = job[i].life /\ job'[i].ret = job[i].ret
    /\ pc'[i] \in Late => pc[i] \in Late \/ Gone(i)
    /\ pc'[i] \notin ResetLabels
    /\ i \in work' => i \in work \/ Gone(i)
    /\ local'[i].expired = FALSE

(* Sets of cores are finite, and a smaller one has fewer members.          *)
LEMMA FewerCores ==
    ASSUME NEW C \in SUBSET Cores, NEW D \in SUBSET C
    PROVE  /\ Cardinality(D) \in Nat /\ Cardinality(C) \in Nat
           /\ Cardinality(D) <= Cardinality(C)
BY MaskSize, FS_Subset

(* Such a step keeps the job orderly.                                      *)
LEMMA JobStaysOrderly ==
    ASSUME IInv, NEW i \in Jobs, JobOrderly(i), SameOrder(i), ThreadBehaves(i), LeavesUnfinished(i)
    PROVE  JobOrderly(i)'
<1>1. job[i].interrupt_count \in Int
  BY ThreadFacts DEF JobType
<1>2. /\ Cardinality(Unfinished(i)') \in Nat /\ Cardinality(Unfinished(i)) \in Nat
      /\ Cardinality(Unfinished(i)') <= Cardinality(Unfinished(i))
  <2>1. Unfinished(i) \in SUBSET Cores /\ Unfinished(i)' \in SUBSET Unfinished(i)
    BY DEF Unfinished, LeavesUnfinished
  <2>2. QED
    BY <2>1, FewerCores
<1>3. Gone(i) => Gone(i)'
  BY DEF Gone, LeavesUnfinished, AtShrinks
<1>4. job'[i].interrupt_count >= Cardinality(Unfinished(i)')
  BY <1>1, <1>2 DEF JobOrderly, SameOrder
<1>5. job'[i].done = TRUE => Unfinished(i)' = {}
  BY DEF JobOrderly, SameOrder, LeavesUnfinished
<1>6. pc'[i] \in Late \/ job'[i].ret # "0" \/ job'[i].life = "freed" \/ i \in work' => Gone(i)'
  BY <1>3 DEF JobOrderly, ThreadBehaves
<1>7. pc'[i] # "new" =>
          job'[i].life # "none" /\ job'[i].pc_mode = TRUE /\ job'[i].mapped = TRUE
  BY DEF JobOrderly, ThreadBehaves, SameOrder
<1>8. pc'[i] \in Early =>
          /\ job'[i].life = "live" /\ job'[i].ret = "0" /\ job'[i].done = FALSE
          /\ job'[i].interrupt_count = Cardinality(job'[i].mask)
  BY DEF JobOrderly, ThreadBehaves, SameOrder
<1>9. pc'[i] \notin ResetLabels /\ job'[i].ret # "ETIMEDOUT" /\ local'[i].expired = FALSE
  BY DEF JobOrderly, ThreadBehaves
<1>10. QED
  BY <1>4, <1>5, <1>6, <1>7, <1>8, <1>9 DEF JobOrderly

(* A thread and a job that are not touched, or only woken up, behave.      *)
LEMMA UntouchedBehaves ==
    ASSUME JobsOrderly, NEW i \in Jobs, job'[i] = job[i], Steady(i), i \in work' => i \in work
    PROVE  SameOrder(i) /\ ThreadBehaves(i)
BY DEF JobsOrderly, JobOrderly, SameOrder, ThreadBehaves, Steady, Early, Late, ResetLabels

(* Cores and queues that stay or lose jobs leave no more unfinished.       *)
LEMMA SameUnfinished ==
    ASSUME UNCHANGED <<cur, todo, irq>>, NEW i \in Jobs
    PROVE  LeavesUnfinished(i)
BY DEF LeavesUnfinished, AtShrinks, At, Waiting, Unfinished

(* The same for queues that get thinner.                                   *)
LEMMA ThinAt ==
    ASSUME IInv, QueuesThin, NEW i \in Jobs
    PROVE  AtShrinks(i)
<1> SUFFICES ASSUME NEW c \in Cores, At(i, c)' PROVE At(i, c)
  BY DEF AtShrinks
<1>1. CASE cur'[c] = i
  BY <1>1, JobAssumption DEF QueuesThin, At
<1>2. CASE Waiting(i, c)'
  <2>1. PICK n \in DOMAIN todo'[c] : todo'[c][n] = i
    BY <1>2 DEF Waiting
  <2>2. PICK f \in [DOMAIN todo'[c] -> DOMAIN todo[c]] :
            \A m \in DOMAIN todo'[c] : todo'[c][m] = todo[c][f[m]]
    BY DEF QueuesThin, Thins
  <2>3. f[n] \in DOMAIN todo[c] /\ todo[c][f[n]] = i
    BY <2>1, <2>2
  <2>4. QED
    BY <2>3 DEF At, Waiting
<1>3. QED
  BY <1>1, <1>2 DEF At

(* Handlers that stay know of their jobs what they knew.                   *)
LEMMA HandlersStayOrderly ==
    ASSUME IInv, HandlersOrderly, UNCHANGED irq,
           \A i \in Jobs : (\E c \in Cores : irq[c].job = i) => AtShrinks(i)
    PROVE  HandlersOrderly'
<1> SUFFICES ASSUME NEW c \in Cores, irq[c].at \in {"complete", "signal"}
             PROVE  ~At(irq[c].job, c)'
  BY DEF HandlersOrderly
<1>1. irq[c].job \in Jobs
  BY HandlerFacts DEF HandlerFits
<1>2. QED
  BY <1>1 DEF HandlersOrderly, AtShrinks

(* What is known of an orderly job.                                        *)
LEMMA OrderFacts ==
    ASSUME OrderInv, NEW j \in Jobs
    PROVE  /\ IInv /\ JobOrderly(j) /\ JobsOrderly /\ HandlersOrderly /\ soft_reseting = FALSE
           /\ job[j] \in JobType /\ job \in [Jobs -> JobType]
           /\ pc \in [Jobs -> Labels] /\ local \in [Jobs -> LocalType]
           /\ job[j].done = TRUE => Gone(j)
           /\ Unqueued(j) => Unknown(j) /\ Gone(j)
<1>1. /\ IInv /\ JobOrderly(j) /\ JobsOrderly /\ HandlersOrderly /\ soft_reseting = FALSE
      /\ job[j] \in JobType /\ job \in [Jobs -> JobType]
      /\ pc \in [Jobs -> Labels] /\ local \in [Jobs -> LocalType]
  BY DEF OrderInv, OwnInv, Orderly, JobsOrderly, IInv, TypeOK
<1>2. job[j].done = TRUE => Gone(j)
  BY <1>1 DEF JobOrderly, Gone, Unfinished
<1>3. Unqueued(j) => Unknown(j) /\ Gone(j)
  BY <1>1 DEF IInv, Fits, Fresh, Unknown, Gone, At, Waiting
<1>4. QED
  BY <1>1, <1>2, <1>3

(* The step of the thread of j, put together.                              *)
LEMMA ThreadOrderly ==
    ASSUME OrderInv, NEW j \in Jobs, \A i \in Jobs \ {j} : Untouched(i), work' \subseteq work,
           SameOrder(j), ThreadBehaves(j), \A i \in Jobs : LeavesUnfinished(i),
           UNCHANGED <<irq, soft_reseting>>
    PROVE  Orderly'
<1>1. ASSUME NEW i \in Jobs PROVE JobOrderly(i)'
  <2>1. CASE i = j
    BY <2>1, OrderFacts, JobStaysOrderly
  <2>2. CASE i # j
    <3>1. job'[i] = job[i] /\ Steady(i) /\ (i \in work' => i \in work)
      BY <2>2 DEF Untouched, Steady
    <3>2. SameOrder(i) /\ ThreadBehaves(i)
      BY <3>1, OrderFacts, UntouchedBehaves
    <3>3. QED
      BY <3>2, OrderFacts, JobStaysOrderly
  <2>3. QED
    BY <2>1, <2>2
<1>2. HandlersOrderly'
  BY OrderFacts, HandlersStayOrderly DEF LeavesUnfinished
<1>3. QED
  BY <1>1, <1>2, OrderFacts DEF Orderly, JobsOrderly

(* A private step of j keeps order, if the thread behaves.                 *)
LEMMA PrivateOrderly ==
    ASSUME OrderInv, NEW j \in Jobs, Private(j), ThreadBehaves(j)
    PROVE  Orderly'
<1>1. /\ UNCHANGED <<cur, todo, task_num, soft_reseting, work, irq, nx, hw, line, executed>>
      /\ \A i \in Jobs : SameProgress(i)
      /\ \A i \in Jobs \ {j} : Untouched(i)
  BY OrderFacts, PrivateFrame
<1>2. SameOrder(j) /\ \A i \in Jobs : LeavesUnfinished(i)
  BY <1>1, SameUnfinished DEF SameOrder, SameProgress
<1>3. QED
  BY <1>1, <1>2, ThreadOrderly

(* The private steps of threads keep order.                                *)
LEMMA PrivateOrderlyStep ==
    ASSUME NotLate, OrderInv, NEW j \in Jobs, Private(j)
    PROVE  Orderly'
<1>1. work' = work /\ JobOrderly(j) /\ local[j].expired = FALSE
  BY OrderFacts, PrivateFrame DEF JobOrderly
<1>2. pc[j] \in Labels /\ local[j] \in LocalType
  BY OrderFacts
<1>3. ASSUME NEW e \in Errno, local' = [local EXCEPT ![j] = [NewLocal EXCEPT !.ret = e]]
      PROVE  local'[j].expired = FALSE
  BY <1>3, OrderFacts DEF NewLocal
<1>4. CASE FenceIn(j)
  <2>1. job' = job /\ pc[j] = "fence_in"
    BY <1>4 DEF FenceIn
  <2>2. pc'[j] \in Early \cup {"ret"}
    BY <1>4, OrderFacts DEF FenceIn, Goto, SubmitFails, AfterFences, Early
  <2>3. local'[j].expired = FALSE
    <3>1. "EINVAL" \in Errno /\ "ERESTARTSYS" \in Errno
      BY DEF Errno
    <3>2. QED
      BY <1>1, <1>3, <1>4, <3>1 DEF FenceIn, SubmitFails
  <2>4. ThreadBehaves(j)
    BY <1>1, <2>1, <2>2, <2>3 DEF ThreadBehaves, Early, Late, ResetLabels
  <2>5. QED
    BY <2>4, PrivateOrderly
<1>5. CASE FenceOut(j)
  <2>1. pc[j] = "fence_out" /\ Gone(j)
    BY <1>5, OrderFacts DEF FenceOut, Unqueued
  <2>2. CASE job' = [job EXCEPT ![j].life = "freed"] /\ SubmitFails(j, "ENOMEM")
    <3>1. job'[j].life = "freed" /\ job'[j].ret = job[j].ret
      BY <2>2, OrderFacts DEF JobType
    <3>2. pc'[j] = "ret" /\ local'[j].expired = FALSE
      BY <1>3, <2>2, OrderFacts DEF SubmitFails, Goto, Errno
    <3>3. ThreadBehaves(j)
      BY <1>1, <2>1, <3>1, <3>2 DEF ThreadBehaves, Early, Late, ResetLabels
    <3>4. QED
      BY <3>3, PrivateOrderly
  <2>3. CASE Goto(j, AfterFences(job[j])) /\ UNCHANGED local
                 /\ \E f \in NewFence : job' = [job EXCEPT ![j].fence = f]
    <3>1. job'[j].life = job[j].life /\ job'[j].ret = job[j].ret
      BY <2>3, OrderFacts DEF JobType
    <3>2. pc'[j] \in Early
      BY <2>3, OrderFacts DEF Goto, AfterFences, Early
    <3>3. ThreadBehaves(j)
      BY <1>1, <2>1, <2>3, <3>1, <3>2 DEF ThreadBehaves, Early, Late, ResetLabels
    <3>4. QED
      BY <3>3, PrivateOrderly
  <2>4. QED
    BY <1>5, <2>2, <2>3 DEF FenceOut
<1>6. CASE Scheduled(j)
  <2>1. job' = job /\ pc[j] = "scheduled" /\ job[j].pc_mode = TRUE /\ job[j].ret \in Errno
    BY <1>1, <1>6, ThreadFacts, OrderFacts DEF Scheduled, JobOrderly
  <2>2. pc'[j] \in {"ret", "wait", "abort"} /\ (pc'[j] = "abort" => job[j].ret # "0")
    BY <1>6, <2>1, OrderFacts DEF Scheduled, Goto
  <2>3. local'[j].expired = FALSE
    BY <1>1, <1>3, <1>6, <2>1 DEF Scheduled
  <2>4. ThreadBehaves(j)
    BY <1>1, <2>1, <2>2, <2>3 DEF ThreadBehaves, JobOrderly, Early, Late, ResetLabels
  <2>5. QED
    BY <2>4, PrivateOrderly
<1>7. CASE WaitCheck(j)
  <2>1. job' = job /\ pc[j] = "wait"
    BY <1>7 DEF WaitCheck
  <2>2. CASE ~WaitOver(j) /\ Goto(j, "asleep") /\ UNCHANGED local
    <3>1. pc'[j] = "asleep"
      BY <2>2, OrderFacts DEF Goto
    <3>2. ThreadBehaves(j)
      BY <1>1, <2>1, <2>2, <3>1 DEF ThreadBehaves, Early, Late, ResetLabels
    <3>3. QED
      BY <3>2, PrivateOrderly
  <2>3. CASE WaitOver(j) /\ WaitRound(j, FALSE)
    <3>1. Gone(j)
      <4>1. job[j].done \in BOOLEAN /\ soft_reseting = FALSE
        BY OrderFacts DEF JobType
      <4>2. job[j].done = TRUE
        BY <2>3, <4>1 DEF WaitOver
      <4>3. QED
        BY <4>2, OrderFacts
    <3>2. pc'[j] = "waited"
      BY <2>3, OrderFacts DEF WaitRound, Goto
    <3>3. local'[j].expired = FALSE
      BY <2>3, OrderFacts DEF WaitRound, LocalType
    <3>4. ThreadBehaves(j)
      BY <1>1, <2>1, <3>1, <3>2, <3>3 DEF ThreadBehaves, Early, Late, ResetLabels
    <3>5. QED
      BY <3>4, PrivateOrderly
  <2>4. QED
    BY <1>7, <2>2, <2>3 DEF WaitCheck
<1>8. CASE Waited(j)
  <2>1. pc[j] = "waited" /\ Gone(j) /\ local' = local
    BY <1>1, <1>8 DEF Waited, JobOrderly, Late
  <2>2. pc'[j] \in {"decide", "unlink"}
    BY <1>8, OrderFacts DEF Waited, Goto
  <2>3. job'[j].life = job[j].life /\ job'[j].ret \in {job[j].ret, "0", "EINVAL"}
    <3>1. PICK w \in {"0", "EINVAL"} : w = WaitResult(j)
      BY <1>1 DEF WaitResult
    <3>2. job' = job \/ job' = [job EXCEPT ![j].ret = w]
      BY <1>8, <3>1 DEF Waited
    <3>3. job \in [Jobs -> JobType] /\ job[j].ret \in {job[j].ret, "0", "EINVAL"}
      BY OrderFacts
    <3>4. CASE job' = [job EXCEPT ![j].ret = w]
      BY <3>3, <3>4 DEF JobType
    <3>5. QED
      BY <3>2, <3>3, <3>4
  <2>4. ThreadBehaves(j)
    BY <1>1, <2>1, <2>2, <2>3 DEF ThreadBehaves, Early, Late, ResetLabels
  <2>5. QED
    BY <2>4, PrivateOrderly
<1>9. CASE Decide(j) \/ Abort(j) \/ AbortCleared(j)
  <2>1. pc[j] \in Late /\ job' = job /\ job[j].ret # "ETIMEDOUT" /\ pc[j] # "new"
    BY <1>1, <1>9 DEF Decide, Abort, AbortCleared, Late, JobOrderly
  <2>2. pc'[j] \in Late
    BY <1>9, <2>1, OrderFacts DEF Decide, Abort, AbortCleared, Goto, Late
  <2>3. local'[j].expired = FALSE
    BY <1>1, <1>3, <1>9, ThreadFacts, OrderFacts DEF Decide, Abort, AbortCleared
  <2>4. ThreadBehaves(j)
    BY <1>1, <2>1, <2>2, <2>3 DEF ThreadBehaves, Early, Late, ResetLabels
  <2>5. QED
    BY <2>4, PrivateOrderly
<1>10. CASE FreeJob(j)
  <2>1. pc[j] = "free" /\ Gone(j) /\ local' = local
    BY <1>1, <1>10 DEF FreeJob, JobOrderly, Late
  <2>2. pc'[j] = "ret" /\ job'[j].life = "freed" /\ job'[j].ret = job[j].ret
    BY <1>10, OrderFacts DEF FreeJob, Goto, JobType
  <2>3. ThreadBehaves(j)
    BY <1>1, <2>1, <2>2 DEF ThreadBehaves, Early, Late, ResetLabels
  <2>4. QED
    BY <2>3, PrivateOrderly
<1>11. CASE Clean(j)
  <2>1. job' = job /\ pc[j] = "clean"
    BY <1>11 DEF Clean
  <2>2. pc'[j] \in {"clean", "sched"} /\ local'[j].expired = FALSE
    <3>1. pc'[j] \in {"clean", "sched"}
      BY <1>11, <2>1, OrderFacts DEF Clean, Goto, NotLate
    <3>2. PICK C : local' = local \/ local' = [local EXCEPT ![j].rest = C]
      BY <1>11 DEF Clean, NotLate
    <3>3. local'[j].expired = FALSE
      BY <1>1, <3>2, OrderFacts DEF LocalType
    <3>4. QED
      BY <3>1, <3>3
  <2>3. ThreadBehaves(j)
    BY <1>1, <2>1, <2>2 DEF ThreadBehaves, Early, Late, ResetLabels
  <2>4. QED
    BY <2>3, PrivateOrderly
<1>12. CASE WaitTimeout(j)
  BY <1>12 DEF WaitTimeout, NotLate
<1>13. QED
  BY <1>4, <1>5, <1>6, <1>7, <1>8, <1>9, <1>10, <1>11, <1>12 DEF Private

(* The submit of a new job keeps order.                                    *)
LEMMA SubmitOrderly ==
    ASSUME NotLate, OrderInv, NEW j \in Jobs, NEW a \in Requests, Submit(j, a)
    PROVE  Orderly'
<1>1. UNCHANGED <<cur, todo, work, irq, soft_reseting>>
  BY DEF Submit, coreVars, devVars
<1>2. Unknown(j) /\ Gone(j)
  BY OrderFacts DEF Submit, Unqueued
<1>3. a \in RequestType /\ a.pc_mode = TRUE /\ a.mapped = TRUE /\ a.mask \in SUBSET Cores
  BY JobAssumption DEF NotLate, RequestType
<1>4. /\ job'[j].mask = a.mask /\ job'[j].pc_mode = TRUE /\ job'[j].mapped = TRUE
      /\ job'[j].interrupt_count = Cardinality(a.mask) /\ job'[j].done = FALSE
      /\ job'[j].ret = "0" /\ job'[j].life = "live"
  BY <1>3, OrderFacts DEF Submit, NewJob
<1>5. pc'[j] \in Early /\ local'[j].expired = FALSE
  <2>1. pc'[j] \in Early
    BY OrderFacts DEF Submit, Goto, AfterFences, Early
  <2>2. local'[j].expired = FALSE
    BY OrderFacts DEF Submit, JobOrderly, LocalType
  <2>3. QED
    BY <2>1, <2>2
<1>6. Unfinished(j)' = {}
  BY <1>1, <1>2 DEF Unfinished, Unknown, Gone, At, Waiting
<1>7. Cardinality({}) = 0 /\ Cardinality(a.mask) \in Nat
  BY <1>3, MaskSize, FS_EmptySet
<1>8. JobOrderly(j)'
  <2>1. j \notin work' /\ pc'[j] \notin Late /\ pc'[j] \notin ResetLabels /\ pc'[j] # "new"
    BY <1>1, <1>2, <1>5 DEF Unknown, Early, Late, ResetLabels
  <2>2. job'[j].interrupt_count >= Cardinality(Unfinished(j)')
    BY <1>4, <1>6, <1>7
  <2>3. QED
    BY <1>4, <1>5, <1>6, <2>1, <2>2 DEF JobOrderly
<1>9. ASSUME NEW i \in Jobs \ {j} PROVE JobOrderly(i)'
  <2>1. job'[i] = job[i] /\ Steady(i)
    BY OrderFacts DEF Submit, Goto, Steady
  <2>2. SameOrder(i) /\ ThreadBehaves(i) /\ LeavesUnfinished(i)
    BY <1>1, <2>1, OrderFacts, UntouchedBehaves, SameUnfinished
  <2>3. QED
    BY <2>2, OrderFacts, JobStaysOrderly
<1>10. HandlersOrderly'
  BY <1>1, OrderFacts, HandlersStayOrderly, SameUnfinished DEF LeavesUnfinished
<1>11. QED
  BY <1>1, <1>8, <1>9, <1>10, OrderFacts DEF Orderly, JobsOrderly

(* So does Schedule: an AUTO job gets a mask and the count of it.          *)
LEMMA ScheduleOrderly ==
    ASSUME NotLate, OrderInv, NEW j \in Jobs, Schedule(j)
    PROVE  Orderly'
<1>1. UNCHANGED <<cur, todo, work, irq, soft_reseting, local>> /\ pc[j] = "sched"
  BY DEF Schedule, coreVars, devVars
<1>2. Unknown(j) /\ Gone(j)
  BY <1>1, OrderFacts DEF Unqueued
<1> DEFINE placed == IF job[j].mask # {} THEN job[j]
                     ELSE [job[j] EXCEPT !.mask = {ScheduleCore}, !.run_count = 1,
                                         !.interrupt_count = 1]
<1>3. JobOrderly(j) /\ pc[j] \in Early
  BY <1>1, OrderFacts DEF Early
<1>4. PICK s : /\ s = placed
               /\ s.pc_mode = TRUE /\ s.mapped = TRUE /\ s.life = "live" /\ s.ret = "0"
               /\ s.done = FALSE /\ s.interrupt_count = Cardinality(s.mask) /\ s.mask \in SUBSET Cores
               /\ s.mask \in SUBSET Cores
  <2>1. CASE job[j].mask # {}
    BY <1>3, <2>1, OrderFacts DEF JobOrderly, JobType, Early
  <2>2. CASE job[j].mask = {}
    <3>1. ScheduleCore \in Cores
      BY OrderFacts, ScheduleCoreIsCore DEF IInv, TypeOK, CoresTypeOK
    <3>2. Cardinality({ScheduleCore}) = 1
      BY FS_Singleton
    <3>3. placed.mask = {ScheduleCore} /\ placed.interrupt_count = 1
      BY <2>2, OrderFacts DEF JobType
    <3>4. /\ placed.pc_mode = job[j].pc_mode /\ placed.mapped = job[j].mapped
          /\ placed.life = job[j].life /\ placed.ret = job[j].ret /\ placed.done = job[j].done
      BY <2>2, OrderFacts DEF JobType
    <3>5. QED
      BY ZenonT(40), <1>3, <3>1, <3>2, <3>3, <3>4 DEF JobOrderly, Early
  <2>3. QED
    BY <2>1, <2>2
<1>5. \A i \in Jobs \ {j} : job'[i] = job[i] /\ pc'[i] = pc[i]
  BY OrderFacts DEF Schedule, Goto
<1>6. \/ job'[j] = s /\ pc'[j] = "enqueue"
      \/ job'[j] = [s EXCEPT !.ret = "EINVAL"] /\ pc'[j] = "scheduled"
  BY Zenon, <1>4, OrderFacts DEF Schedule, Goto
<1>7. s \in JobType
  <2>1. ScheduleCore \in Cores
    BY OrderFacts, ScheduleCoreIsCore DEF IInv, TypeOK, CoresTypeOK
  <2>2. QED
    BY <1>4, <2>1, OrderFacts, JobUpdates
<1> HIDE DEF placed
<1>8. Unfinished(j)' = {} /\ Gone(j)'
  BY <1>1, <1>2 DEF Unfinished, Unknown, Gone, At, Waiting
<1>9. Cardinality({}) = 0 /\ Cardinality(s.mask) \in Nat
  BY <1>4, MaskSize, FS_EmptySet
<1>10. JobOrderly(j)'
  <2>1. /\ job'[j].pc_mode = TRUE /\ job'[j].mapped = TRUE /\ job'[j].life = "live"
        /\ job'[j].done = FALSE /\ job'[j].interrupt_count = Cardinality(s.mask)
        /\ job'[j].mask = s.mask
    BY <1>4, <1>6, <1>7 DEF JobType
  <2>2. /\ job'[j].ret # "ETIMEDOUT" /\ pc'[j] \in {"enqueue", "scheduled"}
        /\ pc'[j] = "enqueue" => job'[j].ret = "0"
    BY <1>4, <1>6, <1>7 DEF JobType
  <2>3. job'[j].interrupt_count >= Cardinality(Unfinished(j)')
    BY <1>8, <1>9, <2>1
  <2>4. local'[j].expired = FALSE
    BY <1>1, <1>3 DEF JobOrderly
  <2>5. QED
    BY <1>8, <2>1, <2>2, <2>3, <2>4 DEF JobOrderly, Early, ResetLabels
<1>11. ASSUME NEW i \in Jobs \ {j} PROVE JobOrderly(i)'
  <2>1. job'[i] = job[i] /\ Steady(i)
    BY <1>1, <1>5 DEF Steady
  <2>2. SameOrder(i) /\ ThreadBehaves(i) /\ LeavesUnfinished(i)
    BY <1>1, <2>1, OrderFacts, UntouchedBehaves, SameUnfinished
  <2>3. QED
    BY <2>2, OrderFacts, JobStaysOrderly
<1>12. HandlersOrderly'
  BY <1>1, OrderFacts, HandlersStayOrderly, SameUnfinished DEF LeavesUnfinished
<1>13. QED
  BY <1>1, <1>10, <1>11, <1>12, OrderFacts DEF Orderly, JobsOrderly

(* Enqueue puts the job on every core of its mask and moves no other.      *)
LEMMA EnqueueAt ==
    ASSUME IInv, NEW j \in Jobs, Enqueue(j), NEW i \in Jobs, NEW c \in Cores
    PROVE  At(i, c)' <=> At(i, c) \/ (i = j /\ c \in job[j].mask)
<1>1. todo[c] \in Seq(Jobs) /\ cur' = cur
  BY DEF IInv, TypeOK, CoresTypeOK, Enqueue
<1>2. CASE c \notin job[j].mask
  BY <1>1, <1>2 DEF Enqueue, At, Waiting
<1>3. CASE c \in job[j].mask
  <2>1. todo'[c] = Append(todo[c], j)
    BY <1>3 DEF Enqueue
  <2>2. /\ Len(todo[c]) \in Nat /\ DOMAIN todo[c] = 1 .. Len(todo[c])
        /\ DOMAIN Append(todo[c], j) = 1 .. Len(todo[c]) + 1
        /\ \A n \in 1 .. Len(todo[c]) : Append(todo[c], j)[n] = todo[c][n]
        /\ Append(todo[c], j)[Len(todo[c]) + 1] = j
    BY <1>1, AppendProperties
  <2>3. Waiting(i, c)' => Waiting(i, c) \/ i = j
    <3>1. SUFFICES ASSUME NEW n \in DOMAIN todo'[c], todo'[c][n] = i, i # j
                   PROVE  Waiting(i, c)
      BY DEF Waiting
    <3>2. n \in 1 .. Len(todo[c]) + 1 /\ n # Len(todo[c]) + 1
      BY <2>1, <2>2, <3>1
    <3>3. n \in 1 .. Len(todo[c])
      BY <2>2, <3>2
    <3>4. QED
      BY <2>1, <2>2, <3>1, <3>3 DEF Waiting
  <2>4. Waiting(i, c) => Waiting(i, c)'
    <3>1. SUFFICES ASSUME NEW n \in DOMAIN todo[c], todo[c][n] = i
                   PROVE  Waiting(i, c)'
      BY DEF Waiting
    <3>2. n \in 1 .. Len(todo[c]) /\ n \in 1 .. Len(todo[c]) + 1
      BY <2>2, <3>1
    <3>3. QED
      BY <2>1, <2>2, <3>1, <3>2 DEF Waiting
  <2>5. Waiting(j, c)'
    <3>1. Len(todo[c]) + 1 \in DOMAIN todo'[c]
      BY <2>1, <2>2
    <3>2. QED
      BY <2>1, <2>2, <3>1 DEF Waiting
  <2>6. QED
    BY <1>1, <1>3, <2>3, <2>4, <2>5 DEF At
<1>4. QED
  BY <1>2, <1>3

(* Enqueue keeps order: the job is on as many cores as interrupt_count     *)
(* says.                                                                   *)
LEMMA EnqueueOrderly ==
    ASSUME OrderInv, NEW j \in Jobs, Enqueue(j)
    PROVE  Orderly'
<1>1. UNCHANGED <<job, cur, work, irq, soft_reseting>> /\ pc[j] = "enqueue"
  BY DEF Enqueue, devVars
<1>2. Unknown(j) /\ Gone(j) /\ JobOrderly(j)
  BY <1>1, OrderFacts DEF Unqueued
<1>3. job[j].mask \in SUBSET Cores
  BY OrderFacts DEF JobType
<1>4. Unfinished(j)' = job[j].mask
  BY <1>1, <1>2, <1>3, OrderFacts, EnqueueAt DEF Unfinished, Gone, Unknown
<1>5. pc'[j] = "kick" /\ local'[j].expired = FALSE
  BY <1>2, OrderFacts DEF Enqueue, Goto, JobOrderly, LocalType
<1>6. /\ job[j].life = "live" /\ job[j].ret = "0" /\ job[j].done = FALSE
      /\ job[j].interrupt_count = Cardinality(job[j].mask)
      /\ job[j].pc_mode = TRUE /\ job[j].mapped = TRUE
  BY <1>1, <1>2 DEF JobOrderly, Early
<1>7. JobOrderly(j)'
  <2>1. j \notin work' /\ job' = job
    BY <1>1, <1>2 DEF Unknown
  <2>2. Cardinality(job[j].mask) \in Nat
    BY <1>3, MaskSize
  <2>3. QED
    BY <1>4, <1>5, <1>6, <2>1, <2>2 DEF JobOrderly, Early, Late, ResetLabels
<1>8. ASSUME NEW i \in Jobs \ {j} PROVE JobOrderly(i)' /\ AtShrinks(i)
  <2>1. job'[i] = job[i] /\ Steady(i)
    BY <1>1, OrderFacts DEF Enqueue, Goto, Steady
  <2>2. AtShrinks(i)
    BY OrderFacts, EnqueueAt DEF AtShrinks
  <2>3. LeavesUnfinished(i)
    BY <1>1, <2>2 DEF LeavesUnfinished, AtShrinks, Unfinished
  <2>4. SameOrder(i) /\ ThreadBehaves(i)
    BY <1>1, <2>1, OrderFacts, UntouchedBehaves
  <2>5. QED
    BY <2>2, <2>3, <2>4, OrderFacts, JobStaysOrderly
<1>9. HandlersOrderly'
  BY <1>1, <1>2, <1>8, OrderFacts, HandlersStayOrderly DEF Unknown
<1>10. QED
  BY <1>1, <1>7, <1>8, <1>9, OrderFacts DEF Orderly, JobsOrderly

(* A step of nobody's thread, put together.                                *)
LEMMA OthersOrderly ==
    ASSUME OrderInv, \A i \in Jobs : SameOrder(i) /\ ThreadBehaves(i) /\ LeavesUnfinished(i),
           HandlersOrderly', UNCHANGED soft_reseting
    PROVE  Orderly'
<1>1. ASSUME NEW i \in Jobs PROVE JobOrderly(i)'
  BY OrderFacts, JobStaysOrderly
<1>2. QED
  BY <1>1 DEF Orderly, JobsOrderly, OrderInv

(* The remaining steps of a thread that can occur.                         *)
LEMMA ThreadOrderlyStep ==
    ASSUME NotLate, OrderInv, NEW j \in Jobs, Thread(j)
    PROVE  Orderly'
<1>1. JobOrderly(j) /\ pc[j] \notin ResetLabels /\ ~Cleaning(j) /\ local[j].expired = FALSE
  BY OrderFacts DEF JobOrderly, OrderInv, OwnInv, NoCleaning
<1>2. CASE Kick(j)
  <2>1. pc[j] = "kick" /\ UNCHANGED <<job, cur, todo, irq, work, soft_reseting>>
    BY <1>2 DEF Kick, coreVars, devVars
  <2>2. /\ pc'[j] \in {"kick", "scheduled"}
        /\ \A i \in Jobs \ {j} : pc'[i] = pc[i] /\ local'[i] = local[i]
    BY <1>2, <2>1, OrderFacts DEF Kick, Goto
  <2>3. local'[j].expired = FALSE
    <3>1. PICK C : local' = local \/ local' = [local EXCEPT ![j].rest = C]
      BY <1>2 DEF Kick
    <3>2. QED
      BY <1>1, <3>1, OrderFacts DEF LocalType
  <2>4. SameOrder(j) /\ ThreadBehaves(j)
    BY <1>1, <2>1, <2>2, <2>3 DEF SameOrder, ThreadBehaves, Early, Late, ResetLabels
  <2>5. (\A i \in Jobs \ {j} : Untouched(i)) /\ \A i \in Jobs : LeavesUnfinished(i)
    BY <2>1, <2>2, SameUnfinished DEF Untouched
  <2>6. QED
    BY <2>1, <2>4, <2>5, ThreadOrderly
<1>3. CASE Unlink(j)
  <2>1. pc[j] = "unlink" /\ Gone(j) /\ UNCHANGED <<cur, irq, work, soft_reseting, local>>
    BY <1>1, <1>3 DEF Unlink, devVars, JobOrderly, Late
  <2>2. pc'[j] = "decide" /\ \A i \in Jobs \ {j} : pc'[i] = pc[i] /\ job'[i] = job[i]
    BY <1>3, OrderFacts DEF Unlink, Goto
  <2>3. SameOrder(j) /\ job'[j].life = job[j].life /\ job'[j].ret = "EINVAL"
    BY <1>3, OrderFacts DEF Unlink, SameOrder, JobType
  <2>4. ThreadBehaves(j)
    BY <1>1, <2>1, <2>2, <2>3 DEF ThreadBehaves, Early, Late, ResetLabels
  <2>5. QueuesThin
    <3>1. ASSUME NEW c \in Cores PROVE Thins(todo[c], todo'[c])
      <4>1. todo[c] \in Seq(Jobs)
        BY OrderFacts DEF IInv, TypeOK, CoresTypeOK
      <4>2. todo'[c] = RemoveFirst(todo[c], j) \/ todo'[c] = todo[c]
        BY <1>3 DEF Unlink
      <4>3. QED
        BY <4>1, <4>2, SameThins, RemoveFirstThins
    <3>2. QED
      BY <2>1, <3>1 DEF QueuesThin
  <2>6. \A i \in Jobs : LeavesUnfinished(i)
    <3>1. \A i \in Jobs : AtShrinks(i)
      BY <2>5, OrderFacts, ThinAt
    <3>2. QED
      BY <2>1, <3>1 DEF LeavesUnfinished, AtShrinks, Unfinished
  <2>7. QED
    BY <2>1, <2>2, <2>3, <2>4, <2>6, ThreadOrderly DEF Untouched
<1>4. CASE AbortClear(j)
  <2>1. pc[j] = "clear" /\ Gone(j) /\ UNCHANGED <<job, todo, irq, work, soft_reseting, local>>
    BY <1>1, <1>4 DEF AbortClear, devVars, JobOrderly, Late
  <2>2. pc'[j] = "cleared" /\ \A i \in Jobs \ {j} : pc'[i] = pc[i]
    BY <1>4, OrderFacts DEF AbortClear, Goto
  <2>3. SameOrder(j) /\ ThreadBehaves(j)
    BY <1>1, <2>1, <2>2 DEF SameOrder, ThreadBehaves, Early, Late, ResetLabels
  <2>4. ASSUME NEW c \in Cores PROVE cur'[c] = cur[c]
    BY <1>4, <2>1 DEF AbortClear, UnseenCores, Gone, At
  <2>5. \A i \in Jobs : LeavesUnfinished(i)
    BY <2>1, <2>4 DEF LeavesUnfinished, AtShrinks, At, Waiting, Unfinished
  <2>6. QED
    BY <2>1, <2>2, <2>3, <2>5, ThreadOrderly DEF Untouched
<1>5. CASE Reset(j) \/ CleanCur(j) \/ CleanWork(j)
  BY <1>1, <1>5 DEF Reset, ResetBegin, ResetWake, ResetControl, ResetEnd, CleanCur, CleanWork,
                    Cleaning, ResetLabels
<1>6. QED
  BY <1>2, <1>3, <1>4, <1>5, PrivateOrderlyStep, ScheduleOrderly, EnqueueOrderly
     DEF Thread, Private

(* The worker frees a job that no core knows.                              *)
LEMMA CleanupOrderly ==
    ASSUME OrderInv, NEW j \in Jobs, CleanupWork(j)
    PROVE  Orderly'
<1>1. UNCHANGED <<pc, local, cur, todo, irq, soft_reseting>> /\ work' \subseteq work
  BY DEF CleanupWork, coreVars
<1>2. Gone(j) /\ JobOrderly(j)
  BY OrderFacts DEF CleanupWork, JobOrderly
<1>3. /\ SameOrder(j) /\ job'[j].life = "freed" /\ job'[j].ret = job[j].ret
      /\ \A i \in Jobs \ {j} : job'[i] = job[i]
  BY OrderFacts DEF CleanupWork, SameOrder, JobType
<1>4. pc[j] \notin Early
  <2>1. j \in work
    BY DEF CleanupWork
  <2>2. QED
    BY <2>1, OrderFacts DEF Early, Unqueued, Unknown
<1>5. ThreadBehaves(j)
  BY <1>1, <1>2, <1>3, <1>4 DEF ThreadBehaves, JobOrderly
<1>6. QED
  BY <1>1, <1>3, <1>5, ThreadOrderly, SameUnfinished DEF Untouched

(* A known job has been submitted.                                         *)
LEMMA KnownIsSubmitted ==
    ASSUME OrderInv, NEW k \in Jobs, ~Unknown(k)
    PROVE  pc[k] # "new" /\ pc[k] \notin Early /\ job[k].pc_mode = TRUE /\ job[k].mapped = TRUE
BY OrderFacts DEF Unqueued, JobOrderly, Early

(* A commit of a mapped PC job is not refused.                             *)
LEMMA CommitAccepted ==
    ASSUME IInv, NEW k \in Jobs, NEW c \in Cores, SubcoreCommit(k, c),
           job[k].pc_mode = TRUE, job[k].mapped = TRUE
    PROVE  /\ hw' = [hw EXCEPT ![c] = [job |-> k, tasks |-> BatchTasks(k, c)]]
           /\ \E s \in {"none", line[c]} \ {"ok"} : line' = [line EXCEPT ![c] = s]
           /\ job'[k].int_mask = job[k].int_mask \cup {c}
           /\ \A i \in Jobs \ {k} : job'[i] = job[i]
           /\ \A i \in Jobs : /\ SameOrder(i) /\ job'[i].tasks = job[i].tasks
                              /\ job'[i].life = job[i].life /\ job'[i].ret = job[i].ret
                              /\ job'[i].run_count = job[i].run_count
                              /\ job'[i].submit_count = job[i].submit_count
<1>1. job \in [Jobs -> JobType]
  BY DEF IInv, TypeOK
<1>2. /\ hw' = [hw EXCEPT ![c] = [job |-> k, tasks |-> BatchTasks(k, c)]]
      /\ \E s \in {"none", line[c]} \ {"ok"} : line' = [line EXCEPT ![c] = s]
      /\ job' = [job EXCEPT ![k].committed = TRUE, ![k].int_mask = @ \cup {c}]
  BY DEF SubcoreCommit
<1>3. PICK M : M = job[k].int_mask \cup {c}
  OBVIOUS
<1>4. job' = [job EXCEPT ![k].committed = TRUE, ![k].int_mask = M]
  BY <1>1, <1>2, <1>3
<1>5. job'[k].int_mask = M /\ \A i \in Jobs \ {k} : job'[i] = job[i]
  BY <1>1, <1>4 DEF JobType
<1>6. \A i \in Jobs : /\ SameOrder(i) /\ job'[i].tasks = job[i].tasks
                      /\ job'[i].life = job[i].life /\ job'[i].ret = job[i].ret
                      /\ job'[i].run_count = job[i].run_count
                      /\ job'[i].submit_count = job[i].submit_count
  BY <1>1, <1>4 DEF SameOrder, JobType
<1>7. QED
  BY <1>2, <1>3, <1>5, <1>6

(* rknpu_job_next keeps order: it moves a job from a queue to its core.    *)
LEMMA CallOrderly ==
    ASSUME OrderInv, NEW e \in Executors, NextCall(e)
    PROVE  Orderly'
<1>1. UNCHANGED <<pc, local, irq, work, soft_reseting>>
  BY DEF NextCall, NextCheck, NextPop, NextDec, NextCommit, devVars
<1>2. IInv /\ job \in [Jobs -> JobType] /\ JobsOrderly /\ HandlersOrderly
  BY DEF OrderInv, OwnInv, Orderly, IInv, TypeOK
<1>3. \A i \in Jobs : /\ SameOrder(i) /\ job'[i].life = job[i].life /\ job'[i].ret = job[i].ret
  <2>1. CASE NextCheck(e)
    BY <2>1 DEF NextCheck, SameOrder
  <2>2. CASE NextPop(e)
    <3>1. PICK k : job' = job \/ job' = [job EXCEPT ![k].stamped = TRUE]
      BY <2>2 DEF NextPop
    <3>2. QED
      BY <1>2, <3>1 DEF SameOrder, JobType
  <2>3. CASE NextDec(e)
    <3>1. PICK k, x : job' = [job EXCEPT ![k].run_count = x]
      BY <2>3 DEF NextDec
    <3>2. QED
      BY <1>2, <3>1 DEF SameOrder, JobType
  <2>4. CASE NextCommit(e)
    <3>1. nx[e].job \in Jobs /\ nx[e].left # {} /\ nx[e].left \in SUBSET Cores
      BY <1>2, <2>4, CallFacts DEF NextCommit, CallFits, NextType
    <3>2. PICK c \in Cores : SubcoreCommit(nx[e].job, c)
      BY <2>4, <3>1, MinCore DEF NextCommit
    <3>3. ~Unknown(nx[e].job)
      BY DEF Unknown
    <3>4. QED
      BY <1>2, <3>1, <3>2, <3>3, KnownIsSubmitted, CommitAccepted
  <2>5. QED
    BY <2>1, <2>2, <2>3, <2>4 DEF NextCall
<1>4. \A i \in Jobs : ThreadBehaves(i)
  BY <1>1, <1>2, <1>3 DEF ThreadBehaves, JobsOrderly, JobOrderly
<1>5. \A i \in Jobs : AtShrinks(i)
  <2>1. CASE UNCHANGED <<cur, todo>>
    BY <2>1 DEF AtShrinks, At, Waiting
  <2>2. CASE NextPop(e) /\ ~UNCHANGED <<cur, todo>>
    <3>1. PICK c \in Cores : c = nx[e].core
      BY <1>2, CallFacts DEF NextType
    <3>2. todo[c] \in Seq(Jobs) /\ todo \in [Cores -> Seq(Jobs)] /\ cur \in [Cores -> Jobs \cup {NoJob}]
      BY <1>2 DEF IInv, TypeOK, CoresTypeOK
    <3>3. /\ todo[c] # <<>> /\ todo' = [todo EXCEPT ![c] = Tail(todo[c])]
          /\ cur' = [cur EXCEPT ![c] = Head(todo[c])]
      BY <2>2, <3>1 DEF NextPop
    <3>4. /\ 1 \in DOMAIN todo[c] /\ Head(todo[c]) = todo[c][1]
          /\ \A n \in DOMAIN Tail(todo[c]) : n + 1 \in DOMAIN todo[c] /\ Tail(todo[c])[n] = todo[c][n + 1]
      BY <3>2, <3>3, TailThins
    <3>5. /\ todo'[c] = Tail(todo[c]) /\ cur'[c] = Head(todo[c])
          /\ \A d \in Cores \ {c} : todo'[d] = todo[d] /\ cur'[d] = cur[d]
      BY <3>2, <3>3
    <3>6. ASSUME NEW i \in Jobs, NEW d \in Cores, At(i, d)' PROVE At(i, d)
      <4>1. CASE d # c
        BY <3>5, <3>6, <4>1 DEF At, Waiting
      <4>2. CASE d = c
        <5>1. CASE cur'[c] = i
          BY <3>4, <3>5, <4>2, <5>1 DEF At, Waiting
        <5>2. CASE Waiting(i, c)'
          <6>1. PICK n \in DOMAIN todo'[c] : todo'[c][n] = i
            BY <5>2 DEF Waiting
          <6>2. n + 1 \in DOMAIN todo[c] /\ todo[c][n + 1] = i
            BY <3>4, <3>5, <6>1
          <6>3. QED
            BY <4>2, <6>2 DEF At, Waiting
        <5>3. QED
          BY <3>6, <4>2, <5>1, <5>2 DEF At
      <4>3. QED
        BY <4>1, <4>2
    <3>7. QED
      BY <3>6 DEF AtShrinks
  <2>3. QED
    BY <2>1, <2>2 DEF NextCall, NextCheck, NextDec, NextCommit, coreVars
<1>6. \A i \in Jobs : LeavesUnfinished(i)
  BY <1>1, <1>5 DEF LeavesUnfinished, AtShrinks, Unfinished
<1>7. HandlersOrderly'
  BY <1>1, <1>2, <1>5, HandlersStayOrderly
<1>8. QED
  BY <1>1, <1>3, <1>4, <1>6, <1>7, OthersOrderly

(* A handler that neither comes to nor leaves the completion keeps order.  *)
LEMMA HandlerOrderly ==
    ASSUME OrderInv, NEW c \in Cores, NEW r \in IrqType, irq' = [irq EXCEPT ![c] = r],
           r.at \notin {"complete", "signal"}, UNCHANGED <<pc, local, work, cur, todo, soft_reseting>>,
           \A i \in Jobs : SameOrder(i) /\ job'[i].life = job[i].life /\ job'[i].ret = job[i].ret
    PROVE  Orderly'
<1>1. IInv /\ JobsOrderly /\ HandlersOrderly
  BY DEF OrderInv, OwnInv, Orderly
<1>2. irq'[c] = r /\ \A d \in Cores \ {c} : irq'[d] = irq[d]
  BY <1>1, HandlerFacts
<1>3. \A i \in Jobs : ThreadBehaves(i)
  BY <1>1 DEF ThreadBehaves, JobsOrderly, JobOrderly
<1>4. ASSUME NEW i \in Jobs PROVE LeavesUnfinished(i)
  BY <1>2 DEF LeavesUnfinished, AtShrinks, At, Waiting, Unfinished
<1>5. HandlersOrderly'
  BY <1>1, <1>2 DEF HandlersOrderly, At, Waiting
<1>6. QED
  BY <1>3, <1>4, <1>5, OthersOrderly

(* The steps of a handler up to the point where it gives up its core.      *)
LEMMA WorkingOrderly ==
    ASSUME OrderInv, NEW c \in Cores,
           \/ IrqEnter(c) \/ IrqStray(c) \/ IrqStatus(c) \/ IrqCompare(c) \/ IrqCount(c)
           \/ IrqRecommit(c)
    PROVE  Orderly'
<1>1. IInv /\ job \in [Jobs -> JobType]
  BY DEF OrderInv, OwnInv, IInv, TypeOK
<1>2. UNCHANGED <<pc, local, work, cur, todo, soft_reseting>>
  BY DEF IrqEnter, IrqStray, IrqStatus, IrqCompare, IrqCount, IrqRecommit, coreVars, devVars
<1>3. \A i \in Jobs : SameOrder(i) /\ job'[i].life = job[i].life /\ job'[i].ret = job[i].ret
  <2>1. CASE UNCHANGED job
    BY <2>1 DEF SameOrder
  <2>2. CASE IrqEnter(c) /\ ~UNCHANGED job
    <3>1. PICK k, x : job' = [job EXCEPT ![k].irq_entry = x]
      BY <2>2 DEF IrqEnter
    <3>2. QED
      BY <1>1, <3>1 DEF SameOrder, JobType
  <2>3. CASE IrqCount(c)
    <3>1. PICK k \in Jobs : k = irq[c].job
      BY <1>1, <2>3, HandlerFacts DEF IrqCount, HandlerFits
    <3>2. PICK x : job' = [job EXCEPT ![k].submit_count = x]
      BY <1>1, <2>3, <3>1 DEF IrqCount
    <3>3. QED
      BY <1>1, <3>2 DEF SameOrder, JobType
  <2>4. CASE IrqRecommit(c)
    <3>1. PICK k \in Jobs : k = irq[c].job
      BY <1>1, <2>4, HandlerFacts DEF IrqRecommit, HandlerFits
    <3>2. ~Unknown(k)
      BY <3>1 DEF Unknown
    <3>3. QED
      BY <1>1, <2>4, <3>1, <3>2, KnownIsSubmitted, CommitAccepted DEF IrqRecommit
  <2>5. QED
    BY <2>1, <2>2, <2>3, <2>4 DEF IrqStray, IrqStatus, IrqCompare
<1>4. \E r \in IrqType : irq' = [irq EXCEPT ![c] = r] /\ r.at \notin {"complete", "signal"}
  <2>1. /\ irq[c] \in IrqType /\ irq \in [Cores -> IrqType] /\ cur[c] \in Jobs \cup {NoJob}
        /\ line[c] \in {"none", "ok", "bad"} /\ IdleIrq \in IrqType
    BY <1>1, HandlerFacts
  <2>2. IdleIrq.at = "idle"
    BY DEF IdleIrq
  <2>3. ASSUME NEW l \in {"stray", "count", "recommit", "finish"}, irq' = [irq EXCEPT ![c].at = l]
        PROVE  \E r \in IrqType : irq' = [irq EXCEPT ![c] = r] /\ r.at \notin {"complete", "signal"}
    <3> DEFINE r == [irq[c] EXCEPT !.at = l]
    <3>1. r \in IrqType /\ r.at = l /\ irq' = [irq EXCEPT ![c] = r]
      BY <2>1, <2>3 DEF IrqType
    <3> HIDE DEF r
    <3>2. QED
      BY <3>1
  <2>4. CASE irq' = [irq EXCEPT ![c] = IdleIrq]
    BY <2>1, <2>2, <2>4
  <2>5. CASE IrqEnter(c) /\ cur[c] # NoJob
    <3> DEFINE r == [irq[c] EXCEPT !.at = "status", !.job = cur[c]]
    <3>1. r \in IrqType /\ r.at = "status" /\ irq' = [irq EXCEPT ![c] = r]
      BY <2>1, <2>5 DEF IrqType, IrqEnter
    <3> HIDE DEF r
    <3>2. QED
      BY <3>1
  <2>6. CASE IrqStatus(c)
    <3> DEFINE r == [irq[c] EXCEPT !.at = "compare", !.status = line[c]]
    <3>1. r \in IrqType /\ r.at = "compare" /\ irq' = [irq EXCEPT ![c] = r]
      BY <2>1, <2>6 DEF IrqType, IrqStatus
    <3> HIDE DEF r
    <3>2. QED
      BY <3>1
  <2>7. CASE IrqCompare(c)
    <3>1. irq' = [irq EXCEPT ![c].at = "count"] \/ irq' = [irq EXCEPT ![c] = IdleIrq]
      BY <2>7 DEF IrqCompare
    <3>2. QED
      BY <2>3, <2>4, <3>1
  <2>8. QED
    BY <2>3, <2>4, <2>5, <2>6, <2>7 DEF IrqEnter, IrqStray, IrqCount, IrqRecommit
<1>5. QED
  BY <1>2, <1>3, <1>4, HandlerOrderly

(* The handler gives up its core: the core is still unfinished, but only   *)
(* because the handler has not counted it.                                 *)
LEMMA FinishOrderly == ASSUME OrderInv, NEW c \in Cores, IrqFinish(c) PROVE Orderly'
<1>1. IInv /\ JobsOrderly /\ HandlersOrderly /\ Owned
  BY DEF OrderInv, OwnInv, Orderly
<1>2. UNCHANGED <<job, pc, local, work, todo, soft_reseting>>
  BY DEF IrqFinish, devVars
<1>3. PICK k \in Jobs : k = irq[c].job /\ cur[c] = k
  BY <1>1, HandlerFacts DEF IrqFinish, HandlerFits, Owned, Working
<1>4. cur'[c] = NoJob /\ \A d \in Cores \ {c} : cur'[d] = cur[d]
  BY <1>1 DEF IrqFinish, IInv, TypeOK, CoresTypeOK
<1>5. /\ irq'[c].at = "complete" /\ irq'[c].job = k
      /\ \A d \in Cores \ {c} : irq'[d] = irq[d]
  BY <1>1, <1>3, HandlerFacts DEF IrqFinish, IrqType
<1>6. \A i \in Jobs : SameOrder(i) /\ ThreadBehaves(i)
  BY <1>1, <1>2 DEF SameOrder, ThreadBehaves, JobsOrderly, JobOrderly
<1>7. NoJob \notin Jobs
  BY JobAssumption
<1>8. ASSUME NEW i \in Jobs PROVE AtShrinks(i)
  BY <1>2, <1>4, <1>7 DEF AtShrinks, At, Waiting
<1>9. ASSUME NEW i \in Jobs PROVE LeavesUnfinished(i)
  <2>1. Unfinished(i)' \subseteq Unfinished(i)
    <3>1. ASSUME NEW d \in Cores, d \in Unfinished(i)' PROVE d \in Unfinished(i)
      <4>1. CASE At(i, d)'
        BY <1>8, <4>1 DEF AtShrinks, Unfinished
      <4>2. CASE ~At(i, d)' /\ d = c
        BY <1>3, <1>5, <3>1, <4>2 DEF Unfinished, At
      <4>3. CASE ~At(i, d)' /\ d # c
        BY <1>5, <3>1, <4>3 DEF Unfinished
      <4>4. QED
        BY <4>1, <4>2, <4>3
    <3>2. QED
      BY <3>1 DEF Unfinished
  <2>2. QED
    BY <1>8, <2>1 DEF LeavesUnfinished
<1>10. HandlersOrderly'
  <2> SUFFICES ASSUME NEW d \in Cores, irq'[d].at \in {"complete", "signal"}
               PROVE  ~At(irq[d].job, d)'
    BY DEF HandlersOrderly
  <2>1. CASE d = c
    <3>1. ~Waiting(k, c)'
      BY <1>1, <1>2, <1>3 DEF Waiting, IInv, Once
    <3>2. QED
      BY <1>4, <1>5, <1>7, <2>1, <3>1 DEF At, Waiting
  <2>2. CASE d # c
    <3>1. irq'[d] = irq[d] /\ irq[d].job \in Jobs
      BY <1>1, <1>5, <2>2, HandlerFacts DEF HandlerFits
    <3>2. PICK i \in Jobs : i = irq[d].job
      BY <3>1
    <3>3. ~At(i, d) /\ ~At(i, d)'
      BY <1>1, <1>8, <3>1, <3>2 DEF HandlersOrderly, AtShrinks
    <3>4. QED
      BY <3>1, <3>2, <3>3 DEF At, Waiting
  <2>3. QED
    BY <2>1, <2>2
<1>11. QED
  BY <1>2, <1>6, <1>9, <1>10, OthersOrderly

(* The handler counts its core, and who takes the count to 0 finds that no *)
(* other core is left.                                                     *)
LEMMA CompleteOrderly == ASSUME OrderInv, NEW c \in Cores, IrqComplete(c) PROVE Orderly'
<1>1. IInv /\ JobsOrderly /\ HandlersOrderly /\ job \in [Jobs -> JobType]
  BY DEF OrderInv, OwnInv, Orderly, IInv, TypeOK
<1>2. UNCHANGED <<cur, todo, pc, local, work, soft_reseting>>
  BY DEF IrqComplete, coreVars
<1>3. PICK k \in Jobs : k = irq[c].job
  BY <1>1, HandlerFacts DEF IrqComplete, HandlerFits
<1>4. ~At(k, c) /\ c \in Unfinished(k)
  BY <1>1, <1>3 DEF IrqComplete, HandlersOrderly, Unfinished
<1>5. JobOrderly(k) /\ job[k].done = FALSE /\ job[k].interrupt_count \in Int
  BY <1>1, <1>4, OrderFacts DEF JobOrderly, JobType
<1>6. \A d \in Cores \ {c} : irq'[d] = irq[d]
  BY <1>1, HandlerFacts DEF IrqComplete
<1>7. irq'[c].at # "complete" /\ (irq'[c].at = "signal" => irq'[c].job = k)
  BY <1>1, <1>3, HandlerFacts DEF IrqComplete, IdleIrq, IrqType
<1>8. PICK x \in Int : x = job[k].interrupt_count - 1
  BY <1>5
<1>9. PICK b \in BOOLEAN : b = LastToFinish(k)
  BY DEF LastToFinish
<1>10. job' = [job EXCEPT ![k].interrupt_count = x, ![k].done = b]
  BY <1>1, <1>3, <1>5, <1>8, <1>9 DEF IrqComplete
<1>11. /\ job'[k].interrupt_count = x /\ job'[k].done = b /\ job'[k].life = job[k].life
       /\ job'[k].ret = job[k].ret /\ job'[k].pc_mode = job[k].pc_mode
       /\ job'[k].mapped = job[k].mapped
       /\ \A i \in Jobs \ {k} : job'[i] = job[i]
  BY <1>1, <1>10 DEF JobType
<1>12. Unfinished(k)' = Unfinished(k) \ {c}
  BY <1>2, <1>4, <1>6, <1>7 DEF Unfinished, At, Waiting
<1>13. Cardinality(Unfinished(k)') = Cardinality(Unfinished(k)) - 1
           /\ IsFiniteSet(Unfinished(k)') /\ Cardinality(Unfinished(k)') \in Nat
  <2>1. Unfinished(k) \in SUBSET Cores
    BY DEF Unfinished
  <2>2. QED
    BY <1>4, <1>12, <2>1, MaskSize, FS_RemoveElement, FS_CardinalityType
<1>14. x >= Cardinality(Unfinished(k)')
  <2>1. Cardinality(Unfinished(k)) \in Int /\ job[k].interrupt_count >= Cardinality(Unfinished(k))
    <3>1. Unfinished(k) \in SUBSET Cores
      BY DEF Unfinished
    <3>2. QED
      BY <1>5, <3>1, MaskSize DEF JobOrderly
  <2>2. QED
    BY <1>5, <1>8, <1>13, <2>1
<1>15. b = TRUE => Unfinished(k)' = {}
  <2>1. b = TRUE => job[k].interrupt_count = 1
    BY <1>9 DEF LastToFinish
  <2>2. job[k].interrupt_count = 1 => Cardinality(Unfinished(k)') = 0
    <3>1. PICK n \in Nat : n = Cardinality(Unfinished(k)')
      BY <1>13
    <3>2. job[k].interrupt_count = 1 => n = 0
      BY <1>8, <1>14, <3>1
    <3>3. QED
      BY <3>1, <3>2
  <2>3. QED
    BY <1>13, <2>1, <2>2, FS_EmptySet
<1>16. JobOrderly(k)'
  <2>1. ~Unknown(k)
    BY <1>3 DEF Unknown
  <2>2. pc[k] # "new" /\ pc[k] \notin Early
    BY <2>1, KnownIsSubmitted
  <2>3. Gone(k) => Gone(k)'
    BY <1>2 DEF Gone, At, Waiting
  <2>4. job'[k].interrupt_count >= Cardinality(Unfinished(k)')
            /\ (job'[k].done = TRUE => Unfinished(k)' = {})
    BY <1>11, <1>14, <1>15
  <2>5. QED
    BY <1>2, <1>5, <1>11, <2>2, <2>3, <2>4 DEF JobOrderly
<1>17. ASSUME NEW i \in Jobs \ {k} PROVE JobOrderly(i)'
  <2>1. SameOrder(i) /\ ThreadBehaves(i)
    BY <1>1, <1>2, <1>11, UntouchedBehaves DEF Steady
  <2>2. LeavesUnfinished(i)
    BY <1>2, <1>6, <1>7 DEF LeavesUnfinished, AtShrinks, Unfinished, At, Waiting
  <2>3. QED
    BY <1>1, <2>1, <2>2, OrderFacts, JobStaysOrderly
<1>18. HandlersOrderly'
  BY <1>1, <1>2, <1>4, <1>6, <1>7 DEF HandlersOrderly, At, Waiting
<1>19. QED
  BY <1>2, <1>16, <1>17, <1>18 DEF Orderly, JobsOrderly, OrderInv

(* The end of a job is signalled when no core knows it any more.           *)
LEMMA SignalOrderly == ASSUME OrderInv, NEW c \in Cores, IrqSignal(c) PROVE Orderly'
<1>1. IInv /\ JobsOrderly /\ HandlersOrderly /\ job \in [Jobs -> JobType]
  BY DEF OrderInv, OwnInv, Orderly, IInv, TypeOK
<1>2. UNCHANGED <<cur, todo, local, soft_reseting>>
  BY DEF IrqSignal, coreVars
<1>3. PICK k \in Jobs : k = irq[c].job
  BY <1>1, HandlerFacts DEF IrqSignal, HandlerFits
<1>4. job[k].done = TRUE
  BY <1>1, <1>3, HandlerFacts DEF IrqSignal, HandlerFits
<1>5. Gone(k) /\ JobOrderly(k)
  BY <1>4, OrderFacts
<1>6. PICK f : job' = [job EXCEPT ![k].ret = "0", ![k].fence = f]
  BY <1>3 DEF IrqSignal
<1>7. /\ SameOrder(k) /\ job'[k].ret = "0" /\ job'[k].life = job[k].life
      /\ \A i \in Jobs \ {k} : job'[i] = job[i]
  BY <1>1, <1>6 DEF SameOrder, JobType
<1>8. \A i \in Jobs : Steady(i)
  BY <1>1, <1>2 DEF IrqSignal, WakeUp, Steady
<1>9. work' \subseteq work \cup {k}
  BY <1>3 DEF IrqSignal, ScheduleCleanup
<1>10. ThreadBehaves(k)
  <2>1. ~Unknown(k)
    BY <1>3 DEF Unknown
  <2>2. pc[k] # "new" /\ pc[k] \notin Early
    BY <2>1, KnownIsSubmitted
  <2>3. QED
    BY <1>2, <1>5, <1>7, <1>8, <2>2 DEF ThreadBehaves, Steady, JobOrderly, Early, Late, ResetLabels
<1>11. ASSUME NEW i \in Jobs \ {k} PROVE SameOrder(i) /\ ThreadBehaves(i)
  BY <1>1, <1>7, <1>8, <1>9, UntouchedBehaves
<1>12. irq'[c].at = "idle" /\ \A d \in Cores \ {c} : irq'[d] = irq[d]
  BY <1>1, HandlerFacts DEF IrqSignal, IdleIrq
<1>13. ASSUME NEW i \in Jobs PROVE LeavesUnfinished(i)
  BY <1>2, <1>12 DEF LeavesUnfinished, AtShrinks, Unfinished, At, Waiting
<1>14. HandlersOrderly'
  BY <1>1, <1>2, <1>12 DEF HandlersOrderly, At, Waiting
<1>15. QED
  BY <1>2, <1>7, <1>10, <1>11, <1>13, <1>14, OthersOrderly

(* Every step keeps order.                                                 *)
LEMMA OrderlyStep == ASSUME NotLate, OrderInv, [Next]_vars PROVE Orderly'
<1>1. ASSUME UNCHANGED <<job, pc, local, work, cur, todo, irq, soft_reseting>> PROVE Orderly'
  <2>1. IInv /\ JobsOrderly /\ HandlersOrderly
    BY DEF OrderInv, OwnInv, Orderly
  <2>2. \A i \in Jobs : SameOrder(i) /\ ThreadBehaves(i) /\ LeavesUnfinished(i)
    BY <1>1, <2>1, UntouchedBehaves, SameUnfinished DEF Steady
  <2>3. HandlersOrderly'
    BY <1>1, <2>1, <2>2, HandlersStayOrderly DEF LeavesUnfinished
  <2>4. QED
    BY <1>1, <2>2, <2>3, OthersOrderly
<1>2. ASSUME NEW j \in Jobs, (\E a \in Requests : Submit(j, a)) \/ Thread(j) \/ CleanupWork(j)
      PROVE  Orderly'
  BY <1>2, SubmitOrderly, ThreadOrderlyStep, CleanupOrderly
<1>3. ASSUME NEW e \in Executors, NextCall(e) PROVE Orderly'
  BY <1>3, CallOrderly
<1>4. ASSUME NEW c \in Cores, Handler(c) PROVE Orderly'
  BY <1>4, WorkingOrderly, FinishOrderly, CompleteOrderly, SignalOrderly DEF Handler
<1>5. ASSUME NEW c \in Cores, HwFinish(c) \/ HwBadIrq(c) PROVE Orderly'
  BY <1>1, <1>5 DEF HwFinish, HwBadIrq, coreVars, devVars
<1>6. CASE UNCHANGED vars
  BY <1>1, <1>6 DEF vars, coreVars, devVars
<1>7. QED
  BY <1>2, <1>3, <1>4, <1>5, <1>6 DEF Next

(* When the module is loaded there is order: no core knows a job.          *)
LEMMA InitOrderly == ASSUME Init PROVE OrderInv
<1>1. /\ NewJob.life = "none" /\ NewJob.ret = "0" /\ NewJob.done = FALSE
      /\ NewJob.interrupt_count = 0 /\ NewLocal.expired = FALSE /\ IdleIrq.at = "idle"
  BY DEF NewJob, NewLocal, IdleIrq
<1>2. \A j \in Jobs : job[j] = NewJob /\ pc[j] = "new" /\ local[j] = NewLocal
  BY DEF Init
<1>3. \A c \in Cores : cur[c] = NoJob /\ todo[c] = <<>> /\ irq[c] = IdleIrq
  BY DEF Init
<1>4. work = {} /\ soft_reseting = FALSE
  BY DEF Init
<1>5. ASSUME NEW j \in Jobs PROVE JobOrderly(j)
  <2>1. Gone(j)
    BY <1>3, JobAssumption DEF Gone, At, Waiting
  <2>2. Unfinished(j) = {}
    BY <1>1, <1>3, <2>1 DEF Unfinished, Gone
  <2>3. Cardinality(Unfinished(j)) = 0
    BY <2>2, FS_EmptySet
  <2>4. job[j].interrupt_count >= Cardinality(Unfinished(j))
    BY <1>1, <1>2, <2>3
  <2>5. QED
    BY <1>1, <1>2, <1>4, <2>1, <2>2, <2>4 DEF JobOrderly, Early, Late, ResetLabels
<1>6. HandlersOrderly
  BY <1>1, <1>3 DEF HandlersOrderly
<1>7. QED
  BY <1>4, <1>5, <1>6, InitOwned DEF OrderInv, Orderly, JobsOrderly

(* Without time limits that expire, order holds in every behaviour.        *)
THEOREM JobOrderInvariance == ASSUME NotLate PROVE Spec => []OrderInv
<1>1. Init => OrderInv
  BY InitOrderly
<1>2. OrderInv /\ [Next]_vars => OrderInv'
  <2>1. NoOvertime
    BY DEF NotLate, NoOvertime
  <2>2. OrderInv /\ [Next]_vars => OwnInv'
    BY <2>1, StepFits, NobodyCleans, OwnedStep DEF OrderInv, OwnInv
  <2>3. OrderInv /\ [Next]_vars => Orderly'
    BY OrderlyStep
  <2>4. QED
    BY <2>2, <2>3 DEF OrderInv
<1>3. QED
  BY <1>1, <1>2, PTL DEF Spec

(* No core runs and no queue holds a freed job, if no time limit expires:  *)
(* in spite of failing domain switches and fences, of interrupts with a    *)
(* wrong status and of interrupts of other devices on the shared line.     *)
THEOREM JobQueuedJobsLive == ASSUME NotLate PROVE Spec => []QueuedJobsLive
<1>1. OrderInv => QueuedJobsLive
  <2> SUFFICES ASSUME OrderInv, NEW c \in Cores,
                      NEW k \in ToSet(todo[c]) \cup ({cur[c]} \ {NoJob})
               PROVE  job[k].life = "live"
    BY DEF QueuedJobsLive
  <2>1. IInv
    BY DEF OrderInv, OwnInv
  <2>2. todo[c] \in Seq(Jobs) /\ cur[c] \in Jobs \cup {NoJob}
    BY <2>1 DEF IInv, TypeOK, CoresTypeOK
  <2>3. k \in Jobs /\ At(k, c)
    BY <2>2 DEF ToSet, At, Waiting
  <2>4. ~Gone(k) /\ ~Unqueued(k)
    BY <2>3, OrderFacts DEF Gone
  <2>5. job[k].life \in {"none", "live", "freed"} /\ pc[k] # "new"
    BY <2>3, <2>4, OrderFacts DEF JobType, Unqueued
  <2>6. QED
    BY <2>3, <2>4, <2>5, OrderFacts DEF JobOrderly
<1>2. QED
  BY <1>1, JobOrderInvariance, PTL

----------------------------------------------------------------------------
(* DONE means executed.                                                    *)

(* Nothing has run before the first batch.                                 *)
LEMMA NoBatchYet == ASSUME NEW t \in Nat \ {0} PROVE TasksOf(0, t) = 0
<1>1. 0 * MaxSubmit = 0
  BY JobAssumption
<1>2. QED
  BY <1>1 DEF TasksOf

(* The next batch is as long as rknpu_job_subcore_commit_pc makes it, and  *)
(* rknpu_job_done expects one exactly as long as tasks are left.           *)
LEMMA BatchArithmetic ==
    ASSUME NEW n \in Nat, NEW t \in Nat \ {0}
    PROVE  /\ n * MaxSubmit \in Nat
           /\ n * MaxSubmit < t =>
                 TasksOf(n + 1, t) - TasksOf(n, t)
                     = IF t - n * MaxSubmit > MaxSubmit THEN MaxSubmit ELSE t - n * MaxSubmit
           /\ n < (t + MaxSubmit - 1) \div MaxSubmit <=> n * MaxSubmit < t
           /\ TasksOf(n, t) \in Nat
<1> DEFINE M == MaxSubmit
           p == n * M
           q == (t + M - 1) \div M
<1>1. M \in Nat \ {0}
  BY JobAssumption
<1>2. p \in Nat /\ (n + 1) * M = p + M
  BY <1>1
<1>3. TasksOf(n, t) = IF p < t THEN p ELSE t
  BY DEF TasksOf
<1>4. TasksOf(n + 1, t) = IF p + M < t THEN p + M ELSE t
  BY <1>2 DEF TasksOf
<1>5. q \in Int /\ q * M <= t + M - 1 /\ t + M - 1 < q * M + M
  BY <1>1
<1> HIDE DEF M, q
<1>6. n < q <=> p < t
  <2>1. ASSUME n < q PROVE p < t
    <3>1. PICK d \in Nat : q = n + 1 + d
      BY <1>5, <2>1
    <3>2. q * M = p + M + d * M /\ d * M >= 0
      BY <1>1, <3>1
    <3>3. d * M \in Int /\ q * M \in Int
      BY <1>1, <1>5, <3>1
    <3> HIDE DEF p
    <3>4. QED
      BY <1>1, <1>2, <1>5, <3>2, <3>3
  <2>2. ASSUME ~(n < q) PROVE ~(p < t)
    <3>1. PICK d \in Nat : n = q + d
      BY <1>5, <2>2
    <3>2. p = q * M + d * M /\ d * M >= 0
      BY <1>1, <1>5, <3>1
    <3>3. d * M \in Int /\ q * M \in Int
      BY <1>1, <1>5, <3>1
    <3> HIDE DEF p
    <3>4. QED
      BY <1>1, <1>2, <1>5, <3>2, <3>3
  <2>3. QED
    BY <2>1, <2>2
<1> HIDE DEF p
<1>7. p < t => TasksOf(n + 1, t) - TasksOf(n, t) = IF t - p > M THEN M ELSE t - p
  BY <1>1, <1>2, <1>3, <1>4
<1>8. TasksOf(n, t) \in Nat
  BY <1>2, <1>3
<1>9. QED
  BY <1>2, <1>6, <1>7, <1>8 DEF p, q, M

(* What most steps leave of the run of a job.                              *)
SameRun(i) ==
    /\ job'[i].mask = job[i].mask /\ job'[i].tasks = job[i].tasks
    /\ job'[i].run_count = job[i].run_count /\ job'[i].submit_count = job[i].submit_count
    /\ job'[i].done = job[i].done /\ job'[i].int_mask = job[i].int_mask

(* What has to be the same for a job to stay started, or not started.      *)
SameStart(i) ==
    /\ job'[i].mask = job[i].mask /\ job'[i].tasks = job[i].tasks
    /\ job'[i].run_count = job[i].run_count /\ job'[i].int_mask = job[i].int_mask

(* What core c has of job i.                                               *)
SameHere(i, c) ==
    /\ job'[i].tasks = job[i].tasks /\ job'[i].submit_count[c] = job[i].submit_count[c]
    /\ c \in job'[i].int_mask <=> c \in job[i].int_mask
    /\ executed'[i][c] = executed[i][c]

(* Core c has nothing to do with job i.                                    *)
Foreign(i, c) == cur[c] # i /\ hw[c].job # i /\ irq[c].job # i

SameAt(i) == \A c \in Cores : At(i, c)' <=> At(i, c)
SameCore(c) == hw'[c] = hw[c] /\ line'[c] = line[c] /\ cur'[c] = cur[c]
FewerCalls == \A e \in Executors : nx'[e].at \in {"dec", "commit"} => nx'[e] = nx[e]
NoEarlier(i) == (pc'[i] \in Early => pc[i] \in Early) /\ (pc'[i] = "new" <=> pc[i] = "new")

(* The parts of the invariant.                                             *)
LEMMA ExactFacts ==
    ASSUME ExactInv
    PROVE  /\ OrderInv /\ OwnInv /\ IInv /\ Exact
           /\ \A j \in Jobs : Started(j) /\ Placed(j) /\ job[j] \in JobType
           /\ \A e \in Executors : CallExact(e)
           /\ \A c \in Cores : CoreExact(c) /\ HandlerExact(c)
BY DEF ExactInv, Exact, OrderInv, OwnInv, IInv, TypeOK

(* With the queues as they were and no more calls, no more cores are still *)
(* to reach a job.                                                         *)
LEMMA FewerReaching ==
    ASSUME UNCHANGED todo, FewerCalls, NEW i \in Jobs
    PROVE  Reaching(i)' \subseteq Reaching(i)
BY DEF Reaching, Counting, FewerCalls, Waiting

(* A job keeps its start,                                                  *)
LEMMA StartStays ==
    ASSUME IInv, NEW i \in Jobs, Started(i), SameStart(i), NoEarlier(i),
           Reaching(i)' \subseteq Reaching(i)
    PROVE  Started(i)'
<1>1. job[i].run_count \in Int
  BY ThreadFacts DEF JobType
<1>2. /\ Cardinality(Reaching(i)') \in Nat /\ Cardinality(Reaching(i)) \in Nat
      /\ Cardinality(Reaching(i)') <= Cardinality(Reaching(i))
  <2>1. Reaching(i) \in SUBSET Cores /\ Reaching(i)' \in SUBSET Reaching(i)
    BY DEF Reaching
  <2>2. QED
    BY <2>1, FewerCores
<1>3. job'[i].run_count >= Cardinality(Reaching(i)')
  BY <1>1, <1>2 DEF Started, SameStart
<1>4. (pc'[i] # "new" => job'[i].tasks # 0)
      /\ (pc'[i] \in Early \cup {"new"} => job'[i].int_mask = {})
      /\ (pc'[i] \in Early => job'[i].run_count = Cardinality(job'[i].mask))
  BY DEF Started, SameStart, NoEarlier
<1>5. job'[i].int_mask # {} => job'[i].run_count <= 0
  BY DEF Started, SameStart
<1>6. QED
  BY <1>3, <1>4, <1>5 DEF Started

(* and it does so when its run stays the same,                             *)
LEMMA StartedStays ==
    ASSUME IInv, NEW i \in Jobs, Started(i), SameRun(i), NoEarlier(i),
           Reaching(i)' \subseteq Reaching(i)
    PROVE  Started(i)'
BY StartStays DEF SameRun, SameStart

(* its places,                                                             *)
LEMMA PlacedStays ==
    ASSUME IInv, NEW i \in Jobs, Placed(i), SameRun(i), executed'[i] = executed[i], SameAt(i),
           Unfinished(i)' \subseteq Unfinished(i)
    PROVE  Placed(i)'
<1>1. \A c \in Cores \ job'[i].int_mask : job'[i].submit_count[c] = 0 /\ executed'[i][c] = 0
  BY DEF Placed, SameRun
<1>2. \A c \in Cores : At(i, c)' => c \in job'[i].mask
  BY DEF Placed, SameRun, SameAt
<1>3. Unfinished(i)' # {} \/ job'[i].done = TRUE =>
          \A c \in job[i].mask : At(i, c) \/ executed[i][c] = job[i].tasks
  BY DEF Placed, SameRun
<1>4. (\A c \in job[i].mask : At(i, c) \/ executed[i][c] = job[i].tasks)
          => \A c \in job'[i].mask : At(i, c)' \/ executed'[i][c] = job'[i].tasks
  <2>1. job[i].mask \subseteq Cores
    BY ThreadFacts DEF JobType
  <2>2. QED
    BY <2>1 DEF SameRun, SameAt
<1>5. QED
  BY <1>1, <1>2, <1>3, <1>4 DEF Placed

(* A call keeps what it knows,                                             *)
LEMMA CallKeepsExact ==
    ASSUME IInv, NEW e \in Executors, \A f \in Executors : CallExact(f), FewerCalls, UNCHANGED cur,
           \A i \in Jobs : (\E f \in Executors : nx[f].job = i) => SameStart(i)
    PROVE  CallExact(e)'
<1>1. CallExact(e) /\ CallFits(e)
  BY CallFacts
<1>2. CASE nx'[e].at = "dec"
  <2>1. nx'[e] = nx[e]
    BY <1>2 DEF FewerCalls
  <2>2. \A f \in Executors : nx'[f].at = "dec" => nx'[f] = nx[f]
    BY DEF FewerCalls
  <2>3. QED
    BY <1>1, <1>2, <2>1, <2>2 DEF CallExact
<1>3. CASE nx'[e].at = "commit"
  <2>1. nx'[e] = nx[e] /\ nx[e].job \in Jobs
    BY <1>1, <1>3 DEF FewerCalls, CallFits
  <2>2. \A f \in Executors : nx'[f].at = "commit" => nx'[f] = nx[f]
    BY DEF FewerCalls
  <2>3. SameStart(nx[e].job)
    BY <2>1
  <2>4. QED
    BY <1>1, <1>3, <2>1, <2>2, <2>3 DEF CallExact, SameStart
<1>4. QED
  BY <1>2, <1>3 DEF CallExact

(* and it does so when the runs of the jobs stay the same,                 *)
LEMMA CallStaysExact ==
    ASSUME IInv, NEW e \in Executors, \A f \in Executors : CallExact(f), FewerCalls, UNCHANGED cur,
           \A i \in Jobs : (\E f \in Executors : nx[f].job = i) => SameRun(i)
    PROVE  CallExact(e)'
<1>1. \A i \in Jobs : (\E f \in Executors : nx[f].job = i) => SameStart(i)
  BY DEF SameRun, SameStart
<1>2. QED
  BY <1>1, CallKeepsExact

(* a core what it executes,                                                *)
LEMMA CoreStaysExact ==
    ASSUME IInv, NEW c \in Cores, CoreExact(c), SameCore(c),
           \A i \in Jobs : SameHere(i, c) \/ Foreign(i, c)
    PROVE  CoreExact(c)'
<1>1. hw[c].job \in Jobs \cup {NoJob} /\ cur[c] \in Jobs \cup {NoJob}
  BY HandlerFacts DEF HardwareTypeOK
<1>2. CASE hw[c].job # NoJob
  <2>1. hw[c].job \in Jobs /\ SameHere(hw[c].job, c)
    BY <1>1, <1>2 DEF Foreign
  <2>2. /\ cur[c] = hw[c].job /\ c \in job[hw[c].job].int_mask /\ line[c] # "ok"
        /\ executed[hw[c].job][c] = Ran(hw[c].job, c)
        /\ hw[c].tasks = RanOne(hw[c].job, c) - Ran(hw[c].job, c)
    BY <1>2 DEF CoreExact
  <2>3. Ran(hw[c].job, c)' = Ran(hw[c].job, c) /\ RanOne(hw[c].job, c)' = RanOne(hw[c].job, c)
    BY <2>1 DEF SameHere, Ran, RanOne, TasksOf, SameCore
  <2>4. QED
    BY <2>1, <2>2, <2>3 DEF CoreExact, SameCore, SameHere
<1>3. CASE line[c] = "ok"
  <2>1. /\ cur[c] # NoJob /\ c \in job[cur[c]].int_mask
        /\ executed[cur[c]][c] = RanOne(cur[c], c) /\ hw[c].job = NoJob
    BY <1>3 DEF CoreExact
  <2>2. cur[c] \in Jobs /\ SameHere(cur[c], c)
    BY <1>1, <2>1 DEF Foreign
  <2>3. RanOne(cur[c], c)' = RanOne(cur[c], c)
    BY <2>2 DEF SameHere, RanOne, TasksOf, SameCore
  <2>4. QED
    BY <1>3, <2>1, <2>2, <2>3 DEF CoreExact, SameCore, SameHere
<1>4. QED
  BY <1>2, <1>3 DEF CoreExact, SameCore

(* and a handler what it has learnt.                                       *)
LEMMA HandlerStaysExact ==
    ASSUME IInv, NEW c \in Cores, HandlerExact(c), irq'[c] = irq[c],
           hw'[c] = hw[c], line'[c] = line[c],
           \A i \in Jobs : SameHere(i, c) \/ Foreign(i, c)
    PROVE  HandlerExact(c)'
<1>1. CASE irq[c].at \notin {"status", "compare", "count", "recommit", "finish"}
  BY <1>1 DEF HandlerExact
<1>2. CASE irq[c].at \in {"status", "compare", "count", "recommit", "finish"}
  <2>1. PICK k \in Jobs : k = irq[c].job
    BY <1>2, HandlerFacts DEF HandlerFits
  <2>2. /\ job'[k].tasks = job[k].tasks /\ job'[k].submit_count[c] = job[k].submit_count[c]
        /\ c \in job'[k].int_mask <=> c \in job[k].int_mask
        /\ executed'[k][c] = executed[k][c]
    BY <2>1 DEF SameHere, Foreign
  <2>3. /\ Ran(irq[c].job, c)' = Ran(irq[c].job, c)
        /\ RanOne(irq[c].job, c)' = RanOne(irq[c].job, c)
    BY <2>1, <2>2 DEF Ran, RanOne, TasksOf
  <2>4. Quiesced(c)' <=> Quiesced(c)
    BY <2>1, <2>2 DEF Quiesced
  <2>5. irq'[c].job = k
    BY <2>1
  <2>6. QED
    BY <2>1, <2>2, <2>3, <2>4, <2>5 DEF HandlerExact
<1>3. QED
  BY <1>1, <1>2

(* What is the same of a run is the same at every core.                    *)
LEMMA SameEverywhere ==
    ASSUME NEW i \in Jobs, SameRun(i), executed'[i] = executed[i], NEW c \in Cores
    PROVE  SameHere(i, c)
BY DEF SameRun, SameHere

(* A handler makes its step, the runs of the jobs stay as they are.        *)
LEMMA HandlerExactMove ==
    ASSUME ExactInv, NEW c \in Cores, \A i \in Jobs : SameRun(i) /\ NoEarlier(i), FewerCalls,
           UNCHANGED <<cur, todo, executed>>,
           \A d \in Cores \ {c} : irq'[d] = irq[d] /\ hw'[d] = hw[d] /\ line'[d] = line[d],
           irq'[c].at = "complete" => irq'[c] = irq[c], CoreExact(c)', HandlerExact(c)'
    PROVE  Exact'
<1>1. ASSUME NEW i \in Jobs PROVE Started(i)' /\ Placed(i)' /\ \A d \in Cores : SameHere(i, d)
  <2>1. SameAt(i) /\ Unfinished(i)' \subseteq Unfinished(i)
    BY DEF SameAt, At, Waiting, Unfinished
  <2>2. Reaching(i)' \subseteq Reaching(i)
    BY FewerReaching
  <2>3. Started(i)' /\ Placed(i)'
    BY <2>1, <2>2, ExactFacts, StartedStays, PlacedStays
  <2>4. QED
    BY <2>3, SameEverywhere
<1>2. ASSUME NEW e \in Executors PROVE CallExact(e)'
  BY ExactFacts, CallStaysExact
<1>3. ASSUME NEW d \in Cores PROVE CoreExact(d)' /\ HandlerExact(d)'
  <2>1. CASE d = c
    BY <2>1
  <2>2. CASE d # c
    <3>1. SameCore(d) /\ irq'[d] = irq[d]
      BY <2>2 DEF SameCore
    <3>2. QED
      BY <1>1, <3>1, ExactFacts, CoreStaysExact, HandlerStaysExact DEF SameCore
  <2>3. QED
    BY <2>1, <2>2
<1>4. QED
  BY <1>1, <1>2, <1>3 DEF Exact

(* A step that only threads and calls see.                                 *)
LEMMA QuietExact ==
    ASSUME ExactInv, \A i \in Jobs : SameRun(i) /\ NoEarlier(i), FewerCalls,
           UNCHANGED <<cur, todo, executed, irq, hw, line>>
    PROVE  Exact'
<1>1. ASSUME NEW i \in Jobs PROVE Started(i)' /\ Placed(i)' /\ \A d \in Cores : SameHere(i, d)
  <2>1. SameAt(i) /\ Unfinished(i)' \subseteq Unfinished(i)
    BY DEF SameAt, At, Waiting, Unfinished
  <2>2. Reaching(i)' \subseteq Reaching(i)
    BY FewerReaching
  <2>3. Started(i)' /\ Placed(i)'
    BY <2>1, <2>2, ExactFacts, StartedStays, PlacedStays
  <2>4. QED
    BY <2>3, SameEverywhere
<1>2. ASSUME NEW e \in Executors PROVE CallExact(e)'
  BY ExactFacts, CallStaysExact
<1>3. ASSUME NEW d \in Cores PROVE CoreExact(d)' /\ HandlerExact(d)'
  <2>1. SameCore(d) /\ irq'[d] = irq[d]
    BY DEF SameCore
  <2>2. QED
    BY <1>1, <2>1, ExactFacts, CoreStaysExact, HandlerStaysExact DEF SameCore
<1>4. QED
  BY <1>1, <1>2, <1>3 DEF Exact

(* Its own thread fills in a job that nobody else knows.                   *)
LEMMA FreshExact ==
    ASSUME ExactInv, NEW j \in Jobs, Unknown(j), \A i \in Jobs \ {j} : SameRun(i) /\ NoEarlier(i),
           Started(j)', Placed(j)', UNCHANGED <<cur, todo, executed, irq, nx, hw, line>>
    PROVE  Exact'
<1>1. ASSUME NEW i \in Jobs \ {j}
      PROVE  Started(i)' /\ Placed(i)' /\ \A d \in Cores : SameHere(i, d)
  <2>1. SameAt(i) /\ Unfinished(i)' \subseteq Unfinished(i)
    BY DEF SameAt, At, Waiting, Unfinished
  <2>2. Reaching(i)' \subseteq Reaching(i)
    BY FewerReaching DEF FewerCalls
  <2>3. Started(i)' /\ Placed(i)'
    BY <2>1, <2>2, ExactFacts, StartedStays, PlacedStays
  <2>4. QED
    BY <2>3, SameEverywhere
<1>2. ASSUME NEW e \in Executors PROVE CallExact(e)'
  <2>1. \A i \in Jobs : (\E f \in Executors : nx[f].job = i) => SameRun(i)
    BY DEF Unknown
  <2>2. QED
    BY <2>1, ExactFacts, CallStaysExact DEF FewerCalls
<1>3. ASSUME NEW d \in Cores PROVE CoreExact(d)' /\ HandlerExact(d)'
  <2>1. SameCore(d) /\ irq'[d] = irq[d]
    BY DEF SameCore
  <2>2. \A i \in Jobs : SameHere(i, d) \/ Foreign(i, d)
    BY <1>1 DEF Unknown, Foreign
  <2>3. QED
    BY <2>1, <2>2, ExactFacts, CoreStaysExact, HandlerStaysExact DEF SameCore
<1>4. QED
  BY <1>1, <1>2, <1>3 DEF Exact

(* Nobody is at an unknown job.                                            *)
LEMMA UnknownNowhere ==
    ASSUME NEW j \in Jobs, Unknown(j), UNCHANGED <<cur, todo, irq, nx>>
    PROVE  /\ \A c \in Cores : ~At(j, c)'
           /\ Unfinished(j)' = {} /\ Reaching(j)' = {} /\ Cardinality(Reaching(j)') = 0
<1>1. \A c \in Cores : ~At(j, c)'
  BY DEF Unknown, At, Waiting
<1>2. Unfinished(j)' = {}
  BY <1>1 DEF Unknown, Unfinished
<1>3. Reaching(j)' = {}
  BY <1>1 DEF Unknown, Reaching, At, Counting
<1>4. QED
  BY <1>1, <1>2, <1>3, FS_EmptySet

(* The submit of a new job.                                                *)
LEMMA SubmitExact ==
    ASSUME ExactInv, NEW j \in Jobs, NEW a \in Requests, Submit(j, a)
    PROVE  Exact'
<1>1. UNCHANGED <<cur, todo, executed, irq, nx, hw, line>> /\ pc[j] = "new"
  BY DEF Submit, coreVars, hwVars
<1>2. Unknown(j) /\ job \in [Jobs -> JobType] /\ pc \in [Jobs -> Labels]
  BY <1>1, ExactFacts, OrderFacts DEF Unqueued
<1>3. a \in RequestType /\ a.mask \in SUBSET Cores /\ a.tasks \in Nat \ {0}
  BY JobAssumption DEF RequestType
<1>4. /\ job'[j].mask = a.mask /\ job'[j].run_count = Cardinality(a.mask)
      /\ job'[j].done = FALSE /\ job'[j].int_mask = {} /\ job'[j].tasks = a.tasks
      /\ job'[j].submit_count = [c \in Cores |-> 0]
  BY <1>2 DEF Submit, NewJob
<1>5. pc'[j] \in Early
  BY <1>2 DEF Submit, Goto, AfterFences, Early
<1>6. \A c \in Cores : executed[j][c] = 0
  BY <1>1, ExactFacts DEF Started, Placed
<1>7. Cardinality(a.mask) \in Nat
  BY <1>3, MaskSize
<1>8. Started(j)'
  <2>1. job'[j].run_count >= Cardinality(Reaching(j)')
    BY <1>1, <1>2, <1>4, <1>7, UnknownNowhere
  <2>2. QED
    BY <1>3, <1>4, <1>5, <2>1 DEF Started, Early
<1>9. Placed(j)'
  BY <1>1, <1>2, <1>4, <1>6, UnknownNowhere DEF Placed
<1>10. \A i \in Jobs \ {j} : SameRun(i) /\ NoEarlier(i)
  BY <1>2 DEF Submit, Goto, SameRun, NoEarlier
<1>11. QED
  BY <1>1, <1>2, <1>8, <1>9, <1>10, FreshExact

(* Schedule gives an AUTO job its core, and run_count the size of it.      *)
LEMMA ScheduleExact ==
    ASSUME ExactInv, NEW j \in Jobs, Schedule(j)
    PROVE  Exact'
<1>1. UNCHANGED <<cur, todo, executed, irq, nx, hw, line>> /\ pc[j] = "sched"
  BY DEF Schedule, coreVars, hwVars
<1>2. Unknown(j) /\ job \in [Jobs -> JobType] /\ pc \in [Jobs -> Labels] /\ JobOrderly(j)
  BY <1>1, ExactFacts, OrderFacts DEF Unqueued
<1>3. ScheduleCore \in Cores
  BY ExactFacts, ScheduleCoreIsCore DEF IInv, TypeOK, CoresTypeOK
<1>4. Started(j) /\ Placed(j) /\ job[j] \in JobType /\ pc[j] \in Early /\ job[j].done = FALSE
  BY <1>1, <1>2, ExactFacts DEF Early, JobOrderly
<1> DEFINE placed == IF job[j].mask # {} THEN job[j]
                     ELSE [job[j] EXCEPT !.mask = {ScheduleCore}, !.run_count = 1,
                                         !.interrupt_count = 1]
<1>5. /\ placed \in JobType /\ placed.tasks = job[j].tasks /\ placed.done = FALSE
      /\ placed.submit_count = job[j].submit_count /\ placed.int_mask = job[j].int_mask
      /\ placed.run_count = Cardinality(placed.mask)
  <2>1. CASE job[j].mask # {}
    BY <1>4, <2>1 DEF Started
  <2>2. CASE job[j].mask = {}
    <3>1. placed = [job[j] EXCEPT !.mask = {ScheduleCore}, !.run_count = 1, !.interrupt_count = 1]
      BY SMTT(30), <2>2
    <3>2. placed \in JobType
      BY <1>3, <1>4, <3>1, JobUpdates
    <3>3. Cardinality({ScheduleCore}) = 1
      BY FS_Singleton
    <3>4. /\ placed.tasks = job[j].tasks /\ placed.done = job[j].done
          /\ placed.submit_count = job[j].submit_count /\ placed.int_mask = job[j].int_mask
          /\ placed.mask = {ScheduleCore} /\ placed.run_count = 1
      BY <1>4, <3>1 DEF JobType
    <3>5. QED
      BY <1>4, <3>2, <3>3, <3>4
  <2>3. QED
    BY <2>1, <2>2
<1>6. /\ job'[j] = placed \/ job'[j] = [placed EXCEPT !.ret = "EINVAL"]
      /\ pc'[j] \in {"enqueue", "scheduled"}
      /\ \A i \in Jobs \ {j} : job'[i] = job[i] /\ pc'[i] = pc[i]
  BY <1>2 DEF Schedule, Goto
<1> HIDE DEF placed
<1>7. /\ job'[j].tasks = job[j].tasks /\ job'[j].done = FALSE
      /\ job'[j].submit_count = job[j].submit_count /\ job'[j].int_mask = job[j].int_mask
      /\ job'[j].run_count = Cardinality(job'[j].mask) /\ job'[j].mask \in SUBSET Cores
  BY <1>5, <1>6 DEF JobType
<1>8. Started(j)'
  <2>1. Cardinality(job'[j].mask) \in Nat
    BY <1>7, MaskSize
  <2>2. job'[j].run_count >= Cardinality(Reaching(j)')
    BY <1>1, <1>2, <1>7, <2>1, UnknownNowhere
  <2>3. job'[j].int_mask = {} /\ job'[j].tasks # 0
    BY <1>1, <1>4, <1>7 DEF Started
  <2>4. QED
    BY <1>7, <2>2, <2>3 DEF Started
<1>9. Placed(j)'
  BY <1>1, <1>2, <1>4, <1>7, UnknownNowhere DEF Placed
<1>10. \A i \in Jobs \ {j} : SameRun(i) /\ NoEarlier(i)
  BY <1>6 DEF SameRun, NoEarlier
<1>11. QED
  BY <1>1, <1>2, <1>8, <1>9, <1>10, FreshExact

(* Enqueue: run_count stands for the cores the job now waits at.           *)
LEMMA EnqueueExact ==
    ASSUME ExactInv, IInv', NEW j \in Jobs, Enqueue(j)
    PROVE  Exact'
<1>1. UNCHANGED <<job, cur, executed, irq, nx, hw, line>> /\ pc[j] = "enqueue"
  BY DEF Enqueue, hwVars
<1>2. Unknown(j) /\ job \in [Jobs -> JobType] /\ pc \in [Jobs -> Labels]
  BY <1>1, ExactFacts, OrderFacts DEF Unqueued
<1>3. pc'[j] = "kick" /\ \A i \in Jobs \ {j} : pc'[i] = pc[i]
  BY <1>2 DEF Enqueue, Goto
<1>4. \A i \in Jobs, c \in Cores : At(i, c)' <=> At(i, c) \/ (i = j /\ c \in job[j].mask)
  BY ExactFacts, EnqueueAt
<1>5. ASSUME NEW i \in Jobs, NEW c \in Cores, Waiting(i, c)'
      PROVE  Waiting(i, c) \/ (i = j /\ c \in job[j].mask)
  <2>1. cur'[c] # i
    BY <1>5 DEF IInv, Once, Waiting
  <2>2. At(i, c)'
    BY <1>5 DEF At
  <2>3. QED
    BY <1>1, <1>4, <2>1, <2>2 DEF At
<1>6. \A i \in Jobs : SameRun(i) /\ NoEarlier(i)
  BY <1>1, <1>3 DEF SameRun, NoEarlier, Early
<1>7. ASSUME NEW i \in Jobs \ {j} PROVE Started(i)' /\ Placed(i)'
  <2>1. SameAt(i)
    BY <1>4 DEF SameAt
  <2>2. Unfinished(i)' \subseteq Unfinished(i)
    BY <1>1, <2>1 DEF SameAt, Unfinished
  <2>3. Reaching(i)' \subseteq Reaching(i)
    BY <1>1, <1>5 DEF Reaching, Counting
  <2>4. QED
    BY <1>1, <1>6, <2>1, <2>2, <2>3, ExactFacts, StartedStays, PlacedStays
<1>8. Started(j)' /\ Placed(j)'
  <2>1. Started(j) /\ Placed(j) /\ pc[j] \in Early /\ job[j].mask \in SUBSET Cores
    BY <1>1, <1>2, ExactFacts DEF Early, JobType
  <2>2. \A c \in Cores : At(j, c)' <=> c \in job[j].mask
    BY <1>2, <1>4 DEF Unknown, At, Waiting
  <2>3. Reaching(j)' \in SUBSET job[j].mask
    <3>1. ASSUME NEW c \in Reaching(j)' PROVE c \in job[j].mask
      <4>1. c \in Cores /\ (Waiting(j, c)' \/ \E e \in Executors : Counting(e, j, c))
        BY <1>1 DEF Reaching, Counting
      <4>2. ~\E e \in Executors : Counting(e, j, c)
        BY <1>2 DEF Unknown, Counting
      <4>3. ~Waiting(j, c)
        BY <1>2, <4>1 DEF Unknown, Waiting
      <4>4. QED
        BY <1>5, <4>1, <4>2, <4>3
    <3>2. QED
      BY <3>1
  <2>4. /\ Cardinality(Reaching(j)') \in Nat /\ Cardinality(job[j].mask) \in Nat
        /\ Cardinality(Reaching(j)') <= Cardinality(job[j].mask)
    BY <2>1, <2>3, FewerCores
  <2>5. job'[j].run_count >= Cardinality(Reaching(j)')
    <3>1. job'[j].run_count = Cardinality(job[j].mask)
      BY <1>1, <2>1 DEF Started
    <3>2. QED
      BY <2>4, <3>1
  <2>6. Started(j)'
    BY <1>1, <1>3, <2>1, <2>5 DEF Started, Early
  <2>7. Placed(j)'
    BY <1>1, <2>1, <2>2 DEF Placed
  <2>8. QED
    BY <2>6, <2>7
<1>9. ASSUME NEW e \in Executors PROVE CallExact(e)'
  BY <1>1, <1>6, ExactFacts, CallStaysExact DEF FewerCalls
<1>10. ASSUME NEW d \in Cores PROVE CoreExact(d)' /\ HandlerExact(d)'
  <2>1. SameCore(d) /\ irq'[d] = irq[d] /\ \A i \in Jobs : SameHere(i, d)
    BY <1>1 DEF SameCore, SameHere
  <2>2. QED
    BY <2>1, ExactFacts, CoreStaysExact, HandlerStaysExact DEF SameCore
<1>11. QED
  BY <1>7, <1>8, <1>9, <1>10 DEF Exact

(* A private step leaves a thread no earlier than it was.                  *)
LEMMA PrivateLater == ASSUME IInv, NEW j \in Jobs, Private(j) PROVE \A i \in Jobs : NoEarlier(i)
<1>1. \A i \in Jobs \ {j} : NoEarlier(i)
  BY PrivateFrame DEF Untouched, NoEarlier
<1>2. pc[j] \in Labels /\ pc \in [Jobs -> Labels]
  BY DEF IInv, TypeOK
<1>3. CASE FenceIn(j) \/ FenceOut(j) \/ Clean(j)
  <2>1. pc[j] \in {"fence_in", "fence_out", "clean"}
    BY <1>3 DEF FenceIn, FenceOut, Clean
  <2>2. pc'[j] # "new"
    BY <1>2, <1>3, <2>1 DEF FenceIn, FenceOut, Clean, SubmitFails, Goto, AfterFences
  <2>3. QED
    BY <1>1, <2>1, <2>2 DEF NoEarlier, Early
<1>4. CASE WaitCheck(j) \/ WaitTimeout(j)
  <2>1. pc[j] \in {"wait", "asleep"} /\ pc'[j] \in {"wait", "asleep", "waited"}
    BY <1>2, <1>4 DEF WaitCheck, WaitTimeout, WaitRound, Goto
  <2>2. QED
    BY <1>1, <2>1 DEF NoEarlier, Early
<1>5. CASE Scheduled(j) \/ Waited(j) \/ Decide(j) \/ FreeJob(j) \/ Abort(j) \/ AbortCleared(j)
  <2>1. pc[j] \in {"scheduled", "waited", "decide", "free", "abort", "cleared"}
    BY <1>5 DEF Scheduled, Waited, Decide, FreeJob, Abort, AbortCleared
  <2>2. pc'[j] \in {"ret", "abort", "wait", "decide", "unlink", "free", "clear", "rst_begin"}
    BY <1>2, <1>5 DEF Scheduled, Waited, Decide, FreeJob, Abort, AbortCleared, Goto
  <2>3. QED
    BY <1>1, <2>1, <2>2 DEF NoEarlier, Early
<1>6. QED
  BY <1>3, <1>4, <1>5 DEF Private

(* list_del_init of a job that is in no queue changes none.                *)
LEMMA RemoveNone ==
    ASSUME NEW s \in Seq(Jobs), NEW j \in Jobs, \A n \in DOMAIN s : s[n] # j
    PROVE  RemoveFirst(s, j) = s
<1>1. DOMAIN s = 1 .. Len(s)
  OBVIOUS
<1>2. QED
  BY <1>1 DEF RemoveFirst

(* The steps of a thread.                                                  *)
LEMMA ThreadExactStep ==
    ASSUME NotLate, ExactInv, IInv', NEW j \in Jobs, Thread(j)
    PROVE  Exact'
<1>1. JobOrderly(j) /\ pc[j] \notin ResetLabels /\ ~Cleaning(j) /\ pc \in [Jobs -> Labels]
  BY ExactFacts, OrderFacts DEF JobOrderly, OwnInv, NoCleaning
<1>2. CASE Private(j)
  BY <1>2, ExactFacts, PrivateFrame, PrivateLater, QuietExact
     DEF SameRun, SameProgress, FewerCalls
<1>3. CASE Kick(j)
  <2>1. UNCHANGED <<job, cur, todo, executed, irq, hw, line>> /\ pc[j] = "kick"
    BY <1>3 DEF Kick, coreVars, hwVars
  <2>2. \A i \in Jobs : NoEarlier(i)
    BY <1>1, <1>3, <2>1 DEF Kick, Goto, NoEarlier, Early
  <2>3. FewerCalls
    <3>1. j \in Executors /\ nx \in [Executors -> NextType]
      BY ExactFacts DEF Executors, IInv, TypeOK
    <3>2. PICK c : nx' = nx \/ CallNext(j, c)
      BY <1>3 DEF Kick
    <3>3. QED
      BY <3>1, <3>2 DEF CallNext, FewerCalls
  <2>4. QED
    BY <2>1, <2>2, <2>3, QuietExact DEF SameRun
<1>4. CASE Unlink(j)
  <2>1. pc[j] = "unlink" /\ Gone(j) /\ UNCHANGED <<cur, executed, irq, nx, hw, line>>
    BY <1>1, <1>4 DEF Unlink, hwVars, JobOrderly, Late
  <2>2. todo' = todo
    <3>1. todo \in [Cores -> Seq(Jobs)]
      BY ExactFacts DEF IInv, TypeOK, CoresTypeOK
    <3>2. ASSUME NEW c \in Cores PROVE RemoveFirst(todo[c], j) = todo[c]
      BY <2>1, <3>1, RemoveNone DEF Gone, At, Waiting
    <3>3. todo' = [c \in Cores |-> todo[c]]
      BY <1>4, <3>2 DEF Unlink
    <3>4. QED
      BY <3>1, <3>3
  <2>3. \A i \in Jobs : SameRun(i)
    BY <1>4, ExactFacts, OrderFacts DEF Unlink, SameRun, JobType
  <2>4. \A i \in Jobs : NoEarlier(i)
    BY <1>1, <1>4, <2>1 DEF Unlink, Goto, NoEarlier, Early
  <2>5. QED
    BY <2>1, <2>2, <2>3, <2>4, QuietExact DEF FewerCalls
<1>5. CASE AbortClear(j)
  <2>1. pc[j] = "clear" /\ Gone(j) /\ UNCHANGED <<job, todo, executed, irq, nx, hw, line>>
    BY <1>1, <1>5 DEF AbortClear, hwVars, JobOrderly, Late
  <2>2. cur' = cur
    <3>1. cur \in [Cores -> Jobs \cup {NoJob}]
      BY ExactFacts DEF IInv, TypeOK, CoresTypeOK
    <3>2. cur' = [c \in Cores |-> cur[c]]
      BY <1>5, <2>1 DEF AbortClear, UnseenCores, Gone, At
    <3>3. QED
      BY <3>1, <3>2
  <2>3. \A i \in Jobs : NoEarlier(i)
    BY <1>1, <1>5, <2>1 DEF AbortClear, Goto, NoEarlier, Early
  <2>4. QED
    BY <2>1, <2>2, <2>3, QuietExact DEF FewerCalls, SameRun
<1>6. CASE Reset(j) \/ CleanCur(j) \/ CleanWork(j)
  BY <1>1, <1>6 DEF Reset, ResetBegin, ResetWake, ResetControl, ResetEnd, CleanCur, CleanWork,
                    Cleaning, ResetLabels
<1>7. QED
  BY <1>2, <1>3, <1>4, <1>5, <1>6, ScheduleExact, EnqueueExact DEF Thread, Private

(* The worker.                                                             *)
LEMMA CleanupExact == ASSUME ExactInv, NEW j \in Jobs, CleanupWork(j) PROVE Exact'
<1>1. UNCHANGED <<pc, cur, todo, executed, irq, nx, hw, line>>
  BY DEF CleanupWork, coreVars, hwVars
<1>2. \A i \in Jobs : SameRun(i)
  BY ExactFacts, OrderFacts DEF CleanupWork, SameRun, JobType
<1>3. QED
  BY <1>1, <1>2, QuietExact DEF FewerCalls, NoEarlier

(* A core takes the first job of its queue: every job is where it was, and *)
(* as many cores are still to be counted.                                  *)
LEMMA PopExact ==
    ASSUME ExactInv, NEW e \in Executors, NextPop(e), cur[nx[e].core] = NoJob,
           todo[nx[e].core] # <<>>
    PROVE  Exact'
<1>1. PICK c \in Cores : c = nx[e].core
  BY ExactFacts, CallFacts
<1>2. /\ todo \in [Cores -> Seq(Jobs)] /\ cur \in [Cores -> Jobs \cup {NoJob}]
      /\ nx \in [Executors -> NextType] /\ job \in [Jobs -> JobType]
  BY ExactFacts DEF IInv, TypeOK, CoresTypeOK
<1>3. PICK k \in Jobs : k = Head(todo[c])
  BY <1>1, <1>2, TailThins
<1>4. /\ todo' = [todo EXCEPT ![c] = Tail(@)] /\ cur' = [cur EXCEPT ![c] = k]
      /\ nx' = [nx EXCEPT ![e].at = "dec", ![e].job = k]
      /\ job' = [job EXCEPT ![k].stamped = TRUE]
      /\ UNCHANGED <<pc, irq, hw, line, executed>>
  BY <1>1, <1>3 DEF NextPop, hwVars
<1>5. /\ cur'[c] = k /\ todo'[c] = Tail(todo[c]) /\ cur[c] = NoJob
      /\ \A d \in Cores \ {c} : cur'[d] = cur[d] /\ todo'[d] = todo[d]
  BY <1>1, <1>2, <1>4
<1>6. /\ nx'[e].at = "dec" /\ nx'[e].job = k /\ nx'[e].core = c
      /\ \A f \in Executors \ {e} : nx'[f] = nx[f]
  BY <1>1, <1>2, <1>4 DEF NextType
<1>7. /\ 1 \in DOMAIN todo[c] /\ todo[c][1] = k
      /\ \A n \in DOMAIN todo'[c] : n \in Nat /\ n + 1 \in DOMAIN todo[c] /\ todo'[c][n] = todo[c][n + 1]
  BY <1>1, <1>2, <1>3, <1>5, TailThins
<1>8. ASSUME NEW n \in DOMAIN todo[c], n # 1
      PROVE  n - 1 \in DOMAIN todo'[c] /\ todo'[c][n - 1] = todo[c][n]
  <2>1. /\ Len(todo[c]) \in Nat /\ DOMAIN todo[c] = 1 .. Len(todo[c])
        /\ DOMAIN Tail(todo[c]) = 1 .. Len(todo[c]) - 1
    BY <1>1, <1>2
  <2>2. n \in Int /\ n - 1 \in DOMAIN todo'[c] /\ (n - 1) + 1 = n
    BY <1>5, <1>8, <2>1
  <2>3. QED
    BY <1>7, <2>2
<1>9. Waiting(k, c) /\ \A i \in Jobs : Waiting(i, c)' => Waiting(i, c)
  BY <1>7 DEF Waiting
<1>10. \A i \in Jobs : Waiting(i, c) => i = k \/ Waiting(i, c)'
  <2> SUFFICES ASSUME NEW i \in Jobs, NEW n \in DOMAIN todo[c], todo[c][n] = i, i # k
               PROVE  Waiting(i, c)'
    BY DEF Waiting
  <2>1. n # 1
    BY <1>7
  <2>2. QED
    BY <1>8, <2>1 DEF Waiting
<1>11. \A i \in Jobs : SameAt(i)
  <2> SUFFICES ASSUME NEW i \in Jobs, NEW d \in Cores PROVE At(i, d)' <=> At(i, d)
    BY DEF SameAt
  <2>1. CASE d # c
    BY <1>5, <2>1 DEF At, Waiting
  <2>2. CASE d = c
    BY <1>5, <1>9, <1>10, <2>2, JobAssumption DEF At
  <2>3. QED
    BY <2>1, <2>2
<1>12. \A i \in Jobs : Reaching(i)' \subseteq Reaching(i)
  <2> SUFFICES ASSUME NEW i \in Jobs, NEW d \in Reaching(i)' PROVE d \in Reaching(i)
    OBVIOUS
  <2>1. d \in Cores
    BY DEF Reaching
  <2>2. CASE Waiting(i, d)'
    <3>1. Waiting(i, d)
      <4>1. CASE d = c
        BY <1>9, <2>2, <4>1
      <4>2. CASE d # c
        BY <1>5, <2>1, <2>2, <4>2 DEF Waiting
      <4>3. QED
        BY <4>1, <4>2
    <3>2. QED
      BY <2>1, <3>1 DEF Reaching
  <2>3. CASE \E f \in Executors : Counting(f, i, d)'
    <3>1. PICK f \in Executors : Counting(f, i, d)'
      BY <2>3
    <3>2. CASE f = e
      BY <1>6, <1>9, <2>1, <3>1, <3>2 DEF Counting, Reaching
    <3>3. CASE f # e
      BY <1>6, <2>1, <3>1, <3>3 DEF Counting, Reaching
    <3>4. QED
      BY <3>2, <3>3
  <2>4. QED
    BY <2>2, <2>3 DEF Reaching
<1>13. \A i \in Jobs : SameRun(i) /\ NoEarlier(i) /\ executed'[i] = executed[i]
  BY <1>2, <1>4 DEF SameRun, NoEarlier, JobType
<1>14. ASSUME NEW i \in Jobs PROVE Started(i)' /\ Placed(i)'
  <2>1. Unfinished(i)' \subseteq Unfinished(i)
    BY <1>4, <1>11 DEF SameAt, Unfinished
  <2>2. QED
    BY <1>11, <1>12, <1>13, <2>1, ExactFacts, StartedStays, PlacedStays
<1>15. ASSUME NEW f \in Executors PROVE CallExact(f)'
  <2>1. CallExact(f) /\ CallFits(f)
    BY ExactFacts, CallFacts
  <2>2. \A g \in Executors \ {e} : nx[g].at = "dec" => nx[g].core # c
    BY <1>5, ExactFacts, CallFacts, JobAssumption DEF CallExact, CallFits
  <2>3. CASE f = e
    BY <1>5, <1>6, <2>2, <2>3 DEF CallExact
  <2>4. CASE f # e /\ nx[f].at = "dec"
    <3>1. nx'[f] = nx[f] /\ nx[f].core # c /\ nx[f].core \in Cores
      BY <1>6, <2>2, <2>4, ExactFacts, CallFacts
    <3>2. cur'[nx[f].core] = cur[nx[f].core]
      BY <1>5, <3>1
    <3>3. QED
      BY <1>6, <2>1, <2>4, <3>1, <3>2 DEF CallExact
  <2>5. CASE f # e /\ nx[f].at = "commit"
    <3>1. nx'[f] = nx[f] /\ nx[f].job \in Jobs /\ nx[f].left \in SUBSET Cores
      BY <1>6, <2>1, <2>5, ExactFacts, CallFacts DEF CallFits
    <3>2. c \notin nx[f].left
      BY <1>5, <2>1, <2>5, <3>1, JobAssumption DEF CallExact
    <3>3. \A d \in nx[f].left : cur'[d] = cur[d]
      BY <1>5, <3>1, <3>2
    <3>4. SameRun(nx[f].job)
      BY <1>13, <3>1
    <3>5. QED
      BY <1>6, <2>1, <2>5, <3>1, <3>3, <3>4 DEF CallExact, SameRun
  <2>6. CASE f # e /\ nx[f].at \notin {"dec", "commit"}
    BY <1>6, <2>6 DEF CallExact
  <2>7. QED
    BY <2>3, <2>4, <2>5, <2>6
<1>16. ASSUME NEW d \in Cores PROVE CoreExact(d)' /\ HandlerExact(d)'
  <2>1. /\ \A i \in Jobs : SameHere(i, d)
        /\ hw'[d] = hw[d] /\ line'[d] = line[d] /\ irq'[d] = irq[d]
    BY <1>4, <1>13, SameEverywhere
  <2>2. HandlerExact(d)'
    BY <2>1, ExactFacts, HandlerStaysExact
  <2>3. CASE d # c
    <3>1. SameCore(d)
      BY <1>5, <2>1, <2>3 DEF SameCore
    <3>2. QED
      BY <2>1, <2>2, <3>1, ExactFacts, CoreStaysExact
  <2>4. CASE d = c
    <3>1. hw[c].job = NoJob /\ line[c] # "ok"
      BY <1>5, ExactFacts DEF CoreExact
    <3>2. QED
      BY <2>1, <2>2, <2>4, <3>1 DEF CoreExact
  <2>5. QED
    BY <2>2, <2>3, <2>4
<1>17. QED
  BY <1>14, <1>15, <1>16 DEF Exact

(* All cores of a mask have reached a job whose run_count is 1 when one of *)
(* them counts: it has not been started, so no core has let go of it.      *)
LEMMA AllReached ==
    ASSUME ExactInv, NEW e \in Executors, nx[e].at = "dec", NEW k \in Jobs, nx[e].job = k,
           job[k].run_count = 1
    PROVE  job[k].int_mask = {} /\ \A d \in job[k].mask : d \in Cores /\ cur[d] = k
<1>1. PICK c \in Cores : c = nx[e].core
  BY ExactFacts, CallFacts
<1>2. Started(k) /\ Placed(k) /\ job[k] \in JobType /\ CallExact(e)
  BY ExactFacts
<1>3. job[k].int_mask = {}
  BY <1>2 DEF Started
<1>4. cur[c] = k /\ c \in Reaching(k) /\ c \in Unfinished(k)
  BY <1>1, <1>2 DEF CallExact, Reaching, Counting, Unfinished, At
<1>5. Reaching(k) = {c}
  <2>1. Reaching(k) \in SUBSET Cores /\ {c} \in SUBSET Reaching(k)
    BY <1>4 DEF Reaching
  <2>2. IsFiniteSet(Reaching(k)) /\ Cardinality(Reaching(k)) \in Nat
    BY <2>1, MaskSize
  <2>3. Cardinality({c}) = 1
    BY FS_Singleton
  <2>4. Cardinality(Reaching(k)) <= 1
    BY <1>2 DEF Started
  <2>5. Cardinality({c}) <= Cardinality(Reaching(k))
    BY <2>1, <2>2, FS_Subset
  <2>6. Cardinality(Reaching(k)) = Cardinality({c})
    BY <2>2, <2>3, <2>4, <2>5
  <2>7. QED
    BY <2>1, <2>2, <2>6, FS_Subset
<1>6. job[k].tasks # 0
  <2>1. ~Unknown(k)
    BY DEF Unknown
  <2>2. pc[k] # "new"
    BY <2>1, ExactFacts, KnownIsSubmitted
  <2>3. QED
    BY <1>2, <2>2 DEF Started
<1>7. ASSUME NEW d \in job[k].mask PROVE d \in Cores /\ cur[d] = k
  <2>1. d \in Cores
    BY <1>2 DEF JobType
  <2>2. At(k, d) \/ executed[k][d] = job[k].tasks
    BY <1>2, <1>4 DEF Placed
  <2>3. executed[k][d] = 0
    BY <1>2, <1>3, <2>1 DEF Placed
  <2>4. At(k, d)
    BY <1>6, <2>2, <2>3
  <2>5. CASE d = c
    BY <1>4, <2>5
  <2>6. CASE d # c
    <3>1. ~Waiting(k, d)
      BY <1>5, <2>1, <2>6 DEF Reaching
    <3>2. QED
      BY <2>1, <2>4, <3>1 DEF At
  <2>7. QED
    BY <2>1, <2>5, <2>6
<1>8. QED
  BY <1>3, <1>7

(* The core is counted; the last one starts the job on all of them.        *)
LEMMA DecExact == ASSUME ExactInv, NEW e \in Executors, NextDec(e) PROVE Exact'
<1>1. /\ nx[e].at = "dec" /\ nx[e].core \in Cores /\ nx[e].job \in Jobs
      /\ nx \in [Executors -> NextType] /\ job \in [Jobs -> JobType]
  BY ExactFacts, CallFacts DEF NextDec, CallFits
<1>2. PICK k \in Jobs, c \in Cores : k = nx[e].job /\ c = nx[e].core
  BY <1>1
<1> DEFINE start == IF LastToReach(k) THEN CommitCores(job[k].mask) ELSE {}
<1>3. /\ job' = [job EXCEPT ![k].run_count = @ - 1]
      /\ IF start = {} THEN ReturnNext(e)
                       ELSE nx' = [nx EXCEPT ![e].at = "commit", ![e].left = start]
      /\ UNCHANGED <<cur, todo, pc, irq, hw, line, executed>>
  BY <1>2 DEF NextDec, coreVars, hwVars
<1>4. UNCHANGED <<cur, todo, pc, irq, hw, line, executed>>
  BY <1>3
<1>5. /\ job'[k].run_count = job[k].run_count - 1
      /\ \A i \in Jobs \ {k} : SameRun(i)
      /\ \A i \in Jobs : /\ job'[i].mask = job[i].mask /\ job'[i].tasks = job[i].tasks
                         /\ job'[i].submit_count = job[i].submit_count
                         /\ job'[i].done = job[i].done /\ job'[i].int_mask = job[i].int_mask
  BY <1>1, <1>3 DEF JobType, SameRun
<1>6. /\ start # {} => job[k].run_count = 1 /\ start \subseteq job[k].mask
      /\ job[k].run_count \in Int
  BY <1>1 DEF LastToReach, CommitCores, JobType
<1>7. /\ \A f \in Executors \ {e} : nx'[f] = nx[f]
      /\ nx'[e].at \in {"none", "commit"}
      /\ nx'[e].at = "commit" => start # {} /\ nx'[e].left = start /\ nx'[e].job = k
  <2>1. CASE start = {}
    BY <1>1, <1>3, <2>1 DEF ReturnNext, NoCall
  <2>2. CASE start # {}
    BY <1>1, <1>2, <1>3, <2>2 DEF NextType
  <2>3. QED
    BY <2>1, <2>2
<1> HIDE DEF start
<1>8. CallExact(e) /\ cur[c] = k
  BY <1>1, <1>2, ExactFacts DEF CallExact
<1>9. \A i \in Jobs : SameAt(i) /\ Unfinished(i)' = Unfinished(i) /\ NoEarlier(i)
  BY <1>4 DEF SameAt, At, Waiting, Unfinished, NoEarlier
<1>10. \A i \in Jobs \ {k} : Reaching(i)' \subseteq Reaching(i)
  BY <1>2, <1>4, <1>7 DEF Reaching, Counting, Waiting
<1>11. ASSUME NEW i \in Jobs \ {k} PROVE Started(i)' /\ Placed(i)'
  BY <1>4, <1>5, <1>9, <1>10, ExactFacts, StartedStays, PlacedStays
<1>12. Started(k)'
  <2>1. Started(k) /\ Reaching(k) \in SUBSET Cores
    BY ExactFacts DEF Reaching
  <2>2. c \in Reaching(k) /\ Reaching(k)' \subseteq Reaching(k) \ {c}
    <3>1. c \in Reaching(k)
      BY <1>1, <1>2 DEF Reaching, Counting
    <3>2. ASSUME NEW d \in Reaching(k)' PROVE d \in Reaching(k) /\ d # c
      <4>1. d \in Cores /\ (Waiting(k, d) \/ \E f \in Executors : Counting(f, k, d)')
        BY <1>4 DEF Reaching, Waiting
      <4>2. CASE Waiting(k, d)
        <5>1. d # c
          BY <1>8, <4>2, ExactFacts DEF IInv, Once, Waiting
        <5>2. QED
          BY <4>1, <4>2, <5>1 DEF Reaching
      <4>3. CASE \E f \in Executors : Counting(f, k, d)'
        <5>1. PICK f \in Executors : Counting(f, k, d)'
          BY <4>3
        <5>2. f # e /\ Counting(f, k, d)
          BY <1>7, <5>1 DEF Counting
        <5>3. d # c
          BY <1>1, <1>2, <1>8, <5>2 DEF CallExact, Counting
        <5>4. QED
          BY <4>1, <5>2, <5>3 DEF Reaching
      <4>4. QED
        BY <4>1, <4>2, <4>3
    <3>3. QED
      BY <3>1, <3>2
  <2>3. /\ Cardinality(Reaching(k)) \in Nat /\ Cardinality(Reaching(k) \ {c}) \in Nat
        /\ Cardinality(Reaching(k) \ {c}) = Cardinality(Reaching(k)) - 1
    <3>1. IsFiniteSet(Reaching(k)) /\ Cardinality(Reaching(k)) \in Nat
      BY <2>1, MaskSize
    <3>2. Cardinality(Reaching(k) \ {c}) = Cardinality(Reaching(k)) - 1
      BY <2>2, <3>1, FS_RemoveElement
    <3>3. Reaching(k) \ {c} \in SUBSET Cores
      BY <2>1
    <3>4. QED
      BY <3>1, <3>2, <3>3, MaskSize
  <2>4. /\ Cardinality(Reaching(k)') \in Nat
        /\ Cardinality(Reaching(k)') <= Cardinality(Reaching(k) \ {c})
    <3>1. Reaching(k) \ {c} \in SUBSET Cores /\ Reaching(k)' \in SUBSET (Reaching(k) \ {c})
      BY <2>1, <2>2
    <3>2. QED
      BY <3>1, FewerCores
  <2>5. job'[k].run_count >= Cardinality(Reaching(k)')
    <3>1. job[k].run_count >= Cardinality(Reaching(k))
      BY <2>1 DEF Started
    <3>2. QED
      BY <1>5, <1>6, <2>3, <2>4, <3>1
  <2>6. pc[k] # "new" /\ pc[k] \notin Early
    <3>1. ~Unknown(k)
      BY <1>2 DEF Unknown
    <3>2. QED
      BY <3>1, ExactFacts, KnownIsSubmitted
  <2>7. job'[k].int_mask # {} => job'[k].run_count <= 0
    <3>1. job[k].int_mask # {} => job[k].run_count <= 0
      BY <2>1 DEF Started
    <3>2. job'[k].int_mask = job[k].int_mask
      BY <1>5
    <3>3. QED
      BY <1>5, <1>6, <3>1, <3>2
  <2>8. job'[k].tasks # 0
    BY <1>5, <2>1, <2>6 DEF Started
  <2>9. QED
    BY <1>4, <2>5, <2>6, <2>7, <2>8 DEF Started
<1>13. Placed(k)'
  <2>1. Placed(k) /\ job[k].mask \subseteq Cores
    BY <1>1, ExactFacts DEF JobType
  <2>2. QED
    BY <1>4, <1>5, <1>9, <2>1 DEF Placed, SameAt
<1>14. ASSUME NEW f \in Executors PROVE CallExact(f)'
  <2>1. CallExact(f) /\ CallFits(f) /\ \A g \in Executors : CallExact(g) /\ CallFits(g)
    BY ExactFacts, CallFacts
  <2>2. CASE f # e /\ nx[f].at = "dec"
    BY <1>4, <1>7, <2>1, <2>2 DEF CallExact
  <2>3. CASE f # e /\ nx[f].at = "commit"
    <3>1. nx'[f] = nx[f] /\ nx[f].job \in Jobs
      BY <1>7, <2>1, <2>3 DEF CallFits
    <3>2. job[nx[f].job].run_count <= 0 /\ job[nx[f].job].run_count \in Int
      BY <1>1, <2>1, <2>3, <3>1 DEF CallExact, JobType
    <3>3. job'[nx[f].job].run_count <= 0
      <4>1. CASE nx[f].job = k
        BY <1>5, <3>2, <4>1
      <4>2. CASE nx[f].job # k
        BY <1>5, <3>1, <3>2, <4>2 DEF SameRun
      <4>3. QED
        BY <4>1, <4>2
    <3>4. \A d \in nx[f].left : cur'[d] = nx[f].job /\ d \notin job'[nx[f].job].int_mask
      BY <1>4, <1>5, <2>1, <2>3, <3>1 DEF CallExact
    <3>5. ASSUME nx'[e].at = "commit" PROVE nx[f].job # k
      <4>1. job[k].run_count = 1
        BY <1>6, <1>7, <3>5
      <4>2. QED
        BY <3>2, <4>1
    <3>6. \A g \in Executors : nx'[g].at = "commit" /\ nx'[g].job = nx[f].job => g = f
      BY <1>7, <2>1, <2>3, <3>5 DEF CallExact
    <3>7. QED
      BY <2>3, <3>1, <3>3, <3>4, <3>6 DEF CallExact
  <2>4. CASE f = e /\ nx'[e].at = "commit"
    <3>1. job[k].run_count = 1 /\ nx'[e].left \subseteq job[k].mask /\ nx'[e].job = k
      BY <1>6, <1>7, <2>4
    <3>2. job[k].int_mask = {} /\ \A d \in job[k].mask : d \in Cores /\ cur[d] = k
      BY <1>1, <1>2, <3>1, AllReached
    <3>3. job'[k].run_count <= 0
      BY <1>5, <3>1
    <3>4. \A d \in nx'[e].left : cur'[d] = k /\ d \notin job'[k].int_mask
      BY <1>4, <1>5, <3>1, <3>2
    <3>5. ASSUME NEW g \in Executors, nx'[g].at = "commit", nx'[g].job = k PROVE g = e
      <4>1. SUFFICES ASSUME g # e PROVE FALSE
        OBVIOUS
      <4>2. nx[g].at = "commit" /\ nx[g].job = k
        BY <1>7, <3>5, <4>1
      <4>3. job[k].run_count <= 0
        BY <2>1, <4>2 DEF CallExact
      <4>4. QED
        BY <3>1, <4>3
    <3>6. QED
      BY <2>4, <3>1, <3>3, <3>4, <3>5 DEF CallExact
  <2>5. CASE nx'[f].at \notin {"dec", "commit"}
    BY <2>5 DEF CallExact
  <2>6. QED
    BY <1>7, <2>2, <2>3, <2>4, <2>5
<1>15. ASSUME NEW d \in Cores PROVE CoreExact(d)' /\ HandlerExact(d)'
  <2>1. (\A i \in Jobs : SameHere(i, d)) /\ SameCore(d) /\ irq'[d] = irq[d]
    BY <1>4, <1>5 DEF SameHere, SameCore
  <2>2. QED
    BY <2>1, ExactFacts, CoreStaysExact, HandlerStaysExact DEF SameCore
<1>16. QED
  BY <1>11, <1>12, <1>13, <1>14, <1>15 DEF Exact

(* rknpu_job_subcore_commit gives an idle core the next batch of its job.  *)
LEMMA BatchStarts ==
    ASSUME ExactInv, NEW k \in Jobs, NEW c \in Cores, SubcoreCommit(k, c), ~Unknown(k),
           cur[c] = k, job[k].run_count <= 0, executed[k][c] = Ran(k, c),
           job[k].submit_count[c] * MaxSubmit < job[k].tasks,
           UNCHANGED <<cur, todo, pc, executed>>,
           \A d \in Cores \ {c} : irq'[d] = irq[d],
           irq'[c].at = "complete" => irq'[c] = irq[c],
           \A i \in Jobs : Reaching(i)' \subseteq Reaching(i),
           \A e \in Executors : CallExact(e)', HandlerExact(c)'
    PROVE  Exact'
<1>1. /\ pc[k] # "new" /\ pc[k] \notin Early /\ job[k].pc_mode = TRUE /\ job[k].mapped = TRUE
      /\ Started(k) /\ Placed(k) /\ job[k] \in JobType
  BY ExactFacts, KnownIsSubmitted
<1>2. /\ hw' = [hw EXCEPT ![c] = [job |-> k, tasks |-> BatchTasks(k, c)]]
      /\ \E s \in {"none", line[c]} \ {"ok"} : line' = [line EXCEPT ![c] = s]
      /\ job'[k].int_mask = job[k].int_mask \cup {c}
      /\ \A i \in Jobs \ {k} : job'[i] = job[i]
      /\ \A i \in Jobs : /\ SameOrder(i) /\ job'[i].tasks = job[i].tasks
                         /\ job'[i].life = job[i].life /\ job'[i].ret = job[i].ret
                         /\ job'[i].run_count = job[i].run_count
                         /\ job'[i].submit_count = job[i].submit_count
  BY <1>1, ExactFacts, CommitAccepted
<1>3. hw \in [Cores -> [job : Jobs \cup {NoJob}, tasks : Int]] /\ line \in [Cores -> {"none", "ok", "bad"}]
  BY ExactFacts DEF IInv, TypeOK, HardwareTypeOK
<1>4. /\ hw'[c].job = k /\ hw'[c].tasks = BatchTasks(k, c) /\ line'[c] # "ok"
      /\ \A d \in Cores \ {c} : hw'[d] = hw[d] /\ line'[d] = line[d]
  <2>1. PICK s \in {"none", line[c]} \ {"ok"} : line' = [line EXCEPT ![c] = s]
    BY <1>2
  <2>2. QED
    BY <1>2, <1>3, <2>1
<1>5. \A i \in Jobs : SameAt(i) /\ Unfinished(i)' \subseteq Unfinished(i) /\ NoEarlier(i)
  BY DEF SameAt, At, Waiting, Unfinished, NoEarlier
<1>6. ASSUME NEW i \in Jobs \ {k} PROVE Started(i)' /\ Placed(i)'
  <2>1. SameRun(i)
    BY <1>2 DEF SameRun
  <2>2. QED
    BY <1>5, <2>1, ExactFacts, StartedStays, PlacedStays
<1>7. Started(k)'
  <2>1. job'[k].run_count >= Cardinality(Reaching(k)')
    <3>1. Reaching(k) \in SUBSET Cores /\ Reaching(k)' \in SUBSET Reaching(k)
      BY DEF Reaching
    <3>2. /\ Cardinality(Reaching(k)') \in Nat /\ Cardinality(Reaching(k)) \in Nat
          /\ Cardinality(Reaching(k)') <= Cardinality(Reaching(k))
      BY <3>1, FewerCores
    <3>3. job[k].run_count \in Int /\ job'[k].run_count = job[k].run_count
      BY <1>1, <1>2 DEF JobType
    <3>4. job[k].run_count >= Cardinality(Reaching(k))
      BY <1>1 DEF Started
    <3>5. QED
      BY <3>2, <3>3, <3>4
  <2>2. job'[k].tasks # 0 /\ job'[k].run_count <= 0
    BY <1>1, <1>2 DEF Started
  <2>3. QED
    BY <1>1, <2>1, <2>2 DEF Started
<1>8. Placed(k)'
  <2>1. /\ job'[k].mask = job[k].mask /\ job'[k].done = job[k].done /\ job'[k].tasks = job[k].tasks
        /\ job'[k].submit_count = job[k].submit_count
        /\ job[k].int_mask \subseteq job'[k].int_mask /\ job[k].mask \subseteq Cores
    BY <1>1, <1>2 DEF SameOrder, JobType
  <2>2. \A d \in Cores \ job'[k].int_mask : job'[k].submit_count[d] = 0 /\ executed'[k][d] = 0
    BY <1>1, <2>1 DEF Placed
  <2>3. \A d \in Cores : At(k, d)' => d \in job'[k].mask
    BY <1>1, <1>5, <2>1 DEF Placed, SameAt
  <2>4. Unfinished(k)' # {} \/ job'[k].done = TRUE =>
            \A d \in job'[k].mask : At(k, d)' \/ executed'[k][d] = job'[k].tasks
    BY <1>1, <1>5, <2>1 DEF Placed, SameAt
  <2>5. QED
    BY <2>2, <2>3, <2>4 DEF Placed
<1>9. ASSUME NEW d \in Cores \ {c} PROVE CoreExact(d)' /\ HandlerExact(d)'
  <2>1. \A i \in Jobs : SameHere(i, d)
    BY <1>2 DEF SameHere
  <2>2. SameCore(d) /\ irq'[d] = irq[d]
    BY <1>4 DEF SameCore
  <2>3. QED
    BY <2>1, <2>2, ExactFacts, CoreStaysExact, HandlerStaysExact DEF SameCore
<1>10. CoreExact(c)'
  <2>1. PICK n \in Nat, t \in Nat : n = job[k].submit_count[c] /\ t = job[k].tasks
    BY <1>1 DEF JobType
  <2>2. t # 0
    BY <1>1, <2>1 DEF Started
  <2>3. BatchTasks(k, c) = TasksOf(n + 1, t) - TasksOf(n, t)
    <3>1. BatchTasks(k, c) = IF t - n * MaxSubmit > MaxSubmit THEN MaxSubmit ELSE t - n * MaxSubmit
      BY <2>1 DEF BatchTasks
    <3>2. QED
      BY <2>1, <2>2, <3>1, BatchArithmetic
  <2>4. job'[k].submit_count[c] = n /\ job'[k].tasks = t
    BY <1>2, <2>1
  <2>5. /\ Ran(hw[c].job, c)' = TasksOf(n, t) /\ RanOne(hw[c].job, c)' = TasksOf(n + 1, t)
        /\ Ran(k, c) = TasksOf(n, t)
    BY <1>4, <2>1, <2>4 DEF Ran, RanOne, TasksOf
  <2>6. c \in job'[k].int_mask /\ executed'[k][c] = TasksOf(n, t)
    BY <1>2, <2>5
  <2>7. QED
    BY <1>4, <2>3, <2>5, <2>6 DEF CoreExact
<1>11. QED
  BY <1>6, <1>7, <1>8, <1>9, <1>10 DEF Exact

(* The first batch, on one core after the other.                           *)
LEMMA CommitExact == ASSUME ExactInv, NEW e \in Executors, NextCommit(e) PROVE Exact'
<1>1. /\ nx[e].at = "commit" /\ nx[e].job \in Jobs /\ nx[e].left # {} /\ nx[e].left \in SUBSET Cores
      /\ nx \in [Executors -> NextType] /\ CallExact(e)
  BY ExactFacts, CallFacts DEF NextCommit, CallFits
<1>2. PICK k \in Jobs, c \in Cores : k = nx[e].job /\ c = Min(nx[e].left) /\ c \in nx[e].left
  BY <1>1, MinCore
<1>3. /\ SubcoreCommit(k, c) /\ UNCHANGED <<cur, todo, pc, irq, executed>>
      /\ IF nx[e].left = {c} THEN ReturnNext(e) ELSE nx' = [nx EXCEPT ![e].left = @ \ {c}]
  BY <1>2 DEF NextCommit, coreVars
<1>4. cur[c] = k /\ job[k].run_count <= 0 /\ c \notin job[k].int_mask /\ ~Unknown(k)
  BY <1>1, <1>2 DEF CallExact, Unknown
<1>5. /\ \A f \in Executors \ {e} : nx'[f] = nx[f]
      /\ nx'[e].at \in {"none", "commit"}
      /\ nx'[e].at = "commit" => nx'[e].job = k /\ nx'[e].left = nx[e].left \ {c}
  <2>1. CASE nx[e].left = {c}
    BY <1>1, <1>3, <2>1 DEF ReturnNext, NoCall
  <2>2. CASE nx[e].left # {c}
    BY <1>1, <1>2, <1>3, <2>2 DEF NextType
  <2>3. QED
    BY <2>1, <2>2
<1>6. /\ pc[k] # "new" /\ job[k].pc_mode = TRUE /\ job[k].mapped = TRUE
      /\ Started(k) /\ Placed(k) /\ job[k] \in JobType
  BY <1>4, ExactFacts, KnownIsSubmitted
<1>7. job[k].submit_count[c] = 0 /\ executed[k][c] = 0 /\ job[k].tasks \in Nat \ {0}
  BY <1>4, <1>6 DEF Placed, Started, JobType
<1>8. executed[k][c] = Ran(k, c) /\ job[k].submit_count[c] * MaxSubmit < job[k].tasks
  BY <1>7, NoBatchYet, JobAssumption DEF Ran
<1>9. \A i \in Jobs : Reaching(i)' \subseteq Reaching(i)
  BY <1>3, <1>5 DEF Reaching, Counting, Waiting
<1>10. /\ job'[k].int_mask = job[k].int_mask \cup {c}
       /\ \A i \in Jobs \ {k} : job'[i] = job[i]
       /\ job'[k].run_count = job[k].run_count
       /\ job'[k].submit_count = job[k].submit_count /\ job'[k].tasks = job[k].tasks
  BY <1>3, <1>6, ExactFacts, CommitAccepted
<1>11. ASSUME NEW f \in Executors PROVE CallExact(f)'
  <2>1. CallExact(f) /\ CallFits(f)
    BY ExactFacts, CallFacts
  <2>2. CASE f # e /\ nx[f].at = "dec"
    BY <1>3, <1>5, <2>1, <2>2 DEF CallExact
  <2>3. CASE f # e /\ nx[f].at = "commit"
    <3>1. nx[f].job # k /\ nx[f].job \in Jobs /\ nx'[f] = nx[f]
      BY <1>1, <1>2, <1>5, <2>1, <2>3 DEF CallExact, CallFits
    <3>2. job'[nx[f].job] = job[nx[f].job]
      BY <1>10, <3>1
    <3>3. \A g \in Executors : nx'[g].at = "commit" /\ nx'[g].job = nx[f].job => g = f
      BY <1>5, <2>1, <2>3, <3>1 DEF CallExact
    <3>4. QED
      BY <1>3, <2>1, <2>3, <3>1, <3>2, <3>3 DEF CallExact
  <2>4. CASE f = e /\ nx'[e].at = "commit"
    <3>1. \A d \in nx'[e].left : cur'[d] = k /\ d \notin job'[k].int_mask
      BY <1>1, <1>2, <1>3, <1>5, <1>10, <2>4 DEF CallExact
    <3>2. \A g \in Executors : nx'[g].at = "commit" /\ nx'[g].job = k => g = e
      BY <1>1, <1>2, <1>5 DEF CallExact
    <3>3. job'[k].run_count <= 0
      BY <1>4, <1>10
    <3>4. QED
      BY <1>5, <2>4, <3>1, <3>2, <3>3 DEF CallExact
  <2>5. CASE nx'[f].at \notin {"dec", "commit"}
    BY <2>5 DEF CallExact
  <2>6. QED
    BY <1>5, <2>2, <2>3, <2>4, <2>5
<1>12. HandlerExact(c)'
  <2>1. hw[c].job = NoJob /\ line[c] # "ok"
    BY <1>4, ExactFacts DEF CoreExact
  <2>2. irq[c].at \in Working => irq[c].job = k
    BY <1>4, ExactFacts DEF OwnInv, Owned
  <2>3. HandlerExact(c)
    BY ExactFacts
  <2>4. irq[c].at \notin {"count", "recommit", "finish"}
    BY <1>4, <2>2, <2>3 DEF HandlerExact, Quiesced, Working
  <2>5. c \in job'[k].int_mask
    BY <1>10
  <2>6. irq[c].at = "compare" => irq[c].status # "ok"
    BY <2>1, <2>3 DEF HandlerExact
  <2>7. QED
    BY <1>3, <2>2, <2>4, <2>5, <2>6 DEF HandlerExact, Working
<1>13. QED
  BY <1>3, <1>4, <1>8, <1>9, <1>11, <1>12, BatchStarts

(* rknpu_job_next.                                                         *)
LEMMA CallExactStep == ASSUME ExactInv, NEW e \in Executors, NextCall(e) PROVE Exact'
<1>1. nx \in [Executors -> NextType]
  BY ExactFacts DEF IInv, TypeOK
<1>2. CASE NextCheck(e) \/ (NextPop(e) /\ (cur[nx[e].core] # NoJob \/ todo[nx[e].core] = <<>>))
  <2>1. UNCHANGED <<job, cur, todo, pc, irq, hw, line, executed>>
    BY <1>2 DEF NextCheck, NextPop, coreVars, hwVars
  <2>2. ReturnNext(e) \/ nx' = [nx EXCEPT ![e].at = "pop"]
    BY <1>2 DEF NextCheck, NextPop
  <2>3. FewerCalls
    BY <1>1, <2>2 DEF ReturnNext, NoCall, FewerCalls, NextType
  <2>4. QED
    BY <2>1, <2>3, QuietExact DEF SameRun, NoEarlier
<1>3. QED
  BY <1>2, PopExact, DecExact, CommitExact DEF NextCall

(* A handler that calls rknpu_job_next has nothing counted or started.     *)
LEMMA HandlerCallsAnew ==
    ASSUME IInv, NEW c \in Cores, UNCHANGED nx \/ CallNext(c, c)
    PROVE  FewerCalls
<1>1. c \in Executors /\ nx \in [Executors -> NextType]
  BY HandlerFacts DEF IInv, TypeOK
<1>2. CASE UNCHANGED nx
  BY <1>2 DEF FewerCalls
<1>3. CASE CallNext(c, c)
  BY <1>1, <1>3 DEF CallNext, FewerCalls
<1>4. QED
  BY <1>2, <1>3

(* The steps that find out which job has been interrupted, and why.        *)
LEMMA EnterExact == ASSUME OwnLine, ExactInv, NEW c \in Cores, IrqEnter(c) PROVE Exact'
<1>1. IInv /\ CoreExact(c) /\ job \in [Jobs -> JobType] /\ irq \in [Cores -> IrqType]
  BY ExactFacts, HandlerFacts
<1>2. UNCHANGED <<cur, todo, pc, nx, hw, line, executed>> /\ line[c] # "none"
  BY DEF IrqEnter, coreVars, hwVars, OwnLine
<1>3. UNCHANGED <<cur, todo, executed>>
  BY <1>2
<1>4. \A i \in Jobs : SameRun(i) /\ NoEarlier(i)
  <2>1. CASE UNCHANGED job
    BY <1>2, <2>1 DEF SameRun, NoEarlier
  <2>2. CASE ~UNCHANGED job
    <3>1. PICK k, x : job' = [job EXCEPT ![k].irq_entry = x]
      BY <2>2 DEF IrqEnter
    <3>2. QED
      BY <1>1, <1>2, <3>1 DEF SameRun, NoEarlier, JobType
  <2>3. QED
    BY <2>1, <2>2
<1>5. irq'[c].at \in {"stray", "status"} /\ \A d \in Cores \ {c} : irq'[d] = irq[d]
  BY <1>1 DEF IrqEnter, IrqType
<1>6. \A i \in Jobs : SameHere(i, c)
  BY <1>2, <1>4, SameEverywhere
<1>7. CoreExact(c)'
  BY <1>1, <1>2, <1>6, CoreStaysExact DEF SameCore
<1>8. HandlerExact(c)'
  BY <1>2, <1>5 DEF HandlerExact
<1>9. FewerCalls /\ irq'[c].at # "complete"
  BY <1>2, <1>5 DEF FewerCalls
<1>10. \A d \in Cores \ {c} : irq'[d] = irq[d] /\ hw'[d] = hw[d] /\ line'[d] = line[d]
  BY <1>2, <1>5
<1>11. QED
  BY <1>3, <1>4, <1>7, <1>8, <1>9, <1>10, HandlerExactMove

(* An interrupt for no job.                                                *)
LEMMA StrayExact == ASSUME ExactInv, NEW c \in Cores, IrqStray(c) PROVE Exact'
<1>1. /\ IInv /\ CoreExact(c) /\ irq \in [Cores -> IrqType]
      /\ line \in [Cores -> {"none", "ok", "bad"}]
  BY ExactFacts, HandlerFacts DEF HardwareTypeOK
<1>2. UNCHANGED <<job, cur, todo, pc, hw, executed>> /\ FewerCalls
  BY <1>1, HandlerCallsAnew DEF IrqStray, coreVars
<1>3. UNCHANGED <<cur, todo, executed>>
  BY <1>2
<1>4. \A i \in Jobs : SameRun(i) /\ NoEarlier(i)
  BY <1>2 DEF SameRun, NoEarlier
<1>5. irq'[c].at = "idle" /\ line'[c] = "none"
  BY <1>1 DEF IrqStray, IdleIrq
<1>6. \A d \in Cores \ {c} : irq'[d] = irq[d] /\ hw'[d] = hw[d] /\ line'[d] = line[d]
  BY <1>1, <1>2 DEF IrqStray
<1>7. CoreExact(c)'
  BY <1>1, <1>2, <1>5 DEF CoreExact, Ran, RanOne
<1>8. HandlerExact(c)'
  BY <1>5 DEF HandlerExact
<1>9. irq'[c].at # "complete"
  BY <1>5
<1>10. QED
  BY <1>2, <1>3, <1>4, <1>6, <1>7, <1>8, <1>9, HandlerExactMove

(* The status is read.                                                     *)
LEMMA StatusExact == ASSUME ExactInv, NEW c \in Cores, IrqStatus(c) PROVE Exact'
<1>1. IInv /\ CoreExact(c) /\ HandlerExact(c) /\ irq \in [Cores -> IrqType]
  BY ExactFacts, HandlerFacts
<1>2. UNCHANGED <<job, cur, todo, pc, nx, hw, line, executed>>
  BY DEF IrqStatus, coreVars, hwVars
<1>3. UNCHANGED <<cur, todo, executed>> /\ FewerCalls
  BY <1>2 DEF FewerCalls
<1>4. \A i \in Jobs : SameRun(i) /\ NoEarlier(i)
  BY <1>2 DEF SameRun, NoEarlier
<1>5. /\ irq[c].at = "status" /\ irq'[c].at = "compare" /\ irq'[c].job = irq[c].job
      /\ irq'[c].status = line[c]
  BY <1>1 DEF IrqStatus, IrqType
<1>6. \A d \in Cores \ {c} : irq'[d] = irq[d] /\ hw'[d] = hw[d] /\ line'[d] = line[d]
  BY <1>1, <1>2 DEF IrqStatus
<1>7. CoreExact(c)'
  BY <1>1, <1>2 DEF CoreExact, Ran, RanOne
<1>8. HandlerExact(c)'
  BY <1>1, <1>2, <1>5 DEF HandlerExact
<1>9. irq'[c].at # "complete"
  BY <1>5
<1>10. QED
  BY <1>3, <1>4, <1>6, <1>7, <1>8, <1>9, HandlerExactMove

(* A status that fits is that of the batch the core has just executed.     *)
LEMMA CompareExact == ASSUME ExactInv, NEW c \in Cores, IrqCompare(c) PROVE Exact'
<1>1. /\ IInv /\ CoreExact(c) /\ HandlerExact(c) /\ Owned /\ irq \in [Cores -> IrqType]
      /\ line \in [Cores -> {"none", "ok", "bad"}]
  BY ExactFacts, HandlerFacts DEF HardwareTypeOK, OwnInv
<1>2. UNCHANGED <<job, cur, todo, pc, nx, hw, executed>>
  BY DEF IrqCompare, coreVars
<1>3. UNCHANGED <<cur, todo, executed>> /\ FewerCalls
  BY <1>2 DEF FewerCalls
<1>4. \A i \in Jobs : SameRun(i) /\ NoEarlier(i)
  BY <1>2 DEF SameRun, NoEarlier
<1>5. \A d \in Cores \ {c} : irq'[d] = irq[d] /\ hw'[d] = hw[d] /\ line'[d] = line[d]
  BY <1>1, <1>2 DEF IrqCompare
<1>6. line'[c] = "none" /\ irq[c].at = "compare"
  BY <1>1 DEF IrqCompare
<1>7. CoreExact(c)'
  BY <1>1, <1>2, <1>6 DEF CoreExact, Ran, RanOne
<1>8. HandlerExact(c)' /\ irq'[c].at # "complete"
  <2>1. CASE irq[c].status = IF c \in job[irq[c].job].int_mask THEN "ok" ELSE "none"
    <3>1. irq[c].status = "ok" /\ line[c] = "ok" /\ c \in job[irq[c].job].int_mask
      BY <1>1, <1>6, <2>1 DEF HandlerExact
    <3>2. cur[c] = irq[c].job
      BY <1>1, <1>6 DEF Owned, Working
    <3>3. hw[c].job = NoJob /\ executed[irq[c].job][c] = RanOne(irq[c].job, c)
      BY <1>1, <3>1, <3>2 DEF CoreExact
    <3>4. irq'[c].at = "count" /\ irq'[c].job = irq[c].job
      BY <1>1, <2>1 DEF IrqCompare, IrqType
    <3>5. QED
      BY <1>2, <1>6, <3>1, <3>3, <3>4 DEF HandlerExact, Quiesced, RanOne
  <2>2. CASE ~(irq[c].status = IF c \in job[irq[c].job].int_mask THEN "ok" ELSE "none")
    <3>1. irq'[c].at = "idle"
      BY <1>1, <2>2 DEF IrqCompare, IdleIrq
    <3>2. QED
      BY <3>1 DEF HandlerExact
  <2>3. QED
    BY <2>1, <2>2
<1>9. QED
  BY <1>3, <1>4, <1>5, <1>7, <1>8, HandlerExactMove

(* The end of a job is signalled.                                          *)
LEMMA SignalExact == ASSUME ExactInv, NEW c \in Cores, IrqSignal(c) PROVE Exact'
<1>1. IInv /\ CoreExact(c) /\ job \in [Jobs -> JobType] /\ irq \in [Cores -> IrqType]
  BY ExactFacts, HandlerFacts
<1>2. UNCHANGED <<cur, todo, hw, line, executed>> /\ FewerCalls
  BY <1>1, HandlerCallsAnew DEF IrqSignal, coreVars, hwVars
<1>3. UNCHANGED <<cur, todo, executed>>
  BY <1>2
<1>4. \A i \in Jobs : SameRun(i)
  <2>1. PICK k, f : job' = [job EXCEPT ![k].ret = "0", ![k].fence = f]
    BY DEF IrqSignal
  <2>2. QED
    BY <1>1, <2>1 DEF SameRun, JobType
<1>5. \A i \in Jobs : NoEarlier(i)
  BY DEF IrqSignal, WakeUp, NoEarlier, Early
<1>6. irq'[c].at = "idle" /\ \A d \in Cores \ {c} : irq'[d] = irq[d]
  BY <1>1 DEF IrqSignal, IdleIrq
<1>7. \A d \in Cores \ {c} : irq'[d] = irq[d] /\ hw'[d] = hw[d] /\ line'[d] = line[d]
  BY <1>2, <1>6
<1>8. \A i \in Jobs : SameHere(i, c)
  BY <1>2, <1>4, SameEverywhere
<1>9. CoreExact(c)'
  BY <1>1, <1>2, <1>8, CoreStaysExact DEF SameCore
<1>10. HandlerExact(c)' /\ irq'[c].at # "complete"
  BY <1>6 DEF HandlerExact
<1>11. QED
  BY <1>2, <1>3, <1>4, <1>5, <1>7, <1>9, <1>10, HandlerExactMove

(* The batch is counted, and whether another one is left is decided by the *)
(* number of tasks.                                                        *)
LEMMA CountExact == ASSUME ExactInv, NEW c \in Cores, IrqCount(c) PROVE Exact'
<1>1. /\ IInv /\ CoreExact(c) /\ HandlerExact(c) /\ job \in [Jobs -> JobType]
      /\ irq \in [Cores -> IrqType] /\ irq[c].at = "count"
  BY ExactFacts, HandlerFacts DEF IrqCount
<1>2. PICK k \in Jobs : k = irq[c].job
  BY <1>1, HandlerFacts DEF HandlerFits
<1>3. PICK n \in Nat, t \in Nat : n = job[k].submit_count[c] /\ t = job[k].tasks
  BY <1>1 DEF JobType
<1>4. /\ job' = [job EXCEPT ![k].submit_count[c] = n + 1]
      /\ irq' = [irq EXCEPT ![c].at = IF n + 1 < Batches(k) THEN "recommit" ELSE "finish"]
      /\ UNCHANGED <<cur, todo, pc, nx, hw, line, executed>>
  BY <1>2, <1>3 DEF IrqCount, coreVars, hwVars
<1>5. UNCHANGED <<cur, todo, pc, nx, hw, line, executed>>
  BY <1>4
<1>6. /\ job'[k].submit_count[c] = n + 1 /\ job'[k].tasks = t
      /\ \A d \in Cores \ {c} : job'[k].submit_count[d] = job[k].submit_count[d]
      /\ \A i \in Jobs \ {k} : job'[i] = job[i]
      /\ \A i \in Jobs : SameStart(i) /\ job'[i].done = job[i].done
  BY <1>1, <1>3, <1>4 DEF JobType, SameStart
<1>7. /\ hw[c].job = NoJob /\ line[c] # "ok" /\ c \in job[k].int_mask
      /\ executed[k][c] = TasksOf(n + 1, t)
  BY <1>1, <1>2, <1>3 DEF HandlerExact, Quiesced, RanOne
<1>8. \A i \in Jobs : SameAt(i) /\ NoEarlier(i) /\ FewerCalls /\ Reaching(i)' = Reaching(i)
  BY <1>5 DEF SameAt, At, Waiting, NoEarlier, FewerCalls, Reaching, Counting
<1>9. irq'[c].at \in {"recommit", "finish"} /\ irq'[c].job = k /\ \A d \in Cores \ {c} : irq'[d] = irq[d]
  BY <1>1, <1>2, <1>4 DEF IrqType
<1>10. \A i \in Jobs : Unfinished(i)' \subseteq Unfinished(i)
  BY <1>8, <1>9 DEF Unfinished, SameAt
<1>11. ASSUME NEW i \in Jobs PROVE Started(i)'
  BY <1>6, <1>8, ExactFacts, StartStays
<1>12. ASSUME NEW i \in Jobs PROVE Placed(i)'
  <2>1. CASE i # k
    <3>1. SameRun(i)
      BY <1>6, <2>1 DEF SameRun
    <3>2. QED
      BY <1>5, <1>8, <1>10, <3>1, ExactFacts, PlacedStays
  <2>2. CASE i = k
    <3>1. Placed(k) /\ job[k].mask \subseteq Cores
      BY <1>1, ExactFacts DEF JobType
    <3>2. /\ job'[k].mask = job[k].mask /\ job'[k].int_mask = job[k].int_mask
          /\ job'[k].done = job[k].done /\ job'[k].tasks = job[k].tasks
      BY <1>6 DEF SameStart
    <3>3. \A d \in Cores \ job'[k].int_mask : job'[k].submit_count[d] = 0 /\ executed'[k][d] = 0
      BY <1>5, <1>6, <1>7, <3>1, <3>2 DEF Placed
    <3>4. \A d \in Cores : At(k, d)' => d \in job'[k].mask
      BY <1>8, <3>1, <3>2 DEF Placed, SameAt
    <3>5. Unfinished(k)' # {} \/ job'[k].done = TRUE =>
              \A d \in job'[k].mask : At(k, d)' \/ executed'[k][d] = job'[k].tasks
      BY <1>5, <1>8, <1>10, <3>1, <3>2 DEF Placed, SameAt
    <3>6. QED
      BY <2>2, <3>3, <3>4, <3>5 DEF Placed
  <2>3. QED
    BY <2>1, <2>2
<1>13. ASSUME NEW e \in Executors PROVE CallExact(e)'
  BY <1>5, <1>6, <1>8, ExactFacts, CallKeepsExact
<1>14. ASSUME NEW d \in Cores \ {c} PROVE CoreExact(d)' /\ HandlerExact(d)'
  <2>1. \A i \in Jobs : SameHere(i, d)
    BY <1>5, <1>6 DEF SameHere, SameStart
  <2>2. SameCore(d) /\ irq'[d] = irq[d]
    BY <1>5, <1>9 DEF SameCore
  <2>3. QED
    BY <2>1, <2>2, ExactFacts, CoreStaysExact, HandlerStaysExact DEF SameCore
<1>15. CoreExact(c)'
  BY <1>5, <1>7 DEF CoreExact
<1>16. HandlerExact(c)'
  <2>1. t # 0
    <3>1. ~Unknown(k)
      BY <1>2 DEF Unknown
    <3>2. pc[k] # "new"
      BY <3>1, ExactFacts, KnownIsSubmitted
    <3>3. QED
      BY <1>3, <3>2, ExactFacts DEF Started
  <2>2. n + 1 < Batches(k) <=> (n + 1) * MaxSubmit < t
    <3>1. n + 1 \in Nat /\ Batches(k) = (t + MaxSubmit - 1) \div MaxSubmit
      BY <1>3 DEF Batches
    <3>2. QED
      BY <2>1, <3>1, BatchArithmetic
  <2>3. Quiesced(c)' /\ executed'[k][c] = TasksOf(n + 1, t)
    BY <1>5, <1>6, <1>7, <1>9 DEF Quiesced, SameStart
  <2>4. Ran(irq[c].job, c)' = TasksOf(n + 1, t)
    BY <1>6, <1>9 DEF Ran, TasksOf
  <2>5. CASE n + 1 < Batches(k)
    <3>1. irq'[c].at = "recommit"
      BY <1>1, <1>4, <2>5 DEF IrqType
    <3>2. QED
      BY <1>6, <1>9, <2>2, <2>3, <2>4, <2>5, <3>1 DEF HandlerExact
  <2>6. CASE ~(n + 1 < Batches(k))
    <3>1. irq'[c].at = "finish"
      BY <1>1, <1>4, <2>6 DEF IrqType
    <3>2. TasksOf(n + 1, t) = t
      BY <2>2, <2>6 DEF TasksOf
    <3>3. QED
      BY <1>6, <1>9, <2>3, <3>1, <3>2 DEF HandlerExact
  <2>7. QED
    BY <2>5, <2>6
<1>17. QED
  BY <1>11, <1>12, <1>13, <1>14, <1>15, <1>16 DEF Exact

(* The next batch of a job that needs several.                             *)
LEMMA RecommitExact == ASSUME ExactInv, NEW c \in Cores, IrqRecommit(c) PROVE Exact'
<1>1. /\ IInv /\ HandlerExact(c) /\ Owned /\ job \in [Jobs -> JobType]
      /\ irq \in [Cores -> IrqType] /\ irq[c].at = "recommit"
  BY ExactFacts, HandlerFacts DEF IrqRecommit, OwnInv
<1>2. PICK k \in Jobs : k = irq[c].job
  BY <1>1, HandlerFacts DEF HandlerFits
<1>3. SubcoreCommit(k, c) /\ UNCHANGED <<cur, todo, pc, nx, executed>>
  BY <1>2 DEF IrqRecommit, coreVars
<1>4. UNCHANGED <<cur, todo, pc, executed>> /\ UNCHANGED nx
  BY <1>3
<1>5. /\ executed[k][c] = Ran(k, c) /\ c \in job[k].int_mask
      /\ job[k].submit_count[c] * MaxSubmit < job[k].tasks
  BY <1>1, <1>2 DEF HandlerExact, Quiesced
<1>6. cur[c] = k /\ ~Unknown(k)
  BY <1>1, <1>2 DEF Owned, Working, Unknown
<1>7. job[k].run_count <= 0
  BY <1>5, ExactFacts DEF Started
<1>8. irq'[c].at = "idle" /\ \A d \in Cores \ {c} : irq'[d] = irq[d]
  BY <1>1 DEF IrqRecommit, IdleIrq
<1>9. HandlerExact(c)' /\ irq'[c].at # "complete"
  BY <1>8 DEF HandlerExact
<1>10. FewerCalls /\ \A i \in Jobs : Reaching(i)' \subseteq Reaching(i)
  BY <1>4 DEF FewerCalls, Reaching, Counting, Waiting
<1>11. \A i \in Jobs : SameStart(i)
  <2>1. /\ job'[k].int_mask = job[k].int_mask \cup {c}
        /\ \A i \in Jobs \ {k} : job'[i] = job[i]
        /\ job'[k].mask = job[k].mask /\ job'[k].tasks = job[k].tasks
        /\ job'[k].run_count = job[k].run_count
    BY <1>3, <1>6, ExactFacts, KnownIsSubmitted, CommitAccepted DEF SameOrder
  <2>2. QED
    BY <1>5, <2>1 DEF SameStart
<1>12. ASSUME NEW e \in Executors PROVE CallExact(e)'
  BY <1>4, <1>10, <1>11, ExactFacts, CallKeepsExact
<1>13. QED
  BY <1>3, <1>4, <1>5, <1>6, <1>7, <1>8, <1>9, <1>10, <1>12, BatchStarts

(* The core of a handler that has counted the last batch has been reached  *)
(* and started: no call is still about to do that.                         *)
LEMMA CoreIsThrough ==
    ASSUME ExactInv, NEW c \in Cores, NEW k \in Jobs, cur[c] = k, c \in job[k].int_mask,
           NEW e \in Executors
    PROVE  /\ nx[e].at = "dec" => nx[e].core # c
           /\ nx[e].at = "commit" => c \notin nx[e].left
<1>1. CallExact(e) /\ Started(k) /\ job[k] \in JobType
  BY ExactFacts
<1>2. ASSUME nx[e].at = "dec", nx[e].core = c PROVE FALSE
  <2>1. nx[e].job = k
    BY <1>1, <1>2 DEF CallExact
  <2>2. Reaching(k) \in SUBSET Cores /\ {c} \in SUBSET Reaching(k)
    BY <1>2, <2>1 DEF Reaching, Counting
  <2>3. IsFiniteSet(Reaching(k)) /\ Cardinality(Reaching(k)) \in Nat
    BY <2>2, MaskSize
  <2>4. Cardinality({c}) = 1
    BY FS_Singleton
  <2>5. Cardinality({c}) <= Cardinality(Reaching(k))
    BY <2>2, <2>3, FS_Subset
  <2>6. job[k].run_count >= Cardinality(Reaching(k)) /\ job[k].run_count <= 0
    BY <1>1 DEF Started
  <2>7. job[k].run_count \in Int
    BY <1>1 DEF JobType
  <2>8. QED
    BY <2>3, <2>4, <2>5, <2>6, <2>7
<1>3. ASSUME nx[e].at = "commit", c \in nx[e].left PROVE FALSE
  BY <1>1, <1>3 DEF CallExact
<1>4. QED
  BY <1>2, <1>3

(* The core lets go of a job of which it has executed every task.          *)
LEMMA FinishExact == ASSUME ExactInv, NEW c \in Cores, IrqFinish(c) PROVE Exact'
<1>1. /\ IInv /\ HandlerExact(c) /\ Owned /\ job \in [Jobs -> JobType]
      /\ irq \in [Cores -> IrqType] /\ irq[c].at = "finish"
  BY ExactFacts, HandlerFacts DEF IrqFinish, OwnInv
<1>2. PICK k \in Jobs : k = irq[c].job
  BY <1>1, HandlerFacts DEF HandlerFits
<1>3. UNCHANGED <<job, todo, pc, nx, hw, line, executed>>
  BY DEF IrqFinish, hwVars
<1>4. /\ hw[c].job = NoJob /\ line[c] # "ok" /\ c \in job[k].int_mask
      /\ executed[k][c] = job[k].tasks /\ cur[c] = k
  BY <1>1, <1>2 DEF HandlerExact, Quiesced, Owned, Working
<1>5. cur'[c] = NoJob /\ \A d \in Cores \ {c} : cur'[d] = cur[d]
  BY <1>1 DEF IrqFinish, IInv, TypeOK, CoresTypeOK
<1>6. irq'[c].at = "complete" /\ irq'[c].job = k /\ \A d \in Cores \ {c} : irq'[d] = irq[d]
  BY <1>1, <1>2 DEF IrqFinish, IrqType
<1>7. \A i \in Jobs : SameRun(i) /\ NoEarlier(i) /\ Reaching(i)' = Reaching(i)
  BY <1>3 DEF SameRun, NoEarlier, Reaching, Counting, Waiting
<1>8. NoJob \notin Jobs
  BY JobAssumption
<1>9. ASSUME NEW i \in Jobs \ {k} PROVE SameAt(i) /\ Unfinished(i)' \subseteq Unfinished(i)
  <2>1. SameAt(i)
    BY <1>3, <1>4, <1>5, <1>8 DEF SameAt, At, Waiting
  <2>2. QED
    BY <1>6, <2>1 DEF SameAt, Unfinished
<1>10. ASSUME NEW i \in Jobs PROVE Started(i)' /\ Placed(i)'
  <2>1. Started(i)'
    BY <1>7, ExactFacts, StartedStays
  <2>2. CASE i # k
    BY <1>3, <1>7, <1>9, <2>1, <2>2, ExactFacts, PlacedStays
  <2>3. CASE i = k
    <3>1. Placed(k) /\ job[k].mask \subseteq Cores /\ c \in Unfinished(k)
      BY <1>1, <1>4, ExactFacts DEF JobType, Unfinished, At
    <3>2. \A d \in Cores : At(k, d)' => At(k, d)
      BY <1>3, <1>4, <1>5, <1>8 DEF At, Waiting
    <3>3. \A d \in Cores \ {c} : At(k, d)' <=> At(k, d)
      BY <1>3, <1>5 DEF At, Waiting
    <3>4. \A d \in job[k].mask : At(k, d) \/ executed[k][d] = job[k].tasks
      BY <3>1 DEF Placed
    <3>5. \A d \in job[k].mask : At(k, d)' \/ executed[k][d] = job[k].tasks
      BY <1>4, <3>1, <3>3, <3>4
    <3>6. Placed(k)'
      BY <1>3, <3>1, <3>2, <3>5 DEF Placed
    <3>7. QED
      BY <2>1, <2>3, <3>6
  <2>4. QED
    BY <2>2, <2>3
<1>11. ASSUME NEW e \in Executors PROVE CallExact(e)'
  <2>1. /\ CallExact(e) /\ CallFits(e) /\ nx[e] \in NextType
        /\ (nx[e].at = "dec" => nx[e].core # c) /\ (nx[e].at = "commit" => c \notin nx[e].left)
    BY <1>4, ExactFacts, CallFacts, CoreIsThrough
  <2>2. nx[e].core \in Cores /\ nx[e].left \subseteq Cores
    BY <2>1 DEF NextType
  <2>3. QED
    BY <1>3, <1>5, <2>1, <2>2 DEF CallExact
<1>12. ASSUME NEW d \in Cores \ {c} PROVE CoreExact(d)' /\ HandlerExact(d)'
  <2>1. \A i \in Jobs : SameHere(i, d)
    BY <1>3 DEF SameHere
  <2>2. SameCore(d) /\ irq'[d] = irq[d]
    BY <1>3, <1>5, <1>6 DEF SameCore
  <2>3. QED
    BY <2>1, <2>2, ExactFacts, CoreStaysExact, HandlerStaysExact DEF SameCore
<1>13. CoreExact(c)' /\ HandlerExact(c)'
  BY <1>3, <1>4, <1>6 DEF CoreExact, HandlerExact
<1>14. QED
  BY <1>10, <1>11, <1>12, <1>13 DEF Exact

(* The core is counted, and the last one marks the job DONE.               *)
LEMMA CompleteExact == ASSUME ExactInv, NEW c \in Cores, IrqComplete(c) PROVE Exact'
<1>1. /\ IInv /\ CoreExact(c) /\ job \in [Jobs -> JobType]
      /\ irq \in [Cores -> IrqType] /\ irq[c].at = "complete"
  BY ExactFacts, HandlerFacts DEF IrqComplete
<1>2. PICK k \in Jobs : k = irq[c].job
  BY <1>1, HandlerFacts DEF HandlerFits
<1>3. UNCHANGED <<cur, todo, pc, hw, line, executed>> /\ FewerCalls
  BY <1>1, HandlerCallsAnew DEF IrqComplete, coreVars, hwVars
<1>4. UNCHANGED <<cur, todo, pc, hw, line, executed>>
  BY <1>3
<1>5. /\ \A i \in Jobs \ {k} : job'[i] = job[i]
      /\ \A i \in Jobs : SameStart(i) /\ job'[i].submit_count = job[i].submit_count
  <2>1. PICK x, b : job' = [job EXCEPT ![k].interrupt_count = x, ![k].done = b]
    BY <1>2 DEF IrqComplete
  <2>2. QED
    BY <1>1, <2>1 DEF SameStart, JobType
<1>6. irq'[c].at \in {"signal", "idle"} /\ \A d \in Cores \ {c} : irq'[d] = irq[d]
  BY <1>1 DEF IrqComplete, IdleIrq, IrqType
<1>7. \A i \in Jobs : SameAt(i) /\ NoEarlier(i) /\ Reaching(i)' \subseteq Reaching(i)
  BY <1>3, FewerReaching DEF SameAt, At, Waiting, NoEarlier
<1>8. \A i \in Jobs : Unfinished(i)' \subseteq Unfinished(i)
  BY <1>6, <1>7 DEF Unfinished, SameAt
<1>9. ASSUME NEW i \in Jobs PROVE Started(i)' /\ Placed(i)'
  <2>1. Started(i)'
    BY <1>5, <1>7, ExactFacts, StartStays
  <2>2. CASE i # k
    <3>1. SameRun(i)
      BY <1>5, <2>2 DEF SameRun
    <3>2. QED
      BY <1>4, <1>7, <1>8, <2>1, <3>1, ExactFacts, PlacedStays
  <2>3. CASE i = k
    <3>1. Placed(k) /\ job[k].mask \subseteq Cores /\ c \in Unfinished(k)
      BY <1>1, <1>2, ExactFacts DEF JobType, Unfinished
    <3>2. /\ job'[k].mask = job[k].mask /\ job'[k].int_mask = job[k].int_mask
          /\ job'[k].tasks = job[k].tasks /\ job'[k].submit_count = job[k].submit_count
      BY <1>5 DEF SameStart
    <3>3. \A d \in job[k].mask : At(k, d) \/ executed[k][d] = job[k].tasks
      BY <3>1 DEF Placed
    <3>4. \A d \in job'[k].mask : At(k, d)' \/ executed'[k][d] = job'[k].tasks
      BY <1>4, <1>7, <3>1, <3>2, <3>3 DEF SameAt
    <3>5. \A d \in Cores : At(k, d)' => d \in job'[k].mask
      BY <1>7, <3>1, <3>2 DEF Placed, SameAt
    <3>6. \A d \in Cores \ job'[k].int_mask : job'[k].submit_count[d] = 0 /\ executed'[k][d] = 0
      BY <1>4, <3>1, <3>2 DEF Placed
    <3>7. QED
      BY <2>1, <2>3, <3>4, <3>5, <3>6 DEF Placed
  <2>4. QED
    BY <2>2, <2>3
<1>10. ASSUME NEW e \in Executors PROVE CallExact(e)'
  BY <1>3, <1>5, ExactFacts, CallKeepsExact
<1>11. ASSUME NEW d \in Cores, NEW i \in Jobs PROVE SameHere(i, d) /\ SameCore(d)
  BY <1>4, <1>5 DEF SameHere, SameCore, SameStart
<1>12. ASSUME NEW d \in Cores PROVE CoreExact(d)'
  <2>1. SameCore(d)
    BY <1>4 DEF SameCore
  <2>2. QED
    BY <1>11, <2>1, ExactFacts, CoreStaysExact
<1>13. ASSUME NEW d \in Cores PROVE HandlerExact(d)'
  <2>1. CASE d = c
    BY <1>6, <2>1 DEF HandlerExact
  <2>2. CASE d # c
    <3>1. hw'[d] = hw[d] /\ line'[d] = line[d] /\ irq'[d] = irq[d]
      BY <1>4, <1>6, <2>2
    <3>2. QED
      BY <1>11, <3>1, ExactFacts, HandlerStaysExact
  <2>3. QED
    BY <2>1, <2>2
<1>14. QED
  BY <1>9, <1>10, <1>12, <1>13 DEF Exact

(* The hardware has executed a batch of the job its core runs.             *)
LEMMA HwFinishExact == ASSUME ExactInv, NEW c \in Cores, HwFinish(c) PROVE Exact'
<1>1. /\ IInv /\ CoreExact(c) /\ HandlerExact(c) /\ Owned /\ job \in [Jobs -> JobType]
      /\ HardwareTypeOK
  BY ExactFacts, HandlerFacts DEF OwnInv
<1>2. PICK k \in Jobs : k = hw[c].job
  BY <1>1 DEF HardwareTypeOK, HwFinish
<1>3. UNCHANGED <<job, cur, todo, pc, irq, nx>>
  BY DEF HwFinish, coreVars
<1>4. k # NoJob
  BY JobAssumption
<1>5. /\ cur[c] = k /\ c \in job[k].int_mask /\ line[c] # "ok"
      /\ executed[k][c] = Ran(k, c) /\ hw[c].tasks = RanOne(k, c) - Ran(k, c)
  BY <1>1, <1>2, <1>4 DEF CoreExact
<1>6. executed[k][c] \in Int /\ executed'[k][c] = executed[k][c] + hw[c].tasks
  BY <1>1, <1>2 DEF HwFinish, HardwareTypeOK
<1>7. /\ \A d \in Cores \ {c} : executed'[k][d] = executed[k][d]
      /\ \A i \in Jobs \ {k} : executed'[i] = executed[i]
  BY <1>1, <1>2 DEF HwFinish, HardwareTypeOK
<1>8. /\ hw'[c].job = NoJob /\ line'[c] \in {"ok", "bad"}
      /\ \A d \in Cores \ {c} : hw'[d] = hw[d] /\ line'[d] = line[d]
  BY <1>1 DEF HwFinish, HardwareTypeOK, IdleHw
<1>9. executed'[k][c] = RanOne(k, c)
  <2>1. job[k].submit_count[c] \in Nat /\ job[k].tasks \in Nat
    BY <1>1 DEF JobType
  <2>2. job[k].submit_count[c] + 1 \in Nat
    BY <2>1
  <2>3. PICK t \in Nat : t = job[k].tasks
    BY <2>1
  <2>4. t # 0
    <3>1. ~Unknown(k)
      BY <1>5 DEF Unknown
    <3>2. pc[k] # "new"
      BY <3>1, ExactFacts, KnownIsSubmitted
    <3>3. QED
      BY <2>3, <3>2, ExactFacts DEF Started
  <2>5. Ran(k, c) \in Nat /\ RanOne(k, c) \in Nat
    BY <2>1, <2>2, <2>3, <2>4, BatchArithmetic DEF Ran, RanOne
  <2>6. QED
    BY <1>5, <1>6, <2>5
<1>10. ASSUME NEW i \in Jobs PROVE SameRun(i) /\ NoEarlier(i) /\ Reaching(i)' \subseteq Reaching(i)
  BY <1>3 DEF SameRun, NoEarlier, Reaching, Counting, Waiting
<1>11. ASSUME NEW i \in Jobs PROVE SameAt(i) /\ Unfinished(i)' \subseteq Unfinished(i)
  BY <1>3 DEF SameAt, At, Waiting, Unfinished
<1>12. ASSUME NEW i \in Jobs PROVE Started(i)' /\ Placed(i)'
  <2>1. Started(i)'
    BY <1>10, ExactFacts, StartedStays
  <2>2. CASE i # k
    BY <1>7, <1>10, <1>11, <2>1, <2>2, ExactFacts, PlacedStays
  <2>3. CASE i = k
    <3>1. Placed(k) /\ job[k].mask \subseteq Cores /\ At(k, c)
      BY <1>1, <1>5, ExactFacts DEF JobType, At
    <3>2. \A d \in Cores \ job'[k].int_mask : job'[k].submit_count[d] = 0 /\ executed'[k][d] = 0
      BY <1>3, <1>5, <1>7, <3>1 DEF Placed
    <3>3. \A d \in Cores : At(k, d)' => d \in job'[k].mask
      BY <1>3, <1>11, <3>1 DEF Placed, SameAt
    <3>4. (\A d \in job[k].mask : At(k, d) \/ executed[k][d] = job[k].tasks)
              => \A d \in job'[k].mask : At(k, d)' \/ executed'[k][d] = job'[k].tasks
      BY <1>3, <1>7, <1>11, <3>1 DEF SameAt
    <3>5. Unfinished(k)' # {} \/ job'[k].done = TRUE =>
              \A d \in job'[k].mask : At(k, d)' \/ executed'[k][d] = job'[k].tasks
      BY <1>3, <1>11, <3>1, <3>4 DEF Placed
    <3>6. Placed(k)'
      BY <3>2, <3>3, <3>5 DEF Placed
    <3>7. QED
      BY <2>1, <2>3, <3>6
  <2>4. QED
    BY <2>2, <2>3
<1>13. ASSUME NEW e \in Executors PROVE CallExact(e)'
  <2>1. FewerCalls /\ UNCHANGED cur
    BY <1>3 DEF FewerCalls
  <2>2. QED
    BY <1>10, <2>1, ExactFacts, CallStaysExact
<1>14. ASSUME NEW d \in Cores \ {c} PROVE CoreExact(d)' /\ HandlerExact(d)'
  <2>1. \A i \in Jobs : SameHere(i, d)
    BY <1>3, <1>7 DEF SameHere
  <2>2. SameCore(d) /\ irq'[d] = irq[d]
    BY <1>3, <1>8 DEF SameCore
  <2>3. QED
    BY <2>1, <2>2, ExactFacts, CoreStaysExact, HandlerStaysExact DEF SameCore
<1>15. CoreExact(c)'
  BY <1>3, <1>4, <1>5, <1>8, <1>9 DEF CoreExact, RanOne
<1>16. HandlerExact(c)'
  <2>1. irq[c].at \notin {"count", "recommit", "finish"}
    BY <1>1, <1>2, <1>4 DEF HandlerExact, Quiesced
  <2>2. irq[c].at = "compare" =>
            irq[c].status # "ok" /\ (irq[c].status # "none" \/ c \in job[irq[c].job].int_mask)
    BY <1>1, <1>5 DEF HandlerExact
  <2>3. QED
    BY <1>3, <1>8, <2>1, <2>2 DEF HandlerExact
<1>17. QED
  BY <1>12, <1>13, <1>14, <1>15, <1>16 DEF Exact

(* An interrupt with another status says nothing of any batch.             *)
LEMMA HwBadExact == ASSUME ExactInv, NEW c \in Cores, HwBadIrq(c) PROVE Exact'
<1>1. CoreExact(c) /\ HandlerExact(c) /\ line \in [Cores -> {"none", "ok", "bad"}]
  BY ExactFacts, HandlerFacts DEF HardwareTypeOK
<1>2. UNCHANGED <<job, cur, todo, pc, irq, nx, hw, executed>> /\ line[c] = "none"
  BY DEF HwBadIrq, coreVars
<1>3. UNCHANGED <<cur, todo, executed>> /\ FewerCalls
  BY <1>2 DEF FewerCalls
<1>4. \A i \in Jobs : SameRun(i) /\ NoEarlier(i)
  BY <1>2 DEF SameRun, NoEarlier
<1>5. line'[c] = "bad" /\ \A d \in Cores \ {c} : line'[d] = line[d]
  BY <1>1 DEF HwBadIrq
<1>6. CoreExact(c)'
  BY <1>1, <1>2, <1>5 DEF CoreExact, Ran, RanOne
<1>7. HandlerExact(c)'
  BY <1>1, <1>2, <1>5 DEF HandlerExact, Quiesced, Ran, RanOne
<1>8. /\ irq'[c].at = "complete" => irq'[c] = irq[c]
      /\ \A d \in Cores \ {c} : irq'[d] = irq[d] /\ hw'[d] = hw[d] /\ line'[d] = line[d]
  BY <1>2, <1>5
<1>9. QED
  BY <1>3, <1>4, <1>6, <1>7, <1>8, HandlerExactMove

(* Every step keeps the account of what has been executed.                 *)
LEMMA ExactStep == ASSUME NotLate, OwnLine, ExactInv, IInv', [Next]_vars PROVE Exact'
<1>1. ASSUME NEW j \in Jobs, (\E a \in Requests : Submit(j, a)) \/ Thread(j) \/ CleanupWork(j)
      PROVE  Exact'
  BY <1>1, SubmitExact, ThreadExactStep, CleanupExact
<1>2. ASSUME NEW e \in Executors, NextCall(e) PROVE Exact'
  BY <1>2, CallExactStep
<1>3. ASSUME NEW c \in Cores, Handler(c) PROVE Exact'
  BY <1>3, EnterExact, StrayExact, StatusExact, CompareExact, CountExact, RecommitExact,
     FinishExact, CompleteExact, SignalExact DEF Handler
<1>4. ASSUME NEW c \in Cores, HwFinish(c) \/ HwBadIrq(c) PROVE Exact'
  BY <1>4, HwFinishExact, HwBadExact
<1>5. CASE UNCHANGED vars
  <2>1. UNCHANGED <<job, pc, nx, cur, todo, executed, irq, hw, line>>
    BY <1>5 DEF vars, coreVars, hwVars
  <2>2. (\A i \in Jobs : SameRun(i) /\ NoEarlier(i)) /\ FewerCalls
    BY <2>1 DEF SameRun, NoEarlier, FewerCalls
  <2>3. QED
    BY <2>1, <2>2, QuietExact
<1>6. QED
  BY <1>1, <1>2, <1>3, <1>4, <1>5 DEF Next

(* When the module is loaded nothing has been executed, nothing is to be.  *)
LEMMA InitExact == ASSUME Init PROVE Exact
<1>1. /\ NewJob.done = FALSE /\ NewJob.run_count = 0 /\ NewJob.int_mask = {} /\ NewJob.tasks = 0
      /\ \A c \in Cores : NewJob.submit_count[c] = 0
      /\ IdleIrq.at = "idle" /\ NoCall.at = "none" /\ IdleHw.job = NoJob
  BY DEF NewJob, IdleIrq, NoCall, IdleHw
<1>2. \A j \in Jobs : job[j] = NewJob /\ pc[j] = "new" /\ \A c \in Cores : executed[j][c] = 0
  BY DEF Init
<1>3. \A c \in Cores : /\ cur[c] = NoJob /\ todo[c] = <<>> /\ irq[c] = IdleIrq
                       /\ hw[c] = IdleHw /\ line[c] = "none"
  BY DEF Init
<1>4. \A e \in Executors : nx[e] = NoCall
  BY DEF Init
<1>5. ASSUME NEW j \in Jobs PROVE Started(j) /\ Placed(j)
  <2>1. \A c \in Cores : ~At(j, c) /\ ~Waiting(j, c)
    BY <1>3, JobAssumption DEF At, Waiting
  <2>2. Unfinished(j) = {} /\ Reaching(j) = {}
    BY <1>1, <1>3, <1>4, <2>1 DEF Unfinished, Reaching, Counting
  <2>3. Cardinality(Reaching(j)) = 0
    BY <2>2, FS_EmptySet
  <2>4. job[j].run_count >= Cardinality(Reaching(j))
    BY <1>1, <1>2, <2>3
  <2>5. Started(j)
    BY <1>1, <1>2, <2>4 DEF Started, Early
  <2>6. Placed(j)
    BY <1>1, <1>2, <2>1, <2>2 DEF Placed
  <2>7. QED
    BY <2>5, <2>6
<1>6. \A e \in Executors : CallExact(e)
  BY <1>1, <1>4 DEF CallExact
<1>7. \A c \in Cores : CoreExact(c) /\ HandlerExact(c)
  BY <1>1, <1>3 DEF CoreExact, HandlerExact
<1>8. QED
  BY <1>5, <1>6, <1>7 DEF Exact

(* The account of what each core has executed is right in every behaviour  *)
(* without time limits that expire and interrupts of other devices.        *)
THEOREM JobExactInvariance == ASSUME NotLate, OwnLine PROVE Spec => []ExactInv
<1>1. Init => ExactInv
  BY InitOrderly, InitExact DEF ExactInv
<1>2. ExactInv /\ [Next]_vars => ExactInv'
  <2>1. NoOvertime
    BY DEF NotLate, NoOvertime
  <2>2. ExactInv /\ [Next]_vars => OwnInv' /\ IInv'
    BY <2>1, StepFits, NobodyCleans, OwnedStep DEF ExactInv, OrderInv, OwnInv
  <2>3. ExactInv /\ [Next]_vars => Orderly'
    BY OrderlyStep DEF ExactInv
  <2>4. ExactInv /\ [Next]_vars => Exact'
    BY <2>2, ExactStep
  <2>5. QED
    BY <2>2, <2>3, <2>4 DEF ExactInv, OrderInv
<1>3. QED
  BY <1>1, <1>2, PTL DEF Spec

(* rknpu_job_done marks a job DONE only when the hardware has executed     *)
(* every task of it, once, on every core of its mask, whatever the number  *)
(* of tasks, of cores and of jobs and the length of a batch.               *)
THEOREM JobDoneMeansExecuted == ASSUME NotLate, OwnLine PROVE Spec => []DoneMeansExecuted
<1>1. ExactInv => DoneMeansExecuted
  <2> SUFFICES ASSUME ExactInv, NEW j \in Jobs, job[j].done = TRUE, NEW c \in job[j].mask
               PROVE  executed[j][c] = job[j].tasks
    <3>1. ExactInv => \A j \in Jobs : job[j].done \in BOOLEAN
      BY ExactFacts DEF JobType
    <3>2. QED
      BY <3>1 DEF DoneMeansExecuted
  <2>1. c \in Cores /\ Placed(j)
    BY ExactFacts DEF JobType
  <2>2. ~At(j, c)
    BY <2>1, ExactFacts, OrderFacts DEF Gone
  <2>3. QED
    BY <2>1, <2>2 DEF Placed
<1>2. QED
  BY <1>1, JobExactInvariance, PTL

----------------------------------------------------------------------------
(* A quiet driver is clean.                                                *)

(* What is known of a job, its thread and its cores.                       *)
LEMMA SettledFacts ==
    ASSUME ExactInv, Settled, NEW j \in Jobs
    PROVE  /\ JobSettled(j) /\ JobOrderly(j) /\ Started(j) /\ Placed(j)
           /\ ~Cleaning(j) /\ ThreadFits(j) /\ soft_reseting = FALSE
           /\ pc \in [Jobs -> Labels] /\ local \in [Jobs -> LocalType]
           /\ job \in [Jobs -> JobType] /\ job[j] \in JobType
           /\ local[j] \in LocalType /\ pc[j] \in Labels
BY ExactFacts, OrderFacts, ThreadFacts DEF Settled, OwnInv, NoCleaning

(* What a step that is not of the thread of i may do to job i.             *)
Advances(i) ==
    /\ Steady(i)
    /\ job'[i].mask = job[i].mask /\ job'[i].nonblock = job[i].nonblock
    /\ job'[i].life = job[i].life
    /\ job'[i].ret = "0" \/ job'[i].ret = job[i].ret
    /\ job'[i].fence = "none" <=> job[i].fence = "none"
    /\ job'[i].done = job[i].done \/ (job[i].committed = TRUE /\ pc[i] # "new" /\ job'[i].done = TRUE)
    /\ job'[i].committed = TRUE \/
          (job'[i].committed = job[i].committed /\ job'[i].int_mask = job[i].int_mask)
    /\ job[i].committed = TRUE => job'[i].committed = TRUE
    /\ Failed(i) => job'[i].int_mask = job[i].int_mask

(* Such a step leaves the job settled.                                     *)
LEMMA AdvanceSettles ==
    ASSUME NEW i \in Jobs, JobSettled(i), Advances(i)
    PROVE  JobSettled(i)'
<1>1. Steady(i)
  BY DEF Advances
<1>2. /\ pc'[i] \notin {"unlink", "abort", "clear", "cleared"} /\ job'[i].ret = "0"
      /\ pc'[i] \in {"waited", "decide", "free"} => job'[i].done = TRUE
      /\ job'[i].done = TRUE \/ job'[i].int_mask # {} => job'[i].committed = TRUE
  BY <1>1 DEF JobSettled, Advances, Steady
<1>3. Failed(i)' =>
          pc'[i] = "ret" /\ job'[i].life = "freed" /\ job'[i].fence = "none" /\ job'[i].int_mask = {}
  BY <1>1 DEF JobSettled, Advances, Steady, Failed
<1>4. /\ pc'[i] = "new" => job'[i].life = "none" /\ job'[i].done = FALSE
      /\ pc'[i] \in {"new", "fence_in", "fence_out"} => job'[i].fence = "none"
      /\ pc'[i] = "ret" /\ job'[i].nonblock = FALSE => job'[i].life = "freed"
  BY <1>1 DEF JobSettled, Advances, Steady
<1>5. /\ CommitCores(job'[i].mask) = job'[i].mask
      /\ pc'[i] = "enqueue" \/ Queued(i)' => job'[i].mask # {}
  BY <1>1 DEF JobSettled, Advances, Steady, Queued, Failed, Early
<1>6. QED
  BY <1>2, <1>3, <1>4, <1>5 DEF JobSettled

(* One of the masks rknpu_job_commit knows is that of each single core.    *)
LEMMA OneCoreCommits == ASSUME NEW c \in Cores PROVE CommitCores({c}) = {c}
<1>1. c \in 0 .. 2
  BY JobAssumption DEF Cores
<1>2. QED
  BY <1>1 DEF CommitCores

(* The thread of j makes a step of its own.                                *)
LEMMA PrivateSettles ==
    ASSUME Untroubled, ExactInv, Settled, NEW j \in Jobs, Private(j)
    PROVE  JobSettled(j)'
<1>1. /\ JobSettled(j) /\ JobOrderly(j) /\ soft_reseting = FALSE
      /\ pc \in [Jobs -> Labels] /\ local \in [Jobs -> LocalType]
      /\ job \in [Jobs -> JobType] /\ job[j] \in JobType /\ local[j] \in LocalType
  BY SettledFacts
<1>2. /\ job'[j].mask = job[j].mask /\ job'[j].done = job[j].done
      /\ job'[j].int_mask = job[j].int_mask /\ job'[j].nonblock = job[j].nonblock
  BY ExactFacts, PrivateFrame DEF SameProgress
<1>3. CommitCores(job'[j].mask) = job'[j].mask
  BY <1>1, <1>2 DEF JobSettled
<1>4. "timeout" \notin Faults /\ "overtime" \notin Faults /\ "fence_in" \notin Faults
  BY DEF Untroubled
<1>5. CASE FenceIn(j)
  <2>1. /\ pc[j] = "fence_in" /\ pc'[j] \in {"fence_out", "clean", "sched"}
        /\ UNCHANGED <<local, job>>
    BY <1>1, <1>4, <1>5 DEF FenceIn, Goto, AfterFences
  <2>2. QED
    BY <1>1, <1>3, <2>1 DEF JobSettled, Queued, Failed, Early
<1>6. CASE FenceOut(j)
  <2>1. /\ pc[j] = "fence_out" /\ job[j].life = "live" /\ job[j].fence = "none"
        /\ job[j].done = FALSE /\ job[j].int_mask = {}
    BY <1>1, <1>6, SettledFacts DEF FenceOut, JobOrderly, JobSettled, Started, Early
  <2>2. /\ job'[j].ret = job[j].ret /\ job'[j].committed = job[j].committed
    BY <1>1, <1>6 DEF FenceOut, JobType
  <2>3. CASE SubmitFails(j, "ENOMEM") /\ job' = [job EXCEPT ![j].life = "freed"]
    <3>1. pc'[j] = "ret" /\ local'[j].ret = "ENOMEM" /\ job'[j].life = "freed" /\ job'[j].fence = "none"
      BY <1>1, <2>1, <2>3 DEF SubmitFails, Goto, NewLocal, JobType
    <3>2. QED
      BY <1>1, <1>2, <1>3, <2>1, <2>2, <3>1 DEF JobSettled, Queued, Failed
  <2>4. CASE ~(SubmitFails(j, "ENOMEM") /\ job' = [job EXCEPT ![j].life = "freed"])
    <3>1. pc'[j] \in {"clean", "sched"} /\ local' = local
      BY <1>1, <1>6, <2>4 DEF FenceOut, Goto, AfterFences
    <3>2. QED
      BY <1>1, <1>2, <1>3, <2>1, <2>2, <3>1 DEF JobSettled, Queued, Failed, Early
  <2>5. QED
    BY <2>3, <2>4
<1>7. CASE Scheduled(j)
  <2>1. /\ pc[j] = "scheduled" /\ job' = job /\ job[j].pc_mode = TRUE /\ job[j].ret = "0"
        /\ job[j].nonblock \in BOOLEAN /\ ~Failed(j)
    BY <1>1, <1>7 DEF Scheduled, JobOrderly, JobSettled, JobType
  <2>2. job[j].mask # {}
    BY <1>1, <2>1 DEF JobSettled, Queued, Early
  <2>3. CASE job[j].nonblock = TRUE
    <3>1. pc'[j] = "ret" /\ local'[j].ret = "0"
      BY <1>1, <1>7, <2>1, <2>3 DEF Scheduled, Goto, NewLocal
    <3>2. QED
      BY <1>1, <2>1, <2>2, <2>3, <3>1 DEF JobSettled, Failed
  <2>4. CASE job[j].nonblock = FALSE
    <3>1. pc'[j] = "wait" /\ local' = local
      BY <1>1, <1>7, <2>1, <2>4 DEF Scheduled, Goto
    <3>2. QED
      BY <1>1, <2>1, <2>2, <3>1 DEF JobSettled, Failed
  <2>5. QED
    BY <2>1, <2>3, <2>4
<1>8. CASE WaitCheck(j)
  <2>1. /\ pc[j] = "wait" /\ job' = job /\ local'[j].ret = local[j].ret
        /\ pc'[j] \in {"waited", "asleep"} /\ (pc'[j] = "waited" => job[j].done = TRUE)
    BY <1>1, <1>8 DEF WaitCheck, WaitRound, WaitOver, Goto, LocalType, JobType
  <2>2. QED
    BY <1>1, <2>1 DEF JobSettled, Failed, Queued, Early
<1>9. CASE WaitTimeout(j)
  BY <1>4, <1>9 DEF WaitTimeout
<1>10. CASE Waited(j)
  <2>1. pc[j] = "waited" /\ job[j].done = TRUE /\ job[j].committed = TRUE /\ local[j].expired = FALSE
    BY <1>1, <1>10 DEF Waited, JobSettled, JobOrderly
  <2>2. pc'[j] = "decide" /\ local' = local /\ job' = [job EXCEPT ![j].ret = "0"]
    BY <1>1, <1>10, <2>1 DEF Waited, WaitResult, Goto
  <2>3. /\ job'[j].ret = "0" /\ job'[j].committed = TRUE /\ job'[j].life = job[j].life
        /\ job'[j].fence = job[j].fence
    BY <1>1, <2>1, <2>2 DEF JobType
  <2>4. QED
    BY <1>1, <1>2, <2>1, <2>2, <2>3 DEF JobSettled, Failed, Queued, Early
<1>11. CASE Decide(j)
  <2>1. /\ pc[j] = "decide" /\ pc'[j] = "free" /\ job' = job /\ local'[j].ret = "0"
    BY <1>1, <1>11 DEF Decide, Goto, NewLocal, JobSettled
  <2>2. QED
    BY <1>1, <2>1 DEF JobSettled, Failed, Queued, Early
<1>12. CASE FreeJob(j)
  <2>1. pc[j] = "free" /\ pc'[j] = "ret" /\ local' = local /\ job' = [job EXCEPT ![j].life = "freed"]
    BY <1>1, <1>12 DEF FreeJob, Goto
  <2>2. /\ job'[j].ret = job[j].ret /\ job'[j].committed = job[j].committed
        /\ job'[j].life = "freed" /\ job'[j].fence = job[j].fence
    BY <1>1, <2>1 DEF JobType
  <2>3. QED
    BY <1>1, <1>2, <2>1, <2>2 DEF JobSettled, Failed, Queued, Early
<1>13. CASE Clean(j)
  <2>1. /\ pc[j] = "clean" /\ pc'[j] \in {"clean", "sched"} /\ job' = job
        /\ local'[j].ret = local[j].ret
    BY <1>1, <1>4, <1>13 DEF Clean, Goto, LocalType
  <2>2. QED
    BY <1>1, <2>1 DEF JobSettled, Failed, Queued, Early
<1>14. CASE Abort(j) \/ AbortCleared(j)
  BY <1>1, <1>14 DEF Abort, AbortCleared, JobSettled
<1>15. QED
  BY <1>5, <1>6, <1>7, <1>8, <1>9, <1>10, <1>11, <1>12, <1>13, <1>14 DEF Private

(* Nobody is late or overtime, and the line is the driver's own.           *)
LEMMA UntroubledFaults ==
    ASSUME Untroubled
    PROVE  /\ NotLate /\ OwnLine /\ NoOvertime
           /\ "bad_irq" \notin Faults /\ "domain" \notin Faults
BY DEF Untroubled, NotLate, OwnLine, NoOvertime

(* What threads do of a job that has come to the queues and of one that    *)
(* has not.                                                                *)
LEMMA OwnThread ==
    ASSUME Untroubled, ExactInv, Settled, NEW j \in Jobs, Thread(j)
    PROVE  Private(j) \/ Schedule(j) \/ Enqueue(j) \/ Kick(j)
<1>1. JobSettled(j) /\ ~Cleaning(j) /\ pc[j] \notin ResetLabels
  BY SettledFacts DEF JobOrderly
<1>2. ~Unlink(j) /\ ~AbortClear(j)
  BY <1>1 DEF JobSettled, Unlink, AbortClear
<1>3. ~CleanCur(j) /\ ~CleanWork(j)
  BY <1>1 DEF Cleaning, CleanCur, CleanWork
<1>4. ~Reset(j)
  BY <1>1 DEF ResetLabels, Reset, ResetBegin, ResetWake, ResetControl, ResetEnd
<1>5. QED
  BY <1>2, <1>3, <1>4 DEF Thread, Private

(* Schedule gives the job a mask that commits.                             *)
LEMMA ScheduleEffect ==
    ASSUME Untroubled, ExactInv, Settled, NEW j \in Jobs, Schedule(j)
    PROVE  /\ pc[j] = "sched" /\ pc'[j] = "enqueue" /\ domref' = domref + 1
           /\ job'[j].mask \in SUBSET Cores /\ job'[j].mask # {}
           /\ CommitCores(job'[j].mask) = job'[j].mask
           /\ job'[j].ret = "0" /\ job'[j].life = job[j].life /\ job'[j].done = job[j].done
           /\ job'[j].committed = job[j].committed /\ job'[j].int_mask = job[j].int_mask
           /\ job'[j].nonblock = job[j].nonblock /\ job'[j].fence = job[j].fence
           /\ job'[j].tasks = job[j].tasks
           /\ \A i \in Jobs \ {j} : Untouched(i)
           /\ UNCHANGED <<cur, todo, task_num, soft_reseting, work, local, irq, nx, hw, line>>
<1>1. /\ JobSettled(j) /\ pc \in [Jobs -> Labels] /\ job \in [Jobs -> JobType] /\ job[j] \in JobType
  BY SettledFacts
<1>2. ScheduleCore \in Cores
  BY ExactFacts, ScheduleCoreIsCore DEF IInv, TypeOK, CoresTypeOK
<1>3. PICK d \in Cores : d = ScheduleCore
  BY <1>2
<1> DEFINE s == IF job[j].mask # {} THEN job[j]
                ELSE [job[j] EXCEPT !.mask = {d}, !.run_count = 1, !.interrupt_count = 1]
<1>4. /\ job' = [job EXCEPT ![j] = s] /\ domref' = domref + 1 /\ Goto(j, "enqueue") /\ pc[j] = "sched"
      /\ UNCHANGED <<cur, todo, task_num, soft_reseting, work, local, irq, nx, hw, line>>
  BY <1>3, UntroubledFaults DEF Schedule, coreVars, hwVars
<1>5. /\ s.mask # {} /\ s.mask \in SUBSET Cores /\ CommitCores(s.mask) = s.mask
      /\ s.ret = job[j].ret /\ s.life = job[j].life /\ s.done = job[j].done
      /\ s.committed = job[j].committed /\ s.int_mask = job[j].int_mask
      /\ s.nonblock = job[j].nonblock /\ s.fence = job[j].fence /\ s.tasks = job[j].tasks
  <2>1. CASE job[j].mask # {}
    BY <1>1, <2>1 DEF JobSettled, JobType
  <2>2. CASE job[j].mask = {}
    <3>1. s = [job[j] EXCEPT !.mask = {d}, !.run_count = 1, !.interrupt_count = 1]
      BY <2>2
    <3>2. /\ s.mask = {d}
          /\ s.ret = job[j].ret /\ s.life = job[j].life /\ s.done = job[j].done
          /\ s.committed = job[j].committed /\ s.int_mask = job[j].int_mask
          /\ s.nonblock = job[j].nonblock /\ s.fence = job[j].fence /\ s.tasks = job[j].tasks
      BY <1>1, <3>1 DEF JobType
    <3>3. QED
      BY <3>2, OneCoreCommits
  <2>3. QED
    BY <2>1, <2>2
<1>6. job'[j] = s /\ \A i \in Jobs \ {j} : job'[i] = job[i]
  BY <1>1, <1>4
<1> HIDE DEF s
<1>7. pc'[j] = "enqueue" /\ \A i \in Jobs \ {j} : pc'[i] = pc[i]
  BY <1>1, <1>4 DEF Goto
<1>8. job[j].ret = "0"
  BY <1>1 DEF JobSettled
<1>9. \A i \in Jobs \ {j} : Untouched(i)
  BY <1>4, <1>6, <1>7 DEF Untouched
<1>10. QED
  BY <1>4, <1>5, <1>6, <1>7, <1>8, <1>9

(* Enqueue and Kick touch the thread of j only.                            *)
LEMMA KickEffect ==
    ASSUME ExactInv, Settled, NEW j \in Jobs, Enqueue(j) \/ Kick(j)
    PROVE  /\ pc[j] \in {"enqueue", "kick"} /\ pc'[j] \in {"kick", "scheduled"}
           /\ local'[j].ret = local[j].ret /\ \A i \in Jobs \ {j} : Untouched(i)
           /\ UNCHANGED <<job, cur, soft_reseting, domref, work, irq, hw, line>>
<1>1. pc \in [Jobs -> Labels] /\ local \in [Jobs -> LocalType] /\ local[j] \in LocalType
  BY SettledFacts
<1>2. /\ pc[j] \in {"enqueue", "kick"}
      /\ UNCHANGED <<job, cur, soft_reseting, domref, work, irq, hw, line>>
  BY DEF Enqueue, Kick, devVars, coreVars, hwVars
<1>3. /\ pc'[j] \in {"kick", "scheduled"} /\ \A i \in Jobs \ {j} : pc'[i] = pc[i]
  BY <1>1 DEF Enqueue, Kick, Goto
<1>4. PICK r : local' = [local EXCEPT ![j].rest = r] \/ local' = local
  BY DEF Enqueue, Kick
<1>5. local'[j].ret = local[j].ret /\ \A i \in Jobs \ {j} : local'[i] = local[i]
  BY <1>1, <1>4 DEF LocalType
<1>6. QED
  BY <1>2, <1>3, <1>5 DEF Untouched

(* A new job.                                                              *)
LEMMA SubmitEffect ==
    ASSUME Untroubled, ExactInv, Settled, NEW j \in Jobs, NEW a \in Requests, Submit(j, a)
    PROVE  /\ pc[j] = "new" /\ pc'[j] \in {"fence_in", "fence_out", "clean", "sched"}
           /\ job'[j].ret = "0" /\ job'[j].done = FALSE /\ job'[j].int_mask = {}
           /\ job'[j].fence = "none" /\ job'[j].life = "live"
           /\ CommitCores(job'[j].mask) = job'[j].mask
           /\ local'[j].ret = local[j].ret /\ \A i \in Jobs \ {j} : Untouched(i)
           /\ UNCHANGED <<cur, todo, task_num, soft_reseting, domref, work, irq, nx, hw, line>>
<1>1. /\ pc \in [Jobs -> Labels] /\ local \in [Jobs -> LocalType] /\ local[j] \in LocalType
      /\ job \in [Jobs -> JobType]
  BY SettledFacts
<1>2. CommitCores(a.mask) = a.mask
  BY DEF Untroubled
<1>3. /\ pc[j] = "new"
      /\ UNCHANGED <<cur, todo, task_num, soft_reseting, domref, work, irq, nx, hw, line>>
  BY DEF Submit, coreVars, devVars, hwVars
<1>4. /\ pc'[j] \in {"fence_in", "fence_out", "clean", "sched"}
      /\ \A i \in Jobs \ {j} : pc'[i] = pc[i]
  BY <1>1 DEF Submit, Goto, AfterFences
<1>5. local'[j].ret = local[j].ret /\ \A i \in Jobs \ {j} : local'[i] = local[i]
  BY <1>1 DEF Submit, LocalType
<1>6. /\ job'[j].mask = a.mask /\ job'[j].ret = "0" /\ job'[j].done = FALSE
      /\ job'[j].int_mask = {} /\ job'[j].fence = "none" /\ job'[j].life = "live"
      /\ \A i \in Jobs \ {j} : job'[i] = job[i]
  BY <1>1 DEF Submit, NewJob
<1>7. QED
  BY <1>2, <1>3, <1>4, <1>5, <1>6 DEF Untouched

(* Threads and the worker leave every job settled.                         *)
LEMMA ThreadSettles ==
    ASSUME Untroubled, ExactInv, Settled, NEW j \in Jobs,
           Thread(j) \/ (\E a \in Requests : Submit(j, a)) \/ CleanupWork(j), NEW i \in Jobs
    PROVE  JobSettled(i)'
<1>1. JobSettled(i) /\ JobSettled(j)
  BY SettledFacts
<1>2. ASSUME Untouched(i) PROVE JobSettled(i)'
  <2>1. Advances(i)
    BY <1>2 DEF Untouched, Advances, Steady
  <2>2. QED
    BY <1>1, <2>1, AdvanceSettles
<1>3. CASE Private(j)
  BY <1>2, <1>3, ExactFacts, PrivateFrame, PrivateSettles
<1>4. CASE Schedule(j)
  <2>1. JobSettled(j)'
    <3>1. /\ pc[j] = "sched" /\ pc'[j] = "enqueue" /\ local' = local
          /\ job'[j].mask # {} /\ CommitCores(job'[j].mask) = job'[j].mask
          /\ job'[j].ret = "0" /\ job'[j].life = job[j].life /\ job'[j].done = job[j].done
          /\ job'[j].committed = job[j].committed /\ job'[j].int_mask = job[j].int_mask
      BY <1>4, ScheduleEffect
    <3>2. QED
      BY <1>1, <3>1 DEF JobSettled, Queued, Failed
  <2>2. QED
    BY <1>2, <1>4, <2>1, ScheduleEffect
<1>5. CASE Enqueue(j) \/ Kick(j)
  <2>1. JobSettled(j)'
    <3>1. /\ pc[j] \in {"enqueue", "kick"} /\ pc'[j] \in {"kick", "scheduled"}
          /\ local'[j].ret = local[j].ret /\ job' = job
      BY <1>5, KickEffect
    <3>2. job[j].mask # {}
      BY <1>1, <3>1 DEF JobSettled, Queued, Failed, Early
    <3>3. QED
      BY <1>1, <3>1, <3>2 DEF JobSettled, Queued, Failed
  <2>2. QED
    BY <1>2, <1>5, <2>1, KickEffect
<1>6. CASE \E a \in Requests : Submit(j, a)
  <2>1. JobSettled(j)'
    <3>1. /\ pc[j] = "new" /\ pc'[j] \in {"fence_in", "fence_out", "clean", "sched"}
          /\ job'[j].ret = "0" /\ job'[j].done = FALSE /\ job'[j].int_mask = {}
          /\ job'[j].fence = "none" /\ CommitCores(job'[j].mask) = job'[j].mask
          /\ local'[j].ret = local[j].ret
      BY <1>6, SubmitEffect
    <3>2. QED
      BY <1>1, <3>1 DEF JobSettled, Queued, Failed, Early
  <2>2. QED
    BY <1>2, <1>6, <2>1, SubmitEffect
<1>7. CASE CleanupWork(j)
  <2>1. j \in work /\ pc' = pc /\ local' = local /\ job' = [job EXCEPT ![j].life = "freed"]
    BY <1>7 DEF CleanupWork
  <2>2. pc[j] # "new"
    <3>1. ~Unknown(j)
      BY <2>1 DEF Unknown
    <3>2. QED
      BY <3>1, ExactFacts, KnownIsSubmitted
  <2>3. \A k \in Jobs \ {j} : Untouched(k)
    BY <2>1, SettledFacts DEF Untouched
  <2>4. job'[j].life = "freed" /\ SameRun(j) /\ job'[j].committed = job[j].committed
        /\ job'[j].fence = job[j].fence /\ job'[j].ret = job[j].ret
        /\ job'[j].nonblock = job[j].nonblock
    BY <2>1, SettledFacts DEF JobType, SameRun
  <2>5. JobSettled(j)'
    BY <1>1, <2>1, <2>2, <2>4 DEF JobSettled, Queued, Failed, SameRun
  <2>6. QED
    BY <1>2, <2>3, <2>5
<1>8. QED
  BY <1>3, <1>4, <1>5, <1>6, <1>7, OwnThread

(* What a count or a batch leaves of job i,                                *)
SameFate(i) ==
    /\ job'[i].mask = job[i].mask /\ job'[i].tasks = job[i].tasks
    /\ job'[i].nonblock = job[i].nonblock /\ job'[i].done = job[i].done
    /\ job'[i].interrupt_count = job[i].interrupt_count
    /\ job'[i].ret = job[i].ret /\ job'[i].fence = job[i].fence /\ job'[i].life = job[i].life

(* and what the other steps that are not of a thread do.                   *)
SameJob(i) ==
    /\ SameFate(i) /\ job'[i].run_count = job[i].run_count
    /\ job'[i].committed = job[i].committed /\ job'[i].int_mask = job[i].int_mask

(* The calls that count or start a job stay, and no other one does.        *)
SameCalls ==
    \A e \in Executors :
        nx[e].at \in {"dec", "commit"} \/ nx'[e].at \in {"dec", "commit"} => nx'[e] = nx[e]

(* Executor e takes k from the queue of c.                                 *)
Pops(e, c, k) ==
    /\ nx[e].at = "pop" /\ nx[e].core = c /\ cur[c] = NoJob /\ cur'[c] = k
    /\ \A d \in Cores \ {c} : cur'[d] = cur[d] /\ todo'[d] = todo[d]
    /\ nx'[e].at = "dec" /\ nx'[e].core = c /\ nx'[e].job = k
    /\ \A f \in Executors \ {e} : nx'[f] = nx[f]
    /\ job[k].int_mask = {}
    /\ \A i \in Jobs : /\ SameAt(i) /\ SameJob(i)
                       /\ Reaching(i)' = Reaching(i) /\ Unfinished(i)' = Unfinished(i)
    /\ UNCHANGED <<task_num, soft_reseting, domref, work, pc, local, irq, hw, line>>

(* The head of the queue moves to its core; every job is where it was.     *)
LEMMA PopEffect ==
    ASSUME ExactInv, Settled, NEW e \in Executors, NextPop(e), cur[nx[e].core] = NoJob,
           todo[nx[e].core] # <<>>
    PROVE  \E c \in Cores, k \in Jobs : Pops(e, c, k)
<1>1. PICK c \in Cores : c = nx[e].core
  BY ExactFacts, CallFacts
<1>2. /\ todo \in [Cores -> Seq(Jobs)] /\ cur \in [Cores -> Jobs \cup {NoJob}]
      /\ nx \in [Executors -> NextType] /\ job \in [Jobs -> JobType]
  BY ExactFacts DEF IInv, TypeOK, CoresTypeOK
<1>3. PICK k \in Jobs : k = Head(todo[c])
  BY <1>1, <1>2, TailThins
<1>4. /\ todo' = [todo EXCEPT ![c] = Tail(@)] /\ cur' = [cur EXCEPT ![c] = k]
      /\ nx' = [nx EXCEPT ![e].at = "dec", ![e].job = k]
      /\ job' = [job EXCEPT ![k].stamped = TRUE] /\ nx[e].at = "pop"
      /\ UNCHANGED <<task_num, soft_reseting, domref, work, pc, local, irq, hw, line>>
  BY <1>1, <1>3 DEF NextPop, hwVars, devVars
<1>5. /\ cur'[c] = k /\ todo'[c] = Tail(todo[c]) /\ cur[c] = NoJob
      /\ \A d \in Cores \ {c} : cur'[d] = cur[d] /\ todo'[d] = todo[d]
  BY <1>1, <1>2, <1>4
<1>6. /\ nx'[e].at = "dec" /\ nx'[e].job = k /\ nx'[e].core = c
      /\ \A f \in Executors \ {e} : nx'[f] = nx[f]
  BY <1>1, <1>2, <1>4 DEF NextType
<1>7. /\ 1 \in DOMAIN todo[c] /\ todo[c][1] = k
      /\ \A n \in DOMAIN todo'[c] : n \in Nat /\ n + 1 \in DOMAIN todo[c] /\ todo'[c][n] = todo[c][n + 1]
  BY <1>1, <1>2, <1>3, <1>5, TailThins
<1>8. ASSUME NEW n \in DOMAIN todo[c], n # 1
      PROVE  n - 1 \in DOMAIN todo'[c] /\ todo'[c][n - 1] = todo[c][n]
  <2>1. /\ Len(todo[c]) \in Nat /\ DOMAIN todo[c] = 1 .. Len(todo[c])
        /\ DOMAIN Tail(todo[c]) = 1 .. Len(todo[c]) - 1
    BY <1>1, <1>2
  <2>2. n \in Int /\ n - 1 \in DOMAIN todo'[c] /\ (n - 1) + 1 = n
    BY <1>5, <1>8, <2>1
  <2>3. QED
    BY <1>7, <2>2
<1>9. Waiting(k, c) /\ \A i \in Jobs : Waiting(i, c)' => Waiting(i, c)
  BY <1>7 DEF Waiting
<1>10. \A i \in Jobs : Waiting(i, c) => i = k \/ Waiting(i, c)'
  <2> SUFFICES ASSUME NEW i \in Jobs, NEW n \in DOMAIN todo[c], todo[c][n] = i, i # k
               PROVE  Waiting(i, c)'
    BY DEF Waiting
  <2>1. n # 1
    BY <1>7
  <2>2. QED
    BY <1>8, <2>1 DEF Waiting
<1>11. \A i \in Jobs : SameAt(i)
  <2> SUFFICES ASSUME NEW i \in Jobs, NEW d \in Cores PROVE At(i, d)' <=> At(i, d)
    BY DEF SameAt
  <2>1. CASE d # c
    BY <1>5, <2>1 DEF At, Waiting
  <2>2. CASE d = c
    BY <1>5, <1>9, <1>10, <2>2, JobAssumption DEF At
  <2>3. QED
    BY <2>1, <2>2
<1>12. \A i \in Jobs : Unfinished(i)' = Unfinished(i)
  BY <1>4, <1>11 DEF Unfinished, SameAt
<1>13. ASSUME NEW f \in Executors, nx[f].at = "dec" PROVE nx[f].core # c /\ f # e
  BY <1>4, <1>5, <1>13, ExactFacts, CallFacts, JobAssumption DEF CallExact, CallFits
<1>14. ASSUME NEW i \in Jobs, NEW d \in Cores
       PROVE  (Waiting(i, d)' \/ \E f \in Executors : Counting(f, i, d)') <=>
              (Waiting(i, d) \/ \E f \in Executors : Counting(f, i, d))
  <2>1. CASE d # c
    <3>1. Waiting(i, d)' <=> Waiting(i, d)
      BY <1>5, <2>1 DEF Waiting
    <3>2. \A f \in Executors : Counting(f, i, d)' <=> Counting(f, i, d)
      BY <1>4, <1>6, <2>1 DEF Counting
    <3>3. QED
      BY <3>1, <3>2
  <2>2. CASE d = c
    <3>1. \A f \in Executors : ~Counting(f, i, c)
      BY <1>13 DEF Counting
    <3>2. \A f \in Executors : Counting(f, i, c)' => i = k
      <4> SUFFICES ASSUME NEW f \in Executors, Counting(f, i, c)' PROVE i = k
        OBVIOUS
      <4>1. CASE f = e
        BY <1>6, <4>1 DEF Counting
      <4>2. CASE f # e
        BY <1>6, <3>1, <4>2 DEF Counting
      <4>3. QED
        BY <4>1, <4>2
    <3>3. i = k => Counting(e, i, c)'
      BY <1>6 DEF Counting
    <3>4. QED
      BY <1>9, <1>10, <2>2, <3>1, <3>2, <3>3
  <2>3. QED
    BY <2>1, <2>2
<1>15. \A i \in Jobs : Reaching(i)' = Reaching(i)
  BY <1>14 DEF Reaching
<1>16. \A i \in Jobs : SameJob(i)
  BY <1>2, <1>4 DEF SameJob, SameFate, JobType
<1>17. job[k].int_mask = {}
  <2>1. Reaching(k) \in SUBSET Cores /\ {c} \in SUBSET Reaching(k)
    BY <1>9 DEF Reaching
  <2>2. Cardinality({c}) = 1 /\ Cardinality({c}) <= Cardinality(Reaching(k))
        /\ Cardinality(Reaching(k)) \in Nat
    BY <2>1, MaskSize, FS_Singleton, FewerCores
  <2>3. job[k].run_count >= Cardinality(Reaching(k)) /\ job[k].run_count \in Int
    BY <1>2, ExactFacts DEF Started, JobType
  <2>4. ~(job[k].run_count <= 0)
    BY <2>2, <2>3
  <2>5. QED
    BY <2>4, ExactFacts DEF Started
<1>18. QED
  BY <1>1, <1>4, <1>5, <1>6, <1>11, <1>12, <1>15, <1>16, <1>17 DEF Pops

(* A call that does not take a job.                                        *)
Passes(e) ==
    NextCheck(e) \/ (NextPop(e) /\ (cur[nx[e].core] # NoJob \/ todo[nx[e].core] = <<>>))

(* It finds the core busy, the queue empty, or a job to take, and changes  *)
(* nothing but the place of the call.                                      *)
LEMMA PassEffect ==
    ASSUME ExactInv, Settled, NEW e \in Executors, Passes(e)
    PROVE  /\ UNCHANGED <<job, cur, todo, task_num, soft_reseting, domref, work, pc, local,
                          irq, hw, line>>
           /\ SameCalls /\ \A f \in Executors \ {e} : nx'[f] = nx[f]
           /\ nx[e].at \in {"check", "pop"}
           /\ \/ /\ nx'[e].at = "pop" /\ nx'[e].core = nx[e].core
              \/ /\ nx'[e].at = "none" /\ nx[e].core \in Cores
                 /\ cur[nx[e].core] # NoJob \/ todo[nx[e].core] = <<>>
<1>1. nx \in [Executors -> NextType] /\ soft_reseting = FALSE /\ nx[e].core \in Cores
  BY ExactFacts, OrderFacts, CallFacts DEF OrderInv, Orderly
<1>2. CASE NextCheck(e)
  <2>1. /\ nx[e].at = "check" /\ nx' = [nx EXCEPT ![e].at = "pop"]
        /\ UNCHANGED <<job, cur, todo, task_num, soft_reseting, domref, work, pc, local, irq, hw, line>>
    BY <1>1, <1>2 DEF NextCheck, coreVars, devVars, hwVars
  <2>2. /\ nx'[e].at = "pop" /\ nx'[e].core = nx[e].core
        /\ \A f \in Executors \ {e} : nx'[f] = nx[f]
    BY <1>1, <2>1 DEF NextType
  <2>3. QED
    BY <2>1, <2>2 DEF SameCalls
<1>3. CASE NextPop(e) /\ (cur[nx[e].core] # NoJob \/ todo[nx[e].core] = <<>>)
  <2>1. /\ nx[e].at = "pop" /\ nx' = [nx EXCEPT ![e] = NoCall]
        /\ UNCHANGED <<job, cur, todo, task_num, soft_reseting, domref, work, pc, local, irq, hw, line>>
    BY <1>1, <1>3 DEF NextPop, ReturnNext, coreVars, devVars, hwVars
  <2>2. /\ nx'[e].at = "none" /\ \A f \in Executors \ {e} : nx'[f] = nx[f]
    BY <1>1, <2>1 DEF NoCall
  <2>3. QED
    BY <1>1, <1>3, <2>1, <2>2 DEF SameCalls
<1>4. QED
  BY <1>2, <1>3 DEF Passes

(* Executor e counts c.                                                    *)
Counts(e, c, k) ==
    /\ nx[e].at = "dec" /\ nx[e].core = c /\ nx[e].job = k
    /\ job'[k].run_count = job[k].run_count - 1
    /\ \A i \in Jobs : /\ SameFate(i) /\ job'[i].committed = job[i].committed
                       /\ job'[i].int_mask = job[i].int_mask /\ SameAt(i)
                       /\ Unfinished(i)' = Unfinished(i)
    /\ \A i \in Jobs \ {k} : job'[i] = job[i] /\ Reaching(i)' = Reaching(i)
    /\ c \in Reaching(k) /\ Reaching(k)' = Reaching(k) \ {c}
    /\ \A f \in Executors \ {e} : nx'[f] = nx[f]
    /\ nx'[e].at \in {"none", "commit"}
    /\ job[k].run_count = 1 /\ job[k].mask # {} =>
          nx'[e].at = "commit" /\ nx'[e].job = k /\ nx'[e].left = job[k].mask
    /\ UNCHANGED <<cur, todo, task_num, soft_reseting, domref, work, pc, local,
                   irq, hw, line>>

(* A core has been counted; the last one starts the job on all of them.    *)
LEMMA DecEffect ==
    ASSUME ExactInv, Settled, NEW e \in Executors, NextDec(e)
    PROVE  \E c \in Cores, k \in Jobs : Counts(e, c, k)
<1>1. /\ nx[e].at = "dec" /\ nx[e].core \in Cores /\ nx[e].job \in Jobs
      /\ nx \in [Executors -> NextType] /\ job \in [Jobs -> JobType]
  BY ExactFacts, CallFacts DEF NextDec, CallFits
<1>2. PICK k \in Jobs, c \in Cores : k = nx[e].job /\ c = nx[e].core
  BY <1>1
<1> DEFINE start == IF LastToReach(k) THEN CommitCores(job[k].mask) ELSE {}
<1>3. /\ job' = [job EXCEPT ![k].run_count = @ - 1]
      /\ IF start = {} THEN ReturnNext(e)
                       ELSE nx' = [nx EXCEPT ![e].at = "commit", ![e].left = start]
      /\ UNCHANGED <<cur, todo, task_num, soft_reseting, domref, work, pc, local, irq, hw, line>>
  BY <1>2 DEF NextDec, coreVars, hwVars, devVars
<1>4. job[k].run_count = 1 => start = job[k].mask
  BY SettledFacts DEF LastToReach, JobSettled
<1>5. /\ job'[k].run_count = job[k].run_count - 1
      /\ \A i \in Jobs \ {k} : job'[i] = job[i]
      /\ \A i \in Jobs : /\ SameFate(i) /\ job'[i].committed = job[i].committed
                         /\ job'[i].int_mask = job[i].int_mask
  BY <1>1, <1>3 DEF JobType, SameFate
<1>6. /\ \A f \in Executors \ {e} : nx'[f] = nx[f]
      /\ nx'[e].at \in {"none", "commit"}
      /\ start # {} => nx'[e].at = "commit" /\ nx'[e].left = start /\ nx'[e].job = k
  <2>1. CASE start = {}
    BY <1>1, <1>3, <2>1 DEF ReturnNext, NoCall
  <2>2. CASE start # {}
    BY <1>1, <1>2, <1>3, <2>2 DEF NextType
  <2>3. QED
    BY <2>1, <2>2
<1>7. /\ job[k].run_count = 1 /\ job[k].mask # {} =>
          nx'[e].at = "commit" /\ nx'[e].job = k /\ nx'[e].left = job[k].mask
      /\ UNCHANGED <<cur, todo, task_num, soft_reseting, domref, work, pc, local, irq, hw, line>>
  BY <1>3, <1>4, <1>6
<1> HIDE DEF start
<1>8. CallExact(e) /\ cur[c] = k
  BY <1>1, <1>2, ExactFacts DEF CallExact
<1>9. \A i \in Jobs : SameAt(i) /\ Unfinished(i)' = Unfinished(i)
  BY <1>7 DEF SameAt, At, Waiting, Unfinished
<1>10. \A i \in Jobs \ {k} : Reaching(i)' = Reaching(i)
  <2> SUFFICES ASSUME NEW i \in Jobs \ {k}, NEW d \in Cores
               PROVE  /\ Waiting(i, d)' <=> Waiting(i, d)
                      /\ \A f \in Executors : Counting(f, i, d)' <=> Counting(f, i, d)
    BY DEF Reaching
  <2>1. Waiting(i, d)' <=> Waiting(i, d)
    BY <1>7 DEF Waiting
  <2>2. ~Counting(e, i, d) /\ ~Counting(e, i, d)'
    BY <1>2, <1>6 DEF Counting
  <2>3. \A f \in Executors \ {e} : Counting(f, i, d)' <=> Counting(f, i, d)
    BY <1>6 DEF Counting
  <2>4. QED
    BY <2>1, <2>2, <2>3
<1>11. c \in Reaching(k)
  BY <1>1, <1>2 DEF Reaching, Counting
<1>12. Reaching(k)' = Reaching(k) \ {c}
  <2> SUFFICES ASSUME NEW d \in Cores
               PROVE  (Waiting(k, d)' \/ \E f \in Executors : Counting(f, k, d)') <=>
                      (Waiting(k, d) \/ \E f \in Executors : Counting(f, k, d)) /\ d # c
    BY DEF Reaching
  <2>1. Waiting(k, d)' <=> Waiting(k, d)
    BY <1>7 DEF Waiting
  <2>2. ~Counting(e, k, d)' /\ (Counting(e, k, d) => d = c)
    BY <1>2, <1>6 DEF Counting
  <2>3. \A f \in Executors \ {e} : Counting(f, k, d)' <=> Counting(f, k, d)
    BY <1>6 DEF Counting
  <2>4. d = c => \A f \in Executors \ {e} : ~Counting(f, k, d)
    BY <1>1, <1>2, <1>8 DEF CallExact, Counting
  <2>5. d = c => ~Waiting(k, d)
    BY <1>8, ExactFacts DEF IInv, Once, Waiting
  <2>6. QED
    BY <2>1, <2>2, <2>3, <2>4, <2>5
<1>13. QED
  BY <1>1, <1>2, <1>5, <1>6, <1>7, <1>9, <1>10, <1>11, <1>12 DEF Counts

(* Executor e gives c the first batch of k.                                *)
Starts(e, c, k) ==
    /\ nx[e].at = "commit" /\ nx[e].job = k /\ c \in nx[e].left
    /\ cur[c] = k /\ c \notin job[k].int_mask /\ line[c] # "ok"
    /\ job'[k].committed = TRUE /\ job'[k].int_mask = job[k].int_mask \cup {c}
    /\ \A i \in Jobs \ {k} : job'[i] = job[i]
    /\ \A i \in Jobs : /\ SameFate(i) /\ job'[i].run_count = job[i].run_count
                       /\ SameAt(i) /\ Unfinished(i)' = Unfinished(i)
                       /\ Reaching(i)' = Reaching(i)
    /\ hw'[c].job = k /\ line'[c] = "none"
    /\ \A d \in Cores \ {c} : hw'[d] = hw[d] /\ line'[d] = line[d]
    /\ \A f \in Executors \ {e} : nx'[f] = nx[f]
    /\ nx'[e].at \in {"none", "commit"}
    /\ nx[e].left # {c} =>
          nx'[e].at = "commit" /\ nx'[e].job = k /\ nx'[e].left = nx[e].left \ {c}
    /\ UNCHANGED <<cur, todo, task_num, soft_reseting, domref, work, pc, local, irq>>

(* A core has got the first batch of its job.                              *)
LEMMA CommitEffect ==
    ASSUME ExactInv, Settled, NEW e \in Executors, NextCommit(e)
    PROVE  \E c \in Cores, k \in Jobs : Starts(e, c, k)
<1>1. /\ nx[e].at = "commit" /\ nx[e].job \in Jobs /\ nx[e].left # {} /\ nx[e].left \in SUBSET Cores
      /\ nx \in [Executors -> NextType] /\ CallExact(e) /\ job \in [Jobs -> JobType]
  BY ExactFacts, CallFacts DEF NextCommit, CallFits
<1>2. PICK k \in Jobs, c \in Cores : k = nx[e].job /\ c = Min(nx[e].left) /\ c \in nx[e].left
  BY <1>1, MinCore
<1>3. /\ SubcoreCommit(k, c)
      /\ UNCHANGED <<cur, todo, task_num, soft_reseting, domref, work, pc, local, irq>>
      /\ IF nx[e].left = {c} THEN ReturnNext(e) ELSE nx' = [nx EXCEPT ![e].left = @ \ {c}]
  BY <1>2 DEF NextCommit, coreVars, devVars
<1>4. cur[c] = k /\ c \notin job[k].int_mask /\ ~Unknown(k)
  BY <1>1, <1>2 DEF CallExact, Unknown
<1>5. line[c] # "ok" /\ line[c] # "bad" /\ line[c] \in {"none", "ok", "bad"}
  BY <1>4, ExactFacts, HandlerFacts DEF CoreExact, Settled, CoreSettled
<1>6. job[k].pc_mode = TRUE /\ job[k].mapped = TRUE
  BY <1>4, ExactFacts, KnownIsSubmitted
<1>7. PICK M : M = job[k].int_mask \cup {c}
  OBVIOUS
<1>8. /\ hw' = [hw EXCEPT ![c] = [job |-> k, tasks |-> BatchTasks(k, c)]]
      /\ line' = [line EXCEPT ![c] = "none"]
      /\ job' = [job EXCEPT ![k].committed = TRUE, ![k].int_mask = M]
  BY <1>1, <1>3, <1>5, <1>6, <1>7 DEF SubcoreCommit
<1>9. /\ hw'[c].job = k /\ line'[c] = "none"
      /\ \A d \in Cores \ {c} : hw'[d] = hw[d] /\ line'[d] = line[d]
  BY <1>8, ExactFacts, HandlerFacts DEF HardwareTypeOK
<1>10. /\ job'[k].committed = TRUE /\ job'[k].int_mask = job[k].int_mask \cup {c}
       /\ \A i \in Jobs \ {k} : job'[i] = job[i]
       /\ \A i \in Jobs : SameFate(i) /\ job'[i].run_count = job[i].run_count
  BY <1>1, <1>7, <1>8 DEF JobType, SameFate
<1>11. /\ \A f \in Executors \ {e} : nx'[f] = nx[f]
       /\ nx'[e].at \in {"none", "commit"}
       /\ nx[e].left # {c} =>
             nx'[e].at = "commit" /\ nx'[e].job = k /\ nx'[e].left = nx[e].left \ {c}
  <2>1. CASE nx[e].left = {c}
    BY <1>1, <1>3, <2>1 DEF ReturnNext, NoCall
  <2>2. CASE nx[e].left # {c}
    BY <1>1, <1>2, <1>3, <2>2 DEF NextType
  <2>3. QED
    BY <2>1, <2>2
<1>12. \A i \in Jobs : SameAt(i) /\ Unfinished(i)' = Unfinished(i)
  BY <1>3 DEF SameAt, At, Waiting, Unfinished
<1>13. \A i \in Jobs : Reaching(i)' = Reaching(i)
  <2> SUFFICES ASSUME NEW i \in Jobs, NEW d \in Cores
               PROVE  /\ Waiting(i, d)' <=> Waiting(i, d)
                      /\ \A f \in Executors : Counting(f, i, d)' <=> Counting(f, i, d)
    BY DEF Reaching
  <2>1. Waiting(i, d)' <=> Waiting(i, d)
    BY <1>3 DEF Waiting
  <2>2. \A f \in Executors : Counting(f, i, d)' <=> Counting(f, i, d)
    BY <1>1, <1>11 DEF Counting
  <2>3. QED
    BY <2>1, <2>2
<1>14. QED
  BY <1>1, <1>2, <1>3, <1>4, <1>5, <1>9, <1>10, <1>11, <1>12, <1>13 DEF Starts

(* A handler that is to call rknpu_job_next is in no call.                 *)
LEMMA HandlerCallEffect ==
    ASSUME ExactInv, Settled, NEW c \in Cores, irq[c].at # "idle", CallNext(c, c)
    PROVE  /\ nx[c].at = "none" /\ nx'[c].at = "check" /\ nx'[c].core = c
           /\ \A f \in Executors \ {c} : nx'[f] = nx[f]
           /\ SameCalls
<1>1. nx \in [Executors -> NextType] /\ c \in Executors /\ nx[c].at = "none"
  BY ExactFacts, HandlerFacts DEF IInv, TypeOK, Settled, CoreSettled
<1>2. /\ nx'[c].at = "check" /\ nx'[c].core = c
      /\ \A f \in Executors \ {c} : nx'[f] = nx[f]
  BY <1>1 DEF CallNext
<1>3. QED
  BY <1>1, <1>2 DEF SameCalls

(* Cores and queues as they were.                                          *)
LEMMA SamePlaces ==
    ASSUME UNCHANGED <<cur, todo>>, SameCalls, NEW i \in Jobs
    PROVE  SameAt(i) /\ Reaching(i)' = Reaching(i)
<1>1. SameAt(i)
  BY DEF SameAt, At, Waiting
<1>2. \A d \in Cores, f \in Executors : Counting(f, i, d)' <=> Counting(f, i, d)
  BY DEF SameCalls, Counting
<1>3. \A d \in Cores : Waiting(i, d)' <=> Waiting(i, d)
  BY DEF Waiting
<1>4. QED
  BY <1>1, <1>2, <1>3 DEF Reaching

(* The handler finds out what its core has done.                           *)
Works(c) == IrqEnter(c) \/ IrqStatus(c) \/ IrqCompare(c) \/ IrqCount(c) \/ IrqRecommit(c)

(* An interrupt is always that of the job, which is on the core.           *)
LEMMA OwnInterrupt ==
    ASSUME ExactInv, Settled, NEW c \in Cores
    PROVE  /\ CoreSettled(c) /\ CoreExact(c) /\ HandlerExact(c) /\ HandlerFits(c)
           /\ line[c] \in {"none", "ok"}
           /\ line[c] = "ok" => cur[c] \in Jobs /\ c \in job[cur[c]].int_mask
           /\ irq[c].at \in Working => irq[c].job \in Jobs /\ cur[c] = irq[c].job
           /\ irq \in [Cores -> IrqType] /\ hw \in [Cores -> [job : Jobs \cup {NoJob}, tasks : Int]]
           /\ line \in [Cores -> {"none", "ok", "bad"}] /\ job \in [Jobs -> JobType]
           /\ cur \in [Cores -> Jobs \cup {NoJob}] /\ nx \in [Executors -> NextType]
           /\ c \in Executors
<1>1. /\ CoreSettled(c) /\ CoreExact(c) /\ HandlerExact(c) /\ HandlerFits(c) /\ Owned
      /\ irq \in [Cores -> IrqType] /\ HardwareTypeOK /\ job \in [Jobs -> JobType]
      /\ cur \in [Cores -> Jobs \cup {NoJob}] /\ nx \in [Executors -> NextType]
      /\ c \in Executors
  BY ExactFacts, HandlerFacts DEF Settled, OwnInv, IInv, TypeOK, CoresTypeOK
<1>2. line[c] \in {"none", "ok"}
  BY <1>1 DEF CoreSettled, HardwareTypeOK
<1>3. line[c] = "ok" => cur[c] \in Jobs /\ c \in job[cur[c]].int_mask
  BY <1>1 DEF CoreExact
<1>4. irq[c].at \in Working => irq[c].job \in Jobs /\ cur[c] = irq[c].job
  BY <1>1 DEF Owned, HandlerFits, Working
<1>5. QED
  BY <1>1, <1>2, <1>3, <1>4 DEF HardwareTypeOK

(* It changes nothing that anyone but the core itself can see, and leaves  *)
(* the core settled.                                                       *)
LEMMA WorkEffect ==
    ASSUME Untroubled, ExactInv, Settled, NEW c \in Cores, Works(c)
    PROVE  /\ \A i \in Jobs : SameJob(i)
           /\ UNCHANGED <<cur, todo, task_num, soft_reseting, domref, work, pc, local, nx>>
           /\ \A d \in Cores \ {c} : irq'[d] = irq[d] /\ hw'[d] = hw[d] /\ line'[d] = line[d]
           /\ irq[c].at \notin {"complete", "signal"} /\ irq'[c].at \notin {"complete", "signal"}
           /\ CoreSettled(c)'
<1>1. /\ CoreSettled(c) /\ CoreExact(c) /\ HandlerExact(c) /\ HandlerFits(c)
      /\ line[c] \in {"none", "ok"}
      /\ line[c] = "ok" => cur[c] \in Jobs /\ c \in job[cur[c]].int_mask
      /\ irq[c].at \in Working => irq[c].job \in Jobs /\ cur[c] = irq[c].job
      /\ irq \in [Cores -> IrqType] /\ hw \in [Cores -> [job : Jobs \cup {NoJob}, tasks : Int]]
      /\ line \in [Cores -> {"none", "ok", "bad"}] /\ job \in [Jobs -> JobType]
      /\ nx \in [Executors -> NextType] /\ c \in Executors
  BY OwnInterrupt
<1>2. UNCHANGED <<cur, todo, task_num, soft_reseting, domref, work, pc, local, nx>>
  BY DEF Works, IrqEnter, IrqStatus, IrqCompare, IrqCount, IrqRecommit, coreVars, devVars, hwVars
<1>3. CASE IrqEnter(c)
  <2>1. irq[c].at = "idle" /\ nx[c].at = "none" /\ line[c] = "ok" /\ UNCHANGED <<hw, line>>
    BY <1>1, <1>3, UntroubledFaults DEF IrqEnter, OwnLine, hwVars
  <2>2. PICK k \in Jobs : k = cur[c] /\ c \in job[k].int_mask
    BY <1>1, <2>1
  <2>3. /\ irq' = [irq EXCEPT ![c].at = "status", ![c].job = k]
        /\ job' = [job EXCEPT ![k].irq_entry = @ \cup {c}]
    BY <1>3, <2>2, JobAssumption DEF IrqEnter
  <2>4. irq'[c].at = "status" /\ irq'[c].job = k /\ \A d \in Cores \ {c} : irq'[d] = irq[d]
    BY <1>1, <2>3 DEF IrqType
  <2>5. \A i \in Jobs : SameJob(i)
    BY <1>1, <2>3 DEF SameJob, SameFate, JobType
  <2>6. CoreSettled(c)'
    BY <1>1, <1>2, <2>1, <2>4 DEF CoreSettled
  <2>7. QED
    BY <1>2, <2>1, <2>4, <2>5, <2>6
<1>4. CASE IrqStatus(c)
  <2>1. /\ irq[c].at = "status" /\ line[c] = "ok" /\ UNCHANGED <<job, hw, line>>
        /\ irq' = [irq EXCEPT ![c].at = "compare", ![c].status = "ok"]
    BY <1>1, <1>4 DEF IrqStatus, CoreSettled, hwVars
  <2>2. /\ irq'[c].at = "compare" /\ irq'[c].status = "ok" /\ irq'[c].job = irq[c].job
        /\ \A d \in Cores \ {c} : irq'[d] = irq[d]
    BY <1>1, <2>1 DEF IrqType
  <2>3. \A i \in Jobs : SameJob(i)
    BY <2>1 DEF SameJob, SameFate
  <2>4. CoreSettled(c)'
    BY <1>1, <1>2, <2>1, <2>2 DEF CoreSettled
  <2>5. QED
    BY <1>2, <2>1, <2>2, <2>3, <2>4
<1>5. CASE IrqCompare(c)
  <2>1. /\ irq[c].at = "compare" /\ line[c] = "ok" /\ irq[c].status = "ok"
        /\ c \in job[irq[c].job].int_mask /\ UNCHANGED <<job, hw>>
    BY <1>1, <1>5 DEF IrqCompare, CoreSettled, Working
  <2>2. line' = [line EXCEPT ![c] = "none"] /\ irq' = [irq EXCEPT ![c].at = "count"]
    BY <1>1, <1>5, <2>1 DEF IrqCompare
  <2>3. /\ irq'[c].at = "count" /\ irq'[c].job = irq[c].job /\ line'[c] = "none"
        /\ \A d \in Cores \ {c} : irq'[d] = irq[d] /\ line'[d] = line[d]
    BY <1>1, <2>2 DEF IrqType
  <2>4. \A i \in Jobs : SameJob(i)
    BY <2>1 DEF SameJob, SameFate
  <2>5. CoreSettled(c)'
    BY <1>1, <1>2, <2>1, <2>3 DEF CoreSettled
  <2>6. QED
    BY <1>2, <2>1, <2>3, <2>4, <2>5
<1>6. CASE IrqCount(c)
  <2>1. irq[c].at = "count" /\ UNCHANGED <<hw, line>>
    BY <1>6 DEF IrqCount, hwVars
  <2>2. PICK k \in Jobs : k = irq[c].job
    BY <1>1, <2>1 DEF Working
  <2>3. PICK n, l : /\ job' = [job EXCEPT ![k].submit_count[c] = n] /\ l \in {"recommit", "finish"}
                    /\ irq' = [irq EXCEPT ![c].at = l]
    BY <1>6, <2>2 DEF IrqCount
  <2>4. /\ irq'[c].at \in {"recommit", "finish"} /\ irq'[c].job = irq[c].job
        /\ \A d \in Cores \ {c} : irq'[d] = irq[d]
    BY <1>1, <2>3 DEF IrqType
  <2>5. \A i \in Jobs : SameJob(i)
    BY <1>1, <2>3 DEF SameJob, SameFate, JobType
  <2>6. CoreSettled(c)'
    BY <1>1, <1>2, <2>1, <2>4 DEF CoreSettled
  <2>7. QED
    BY <1>2, <2>1, <2>4, <2>5, <2>6
<1>7. CASE IrqRecommit(c)
  <2>1. irq[c].at = "recommit" /\ line[c] = "none"
    BY <1>1, <1>7 DEF IrqRecommit, HandlerExact, Quiesced
  <2>2. PICK k \in Jobs : k = irq[c].job
    BY <1>1, <2>1 DEF Working
  <2>3. /\ c \in job[k].int_mask /\ SubcoreCommit(k, c) /\ irq' = [irq EXCEPT ![c] = IdleIrq]
        /\ cur[c] = k
    BY <1>1, <1>7, <2>1, <2>2 DEF IrqRecommit, HandlerExact, Quiesced, Working
  <2>4. job[k].pc_mode = TRUE /\ job[k].mapped = TRUE /\ job[k].committed = TRUE
    <3>1. ~Unknown(k)
      BY <2>3 DEF Unknown
    <3>2. QED
      BY <2>3, <3>1, ExactFacts, KnownIsSubmitted, SettledFacts DEF JobSettled
  <2>5. PICK M : M = job[k].int_mask \cup {c} /\ M = job[k].int_mask
    BY <2>3
  <2>6. /\ hw' = [hw EXCEPT ![c] = [job |-> k, tasks |-> BatchTasks(k, c)]]
        /\ line' = [line EXCEPT ![c] = "none"]
        /\ job' = [job EXCEPT ![k].committed = TRUE, ![k].int_mask = M]
    BY <1>1, <2>1, <2>3, <2>4, <2>5 DEF SubcoreCommit
  <2>7. /\ hw'[c].job = k /\ line'[c] = "none" /\ irq'[c] = IdleIrq
        /\ \A d \in Cores \ {c} : irq'[d] = irq[d] /\ hw'[d] = hw[d] /\ line'[d] = line[d]
    BY <1>1, <2>3, <2>6
  <2>8. \A i \in Jobs : SameJob(i)
    <3>1. \A i \in Jobs \ {k} : job'[i] = job[i]
      BY <1>1, <2>6
    <3>2. job'[k] = [job[k] EXCEPT !.committed = TRUE, !.int_mask = M] /\ job[k] \in JobType
      BY <1>1, <2>6
    <3>3. /\ SameFate(k) /\ job'[k].run_count = job[k].run_count
          /\ job'[k].committed = TRUE /\ job'[k].int_mask = M
      BY <3>2 DEF SameFate, JobType
    <3>4. SameJob(k)
      BY <2>4, <2>5, <3>3 DEF SameJob
    <3>5. QED
      BY <3>1, <3>4 DEF SameJob, SameFate
  <2>9. IdleIrq.at = "idle" /\ k # NoJob
    BY JobAssumption DEF IdleIrq
  <2>10. CoreSettled(c)'
    BY <1>1, <1>2, <2>3, <2>7, <2>9 DEF CoreSettled
  <2>11. QED
    BY <1>2, <2>1, <2>7, <2>8, <2>9, <2>10
<1>8. QED
  BY <1>3, <1>4, <1>5, <1>6, <1>7 DEF Works

(* Core c is free: it has executed all of k.                               *)
Frees(c, k) ==
    /\ irq[c].at = "finish" /\ irq[c].job = k /\ cur[c] = k /\ cur'[c] = NoJob
    /\ c \in job[k].int_mask
    /\ irq'[c].at = "complete" /\ irq'[c].job = k
    /\ \A d \in Cores \ {c} : cur'[d] = cur[d] /\ irq'[d] = irq[d]
    /\ task_num'[c] = task_num[c] - job[k].tasks
    /\ \A d \in Cores \ {c} : task_num'[d] = task_num[d]
    /\ \A i \in Jobs, d \in Cores : At(i, d)' <=> At(i, d) /\ ~(i = k /\ d = c)
    /\ \A i \in Jobs : /\ SameJob(i) /\ Unfinished(i)' = Unfinished(i)
                       /\ Reaching(i)' = Reaching(i)
    /\ SameCalls
    /\ UNCHANGED <<job, todo, soft_reseting, domref, work, pc, local, nx, hw, line>>

(* rknpu_job_done frees the core.                                          *)
LEMMA FinishEffect ==
    ASSUME ExactInv, Settled, NEW c \in Cores, IrqFinish(c)
    PROVE  \E k \in Jobs : Frees(c, k)
<1>1. /\ HandlerExact(c) /\ irq[c].at = "finish" /\ cur[c] = irq[c].job /\ irq[c].job \in Jobs
      /\ irq \in [Cores -> IrqType] /\ cur \in [Cores -> Jobs \cup {NoJob}]
  BY OwnInterrupt DEF IrqFinish, Working
<1>2. PICK k \in Jobs : k = irq[c].job
  BY <1>1
<1>3. UNCHANGED <<job, todo, soft_reseting, domref, work, pc, local, nx, hw, line>>
  BY DEF IrqFinish, hwVars, devVars
<1>4. c \in job[k].int_mask
  BY <1>1, <1>2 DEF HandlerExact, Quiesced
<1>5. /\ irq'[c].at = "complete" /\ irq'[c].job = k /\ cur'[c] = NoJob
      /\ \A d \in Cores \ {c} : cur'[d] = cur[d] /\ irq'[d] = irq[d]
  BY <1>1, <1>2 DEF IrqFinish, IrqType
<1>6. /\ task_num'[c] = task_num[c] - job[k].tasks
      /\ \A d \in Cores \ {c} : task_num'[d] = task_num[d]
  BY <1>2, ExactFacts DEF IrqFinish, IInv, TypeOK, CoresTypeOK
<1>7. Once
  BY ExactFacts DEF IInv
<1>8. \A i \in Jobs, d \in Cores : At(i, d)' <=> At(i, d) /\ ~(i = k /\ d = c)
  <2> SUFFICES ASSUME NEW i \in Jobs, NEW d \in Cores
               PROVE  At(i, d)' <=> At(i, d) /\ ~(i = k /\ d = c)
    OBVIOUS
  <2>1. Waiting(i, d)' <=> Waiting(i, d)
    BY <1>3 DEF Waiting
  <2>2. d = c /\ i = k => ~Waiting(i, d)
    BY <1>1, <1>2, <1>7 DEF Once, Waiting
  <2>3. cur'[d] = i <=> cur[d] = i /\ ~(i = k /\ d = c)
    BY <1>1, <1>2, <1>5, JobAssumption
  <2>4. QED
    BY <2>1, <2>2, <2>3 DEF At
<1>9. \A i \in Jobs : Unfinished(i)' = Unfinished(i)
  <2> SUFFICES ASSUME NEW i \in Jobs, NEW d \in Cores
               PROVE  (At(i, d)' \/ (irq'[d].job = i /\ irq'[d].at = "complete")) <=>
                      (At(i, d) \/ (irq[d].job = i /\ irq[d].at = "complete"))
    BY DEF Unfinished
  <2>1. CASE d = c
    BY <1>1, <1>2, <1>5, <1>8, <2>1 DEF At
  <2>2. CASE d # c
    BY <1>5, <1>8, <2>2
  <2>3. QED
    BY <2>1, <2>2
<1>10. SameCalls /\ \A i \in Jobs : SameJob(i) /\ Reaching(i)' = Reaching(i)
  BY <1>3 DEF SameCalls, SameJob, SameFate, Reaching, Waiting, Counting
<1>11. QED
  BY <1>1, <1>2, <1>3, <1>4, <1>5, <1>6, <1>8, <1>9, <1>10 DEF Frees

(* Core c is counted; the last one marks k DONE.                           *)
Completes(c, k) ==
    /\ irq[c].at = "complete" /\ irq[c].job = k /\ c \in job[k].int_mask
    /\ job[k].done = FALSE /\ c \in Unfinished(k) /\ Unfinished(k)' = Unfinished(k) \ {c}
    /\ job'[k].interrupt_count = job[k].interrupt_count - 1
    /\ job'[k].done = LastToFinish(k) /\ domref' = IF LastToFinish(k) THEN domref - 1 ELSE domref
    /\ job'[k].mask = job[k].mask /\ job'[k].tasks = job[k].tasks
    /\ job'[k].nonblock = job[k].nonblock /\ job'[k].ret = job[k].ret
    /\ job'[k].fence = job[k].fence /\ job'[k].life = job[k].life
    /\ job'[k].run_count = job[k].run_count /\ job'[k].committed = job[k].committed
    /\ job'[k].int_mask = job[k].int_mask
    /\ \A i \in Jobs \ {k} : job'[i] = job[i] /\ Unfinished(i)' = Unfinished(i)
    /\ \A i \in Jobs : SameAt(i) /\ Reaching(i)' = Reaching(i)
    /\ irq'[c].at \in {"idle", "signal"}
    /\ IF LastToFinish(k) THEN irq'[c].at = "signal" /\ irq'[c].job = k
                          ELSE irq'[c].at = "idle" /\ Looking(c, c)'
    /\ nx[c].at = "none" /\ (irq'[c].at = "signal" => nx'[c].at = "none")
    /\ \A d \in Cores \ {c} : irq'[d] = irq[d]
    /\ \A f \in Executors \ {c} : nx'[f] = nx[f]
    /\ SameCalls
    /\ UNCHANGED <<cur, todo, task_num, soft_reseting, work, pc, local, hw, line>>

(* rknpu_job_done counts the core.                                         *)
LEMMA CompleteEffect ==
    ASSUME ExactInv, Settled, NEW c \in Cores, IrqComplete(c)
    PROVE  \E k \in Jobs : Completes(c, k)
<1>1. /\ HandlerFits(c) /\ irq[c].at = "complete" /\ irq[c].job \in Jobs /\ CoreSettled(c)
      /\ irq \in [Cores -> IrqType] /\ job \in [Jobs -> JobType]
      /\ nx \in [Executors -> NextType] /\ c \in Executors
  BY OwnInterrupt DEF IrqComplete, HandlerFits
<1>2. PICK k \in Jobs : k = irq[c].job
  BY <1>1
<1>3. UNCHANGED <<cur, todo, task_num, soft_reseting, work, pc, local, hw, line>>
  BY DEF IrqComplete, hwVars, coreVars
<1>4. c \in job[k].int_mask /\ nx[c].at = "none"
  BY <1>1, <1>2 DEF CoreSettled
<1>5. ~At(k, c) /\ c \in Unfinished(k)
  BY <1>1, <1>2, ExactFacts, OrderFacts DEF HandlersOrderly, Unfinished
<1>6. JobOrderly(k) /\ job[k].done = FALSE /\ job[k].interrupt_count \in Int
  BY <1>5, ExactFacts, OrderFacts DEF JobOrderly, JobType
<1>7. PICK x \in Int : x = job[k].interrupt_count - 1
  BY <1>6
<1>8. PICK b \in BOOLEAN : b = LastToFinish(k)
  BY DEF LastToFinish
<1>9. /\ job' = [job EXCEPT ![k].interrupt_count = x, ![k].done = b]
      /\ domref' = IF b THEN domref - 1 ELSE domref
      /\ IF b THEN irq' = [irq EXCEPT ![c].at = "signal"] /\ UNCHANGED nx
              ELSE irq' = [irq EXCEPT ![c] = IdleIrq] /\ CallNext(c, c)
  BY <1>1, <1>2, <1>6, <1>7, <1>8 DEF IrqComplete
<1>10. /\ job'[k].interrupt_count = x /\ job'[k].done = b /\ \A i \in Jobs \ {k} : job'[i] = job[i]
       /\ job'[k].mask = job[k].mask /\ job'[k].tasks = job[k].tasks
       /\ job'[k].nonblock = job[k].nonblock /\ job'[k].ret = job[k].ret
       /\ job'[k].fence = job[k].fence /\ job'[k].life = job[k].life
       /\ job'[k].run_count = job[k].run_count /\ job'[k].committed = job[k].committed
       /\ job'[k].int_mask = job[k].int_mask
  BY <1>1, <1>9 DEF JobType
<1>11. \A d \in Cores \ {c} : irq'[d] = irq[d]
  BY <1>1, <1>9
<1>12. /\ SameCalls /\ \A f \in Executors \ {c} : nx'[f] = nx[f]
       /\ IF b THEN irq'[c].at = "signal" /\ irq'[c].job = k /\ nx'[c].at = "none"
               ELSE irq'[c].at = "idle" /\ Looking(c, c)'
  <2>1. CASE b = TRUE
    BY <1>1, <1>2, <1>4, <1>9, <2>1 DEF SameCalls, IrqType
  <2>2. CASE b = FALSE
    BY <1>1, <1>9, <2>2, HandlerCallEffect DEF Looking, IdleIrq
  <2>3. QED
    BY <2>1, <2>2
<1>13. irq'[c].at \in {"idle", "signal"}
  BY <1>12
<1>14. \A i \in Jobs : SameAt(i) /\ Reaching(i)' = Reaching(i)
  BY <1>3, <1>12, SamePlaces
<1>15. Unfinished(k)' = Unfinished(k) \ {c} /\ \A i \in Jobs \ {k} : Unfinished(i)' = Unfinished(i)
  BY <1>2, <1>5, <1>11, <1>13, <1>14 DEF Unfinished, SameAt
<1>16. QED
  BY ZenonT(40), <1>1, <1>2, <1>3, <1>4, <1>5, <1>6, <1>7, <1>8, <1>9, <1>10, <1>11, <1>12, <1>13, <1>14, <1>15
     DEF Completes

(* The end of k is signalled.                                              *)
Signals(c, k) ==
    /\ irq[c].at = "signal" /\ irq[c].job = k /\ job[k].done = TRUE
    /\ pc[k] \notin Early \cup {"new"} /\ job[k].committed = TRUE
    /\ job'[k].ret = "0" /\ job'[k].fence = IF job[k].fence = "none" THEN "none" ELSE "signaled"
    /\ job'[k].mask = job[k].mask /\ job'[k].tasks = job[k].tasks
    /\ job'[k].nonblock = job[k].nonblock /\ job'[k].done = job[k].done
    /\ job'[k].interrupt_count = job[k].interrupt_count /\ job'[k].life = job[k].life
    /\ job'[k].run_count = job[k].run_count /\ job'[k].committed = job[k].committed
    /\ job'[k].int_mask = job[k].int_mask
    /\ work \subseteq work' /\ (job[k].nonblock = TRUE => k \in work')
    /\ \A i \in Jobs \ {k} : job'[i] = job[i]
    /\ \A i \in Jobs : /\ Steady(i) /\ SameAt(i) /\ Reaching(i)' = Reaching(i)
                       /\ Unfinished(i)' = Unfinished(i)
    /\ irq'[c].at = "idle" /\ Looking(c, c)'
    /\ \A d \in Cores \ {c} : irq'[d] = irq[d]
    /\ \A f \in Executors \ {c} : nx'[f] = nx[f]
    /\ SameCalls
    /\ UNCHANGED <<cur, todo, task_num, soft_reseting, domref, local, hw, line>>

(* rknpu_job_done signals the job, and queues its cleanup if nobody waits  *)
(* for it.                                                                 *)
LEMMA SignalEffect ==
    ASSUME ExactInv, Settled, NEW c \in Cores, IrqSignal(c)
    PROVE  \E k \in Jobs : Signals(c, k)
<1>1. /\ HandlerFits(c) /\ irq[c].at = "signal" /\ irq[c].job \in Jobs /\ CoreSettled(c)
      /\ irq \in [Cores -> IrqType] /\ job \in [Jobs -> JobType]
      /\ nx \in [Executors -> NextType] /\ c \in Executors
  BY OwnInterrupt DEF IrqSignal, HandlerFits
<1>2. PICK k \in Jobs : k = irq[c].job
  BY <1>1
<1>3. UNCHANGED <<cur, todo, task_num, soft_reseting, domref, local, hw, line>>
  BY DEF IrqSignal, hwVars, coreVars
<1>4. job[k].done = TRUE /\ pc[k] \notin Early \cup {"new"} /\ job[k].committed = TRUE
  <2>1. ~Unknown(k) /\ job[k].done = TRUE
    BY <1>1, <1>2 DEF Unknown, HandlerFits
  <2>2. QED
    BY <2>1, ExactFacts, KnownIsSubmitted, SettledFacts DEF JobSettled
<1>5. PICK f : f = (IF job[k].fence = "none" THEN "none" ELSE "signaled")
  OBVIOUS
<1>6. /\ job' = [job EXCEPT ![k].ret = "0", ![k].fence = f]
      /\ ScheduleCleanup(k) /\ irq' = [irq EXCEPT ![c] = IdleIrq] /\ CallNext(c, c)
  BY <1>2, <1>5 DEF IrqSignal
<1>7. /\ job'[k].ret = "0" /\ job'[k].fence = f /\ \A i \in Jobs \ {k} : job'[i] = job[i]
      /\ job'[k].mask = job[k].mask /\ job'[k].tasks = job[k].tasks
      /\ job'[k].nonblock = job[k].nonblock /\ job'[k].done = job[k].done
      /\ job'[k].interrupt_count = job[k].interrupt_count /\ job'[k].life = job[k].life
      /\ job'[k].run_count = job[k].run_count /\ job'[k].committed = job[k].committed
      /\ job'[k].int_mask = job[k].int_mask
  BY <1>1, <1>6 DEF JobType
<1>8. work \subseteq work' /\ (job[k].nonblock = TRUE => k \in work')
  BY <1>6 DEF ScheduleCleanup
<1>9. \A i \in Jobs : Steady(i)
  BY <1>1, <1>3 DEF IrqSignal, WakeUp, Steady
<1>10. irq'[c].at = "idle" /\ \A d \in Cores \ {c} : irq'[d] = irq[d]
  BY <1>1, <1>6 DEF IdleIrq
<1>11. SameCalls /\ Looking(c, c)' /\ \A g \in Executors \ {c} : nx'[g] = nx[g]
  BY <1>1, <1>6, HandlerCallEffect DEF Looking
<1>12. \A i \in Jobs : SameAt(i) /\ Reaching(i)' = Reaching(i)
  BY <1>3, <1>11, SamePlaces
<1>13. \A i \in Jobs : Unfinished(i)' = Unfinished(i)
  BY <1>1, <1>10, <1>12 DEF Unfinished, SameAt
<1>14. QED
  BY <1>1, <1>2, <1>3, <1>4, <1>5, <1>7, <1>8, <1>9, <1>10, <1>11, <1>12, <1>13 DEF Signals

(* The hardware has executed a batch.                                      *)
LEMMA HwFinishEffect ==
    ASSUME ExactInv, Settled, NEW c \in Cores, HwFinish(c)
    PROVE  /\ line'[c] = "ok" /\ cur[c] = hw[c].job /\ cur[c] # NoJob
           /\ \A d \in Cores \ {c} : hw'[d] = hw[d] /\ line'[d] = line[d]
           /\ UNCHANGED <<job, cur, todo, task_num, soft_reseting, domref, work, pc, local, irq, nx>>
<1>1. /\ CoreExact(c) /\ line[c] \in {"none", "ok"}
      /\ hw \in [Cores -> [job : Jobs \cup {NoJob}, tasks : Int]]
      /\ line \in [Cores -> {"none", "ok", "bad"}]
  BY OwnInterrupt
<1>2. UNCHANGED <<job, cur, todo, task_num, soft_reseting, domref, work, pc, local, irq, nx>>
  BY DEF HwFinish, coreVars, devVars
<1>3. cur[c] = hw[c].job /\ cur[c] # NoJob
  BY <1>1 DEF HwFinish, CoreExact
<1>4. line'[c] = "ok" /\ \A d \in Cores \ {c} : hw'[d] = hw[d] /\ line'[d] = line[d]
  BY <1>1 DEF HwFinish
<1>5. QED
  BY <1>2, <1>3, <1>4

(* A step of the thread of j, or of the worker for it.                     *)
ThreadStep(j) == Thread(j) \/ (\E a \in Requests : Submit(j, a)) \/ CleanupWork(j)

(* Threads leave the cores and their handlers alone.                       *)
LEMMA ThreadLeavesCores ==
    ASSUME Untroubled, ExactInv, Settled, NEW j \in Jobs, ThreadStep(j)
    PROVE  /\ UNCHANGED <<cur, irq, hw, line>> /\ \A c \in Cores : nx'[c] = nx[c]
           /\ \A i \in Jobs : job'[i].int_mask = job[i].int_mask
<1>1. job \in [Jobs -> JobType] /\ nx \in [Executors -> NextType]
  BY ExactFacts DEF IInv, TypeOK
<1>2. CASE Private(j)
  BY <1>2, ExactFacts, PrivateFrame DEF SameProgress
<1>3. CASE Schedule(j)
  BY <1>3, ScheduleEffect DEF Untouched
<1>4. CASE Enqueue(j)
  BY <1>4 DEF Enqueue, hwVars
<1>5. CASE Kick(j)
  <2>1. UNCHANGED <<job, cur, irq, hw, line>>
    BY <1>5 DEF Kick, coreVars, hwVars
  <2>2. j \notin Cores
    BY JobAssumption
  <2>3. \A c \in Cores : nx'[c] = nx[c]
    BY <1>1, <1>5, <2>2 DEF Kick, CallNext, Executors
  <2>4. QED
    BY <2>1, <2>3
<1>6. CASE \E a \in Requests : Submit(j, a)
  <2>1. /\ pc[j] = "new" /\ job'[j].int_mask = {} /\ \A i \in Jobs \ {j} : Untouched(i)
        /\ UNCHANGED <<cur, irq, nx, hw, line>>
    BY <1>6, SubmitEffect
  <2>2. job[j].int_mask = {}
    BY <2>1, ExactFacts DEF Started
  <2>3. QED
    BY <2>1, <2>2 DEF Untouched
<1>7. CASE CleanupWork(j)
  <2>1. job' = [job EXCEPT ![j].life = "freed"] /\ UNCHANGED <<cur, irq, nx, hw, line>>
    BY <1>7 DEF CleanupWork, coreVars, hwVars
  <2>2. QED
    BY <1>1, <2>1 DEF JobType
<1>8. QED
  BY <1>2, <1>3, <1>4, <1>5, <1>6, <1>7, OwnThread DEF ThreadStep

(* A core that is not the one a step is about stays settled.               *)
CoreKept(c) ==
    /\ irq'[c] = irq[c] /\ hw'[c] = hw[c] /\ line'[c] = line[c]
    /\ irq[c].at # "idle" => nx'[c].at = "none"
    /\ \A i \in Jobs : c \in job[i].int_mask => c \in job'[i].int_mask
    /\ cur'[c] # NoJob /\ c \in job'[cur'[c]].int_mask =>
          cur'[c] = cur[c] /\ c \in job[cur[c]].int_mask

(* And so it does: CoreSettled reads nothing of another core.              *)
LEMMA CoreStaysSettled ==
    ASSUME ExactInv, Settled, NEW c \in Cores, CoreKept(c)
    PROVE  CoreSettled(c)'
<1>1. CoreSettled(c) /\ (irq[c].at = "complete" => irq[c].job \in Jobs)
  BY OwnInterrupt DEF HandlerFits
<1>2. /\ irq'[c] = irq[c] /\ hw'[c] = hw[c] /\ line'[c] = line[c]
      /\ irq[c].at # "idle" => nx'[c].at = "none"
      /\ irq[c].at = "complete" => c \in job'[irq[c].job].int_mask
      /\ cur'[c] # NoJob /\ c \in job'[cur'[c]].int_mask =>
            cur'[c] = cur[c] /\ c \in job[cur[c]].int_mask
  BY <1>1 DEF CoreKept, CoreSettled
<1>3. QED
  BY <1>1, <1>2 DEF CoreSettled

(* With the jobs as they were.                                             *)
LEMMA CoreSettledStays ==
    ASSUME ExactInv, Settled, NEW c \in Cores,
           irq'[c] = irq[c], hw'[c] = hw[c], line'[c] = line[c], cur'[c] = cur[c],
           irq[c].at # "idle" => nx'[c].at = "none",
           \A i \in Jobs : job'[i].int_mask = job[i].int_mask
    PROVE  CoreSettled(c)'
<1>1. cur[c] \in Jobs \cup {NoJob}
  BY OwnInterrupt
<1>2. CoreKept(c)
  BY <1>1 DEF CoreKept
<1>3. QED
  BY <1>2, CoreStaysSettled

(* The core of a call is not in a handler.                                 *)
LEMMA CallerIsIdle ==
    ASSUME ExactInv, Settled, NEW e \in Executors, nx[e].at # "none",
           \A f \in Executors \ {e} : nx'[f] = nx[f], NEW c \in Cores, irq[c].at # "idle"
    PROVE  nx'[c].at = "none"
<1>1. c \in Executors /\ nx[c].at = "none"
  BY OwnInterrupt DEF CoreSettled
<1>2. QED
  BY <1>1

(* Calls of rknpu_job_next.                                                *)
LEMMA CallSettles == ASSUME ExactInv, Settled, NEW e \in Executors, NextCall(e) PROVE Settled'
<1>1. \A i \in Jobs : JobSettled(i)
  BY DEF Settled
<1>2. ASSUME UNCHANGED <<pc, local>>, \A i \in Jobs : SameJob(i) PROVE \A i \in Jobs : JobSettled(i)'
  <2>1. \A i \in Jobs : Advances(i)
    BY <1>2 DEF SameJob, SameFate, Advances, Steady
  <2>2. QED
    BY <1>1, <2>1, AdvanceSettles
<1>3. CASE Passes(e)
  <2>1. /\ UNCHANGED <<job, cur, pc, local, irq, hw, line>> /\ nx[e].at # "none"
        /\ \A f \in Executors \ {e} : nx'[f] = nx[f]
    BY <1>3, PassEffect
  <2>2. \A i \in Jobs : SameJob(i)
    BY <2>1 DEF SameJob, SameFate
  <2>3. \A c \in Cores : CoreSettled(c)'
    BY <2>1, CallerIsIdle, CoreSettledStays
  <2>4. QED
    BY <1>2, <2>1, <2>2, <2>3 DEF Settled
<1>4. CASE NextPop(e) /\ ~Passes(e)
  <2>1. PICK c \in Cores, k \in Jobs : Pops(e, c, k)
    BY <1>4, PopEffect DEF Passes
  <2>2. /\ UNCHANGED <<pc, local, irq, hw, line>> /\ nx[e].at # "none"
        /\ \A f \in Executors \ {e} : nx'[f] = nx[f]
        /\ \A i \in Jobs : SameJob(i) /\ job'[i].int_mask = job[i].int_mask
        /\ cur'[c] = k /\ job'[k].int_mask = {} /\ \A d \in Cores \ {c} : cur'[d] = cur[d]
    BY <2>1 DEF Pops, SameJob
  <2>3. \A d \in Cores : irq[d].at # "idle" => nx'[d].at = "none"
    BY <2>2, CallerIsIdle
  <2>4. CoreKept(c)
    BY <2>2, <2>3 DEF CoreKept
  <2>5. \A d \in Cores \ {c} : CoreSettled(d)'
    BY <2>2, <2>3, CoreSettledStays
  <2>6. QED
    BY <1>2, <2>2, <2>4, <2>5, CoreStaysSettled DEF Settled
<1>5. CASE NextDec(e)
  <2>1. PICK c \in Cores, k \in Jobs : Counts(e, c, k)
    BY <1>5, DecEffect
  <2>2. /\ UNCHANGED <<cur, pc, local, irq, hw, line>> /\ nx[e].at # "none"
        /\ \A f \in Executors \ {e} : nx'[f] = nx[f]
        /\ \A i \in Jobs : /\ SameFate(i) /\ job'[i].int_mask = job[i].int_mask
                           /\ job'[i].committed = job[i].committed
    BY <2>1 DEF Counts
  <2>3. \A i \in Jobs : Advances(i)
    BY <2>2 DEF SameFate, Advances, Steady
  <2>4. \A d \in Cores : CoreSettled(d)'
    BY <2>2, CallerIsIdle, CoreSettledStays
  <2>5. QED
    BY <1>1, <2>3, <2>4, AdvanceSettles DEF Settled
<1>6. CASE NextCommit(e)
  <2>1. PICK c \in Cores, k \in Jobs : Starts(e, c, k)
    BY <1>6, CommitEffect
  <2>2. /\ UNCHANGED <<cur, pc, local, irq>> /\ nx[e].at # "none"
        /\ \A f \in Executors \ {e} : nx'[f] = nx[f]
        /\ job'[k].committed = TRUE /\ job'[k].int_mask = job[k].int_mask \cup {c}
        /\ \A i \in Jobs \ {k} : job'[i] = job[i]
        /\ \A i \in Jobs : SameFate(i)
        /\ \A d \in Cores \ {c} : hw'[d] = hw[d] /\ line'[d] = line[d]
        /\ cur[c] = k /\ line[c] # "ok" /\ hw'[c].job = k /\ line'[c] = "none"
    BY <2>1 DEF Starts
  <2>3. \A i \in Jobs : Advances(i)
    <3>1. ~Failed(k)
      <4>1. JobSettled(k) /\ JobOrderly(k)
        BY SettledFacts
      <4>2. ~Gone(k)
        BY <2>2 DEF Gone, At
      <4>3. QED
        BY <4>1, <4>2 DEF JobSettled, JobOrderly
    <3>2. Advances(k)
      BY <2>2, <3>1 DEF SameFate, Advances, Steady
    <3>3. \A i \in Jobs \ {k} : Advances(i)
      BY <2>2 DEF Advances, Steady
    <3>4. QED
      BY <3>2, <3>3
  <2>4. \A d \in Cores : irq[d].at # "idle" => nx'[d].at = "none"
    BY <2>2, CallerIsIdle
  <2>5. \A d \in Cores \ {c} : CoreSettled(d)'
    <3> SUFFICES ASSUME NEW d \in Cores \ {c} PROVE CoreSettled(d)'
      OBVIOUS
    <3>1. \A i \in Jobs : d \in job'[i].int_mask <=> d \in job[i].int_mask
      BY <2>2
    <3>2. CoreKept(d)
      BY <2>2, <2>4, <3>1, OwnInterrupt DEF CoreKept
    <3>3. QED
      BY <3>2, CoreStaysSettled
  <2>6. CoreSettled(c)'
    <3>1. CoreSettled(c) /\ (irq[c].at = "complete" => irq[c].job \in Jobs)
      BY OwnInterrupt DEF HandlerFits
    <3>2. irq[c].at = "complete" => c \in job'[irq[c].job].int_mask
      BY <2>2, <3>1 DEF CoreSettled
    <3>3. QED
      BY <2>2, <2>4, <3>1, <3>2, JobAssumption DEF CoreSettled
  <2>7. QED
    BY <1>1, <2>3, <2>5, <2>6, AdvanceSettles DEF Settled
<1>7. QED
  BY <1>3, <1>4, <1>5, <1>6 DEF NextCall, Passes

(* No interrupt comes for no job.                                          *)
LEMMA NothingStrays ==
    ASSUME Untroubled, ExactInv, Settled, NEW c \in Cores
    PROVE  ~IrqStray(c) /\ ~HwBadIrq(c)
BY OwnInterrupt, UntroubledFaults DEF IrqStray, CoreSettled, HwBadIrq

(* Interrupt handlers and the hardware.                                    *)
LEMMA HandlerSettles ==
    ASSUME Untroubled, ExactInv, Settled, NEW c \in Cores, Handler(c) \/ HwFinish(c)
    PROVE  Settled'
<1>1. (\A i \in Jobs : JobSettled(i)) /\ CoreSettled(c) /\ c \in Executors
  BY OwnInterrupt DEF Settled
<1>2. ASSUME UNCHANGED <<pc, local>>, \A i \in Jobs : SameJob(i) PROVE \A i \in Jobs : JobSettled(i)'
  <2>1. \A i \in Jobs : Advances(i)
    BY <1>2 DEF SameJob, SameFate, Advances, Steady
  <2>2. QED
    BY <1>1, <2>1, AdvanceSettles
<1>3. ASSUME \A f \in Executors \ {c} : nx'[f] = nx[f], NEW d \in Cores \ {c}, irq[d].at # "idle"
      PROVE  nx'[d].at = "none"
  BY <1>3, OwnInterrupt DEF CoreSettled
<1>4. CASE Works(c)
  <2>1. /\ UNCHANGED <<cur, pc, local, nx>> /\ CoreSettled(c)'
        /\ \A i \in Jobs : SameJob(i) /\ job'[i].int_mask = job[i].int_mask
        /\ \A d \in Cores \ {c} : irq'[d] = irq[d] /\ hw'[d] = hw[d] /\ line'[d] = line[d]
    BY <1>4, WorkEffect DEF SameJob
  <2>2. \A d \in Cores \ {c} : CoreSettled(d)'
    BY <1>3, <2>1, CoreSettledStays
  <2>3. QED
    BY <1>2, <2>1, <2>2 DEF Settled
<1>5. CASE IrqFinish(c)
  <2>1. PICK k \in Jobs : Frees(c, k)
    BY <1>5, FinishEffect
  <2>2. /\ UNCHANGED <<job, pc, local, nx, hw, line>> /\ \A i \in Jobs : SameJob(i)
        /\ irq[c].at = "finish" /\ irq'[c].at = "complete" /\ irq'[c].job = k /\ cur'[c] = NoJob
        /\ c \in job[k].int_mask
        /\ \A d \in Cores \ {c} : cur'[d] = cur[d] /\ irq'[d] = irq[d]
    BY <2>1 DEF Frees
  <2>3. \A d \in Cores \ {c} : CoreSettled(d)'
    BY <1>3, <2>2, CoreSettledStays
  <2>4. CoreSettled(c)'
    BY <1>1, <2>2 DEF CoreSettled
  <2>5. QED
    BY <1>2, <2>2, <2>3, <2>4 DEF Settled
<1>6. CASE IrqComplete(c)
  <2>1. PICK k \in Jobs : Completes(c, k)
    BY <1>6, CompleteEffect
  <2>2. /\ UNCHANGED <<cur, pc, local, hw, line>> /\ irq[c].at = "complete" /\ irq[c].job = k
        /\ c \in job[k].int_mask /\ job[k].done = FALSE
        /\ job'[k].mask = job[k].mask /\ job'[k].nonblock = job[k].nonblock
        /\ job'[k].ret = job[k].ret /\ job'[k].fence = job[k].fence
        /\ job'[k].life = job[k].life /\ job'[k].committed = job[k].committed
        /\ job'[k].int_mask = job[k].int_mask /\ job'[k].done = LastToFinish(k)
        /\ \A i \in Jobs \ {k} : job'[i] = job[i]
        /\ irq'[c].at \in {"idle", "signal"} /\ (irq'[c].at = "signal" => nx'[c].at = "none")
        /\ \A d \in Cores \ {c} : irq'[d] = irq[d]
        /\ \A f \in Executors \ {c} : nx'[f] = nx[f]
    BY <2>1 DEF Completes
  <2>3. pc[k] # "new" /\ job[k].committed = TRUE
    <3>1. ~Unknown(k)
      BY <2>2 DEF Unknown
    <3>2. QED
      BY <1>1, <2>2, <3>1, ExactFacts, KnownIsSubmitted DEF JobSettled
  <2>4. LastToFinish(k) \in BOOLEAN
    BY DEF LastToFinish
  <2>5. Advances(k)
    BY ZenonT(40), <2>2, <2>3, <2>4 DEF Advances, Steady
  <2>6. \A i \in Jobs \ {k} : Advances(i)
    BY <2>2 DEF Advances, Steady
  <2>7. \A i \in Jobs : JobSettled(i)'
    BY <1>1, <2>5, <2>6, AdvanceSettles
  <2>8. \A i \in Jobs : job'[i].int_mask = job[i].int_mask
    BY <2>2
  <2>9. \A d \in Cores \ {c} : CoreSettled(d)'
    BY <1>3, <2>2, <2>8, CoreSettledStays
  <2>10. cur'[c] # NoJob /\ c \in job'[cur'[c]].int_mask => hw'[c].job # NoJob \/ line'[c] = "ok"
    BY <1>1, <2>2, <2>8, OwnInterrupt DEF CoreSettled
  <2>11. CoreSettled(c)'
    BY <1>1, <2>2, <2>10 DEF CoreSettled
  <2>12. QED
    BY <2>7, <2>9, <2>11 DEF Settled
<1>7. CASE IrqSignal(c)
  <2>1. PICK k \in Jobs : Signals(c, k)
    BY <1>7, SignalEffect
  <2>2. /\ UNCHANGED <<cur, local, hw, line>> /\ irq[c].at = "signal"
        /\ pc[k] # "new" /\ job'[k].ret = "0"
        /\ job'[k].fence = IF job[k].fence = "none" THEN "none" ELSE "signaled"
        /\ job'[k].mask = job[k].mask /\ job'[k].nonblock = job[k].nonblock
        /\ job'[k].done = job[k].done /\ job'[k].life = job[k].life
        /\ job'[k].committed = job[k].committed /\ job'[k].int_mask = job[k].int_mask
        /\ \A i \in Jobs \ {k} : job'[i] = job[i]
        /\ \A i \in Jobs : Steady(i)
        /\ irq'[c].at = "idle" /\ \A d \in Cores \ {c} : irq'[d] = irq[d]
        /\ \A f \in Executors \ {c} : nx'[f] = nx[f]
    BY <2>1 DEF Signals
  <2>3. Advances(k)
    BY <2>2 DEF Advances
  <2>4. \A i \in Jobs \ {k} : Advances(i)
    BY <2>2 DEF Advances
  <2>5. \A i \in Jobs : JobSettled(i)'
    BY <1>1, <2>3, <2>4, AdvanceSettles
  <2>6. \A i \in Jobs : job'[i].int_mask = job[i].int_mask
    BY <2>2
  <2>7. \A d \in Cores \ {c} : CoreSettled(d)'
    BY <1>3, <2>2, <2>6, CoreSettledStays
  <2>8. cur'[c] # NoJob /\ c \in job'[cur'[c]].int_mask => hw'[c].job # NoJob \/ line'[c] = "ok"
    BY <1>1, <2>2, <2>6, OwnInterrupt DEF CoreSettled
  <2>9. CoreSettled(c)'
    BY <1>1, <2>2, <2>8 DEF CoreSettled
  <2>10. QED
    BY <2>5, <2>7, <2>9 DEF Settled
<1>8. CASE HwFinish(c)
  <2>1. /\ line'[c] = "ok" /\ UNCHANGED <<job, cur, pc, local, irq, nx>>
        /\ \A d \in Cores \ {c} : hw'[d] = hw[d] /\ line'[d] = line[d]
    BY <1>8, HwFinishEffect
  <2>2. \A i \in Jobs : SameJob(i)
    BY <2>1 DEF SameJob, SameFate
  <2>3. \A d \in Cores \ {c} : CoreSettled(d)'
    BY <1>3, <2>1, CoreSettledStays
  <2>4. CoreSettled(c)'
    BY <1>1, <2>1 DEF CoreSettled
  <2>5. QED
    BY <1>2, <2>1, <2>2, <2>3, <2>4 DEF Settled
<1>9. QED
  BY <1>4, <1>5, <1>6, <1>7, <1>8, NothingStrays DEF Handler, Works

(* A step of a thread or of the worker keeps jobs and cores settled.       *)
LEMMA ThreadStepSettles ==
    ASSUME Untroubled, ExactInv, Settled, NEW j \in Jobs, ThreadStep(j) PROVE Settled'
<1>1. \A i \in Jobs : JobSettled(i)'
  BY ThreadSettles DEF ThreadStep
<1>2. /\ UNCHANGED <<cur, irq, hw, line>> /\ \A c \in Cores : nx'[c] = nx[c]
      /\ \A i \in Jobs : job'[i].int_mask = job[i].int_mask
  BY ThreadLeavesCores
<1>3. \A c \in Cores : irq[c].at # "idle" => nx'[c].at = "none"
  BY <1>2, OwnInterrupt DEF CoreSettled
<1>4. \A c \in Cores : CoreSettled(c)'
  BY <1>2, <1>3, CoreSettledStays
<1>5. QED
  BY <1>1, <1>4 DEF Settled

(* Every step does.                                                        *)
LEMMA SettledStep == ASSUME Untroubled, ExactInv, Settled, [Next]_vars PROVE Settled'
<1>1. ASSUME NEW j \in Jobs, ThreadStep(j) PROVE Settled'
  BY <1>1, ThreadStepSettles
<1>2. ASSUME NEW e \in Executors, NextCall(e) PROVE Settled'
  BY <1>2, CallSettles
<1>3. ASSUME NEW c \in Cores, Handler(c) \/ HwFinish(c) PROVE Settled'
  BY <1>3, HandlerSettles
<1>4. CASE UNCHANGED vars
  <2>1. UNCHANGED <<job, cur, pc, local, irq, nx, hw, line>>
    BY <1>4 DEF vars, coreVars, hwVars
  <2>2. \A c \in Cores : CoreSettled(c)'
    BY <2>1 DEF Settled, CoreSettled
  <2>3. \A i \in Jobs : JobSettled(i)'
    BY <2>1 DEF Settled, JobSettled, Queued, Failed
  <2>4. QED
    BY <2>2, <2>3 DEF Settled
<1>5. QED
  BY <1>1, <1>2, <1>3, <1>4, NothingStrays DEF Next, ThreadStep

(* The counts of a job, and the calls that start it.                       *)
SameCounts(i) ==
    /\ Queued(i)' => Queued(i)
    /\ job'[i].mask = job[i].mask /\ job'[i].run_count = job[i].run_count
    /\ job'[i].int_mask = job[i].int_mask /\ job'[i].done = job[i].done
    /\ job'[i].interrupt_count = job[i].interrupt_count
    /\ Reaching(i)' = Reaching(i) /\ Unfinished(i)' = Unfinished(i)

(* The calls that start i go on.                                           *)
KeepsStarting(i) ==
    \A e \in Executors, c \in Cores : Starting(e, i, c) => Starting(e, i, c)'

(* A step that changes neither counter, nor what they count, keeps them    *)
(* exact.                                                                  *)
LEMMA CountsStay ==
    ASSUME NEW i \in Jobs, JobCounted(i), SameCounts(i), KeepsStarting(i),
           job[i].mask \subseteq Cores
    PROVE  JobCounted(i)'
<1> SUFFICES ASSUME Queued(i)'
             PROVE  /\ job'[i].run_count = Cardinality(Reaching(i)')
                    /\ job'[i].run_count = 0 => \A c \in job'[i].mask :
                          c \in job'[i].int_mask \/ \E e \in Executors : Starting(e, i, c)'
                    /\ job'[i].done = FALSE =>
                          /\ job'[i].interrupt_count = Cardinality(Unfinished(i)')
                          /\ Unfinished(i)' # {}
  BY DEF JobCounted
<1>1. /\ job[i].run_count = Cardinality(Reaching(i))
      /\ job[i].run_count = 0 => \A c \in job[i].mask :
            c \in job[i].int_mask \/ \E e \in Executors : Starting(e, i, c)
      /\ job[i].done = FALSE =>
            job[i].interrupt_count = Cardinality(Unfinished(i)) /\ Unfinished(i) # {}
  BY DEF JobCounted, SameCounts
<1>2. \A c \in job[i].mask :
          (\E e \in Executors : Starting(e, i, c)) => \E e \in Executors : Starting(e, i, c)'
  BY DEF KeepsStarting
<1>3. QED
  BY <1>1, <1>2 DEF SameCounts

(* Steps that leave the calls alone keep those that start a job.           *)
LEMMA CallsKeepStarting == ASSUME SameCalls, NEW i \in Jobs PROVE KeepsStarting(i)
BY DEF SameCalls, KeepsStarting, Starting

(* A job whose thread goes on stays queued.                                *)
LEMMA SteadyQueued ==
    ASSUME NEW i \in Jobs, Steady(i) PROVE Queued(i)' <=> Queued(i)
BY DEF Steady, Queued, Failed, Early

(* The private steps of a thread come before or after the queues.          *)
LEMMA PrivateQueued ==
    ASSUME Untroubled, ExactInv, Settled, NEW j \in Jobs, Private(j)
    PROVE  /\ Queued(j)' <=> Queued(j)
           /\ pc[j] \notin {"enqueue", "kick"} /\ pc'[j] \notin {"enqueue", "kick"}
<1>1. /\ JobSettled(j) /\ JobOrderly(j) /\ soft_reseting = FALSE
      /\ pc \in [Jobs -> Labels] /\ local \in [Jobs -> LocalType]
      /\ job \in [Jobs -> JobType] /\ job[j] \in JobType /\ local[j] \in LocalType
  BY SettledFacts
<1>2. "timeout" \notin Faults /\ "overtime" \notin Faults /\ "fence_in" \notin Faults
  BY DEF Untroubled
<1>3. pc[j] # "ret" => ~Failed(j)
  BY <1>1 DEF JobSettled
<1>4. CASE FenceIn(j)
  <2>1. pc[j] = "fence_in" /\ pc'[j] \in {"fence_out", "clean", "sched"}
    BY <1>1, <1>2, <1>4 DEF FenceIn, Goto, AfterFences
  <2>2. QED
    BY <2>1 DEF Queued, Early
<1>5. CASE FenceOut(j)
  <2>1. pc[j] = "fence_out"
    BY <1>5 DEF FenceOut
  <2>2. CASE SubmitFails(j, "ENOMEM")
    <3>1. pc'[j] = "ret" /\ local'[j].ret = "ENOMEM"
      BY <1>1, <2>2 DEF SubmitFails, Goto, NewLocal
    <3>2. QED
      BY <2>1, <3>1 DEF Queued, Failed, Early
  <2>3. CASE ~SubmitFails(j, "ENOMEM")
    <3>1. pc'[j] \in {"clean", "sched"}
      BY <1>1, <1>5, <2>3 DEF FenceOut, Goto, AfterFences
    <3>2. QED
      BY <2>1, <3>1 DEF Queued, Early
  <2>4. QED
    BY <2>2, <2>3
<1>6. CASE Clean(j)
  <2>1. pc[j] = "clean" /\ pc'[j] \in {"clean", "sched"}
    BY <1>1, <1>2, <1>6 DEF Clean, Goto
  <2>2. QED
    BY <2>1 DEF Queued, Early
<1>7. CASE Scheduled(j) \/ WaitCheck(j) \/ Waited(j) \/ Decide(j) \/ FreeJob(j)
  <2>1. /\ pc[j] \in {"scheduled", "wait", "waited", "decide", "free"}
        /\ pc'[j] \in {"ret", "abort", "wait", "asleep", "waited", "decide", "unlink", "free"}
    BY <1>1, <1>7 DEF Scheduled, WaitCheck, WaitRound, Waited, Decide, FreeJob, Goto
  <2>2. ~Failed(j)'
    <3>1. CASE Scheduled(j)
      <4>1. job[j].ret = "0" /\ (local'[j].ret = job[j].ret \/ local' = local)
        BY <1>1, <3>1 DEF Scheduled, NewLocal, JobSettled
      <4>2. QED
        BY <1>3, <2>1, <4>1 DEF Failed
    <3>2. CASE Decide(j)
      <4>1. job[j].ret = "0" /\ local'[j].ret = job[j].ret
        BY <1>1, <3>2 DEF Decide, NewLocal, JobSettled
      <4>2. QED
        BY <4>1 DEF Failed
    <3>3. CASE WaitCheck(j)
      <4>1. local'[j].ret = local[j].ret
        BY <1>1, <3>3 DEF WaitCheck, WaitRound, LocalType
      <4>2. QED
        BY <1>3, <2>1, <4>1 DEF Failed
    <3>4. CASE Waited(j) \/ FreeJob(j)
      <4>1. local' = local
        BY <3>4 DEF Waited, FreeJob
      <4>2. QED
        BY <1>3, <2>1, <4>1 DEF Failed
    <3>5. QED
      BY <1>7, <3>1, <3>2, <3>3, <3>4
  <2>3. QED
    BY <1>3, <2>1, <2>2 DEF Queued, Early
<1>8. CASE WaitTimeout(j) \/ Abort(j) \/ AbortCleared(j)
  BY <1>1, <1>2, <1>8 DEF WaitTimeout, Abort, AbortCleared, JobSettled
<1>9. QED
  BY <1>4, <1>5, <1>6, <1>7, <1>8 DEF Private

(* A job that joins the queues is to be reached and finished by every core *)
(* of its mask; the others are where they were.                            *)
LEMMA EnqueuePlaces ==
    ASSUME ExactInv, Settled, IInv', NEW j \in Jobs, Enqueue(j)
    PROVE  /\ Gone(j) /\ Reaching(j)' = job[j].mask /\ Unfinished(j)' = job[j].mask
           /\ \A i \in Jobs \ {j} : /\ SameAt(i) /\ Reaching(i)' = Reaching(i)
                                    /\ Unfinished(i)' = Unfinished(i)
<1>1. pc[j] = "enqueue" /\ UNCHANGED <<cur, irq, nx>>
  BY DEF Enqueue
<1>2. Unknown(j) /\ Gone(j) /\ job[j].mask \subseteq Cores
  BY <1>1, ExactFacts, OrderFacts DEF Unqueued, JobType
<1>3. \A i \in Jobs, c \in Cores : At(i, c)' <=> At(i, c) \/ (i = j /\ c \in job[j].mask)
  BY ExactFacts, EnqueueAt
<1>4. \A c \in Cores : At(j, c)' <=> c \in job[j].mask
  BY <1>2, <1>3 DEF Gone
<1>5. \A c \in Cores : cur[c] # j /\ irq[c].job # j
  BY <1>2 DEF Unknown
<1>6. \A e \in Executors : nx[e].job # j
  BY <1>2 DEF Unknown
<1>7. Unfinished(j)' = job[j].mask
  BY <1>1, <1>2, <1>4, <1>5 DEF Unfinished
<1>8. Reaching(j)' = job[j].mask
  <2>1. \A c \in Cores : Waiting(j, c)' <=> c \in job[j].mask
    BY <1>1, <1>4, <1>5 DEF At
  <2>2. \A c \in Cores, e \in Executors : ~Counting(e, j, c)'
    BY <1>1, <1>6 DEF Counting
  <2>3. QED
    BY <1>2, <2>1, <2>2 DEF Reaching
<1>9. \A i \in Jobs \ {j} : SameAt(i) /\ Unfinished(i)' = Unfinished(i)
  BY <1>1, <1>3 DEF SameAt, Unfinished
<1>10. Once /\ Once'
  BY ExactFacts DEF IInv
<1>11. \A i \in Jobs \ {j} : Reaching(i)' = Reaching(i)
  <2> SUFFICES ASSUME NEW i \in Jobs \ {j}, NEW c \in Cores
               PROVE  /\ Waiting(i, c)' <=> Waiting(i, c)
                      /\ \A e \in Executors : Counting(e, i, c)' <=> Counting(e, i, c)
    BY DEF Reaching
  <2>1. Waiting(i, c)' <=> At(i, c)' /\ cur'[c] # i
    BY <1>10 DEF At, Once, Waiting
  <2>2. Waiting(i, c) <=> At(i, c) /\ cur[c] # i
    BY <1>10 DEF At, Once, Waiting
  <2>3. \A e \in Executors : Counting(e, i, c)' <=> Counting(e, i, c)
    BY <1>1 DEF Counting
  <2>4. QED
    BY <1>1, <1>3, <2>1, <2>2, <2>3
<1>12. QED
  BY <1>2, <1>7, <1>8, <1>9, <1>11

(* What the steps of threads leave of a job.                               *)
LEMMA ThreadCounts ==
    ASSUME Untroubled, ExactInv, Settled, IInv', NEW j \in Jobs, ThreadStep(j),
           NEW i \in Jobs, JobCounted(i)
    PROVE  JobCounted(i)'
<1>1. /\ job \in [Jobs -> JobType] /\ job[i].mask \subseteq Cores /\ nx \in [Executors -> NextType]
      /\ JobSettled(i)
  BY SettledFacts, ExactFacts DEF JobType, IInv, TypeOK
<1>2. ASSUME UNCHANGED <<cur, todo, irq>>, SameCalls, Queued(i)' => Queued(i), SameProgress(i)
      PROVE  JobCounted(i)'
  <2>1. SameAt(i) /\ Reaching(i)' = Reaching(i)
    BY <1>2, SamePlaces
  <2>2. Unfinished(i)' = Unfinished(i)
    BY <1>2, <2>1 DEF Unfinished, SameAt
  <2>3. SameCounts(i) /\ KeepsStarting(i)
    BY <1>2, <2>1, <2>2, CallsKeepStarting DEF SameCounts, SameProgress
  <2>4. QED
    BY <1>1, <2>3, CountsStay
<1>3. ASSUME UNCHANGED <<cur, todo, irq, nx>>, Untouched(i) PROVE JobCounted(i)'
  <2>1. SameCalls /\ SameProgress(i) /\ (Queued(i)' => Queued(i))
    BY <1>3 DEF SameCalls, SameProgress, Untouched, Queued, Failed, Early
  <2>2. QED
    BY <1>2, <1>3, <2>1
<1>4. CASE Private(j)
  <2>1. /\ UNCHANGED <<cur, todo, irq, nx>> /\ SameProgress(i)
        /\ \A k \in Jobs \ {j} : Untouched(k)
    BY <1>4, ExactFacts, PrivateFrame
  <2>2. CASE i = j
    BY <1>2, <1>4, <2>1, <2>2, PrivateQueued DEF SameCalls
  <2>3. QED
    BY <1>3, <2>1, <2>2
<1>5. CASE Schedule(j) \/ \E a \in Requests : Submit(j, a)
  <2>1. /\ UNCHANGED <<cur, todo, irq, nx>> /\ pc'[j] \in Early
        /\ \A k \in Jobs \ {j} : Untouched(k)
    BY <1>5, ScheduleEffect, SubmitEffect DEF Early
  <2>2. JobCounted(j)'
    BY <2>1 DEF JobCounted, Queued
  <2>3. QED
    BY <1>3, <2>1, <2>2
<1>6. CASE Enqueue(j)
  <2>1. /\ pc[j] = "enqueue" /\ UNCHANGED <<job, cur, irq, nx>>
        /\ \A k \in Jobs \ {j} : Untouched(k)
    BY <1>6, KickEffect DEF Enqueue
  <2>2. /\ Reaching(j)' = job[j].mask /\ Unfinished(j)' = job[j].mask
        /\ \A k \in Jobs \ {j} : Reaching(k)' = Reaching(k) /\ Unfinished(k)' = Unfinished(k)
    BY <1>6, EnqueuePlaces
  <2>3. CASE i = j
    <3>1. /\ job[j].mask # {} /\ job[j].run_count = Cardinality(job[j].mask)
          /\ job[j].interrupt_count = Cardinality(job[j].mask)
      BY <2>1, SettledFacts, ExactFacts DEF JobSettled, JobOrderly, Started, Early
    <3>2. job[j].run_count # 0
      BY <1>1, <2>3, <3>1, MaskSize, FS_EmptySet
    <3>3. QED
      BY <2>1, <2>2, <2>3, <3>1, <3>2 DEF JobCounted
  <2>4. CASE i # j
    <3>1. SameCounts(i) /\ KeepsStarting(i)
      BY <2>1, <2>2, <2>4
         DEF SameCounts, KeepsStarting, Starting, Untouched, Queued, Failed, Early
    <3>2. QED
      BY <1>1, <3>1, CountsStay
  <2>5. QED
    BY <2>3, <2>4
<1>7. CASE Kick(j)
  <2>1. /\ pc[j] = "kick" /\ UNCHANGED <<job, cur, todo, irq>>
        /\ pc'[j] \in {"kick", "scheduled"} /\ local'[j].ret = local[j].ret
        /\ \A k \in Jobs \ {j} : Untouched(k)
    BY <1>7, KickEffect DEF Kick, coreVars
  <2>2. SameCalls
    BY <1>1, <1>7 DEF Kick, CallNext, SameCalls, Executors
  <2>3. Queued(i)' => Queued(i)
    BY <2>1 DEF Untouched, Queued, Failed, Early
  <2>4. SameProgress(i)
    BY <2>1 DEF SameProgress
  <2>5. QED
    BY <1>2, <2>1, <2>2, <2>3, <2>4
<1>8. CASE CleanupWork(j)
  <2>1. /\ job' = [job EXCEPT ![j].life = "freed"] /\ UNCHANGED <<cur, todo, irq, nx, pc, local>>
    BY <1>8 DEF CleanupWork, coreVars
  <2>2. SameProgress(i) /\ SameCalls /\ (Queued(i)' => Queued(i))
    BY <1>1, <2>1 DEF JobType, SameProgress, SameCalls, Queued, Failed
  <2>3. QED
    BY <1>2, <2>1, <2>2
<1>9. QED
  BY <1>4, <1>5, <1>6, <1>7, <1>8, OwnThread DEF ThreadStep

(* A call of rknpu_job_next keeps the counters exact: it takes the job     *)
(* from the queue, counts the core, and the one that counts the last core  *)
(* starts the job on all of them.                                          *)
LEMMA CallCounts ==
    ASSUME ExactInv, Settled, NEW e \in Executors, NextCall(e), NEW i \in Jobs, JobCounted(i)
    PROVE  JobCounted(i)'
<1>1. job[i].mask \subseteq Cores /\ JobSettled(i) /\ job[i] \in JobType
  BY SettledFacts DEF JobType
<1>2. CASE Passes(e)
  <2>1. UNCHANGED <<job, cur, todo, pc, local, irq>> /\ SameCalls
    BY <1>2, PassEffect
  <2>2. SameAt(i) /\ Reaching(i)' = Reaching(i)
    BY <2>1, SamePlaces
  <2>3. SameCounts(i) /\ KeepsStarting(i)
    BY <2>1, <2>2, CallsKeepStarting DEF SameCounts, SameAt, Unfinished, Queued, Failed
  <2>4. QED
    BY <1>1, <2>3, CountsStay
<1>3. CASE NextPop(e) /\ ~Passes(e)
  <2>1. PICK c \in Cores, k \in Jobs : Pops(e, c, k)
    BY <1>3, PopEffect DEF Passes
  <2>2. /\ UNCHANGED <<pc, local>> /\ SameJob(i) /\ nx[e].at = "pop"
        /\ Reaching(i)' = Reaching(i) /\ Unfinished(i)' = Unfinished(i)
        /\ \A f \in Executors \ {e} : nx'[f] = nx[f]
    BY <2>1 DEF Pops
  <2>3. SameCounts(i)
    BY <2>2 DEF SameCounts, SameJob, SameFate, Queued, Failed
  <2>4. KeepsStarting(i)
    BY <2>2 DEF KeepsStarting, Starting
  <2>5. QED
    BY <1>1, <2>3, <2>4, CountsStay
<1>4. CASE NextDec(e)
  <2>1. PICK c \in Cores, k \in Jobs : Counts(e, c, k)
    BY <1>4, DecEffect
  <2>2. /\ UNCHANGED <<pc, local>> /\ nx[e].at = "dec" /\ SameFate(i)
        /\ job'[i].int_mask = job[i].int_mask /\ Unfinished(i)' = Unfinished(i)
        /\ \A f \in Executors \ {e} : nx'[f] = nx[f]
    BY <2>1 DEF Counts
  <2>3. Queued(i)' <=> Queued(i)
    BY <2>2 DEF Queued, Failed
  <2>4. CASE i = k
    <3>1. /\ job'[k].run_count = job[k].run_count - 1
          /\ c \in Reaching(k) /\ Reaching(k)' = Reaching(k) \ {c}
          /\ job[k].run_count = 1 /\ job[k].mask # {} =>
                nx'[e].at = "commit" /\ nx'[e].job = k /\ nx'[e].left = job[k].mask
      BY <2>1 DEF Counts
    <3>2. SUFFICES ASSUME Queued(k)' PROVE JobCounted(k)'
      BY <2>4 DEF JobCounted
    <3>3. /\ job[k].run_count = Cardinality(Reaching(k))
          /\ job[k].done = FALSE =>
                job[k].interrupt_count = Cardinality(Unfinished(k)) /\ Unfinished(k) # {}
      BY <2>3, <2>4, <3>2 DEF JobCounted
    <3>4. Cardinality(Reaching(k)') = Cardinality(Reaching(k)) - 1
      <4>1. Reaching(k) \in SUBSET Cores
        BY DEF Reaching
      <4>2. IsFiniteSet(Reaching(k))
        BY <4>1, MaskSize
      <4>3. QED
        BY <3>1, <4>2, FS_RemoveElement
    <3>5. job'[k].run_count = Cardinality(Reaching(k)')
      BY <3>1, <3>3, <3>4
    <3>6. job'[k].run_count = 0 => \A d \in job'[k].mask : Starting(e, k, d)'
      <4>1. job[k].run_count \in Int
        BY <1>1, <2>4 DEF JobType
      <4>2. job'[k].run_count = 0 => job[k].run_count = 1
        BY <3>1, <4>1
      <4>3. job'[k].mask = job[k].mask
        BY <2>2, <2>4 DEF SameFate
      <4>4. QED
        BY <3>1, <4>2, <4>3 DEF Starting
    <3>7. QED
      BY <2>2, <2>4, <3>3, <3>5, <3>6 DEF JobCounted, SameFate
  <2>5. CASE i # k
    <3>1. job'[i] = job[i] /\ Reaching(i)' = Reaching(i)
      BY <2>1, <2>5 DEF Counts
    <3>2. SameCounts(i) /\ KeepsStarting(i)
      BY <2>2, <2>3, <3>1 DEF SameCounts, KeepsStarting, Starting
    <3>3. QED
      BY <1>1, <3>2, CountsStay
  <2>6. QED
    BY <2>4, <2>5
<1>5. CASE NextCommit(e)
  <2>1. PICK c \in Cores, k \in Jobs : Starts(e, c, k)
    BY <1>5, CommitEffect
  <2>2. /\ UNCHANGED <<pc, local>> /\ nx[e].at = "commit" /\ nx[e].job = k
        /\ SameFate(i) /\ job'[i].run_count = job[i].run_count
        /\ Unfinished(i)' = Unfinished(i) /\ Reaching(i)' = Reaching(i)
        /\ \A f \in Executors \ {e} : nx'[f] = nx[f]
    BY <2>1 DEF Starts
  <2>3. Queued(i)' <=> Queued(i)
    BY <2>2 DEF Queued, Failed
  <2>4. CASE i = k
    <3>1. /\ job'[k].int_mask = job[k].int_mask \cup {c}
          /\ nx[e].left # {c} =>
                nx'[e].at = "commit" /\ nx'[e].job = k /\ nx'[e].left = nx[e].left \ {c}
      BY <2>1 DEF Starts
    <3>2. \A d \in Cores, f \in Executors : Starting(f, k, d) => Starting(f, k, d)' \/ d = c
      <4> SUFFICES ASSUME NEW d \in Cores, NEW f \in Executors, Starting(f, k, d), d # c
                   PROVE  Starting(f, k, d)'
        OBVIOUS
      <4>1. CASE f = e
        BY <3>1, <4>1 DEF Starting
      <4>2. CASE f # e
        BY <2>2, <4>2 DEF Starting
      <4>3. QED
        BY <4>1, <4>2
    <3>3. SUFFICES ASSUME Queued(k)' PROVE JobCounted(k)'
      BY <2>4 DEF JobCounted
    <3>4. /\ job[k].run_count = Cardinality(Reaching(k))
          /\ job[k].run_count = 0 => \A d \in job[k].mask :
                d \in job[k].int_mask \/ \E f \in Executors : Starting(f, k, d)
          /\ job[k].done = FALSE =>
                job[k].interrupt_count = Cardinality(Unfinished(k)) /\ Unfinished(k) # {}
      BY <2>3, <2>4, <3>3 DEF JobCounted
    <3>5. job[k].run_count = 0 => \A d \in job[k].mask :
                d \in job'[k].int_mask \/ \E f \in Executors : Starting(f, k, d)'
      BY <1>1, <2>4, <3>1, <3>2, <3>4
    <3>6. QED
      BY <2>2, <2>4, <3>4, <3>5 DEF JobCounted, SameFate
  <2>5. CASE i # k
    <3>1. job'[i] = job[i]
      BY <2>1, <2>5 DEF Starts
    <3>2. SameCounts(i)
      BY <2>2, <2>3, <3>1 DEF SameCounts
    <3>3. KeepsStarting(i)
      BY <2>2, <2>5 DEF KeepsStarting, Starting
    <3>4. QED
      BY <1>1, <3>2, <3>3, CountsStay
  <2>6. QED
    BY <2>4, <2>5
<1>6. QED
  BY <1>2, <1>3, <1>4, <1>5 DEF NextCall, Passes

(* A handler keeps the counters exact: interrupt_count goes down when the  *)
(* core has finished the job.                                              *)
LEMMA HandlerCounts ==
    ASSUME Untroubled, ExactInv, Settled, NEW c \in Cores, Handler(c) \/ HwFinish(c),
           NEW i \in Jobs, JobCounted(i)
    PROVE  JobCounted(i)'
<1>1. job[i].mask \subseteq Cores /\ JobSettled(i) /\ job[i] \in JobType
  BY SettledFacts DEF JobType
<1>2. CASE Works(c) \/ HwFinish(c)
  <2>1. /\ UNCHANGED <<cur, todo, pc, local, nx>> /\ SameJob(i)
        /\ \A d \in Cores : irq'[d] = irq[d] \/ "complete" \notin {irq[d].at, irq'[d].at}
    BY <1>2, WorkEffect, HwFinishEffect DEF SameJob, SameFate
  <2>2. SameAt(i) /\ Reaching(i)' = Reaching(i)
    BY <2>1, SamePlaces DEF SameCalls
  <2>3. Unfinished(i)' = Unfinished(i)
    BY <2>1, <2>2 DEF Unfinished, SameAt
  <2>4. SameCounts(i) /\ KeepsStarting(i)
    BY <2>1, <2>2, <2>3
       DEF SameCounts, SameJob, SameFate, Queued, Failed, KeepsStarting, Starting
  <2>5. QED
    BY <1>1, <2>4, CountsStay
<1>3. CASE IrqFinish(c)
  <2>1. PICK k \in Jobs : Frees(c, k)
    BY <1>3, FinishEffect
  <2>2. /\ UNCHANGED <<pc, local>> /\ SameJob(i) /\ SameCalls
        /\ Unfinished(i)' = Unfinished(i) /\ Reaching(i)' = Reaching(i)
    BY <2>1 DEF Frees
  <2>3. SameCounts(i) /\ KeepsStarting(i)
    BY <2>2, CallsKeepStarting DEF SameCounts, SameJob, SameFate, Queued, Failed
  <2>4. QED
    BY <1>1, <2>3, CountsStay
<1>4. CASE IrqComplete(c)
  <2>1. PICK k \in Jobs : Completes(c, k)
    BY <1>4, CompleteEffect
  <2>2. /\ UNCHANGED <<pc, local>> /\ SameCalls /\ Reaching(i)' = Reaching(i)
        /\ \A j \in Jobs \ {k} : job'[j] = job[j] /\ Unfinished(j)' = Unfinished(j)
        /\ job'[k].interrupt_count = job[k].interrupt_count - 1
        /\ job'[k].done = LastToFinish(k) /\ job[k].done = FALSE
        /\ job'[k].mask = job[k].mask /\ job'[k].run_count = job[k].run_count
        /\ job'[k].int_mask = job[k].int_mask
        /\ c \in Unfinished(k) /\ Unfinished(k)' = Unfinished(k) \ {c}
    BY <2>1 DEF Completes
  <2>3. Queued(i)' <=> Queued(i)
    BY <2>2 DEF Queued, Failed
  <2>4. KeepsStarting(i)
    BY <2>2, CallsKeepStarting
  <2>5. CASE i # k
    <3>1. SameCounts(i)
      BY <2>2, <2>3, <2>5 DEF SameCounts
    <3>2. QED
      BY <1>1, <2>4, <3>1, CountsStay
  <2>6. CASE i = k
    <3>1. SUFFICES ASSUME Queued(k)' PROVE JobCounted(k)'
      BY <2>6 DEF JobCounted
    <3>2. /\ job[k].run_count = Cardinality(Reaching(k))
          /\ job[k].run_count = 0 => \A d \in job[k].mask :
                d \in job[k].int_mask \/ \E f \in Executors : Starting(f, k, d)
          /\ job[k].interrupt_count = Cardinality(Unfinished(k))
      BY <2>2, <2>3, <2>6, <3>1 DEF JobCounted
    <3>3. job[k].run_count = 0 => \A d \in job[k].mask :
                d \in job[k].int_mask \/ \E f \in Executors : Starting(f, k, d)'
      BY <1>1, <2>4, <2>6, <3>2 DEF KeepsStarting
    <3>4. /\ IsFiniteSet(Unfinished(k)) /\ Cardinality(Unfinished(k)) \in Nat
      <4>1. Unfinished(k) \in SUBSET Cores
        BY DEF Unfinished
      <4>2. QED
        BY <4>1, MaskSize
    <3>5. Cardinality(Unfinished(k)') = Cardinality(Unfinished(k)) - 1
      BY <2>2, <3>4, FS_RemoveElement
    <3>6. job'[k].interrupt_count = Cardinality(Unfinished(k)')
      BY <2>2, <3>2, <3>5
    <3>7. job'[k].done = FALSE => Unfinished(k)' # {}
      <4>1. job'[k].done = FALSE => Cardinality(Unfinished(k)) # 1
        BY <2>2, <3>2 DEF LastToFinish
      <4>2. Unfinished(k)' = {} => Cardinality(Unfinished(k)') = 0
        BY FS_EmptySet
      <4>3. QED
        BY <3>4, <3>5, <4>1, <4>2
    <3>8. QED
      BY <2>2, <2>6, <3>2, <3>3, <3>6, <3>7 DEF JobCounted
  <2>7. QED
    BY <2>5, <2>6
<1>5. CASE IrqSignal(c)
  <2>1. PICK k \in Jobs : Signals(c, k)
    BY <1>5, SignalEffect
  <2>2. /\ Steady(i) /\ SameCalls /\ Reaching(i)' = Reaching(i) /\ Unfinished(i)' = Unfinished(i)
        /\ job'[k].interrupt_count = job[k].interrupt_count /\ job'[k].done = job[k].done
        /\ job'[k].mask = job[k].mask /\ job'[k].run_count = job[k].run_count
        /\ job'[k].int_mask = job[k].int_mask /\ \A j \in Jobs \ {k} : job'[j] = job[j]
    BY <2>1 DEF Signals
  <2>3. /\ job'[i].mask = job[i].mask /\ job'[i].run_count = job[i].run_count
        /\ job'[i].int_mask = job[i].int_mask /\ job'[i].done = job[i].done
        /\ job'[i].interrupt_count = job[i].interrupt_count
    BY <2>2
  <2>4. SameCounts(i) /\ KeepsStarting(i)
    BY <2>2, <2>3, SteadyQueued, CallsKeepStarting DEF SameCounts
  <2>5. QED
    BY <1>1, <2>4, CountsStay
<1>6. QED
  BY <1>2, <1>3, <1>4, <1>5, NothingStrays DEF Handler, Works

(* A free core with a queue that was attended still is.                    *)
AttendanceKept(c) ==
    /\ cur'[c] = NoJob /\ todo'[c] # <<>> => cur[c] = NoJob /\ todo[c] # <<>>
    /\ \A e \in Executors : Looking(e, c) => Looking(e, c)'
    /\ \A j \in Jobs : pc[j] = "kick" /\ c \in local[j].rest =>
          pc'[j] = "kick" /\ c \in local'[j].rest
    /\ irq[c].at \in {"complete", "signal"} => irq'[c].at \in {"complete", "signal"}

(* Steps that neither free a core, nor queue a job, nor end a call keep    *)
(* the cores attended.                                                     *)
LEMMA AttendanceStays ==
    ASSUME NEW c \in Cores, CoreAttended(c), AttendanceKept(c) PROVE CoreAttended(c)'
BY DEF CoreAttended, AttendanceKept

(* A thread that queues a job calls rknpu_job_next for each core of it.    *)
LEMMA ThreadAttends ==
    ASSUME Untroubled, ExactInv, Settled, Attended, NEW j \in Jobs, ThreadStep(j)
    PROVE  Attended'
<1>1. /\ pc \in [Jobs -> Labels] /\ local \in [Jobs -> LocalType] /\ nx \in [Executors -> NextType]
      /\ j \in Executors /\ \A c \in Cores : CoreAttended(c)
  BY SettledFacts, ExactFacts DEF IInv, TypeOK, Executors, Attended
<1>2. ASSUME UNCHANGED <<cur, todo, irq, nx>>, pc[j] # "kick",
             \A k \in Jobs \ {j} : Untouched(k)
      PROVE  Attended'
  <2>1. \A c \in Cores : AttendanceKept(c)
    BY <1>2 DEF AttendanceKept, Looking, Untouched
  <2>2. QED
    BY <1>1, <2>1, AttendanceStays DEF Attended
<1>3. CASE Private(j)
  BY <1>2, <1>3, PrivateQueued, ExactFacts, PrivateFrame
<1>4. CASE Schedule(j)
  BY <1>2, <1>4, ScheduleEffect
<1>5. CASE \E a \in Requests : Submit(j, a)
  BY <1>2, <1>5, SubmitEffect
<1>6. CASE CleanupWork(j)
  <2>1. UNCHANGED <<cur, todo, irq, nx, pc, local>>
    BY <1>6 DEF CleanupWork, coreVars
  <2>2. \A c \in Cores : AttendanceKept(c)
    BY <2>1 DEF AttendanceKept, Looking
  <2>3. QED
    BY <1>1, <2>2, AttendanceStays DEF Attended
<1>7. CASE Enqueue(j)
  <2>1. /\ pc[j] = "enqueue" /\ pc'[j] = "kick" /\ local'[j].rest = job[j].mask
        /\ UNCHANGED <<cur, irq, nx>> /\ \A k \in Jobs \ {j} : Untouched(k)
        /\ \A c \in Cores \ job[j].mask : todo'[c] = todo[c]
    <3>1. pc[j] = "enqueue" /\ pc'[j] = "kick" /\ UNCHANGED <<cur, irq, nx>>
      BY <1>1, <1>7 DEF Enqueue, Goto
    <3>2. PICK m : m = job[j].mask
      OBVIOUS
    <3>3. local' = [local EXCEPT ![j].rest = m]
      BY <1>7, <3>2 DEF Enqueue
    <3>4. local'[j].rest = m
      BY <1>1, <3>3 DEF LocalType
    <3>5. \A c \in Cores \ job[j].mask : todo'[c] = todo[c]
      BY <1>7 DEF Enqueue
    <3>6. QED
      BY <1>7, <3>1, <3>2, <3>4, <3>5, KickEffect
  <2>2. \A c \in job[j].mask : CoreAttended(c)'
    BY <2>1 DEF CoreAttended
  <2>3. \A c \in Cores \ job[j].mask : AttendanceKept(c)
    BY <2>1 DEF AttendanceKept, Looking, Untouched
  <2>4. QED
    BY <1>1, <2>2, <2>3, AttendanceStays DEF Attended
<1>8. CASE Kick(j)
  <2>1. /\ pc[j] = "kick" /\ nx[j].at = "none" /\ UNCHANGED <<cur, todo, irq>>
        /\ \A k \in Jobs \ {j} : Untouched(k)
    BY <1>8, KickEffect DEF Kick, coreVars
  <2>2. CASE local[j].rest = {}
    <3>1. nx' = nx
      BY <1>8, <2>2 DEF Kick
    <3>2. \A c \in Cores : AttendanceKept(c)
      BY <2>1, <2>2, <3>1 DEF AttendanceKept, Looking, Untouched
    <3>3. QED
      BY <1>1, <3>2, AttendanceStays DEF Attended
  <2>3. CASE local[j].rest # {}
    <3>1. PICK d : d = Min(local[j].rest)
      OBVIOUS
    <3>2. /\ pc' = pc /\ local' = [local EXCEPT ![j].rest = @ \ {d}] /\ CallNext(j, d)
      BY <1>8, <2>3, <3>1 DEF Kick
    <3>3. local'[j].rest = local[j].rest \ {d} /\ pc'[j] = "kick"
      BY <1>1, <2>1, <3>2 DEF LocalType
    <3>4. Looking(j, d)' /\ \A f \in Executors \ {j} : nx'[f] = nx[f]
      BY <1>1, <3>2 DEF CallNext, Looking
    <3>5. ASSUME NEW c \in Cores, c # d PROVE AttendanceKept(c)
      <4>1. \A e \in Executors : Looking(e, c) => Looking(e, c)'
        BY <2>1, <3>4 DEF Looking
      <4>2. QED
        BY <2>1, <3>3, <3>5, <4>1 DEF AttendanceKept, Untouched
    <3>6. \A c \in Cores : c = d => CoreAttended(c)'
      BY <1>1, <3>4 DEF CoreAttended
    <3>7. QED
      BY <1>1, <3>5, <3>6, AttendanceStays DEF Attended
  <2>4. QED
    BY <2>2, <2>3
<1>9. QED
  BY <1>3, <1>4, <1>5, <1>6, <1>7, <1>8, OwnThread DEF ThreadStep

(* A call leaves a core when it has found it busy or its queue empty.      *)
LEMMA CallAttends ==
    ASSUME ExactInv, Settled, Attended, NEW e \in Executors, NextCall(e) PROVE Attended'
<1>1. \A c \in Cores : CoreAttended(c)
  BY DEF Attended
<1>2. CASE Passes(e)
  <2>1. /\ UNCHANGED <<cur, todo, pc, local, irq>> /\ \A f \in Executors \ {e} : nx'[f] = nx[f]
        /\ \/ nx'[e].at = "pop" /\ nx'[e].core = nx[e].core
           \/ cur[nx[e].core] # NoJob \/ todo[nx[e].core] = <<>>
    BY <1>2, PassEffect
  <2>2. ASSUME NEW c \in Cores PROVE CoreAttended(c)'
    <3>1. CASE cur[c] # NoJob \/ todo[c] = <<>>
      BY <2>1, <3>1 DEF CoreAttended
    <3>2. CASE ~(cur[c] # NoJob \/ todo[c] = <<>>)
      <4>1. \A f \in Executors : Looking(f, c) => Looking(f, c)'
        BY <2>1, <3>2 DEF Looking
      <4>2. AttendanceKept(c)
        BY <2>1, <4>1 DEF AttendanceKept
      <4>3. QED
        BY <1>1, <4>2, AttendanceStays
    <3>3. QED
      BY <3>1, <3>2
  <2>3. QED
    BY <2>2 DEF Attended
<1>3. CASE NextPop(e) /\ ~Passes(e)
  <2>1. PICK c \in Cores, k \in Jobs : Pops(e, c, k)
    BY <1>3, PopEffect DEF Passes
  <2>2. /\ UNCHANGED <<pc, local, irq>> /\ nx[e].core = c /\ cur'[c] = k /\ k # NoJob
        /\ \A d \in Cores \ {c} : cur'[d] = cur[d] /\ todo'[d] = todo[d]
        /\ \A f \in Executors \ {e} : nx'[f] = nx[f]
    BY <2>1, JobAssumption DEF Pops
  <2>3. CoreAttended(c)'
    BY <2>2 DEF CoreAttended
  <2>4. \A d \in Cores \ {c} : AttendanceKept(d)
    BY <2>2 DEF AttendanceKept, Looking
  <2>5. QED
    BY <1>1, <2>3, <2>4, AttendanceStays DEF Attended
<1>4. CASE NextDec(e) \/ NextCommit(e)
  <2>1. /\ UNCHANGED <<cur, todo, pc, local, irq>> /\ nx[e].at \notin {"check", "pop"}
        /\ \A f \in Executors \ {e} : nx'[f] = nx[f]
    <3>1. CASE NextDec(e)
      BY <3>1, DecEffect DEF Counts
    <3>2. CASE NextCommit(e)
      BY ZenonT(40), <3>2, CommitEffect DEF Starts
    <3>3. QED
      BY <1>4, <3>1, <3>2
  <2>2. \A d \in Cores : AttendanceKept(d)
    BY <2>1 DEF AttendanceKept, Looking
  <2>3. QED
    BY <1>1, <2>2, AttendanceStays DEF Attended
<1>5. QED
  BY <1>2, <1>3, <1>4 DEF NextCall, Passes

(* A handler that has freed its core calls rknpu_job_next at its end.      *)
LEMMA HandlerAttends ==
    ASSUME Untroubled, ExactInv, Settled, Attended, NEW c \in Cores, Handler(c) \/ HwFinish(c)
    PROVE  Attended'
<1>1. (\A d \in Cores : CoreAttended(d)) /\ c \in Executors
  BY OwnInterrupt DEF Attended
<1>2. ASSUME UNCHANGED <<cur, todo>>, \A i \in Jobs : Steady(i),
             \A f \in Executors : nx[f].at # "none" => nx'[f] = nx[f],
             NEW d \in Cores, irq'[d] = irq[d] \/ irq[d].at \notin {"complete", "signal"}
                                               \/ irq'[d].at \in {"complete", "signal"}
      PROVE  CoreAttended(d)'
  <2>1. AttendanceKept(d)
    BY <1>2 DEF AttendanceKept, Looking, Steady
  <2>2. QED
    BY <1>1, <2>1, AttendanceStays
<1>3. CASE Works(c) \/ HwFinish(c)
  <2>1. /\ UNCHANGED <<cur, todo, pc, local, nx>>
        /\ \A d \in Cores : irq'[d] = irq[d] \/ irq[d].at \notin {"complete", "signal"}
    BY <1>3, WorkEffect, HwFinishEffect
  <2>2. \A i \in Jobs : Steady(i)
    BY <2>1 DEF Steady
  <2>3. QED
    BY <1>2, <2>1, <2>2 DEF Attended
<1>4. CASE IrqFinish(c)
  <2>1. PICK k \in Jobs : Frees(c, k)
    BY <1>4, FinishEffect
  <2>2. /\ UNCHANGED <<todo, pc, local, nx>> /\ irq'[c].at = "complete"
        /\ \A d \in Cores \ {c} : cur'[d] = cur[d] /\ irq'[d] = irq[d]
    BY <2>1 DEF Frees
  <2>3. CoreAttended(c)'
    BY <2>2 DEF CoreAttended
  <2>4. \A d \in Cores \ {c} : AttendanceKept(d)
    BY <2>2 DEF AttendanceKept, Looking
  <2>5. QED
    BY <1>1, <2>3, <2>4, AttendanceStays DEF Attended
<1>5. CASE IrqComplete(c) \/ IrqSignal(c)
  <2>1. /\ UNCHANGED <<cur, todo>> /\ (\A i \in Jobs : Steady(i))
        /\ Looking(c, c)' \/ irq'[c].at = "signal"
        /\ nx[c].at = "none" /\ \A f \in Executors \ {c} : nx'[f] = nx[f]
        /\ \A d \in Cores \ {c} : irq'[d] = irq[d]
    <3>1. CASE IrqComplete(c)
      BY ZenonT(40), <3>1, CompleteEffect DEF Completes, Steady
    <3>2. CASE IrqSignal(c)
      <4>1. PICK k \in Jobs : Signals(c, k)
        BY <3>2, SignalEffect
      <4>2. /\ UNCHANGED <<cur, todo>> /\ (\A i \in Jobs : Steady(i)) /\ Looking(c, c)'
            /\ irq[c].at = "signal" /\ \A f \in Executors \ {c} : nx'[f] = nx[f]
            /\ \A d \in Cores \ {c} : irq'[d] = irq[d]
        BY <4>1 DEF Signals
      <4>3. nx[c].at = "none"
        BY <4>2, OwnInterrupt DEF CoreSettled
      <4>4. QED
        BY <4>2, <4>3
    <3>3. QED
      BY <1>5, <3>1, <3>2
  <2>2. CoreAttended(c)'
    BY <1>1, <2>1 DEF CoreAttended
  <2>3. \A d \in Cores \ {c} : CoreAttended(d)'
    BY <1>2, <2>1
  <2>4. QED
    BY <2>2, <2>3 DEF Attended
<1>6. QED
  BY <1>3, <1>4, <1>5, NothingStrays DEF Handler, Works

(* The end of a job that is signalled stays so.                            *)
SignalKept(i) ==
    /\ job'[i].done = job[i].done /\ job'[i].nonblock = job[i].nonblock
    /\ job'[i].fence = job[i].fence /\ (job[i].life = "freed" => job'[i].life = "freed")
    /\ i \in work => i \in work'
    /\ \A c \in Cores : irq[c].at = "signal" /\ irq[c].job = i => irq'[c] = irq[c]

(* Steps that do not touch a DONE job keep its end signalled.              *)
LEMMA SignalStays ==
    ASSUME NEW i \in Jobs, JobSignalled(i), SignalKept(i) PROVE JobSignalled(i)'
BY DEF JobSignalled, SignalKept

(* A thread neither marks a job DONE nor hides the end of one.             *)
LEMMA ThreadSignals ==
    ASSUME Untroubled, ExactInv, Settled, Signalled, NEW j \in Jobs, ThreadStep(j)
    PROVE  Signalled'
<1>1. /\ JobOrderly(j) /\ JobSettled(j) /\ job \in [Jobs -> JobType] /\ job[j] \in JobType
      /\ \A i \in Jobs : JobSignalled(i)
  BY SettledFacts DEF Signalled
<1>2. UNCHANGED irq
  BY ThreadLeavesCores
<1>3. ASSUME UNCHANGED work, \A i \in Jobs \ {j} : Untouched(i), JobSignalled(j)'
      PROVE  Signalled'
  <2>1. \A i \in Jobs \ {j} : SignalKept(i)
    BY <1>2, <1>3 DEF SignalKept, Untouched
  <2>2. QED
    BY <1>1, <1>3, <2>1, SignalStays DEF Signalled
<1>4. CASE Private(j)
  <2>1. /\ UNCHANGED work /\ SameProgress(j) /\ \A i \in Jobs \ {j} : Untouched(i)
    BY <1>4, ExactFacts, PrivateFrame
  <2>2. CASE FenceOut(j)
    <3>1. job[j].done = FALSE
      BY <1>1, <2>2 DEF FenceOut, JobOrderly, Early
    <3>2. JobSignalled(j)'
      BY <2>1, <3>1 DEF JobSignalled, SameProgress
    <3>3. QED
      BY <1>3, <2>1, <3>2
  <2>3. CASE ~FenceOut(j)
    <3>1. PICK r : \/ job' = job \/ job' = [job EXCEPT ![j].ret = r]
                   \/ job' = [job EXCEPT ![j].life = "freed"]
      BY <1>4, <2>3 DEF Private, FenceIn, Scheduled, WaitCheck, WaitTimeout, Waited, Decide,
                        FreeJob, Abort, AbortCleared, Clean
    <3>2. job'[j].fence = job[j].fence /\ (job[j].life = "freed" => job'[j].life = "freed")
      BY <1>1, <3>1 DEF JobType
    <3>3. SignalKept(j)
      BY <1>2, <2>1, <3>2 DEF SignalKept, SameProgress
    <3>4. QED
      BY <1>1, <1>3, <2>1, <3>3, SignalStays
  <2>4. QED
    BY <2>2, <2>3
<1>5. CASE Schedule(j)
  <2>1. /\ pc[j] = "sched" /\ job'[j].done = job[j].done /\ UNCHANGED work
        /\ \A i \in Jobs \ {j} : Untouched(i)
    BY <1>5, ScheduleEffect
  <2>2. job[j].done = FALSE
    BY <1>1, <2>1 DEF JobOrderly, Early
  <2>3. QED
    BY <1>3, <2>1, <2>2 DEF JobSignalled
<1>6. CASE \E a \in Requests : Submit(j, a)
  <2>1. /\ job'[j].done = FALSE /\ UNCHANGED work /\ \A i \in Jobs \ {j} : Untouched(i)
    BY <1>6, SubmitEffect
  <2>2. QED
    BY <1>3, <2>1 DEF JobSignalled
<1>7. CASE Enqueue(j) \/ Kick(j)
  <2>1. UNCHANGED <<job, work>>
    BY <1>7, KickEffect
  <2>2. \A i \in Jobs : SignalKept(i)
    BY <1>2, <2>1 DEF SignalKept
  <2>3. QED
    BY <1>1, <2>2, SignalStays DEF Signalled
<1>8. CASE CleanupWork(j)
  <2>1. job' = [job EXCEPT ![j].life = "freed"] /\ work' = work \ {j}
    BY <1>8 DEF CleanupWork
  <2>2. /\ job'[j].life = "freed" /\ job'[j].done = job[j].done /\ job'[j].fence = job[j].fence
        /\ job'[j].nonblock = job[j].nonblock /\ \A i \in Jobs \ {j} : job'[i] = job[i]
    BY <1>1, <2>1 DEF JobType
  <2>3. JobSignalled(j)'
    BY <1>1, <1>2, <2>2 DEF JobSignalled
  <2>4. \A i \in Jobs \ {j} : SignalKept(i)
    BY <1>2, <2>1, <2>2 DEF SignalKept
  <2>5. QED
    BY <1>1, <2>3, <2>4, SignalStays DEF Signalled
<1>9. QED
  BY <1>4, <1>5, <1>6, <1>7, <1>8, OwnThread DEF ThreadStep

(* Calls of rknpu_job_next do not touch the end of a job.                  *)
LEMMA CallSignals ==
    ASSUME ExactInv, Settled, Signalled, NEW e \in Executors, NextCall(e) PROVE Signalled'
<1>1. \A i \in Jobs : JobSignalled(i)
  BY DEF Signalled
<1>2. (\A i \in Jobs : SameFate(i)) /\ UNCHANGED <<work, irq>>
  <2>1. CASE Passes(e)
    BY <2>1, PassEffect DEF SameFate
  <2>2. CASE NextPop(e) /\ ~Passes(e)
    BY <2>2, PopEffect DEF Passes, Pops, SameJob
  <2>3. CASE NextDec(e)
    BY <2>3, DecEffect DEF Counts
  <2>4. CASE NextCommit(e)
    BY <2>4, CommitEffect DEF Starts
  <2>5. QED
    BY <2>1, <2>2, <2>3, <2>4 DEF NextCall, Passes
<1>3. \A i \in Jobs : SignalKept(i)
  BY <1>2 DEF SameFate, SignalKept
<1>4. QED
  BY <1>1, <1>3, SignalStays DEF Signalled

(* The handler that marks a job DONE is the one to signal it.              *)
LEMMA HandlerSignals ==
    ASSUME Untroubled, ExactInv, Settled, Signalled, NEW c \in Cores, Handler(c) \/ HwFinish(c)
    PROVE  Signalled'
<1>1. \A i \in Jobs : JobSignalled(i)
  BY DEF Signalled
<1>2. CASE Works(c) \/ IrqFinish(c) \/ HwFinish(c)
  <2>1. /\ \A i \in Jobs : SameFate(i)
        /\ UNCHANGED work /\ \A d \in Cores : irq'[d] = irq[d] \/ irq[d].at # "signal"
    <3>1. CASE Works(c)
      BY <3>1, WorkEffect DEF SameJob
    <3>2. CASE IrqFinish(c)
      BY <3>2, FinishEffect DEF Frees, SameJob
    <3>3. CASE HwFinish(c)
      BY <3>3, HwFinishEffect DEF SameFate
    <3>4. QED
      BY <1>2, <3>1, <3>2, <3>3
  <2>2. \A i \in Jobs : SignalKept(i)
    BY <2>1 DEF SameFate, SignalKept
  <2>3. QED
    BY <1>1, <2>2, SignalStays DEF Signalled
<1>3. CASE IrqComplete(c)
  <2>1. PICK k \in Jobs : Completes(c, k)
    BY <1>3, CompleteEffect
  <2>2. /\ irq[c].at = "complete" /\ UNCHANGED work
        /\ job'[k].done = LastToFinish(k)
        /\ LastToFinish(k) => irq'[c].at = "signal" /\ irq'[c].job = k
        /\ \A i \in Jobs \ {k} : job'[i] = job[i]
        /\ \A d \in Cores \ {c} : irq'[d] = irq[d]
    BY <2>1 DEF Completes
  <2>3. JobSignalled(k)'
    BY <2>2 DEF JobSignalled
  <2>4. \A i \in Jobs \ {k} : SignalKept(i)
    BY <2>2 DEF SignalKept
  <2>5. QED
    BY <1>1, <2>3, <2>4, SignalStays DEF Signalled
<1>4. CASE IrqSignal(c)
  <2>1. PICK k \in Jobs : Signals(c, k)
    BY <1>4, SignalEffect
  <2>2. /\ irq[c].job = k /\ work \subseteq work' /\ (job[k].nonblock = TRUE => k \in work')
        /\ job'[k].nonblock = job[k].nonblock
        /\ job'[k].fence = IF job[k].fence = "none" THEN "none" ELSE "signaled"
        /\ \A i \in Jobs \ {k} : job'[i] = job[i]
        /\ \A d \in Cores \ {c} : irq'[d] = irq[d]
    BY <2>1 DEF Signals
  <2>3. JobSignalled(k)'
    BY <2>2 DEF JobSignalled
  <2>4. \A i \in Jobs \ {k} : SignalKept(i)
    BY <2>2 DEF SignalKept
  <2>5. QED
    BY <1>1, <2>3, <2>4, SignalStays DEF Signalled
<1>5. QED
  BY <1>2, <1>3, <1>4, NothingStrays DEF Handler, Works

(* What jobs add up to.                                                    *)
LEMMA OneLoad ==
    ASSUME NEW j, NEW t \in Nat
    PROVE  IsFiniteSet({j} \X (1 .. t)) /\ Cardinality({j} \X (1 .. t)) = t
<1>1. IsFiniteSet({j}) /\ Cardinality({j}) = 1
  BY FS_Singleton
<1>2. IsFiniteSet(1 .. t) /\ Cardinality(1 .. t) = t
  <2>1. /\ IsFiniteSet(1 .. t)
        /\ Cardinality(1 .. t) = IF 1 > t THEN 0 ELSE t - 1 + 1
    BY FS_Interval
  <2>2. QED
    BY <2>1
<1>3. /\ IsFiniteSet({j} \X (1 .. t))
      /\ Cardinality({j} \X (1 .. t)) = Cardinality({j}) * Cardinality(1 .. t)
  BY <1>1, <1>2, FS_Product
<1>4. 1 * t = t
  OBVIOUS
<1>5. QED
  BY <1>1, <1>2, <1>3, <1>4

(* The members of a load are the tasks of the jobs at the core.            *)
LEMMA LoadMembers ==
    ASSUME NEW c \in Cores, NEW p
    PROVE  p \in Load(c) <=> \E i \in Jobs : At(i, c) /\ p \in {i} \X (1 .. job[i].tasks)
BY DEF Load

(* The load is a matter of the jobs at the core and their numbers of       *)
(* tasks.                                                                  *)
LEMMA LoadSame ==
    ASSUME NEW c \in Cores,
           \A i \in Jobs : /\ At(i, c)' <=> At(i, c)
                           /\ At(i, c) => job'[i].tasks = job[i].tasks
    PROVE  Load(c)' = Load(c)
<1>1. {i \in Jobs : At(i, c)'} = {i \in Jobs : At(i, c)}
  OBVIOUS
<1>2. \A i \in {k \in Jobs : At(k, c)} : {i} \X (1 .. job'[i].tasks) = {i} \X (1 .. job[i].tasks)
  OBVIOUS
<1>3. QED
  BY <1>1, <1>2 DEF Load

(* Core c gets a job, or gives it back.                                    *)
LEMMA LoadGrows ==
    ASSUME NEW c \in Cores, NEW j \in Jobs, NEW t \in Nat, job[j].tasks = t, UNCHANGED job,
           IsFiniteSet(Load(c)), ~At(j, c),
           \A i \in Jobs : At(i, c)' <=> At(i, c) \/ i = j
    PROVE  IsFiniteSet(Load(c)') /\ Cardinality(Load(c)') = Cardinality(Load(c)) + t
<1> DEFINE L == {j} \X (1 .. t)
<1>1. Load(c)' = Load(c) \cup L
  BY DEF Load
<1>2. Load(c) \cap L = {}
  <2> SUFFICES ASSUME NEW p \in Load(c), p \in L PROVE FALSE
    OBVIOUS
  <2>1. PICK i \in Jobs : At(i, c) /\ p \in {i} \X (1 .. job[i].tasks)
    BY LoadMembers
  <2>2. p[1] = i /\ p[1] = j
    BY <2>1
  <2>3. QED
    BY <2>1, <2>2
<1>3. IsFiniteSet(L) /\ Cardinality(L) = t
  BY OneLoad
<1> HIDE DEF L
<1>4. /\ IsFiniteSet(Load(c) \cup L)
      /\ Cardinality(Load(c) \cup L) =
            Cardinality(Load(c)) + Cardinality(L) - Cardinality(Load(c) \cap L)
  BY <1>3, FS_Union
<1>5. Cardinality(Load(c) \cap L) = 0 /\ Cardinality(Load(c)) \in Nat
  BY <1>2, FS_EmptySet, FS_CardinalityType
<1>6. QED
  BY <1>1, <1>3, <1>4, <1>5

(* A job that leaves the core takes its tasks with it.                     *)
LEMMA LoadShrinks ==
    ASSUME NEW c \in Cores, NEW j \in Jobs, NEW t \in Nat, job[j].tasks = t, UNCHANGED job,
           IsFiniteSet(Load(c)), At(j, c),
           \A i \in Jobs : At(i, c)' <=> At(i, c) /\ i # j
    PROVE  IsFiniteSet(Load(c)') /\ Cardinality(Load(c)') = Cardinality(Load(c)) - t
<1> DEFINE L == {j} \X (1 .. t)
<1>1. Load(c)' = Load(c) \ L
  <2>1. ASSUME NEW p PROVE p \in Load(c)' <=> p \in Load(c) /\ p \notin L
    <3>1. p \in Load(c)' <=> \E i \in Jobs : At(i, c) /\ i # j /\ p \in {i} \X (1 .. job[i].tasks)
      BY DEF Load
    <3>2. p \in Load(c) <=> \E i \in Jobs : At(i, c) /\ p \in {i} \X (1 .. job[i].tasks)
      BY LoadMembers
    <3>3. ASSUME NEW i \in Jobs, p \in {i} \X (1 .. job[i].tasks) PROVE p \in L <=> i = j
      BY <3>3
    <3>4. QED
      BY <3>1, <3>2, <3>3
  <2>2. QED
    BY <2>1
<1>2. Load(c) \cap L = L
  BY LoadMembers
<1>3. IsFiniteSet(L) /\ Cardinality(L) = t
  BY OneLoad
<1> HIDE DEF L
<1>4. /\ IsFiniteSet(Load(c) \ L)
      /\ Cardinality(Load(c) \ L) = Cardinality(Load(c)) - Cardinality(Load(c) \cap L)
  BY FS_Difference
<1>5. QED
  BY <1>1, <1>2, <1>3, <1>4

(* Steps that neither queue nor free a core, nor take or give back a       *)
(* domain.                                                                 *)
SameLoad(c) ==
    \A i \in Jobs : (At(i, c)' <=> At(i, c)) /\ (At(i, c) => job'[i].tasks = job[i].tasks)

(* The domain has the users it had.                                        *)
SameHolders == \A i \in Jobs : Holds(i)' <=> Holds(i)

(* Then the sums stay.                                                     *)
LEMMA SumsStay ==
    ASSUME Sums, UNCHANGED <<task_num, domref>>, \A c \in Cores : SameLoad(c), SameHolders
    PROVE  Sums'
<1>1. \A c \in Cores : Load(c)' = Load(c)
  BY LoadSame DEF SameLoad
<1>2. Holders' = Holders
  BY DEF Holders, SameHolders
<1>3. QED
  BY <1>1, <1>2 DEF Sums

(* A job that is not touched.                                              *)
LEMMA UntouchedHolds ==
    ASSUME NEW i \in Jobs, Steady(i), job'[i].done = job[i].done PROVE Holds(i)' <=> Holds(i)
<1>1. Queued(i)' <=> Queued(i)
  BY SteadyQueued
<1>2. QED
  BY <1>1 DEF Holds, Steady

(* rknpu_job_schedule takes the domain and adds the tasks to the cores.    *)
LEMMA ThreadSums ==
    ASSUME Untroubled, ExactInv, Settled, IInv', Sums, NEW j \in Jobs, ThreadStep(j)
    PROVE  Sums'
<1>1. /\ JobOrderly(j) /\ JobSettled(j) /\ job \in [Jobs -> JobType] /\ job[j] \in JobType
      /\ task_num \in [Cores -> Int]
  BY SettledFacts, ExactFacts DEF IInv, TypeOK, CoresTypeOK
<1>2. ASSUME UNCHANGED <<cur, todo, task_num, domref>>, \A i \in Jobs \ {j} : Untouched(i),
             Holds(j)' <=> Holds(j), job'[j].tasks = job[j].tasks \/ Gone(j)
      PROVE  Sums'
  <2>1. \A c \in Cores : SameLoad(c)
    BY <1>2 DEF SameLoad, At, Waiting, Untouched, Gone
  <2>2. \A i \in Jobs \ {j} : Steady(i) /\ job'[i].done = job[i].done
    BY <1>2 DEF Untouched, Steady
  <2>3. SameHolders
    BY <1>2, <2>2, UntouchedHolds DEF SameHolders
  <2>4. QED
    BY <1>2, <2>1, <2>3, SumsStay
<1>3. CASE Private(j)
  <2>1. /\ UNCHANGED <<cur, todo, task_num>> /\ SameProgress(j)
        /\ \A i \in Jobs \ {j} : Untouched(i)
    BY <1>3, ExactFacts, PrivateFrame
  <2>2. domref' = domref
    BY <1>1, <1>3 DEF Private, FenceIn, FenceOut, Scheduled, WaitCheck, WaitTimeout, Waited,
                      Decide, FreeJob, Abort, AbortCleared, Clean, devVars, JobSettled
  <2>3. Holds(j)' <=> Holds(j)
    BY <1>3, <2>1, PrivateQueued DEF Holds, SameProgress
  <2>4. QED
    BY <1>2, <2>1, <2>2, <2>3 DEF SameProgress
<1>4. CASE Schedule(j)
  <2>1. /\ pc[j] = "sched" /\ pc'[j] = "enqueue" /\ domref' = domref + 1
        /\ job'[j].done = job[j].done /\ job'[j].tasks = job[j].tasks
        /\ UNCHANGED <<cur, todo, task_num>> /\ \A i \in Jobs \ {j} : Untouched(i)
    BY <1>4, ScheduleEffect
  <2>2. job[j].done = FALSE
    BY <1>1, <2>1 DEF JobOrderly, Early
  <2>3. Holds(j)' /\ ~Holds(j)
    BY <2>1, <2>2 DEF Holds, Queued, Early
  <2>4. \A i \in Jobs \ {j} : Steady(i) /\ job'[i].done = job[i].done
    BY <2>1 DEF Untouched, Steady
  <2>5. \A i \in Jobs \ {j} : Holds(i)' <=> Holds(i)
    BY <2>4, UntouchedHolds
  <2>6. Holders' = Holders \cup {j} /\ j \notin Holders
    BY <2>3, <2>5 DEF Holders
  <2>7. IsFiniteSet(Holders') /\ Cardinality(Holders') = Cardinality(Holders) + 1
    BY <2>6, FS_AddElement DEF Sums
  <2>8. \A c \in Cores : SameLoad(c)
    BY <2>1 DEF SameLoad, At, Waiting, Untouched
  <2>9. \A c \in Cores : Load(c)' = Load(c)
    BY <2>8, LoadSame DEF SameLoad
  <2>10. QED
    BY <2>1, <2>7, <2>9 DEF Sums
<1>5. CASE \E a \in Requests : Submit(j, a)
  <2>1. /\ pc[j] = "new" /\ pc'[j] \in {"fence_in", "fence_out", "clean", "sched"}
        /\ UNCHANGED <<cur, todo, task_num, domref>> /\ \A i \in Jobs \ {j} : Untouched(i)
    BY <1>5, SubmitEffect
  <2>2. Gone(j)
    BY <2>1, ExactFacts, OrderFacts DEF Unqueued
  <2>3. ~Holds(j) /\ ~Holds(j)'
    BY <2>1 DEF Holds, Queued, Early
  <2>4. QED
    BY <1>2, <2>1, <2>2, <2>3
<1>6. CASE Enqueue(j)
  <2>1. /\ pc[j] = "enqueue" /\ pc'[j] = "kick" /\ UNCHANGED <<job, domref>>
        /\ local'[j].ret = local[j].ret /\ \A i \in Jobs \ {j} : Untouched(i)
    <3>1. pc'[j] = "kick"
      BY <1>6, SettledFacts DEF Enqueue, Goto
    <3>2. QED
      BY <1>6, <3>1, KickEffect DEF Enqueue
  <2>2. ~Failed(j)
    BY <1>1, <2>1 DEF JobSettled
  <2>3. Holds(j)' <=> Holds(j)
    BY <2>1, <2>2 DEF Holds, Queued, Failed, Early
  <2>4. \A i \in Jobs \ {j} : Steady(i) /\ job'[i].done = job[i].done
    BY <2>1 DEF Untouched, Steady
  <2>5. SameHolders
    BY <2>3, <2>4, UntouchedHolds DEF SameHolders
  <2>6. Holders' = Holders
    BY <2>5 DEF Holders, SameHolders
  <2>7. Gone(j) /\ job[j].mask \subseteq Cores
    BY <1>1, <1>6, EnqueuePlaces DEF JobType
  <2>8. \A i \in Jobs, c \in Cores : At(i, c)' <=> At(i, c) \/ (i = j /\ c \in job[j].mask)
    BY <1>6, ExactFacts, EnqueueAt
  <2>9. ASSUME NEW c \in Cores PROVE IsFiniteSet(Load(c)') /\ task_num'[c] = Cardinality(Load(c)')
    <3>1. IsFiniteSet(Load(c)) /\ task_num[c] = Cardinality(Load(c))
      BY DEF Sums
    <3>2. CASE c \in job[j].mask
      <4>1. PICK t \in Nat : t = job[j].tasks
        BY <1>1 DEF JobType
      <4>2. \A i \in Jobs : At(i, c)' <=> At(i, c) \/ i = j
        BY <2>8, <3>2
      <4>3. IsFiniteSet(Load(c)') /\ Cardinality(Load(c)') = Cardinality(Load(c)) + t
        BY <2>1, <2>7, <3>1, <4>1, <4>2, LoadGrows DEF Gone
      <4>4. task_num'[c] = task_num[c] + t
        BY <1>6, <3>2, <4>1 DEF Enqueue
      <4>5. QED
        BY <3>1, <4>3, <4>4
    <3>3. CASE c \notin job[j].mask
      <4>1. SameLoad(c)
        BY <2>1, <2>8, <3>3 DEF SameLoad
      <4>2. Load(c)' = Load(c)
        BY <4>1, LoadSame DEF SameLoad
      <4>3. task_num'[c] = task_num[c]
        BY <1>6, <3>3 DEF Enqueue
      <4>4. QED
        BY <3>1, <4>2, <4>3
    <3>4. QED
      BY <3>2, <3>3
  <2>10. QED
    BY <2>1, <2>6, <2>9 DEF Sums
<1>7. CASE Kick(j)
  <2>1. /\ pc[j] = "kick" /\ pc'[j] \in {"kick", "scheduled"} /\ local'[j].ret = local[j].ret
        /\ UNCHANGED <<job, cur, todo, task_num, domref>> /\ \A i \in Jobs \ {j} : Untouched(i)
    BY <1>7, KickEffect DEF Kick, coreVars
  <2>2. Holds(j)' <=> Holds(j)
    BY <2>1 DEF Holds, Queued, Failed, Early
  <2>3. QED
    BY <1>2, <2>1, <2>2
<1>8. CASE CleanupWork(j)
  <2>1. job' = [job EXCEPT ![j].life = "freed"] /\ UNCHANGED <<cur, todo, task_num, domref, pc, local>>
    BY <1>8 DEF CleanupWork, coreVars
  <2>2. /\ job'[j].done = job[j].done /\ job'[j].tasks = job[j].tasks
        /\ \A i \in Jobs \ {j} : Untouched(i)
    BY <1>1, <2>1 DEF JobType, Untouched
  <2>3. Holds(j)' <=> Holds(j)
    BY <2>1, <2>2 DEF Holds, Queued, Failed
  <2>4. QED
    BY <1>2, <2>1, <2>2, <2>3
<1>9. QED
  BY <1>3, <1>4, <1>5, <1>6, <1>7, <1>8, OwnThread DEF ThreadStep

(* Taking a job from a queue to its core changes no sum.                   *)
LEMMA CallSums ==
    ASSUME ExactInv, Settled, Sums, NEW e \in Executors, NextCall(e) PROVE Sums'
<1>1. /\ UNCHANGED <<task_num, domref, pc, local>> /\ \A i \in Jobs : SameFate(i) /\ SameAt(i)
  <2>1. CASE Passes(e)
    BY <2>1, PassEffect DEF SameFate, SameAt, At, Waiting
  <2>2. CASE NextPop(e) /\ ~Passes(e)
    BY <2>2, PopEffect DEF Passes, Pops, SameJob
  <2>3. CASE NextDec(e)
    BY <2>3, DecEffect DEF Counts
  <2>4. CASE NextCommit(e)
    BY ZenonT(40), <2>4, CommitEffect DEF Starts
  <2>5. QED
    BY <2>1, <2>2, <2>3, <2>4 DEF NextCall, Passes
<1>2. \A i \in Jobs : Steady(i) /\ job'[i].done = job[i].done
  BY <1>1 DEF Steady, SameFate
<1>3. SameHolders
  BY <1>2, UntouchedHolds DEF SameHolders
<1>4. \A c \in Cores : SameLoad(c)
  BY <1>1 DEF SameLoad, SameAt, SameFate
<1>5. QED
  BY <1>1, <1>3, <1>4, SumsStay

(* rknpu_job_done takes the tasks off the core and gives the domain back   *)
(* when the last core has finished.                                        *)
LEMMA HandlerSums ==
    ASSUME Untroubled, ExactInv, Settled, Sums, NEW c \in Cores, Handler(c) \/ HwFinish(c)
    PROVE  Sums'
<1>1. task_num \in [Cores -> Int] /\ job \in [Jobs -> JobType]
  BY ExactFacts DEF IInv, TypeOK, CoresTypeOK
<1>2. CASE Works(c) \/ HwFinish(c)
  <2>1. UNCHANGED <<cur, todo, task_num, domref, pc, local>> /\ \A i \in Jobs : SameJob(i)
    BY <1>2, WorkEffect, HwFinishEffect DEF SameJob, SameFate
  <2>2. \A i \in Jobs : Steady(i) /\ job'[i].done = job[i].done
    BY <2>1 DEF Steady, SameJob, SameFate
  <2>3. SameHolders
    BY <2>2, UntouchedHolds DEF SameHolders
  <2>4. \A d \in Cores : SameLoad(d)
    BY <2>1 DEF SameLoad, At, Waiting, SameJob, SameFate
  <2>5. QED
    BY <2>1, <2>3, <2>4, SumsStay
<1>3. CASE IrqFinish(c)
  <2>1. PICK k \in Jobs : Frees(c, k)
    BY <1>3, FinishEffect
  <2>2. /\ UNCHANGED <<job, domref, pc, local>> /\ cur[c] = k
        /\ task_num'[c] = task_num[c] - job[k].tasks
        /\ \A d \in Cores \ {c} : task_num'[d] = task_num[d]
        /\ \A i \in Jobs, d \in Cores : At(i, d)' <=> At(i, d) /\ ~(i = k /\ d = c)
    BY <2>1 DEF Frees
  <2>3. \A i \in Jobs : Steady(i) /\ job'[i].done = job[i].done
    BY <2>2 DEF Steady
  <2>4. SameHolders
    BY <2>3, UntouchedHolds DEF SameHolders
  <2>5. Holders' = Holders
    BY <2>4 DEF Holders, SameHolders
  <2>6. \A d \in Cores \ {c} : Load(d)' = Load(d)
    <3>1. \A d \in Cores \ {c} : SameLoad(d)
      BY <2>2 DEF SameLoad
    <3>2. QED
      BY <3>1, LoadSame DEF SameLoad
  <2>7. IsFiniteSet(Load(c)) /\ task_num[c] = Cardinality(Load(c))
    BY DEF Sums
  <2>8. PICK t \in Nat : t = job[k].tasks
    BY <1>1 DEF JobType
  <2>9. \A i \in Jobs : At(i, c)' <=> At(i, c) /\ i # k
    BY <2>2
  <2>10. IsFiniteSet(Load(c)') /\ Cardinality(Load(c)') = Cardinality(Load(c)) - t
    <3>1. At(k, c)
      BY <2>2 DEF At
    <3>2. QED
      BY <2>2, <2>7, <2>8, <2>9, <3>1, LoadShrinks
  <2>11. task_num'[c] = Cardinality(Load(c)')
    BY <2>2, <2>7, <2>8, <2>10
  <2>12. QED
    BY <2>2, <2>5, <2>6, <2>10, <2>11 DEF Sums
<1>4. CASE IrqComplete(c)
  <2>1. PICK k \in Jobs : Completes(c, k)
    BY <1>4, CompleteEffect
  <2>2. /\ UNCHANGED <<task_num, pc, local>> /\ irq[c].job = k
        /\ job[k].done = FALSE /\ job'[k].done = LastToFinish(k)
        /\ domref' = IF LastToFinish(k) THEN domref - 1 ELSE domref
        /\ job'[k].tasks = job[k].tasks /\ \A i \in Jobs \ {k} : job'[i] = job[i]
        /\ \A i \in Jobs : SameAt(i)
    BY <2>1 DEF Completes
  <2>3. \A d \in Cores : SameLoad(d)
    BY <2>2 DEF SameLoad, SameAt
  <2>4. \A i \in Jobs \ {k} : Steady(i) /\ job'[i].done = job[i].done
    BY <2>2 DEF Steady
  <2>5. \A i \in Jobs \ {k} : Holds(i)' <=> Holds(i)
    BY <2>4, UntouchedHolds
  <2>6. CASE ~LastToFinish(k)
    <3>1. Steady(k) /\ job'[k].done = job[k].done
      <4>1. LastToFinish(k) = FALSE
        BY <2>6 DEF LastToFinish
      <4>2. QED
        BY <2>2, <4>1 DEF Steady
    <3>2. SameHolders
      BY <2>5, <3>1, UntouchedHolds DEF SameHolders
    <3>3. QED
      BY <2>2, <2>3, <2>6, <3>2, SumsStay
  <2>7. CASE LastToFinish(k)
    <3>1. ~Unknown(k)
      BY <2>2 DEF Unknown
    <3>2. pc[k] \notin Early \cup {"new"} /\ JobSettled(k) /\ JobOrderly(k)
      BY <3>1, ExactFacts, KnownIsSubmitted, SettledFacts
    <3>3. c \in job[k].int_mask
      BY <2>1 DEF Completes
    <3>4. ~Failed(k)
      BY <3>2, <3>3 DEF JobSettled
    <3>5. Holds(k) /\ ~Holds(k)'
      BY <2>2, <2>7, <3>2, <3>4 DEF Holds, Queued
    <3>6. Holders' = Holders \ {k} /\ k \in Holders
      BY <2>5, <3>5 DEF Holders
    <3>7. /\ IsFiniteSet(Holders') /\ Cardinality(Holders') = Cardinality(Holders) - 1
      BY <3>6, FS_RemoveElement DEF Sums
    <3>8. \A d \in Cores : Load(d)' = Load(d)
      BY <2>3, LoadSame DEF SameLoad
    <3>9. QED
      BY <2>2, <2>7, <3>7, <3>8 DEF Sums
  <2>8. QED
    BY <2>6, <2>7
<1>5. CASE IrqSignal(c)
  <2>1. PICK k \in Jobs : Signals(c, k)
    BY <1>5, SignalEffect
  <2>2. /\ UNCHANGED <<cur, todo, task_num, domref>> /\ \A i \in Jobs : Steady(i)
        /\ job'[k].done = job[k].done /\ job'[k].tasks = job[k].tasks
        /\ \A i \in Jobs \ {k} : job'[i] = job[i]
    BY <2>1 DEF Signals
  <2>3. \A i \in Jobs : job'[i].done = job[i].done /\ job'[i].tasks = job[i].tasks
    BY <2>2
  <2>4. SameHolders
    BY <2>2, <2>3, UntouchedHolds DEF SameHolders
  <2>5. \A d \in Cores : SameLoad(d)
    BY <2>2, <2>3 DEF SameLoad, At, Waiting
  <2>6. QED
    BY <2>2, <2>4, <2>5, SumsStay
<1>6. QED
  BY <1>2, <1>3, <1>4, <1>5, NothingStrays DEF Handler, Works

(* When the module is loaded nothing is under way.                         *)
LEMMA InitQuiet ==
    ASSUME Init, ExactInv, \A a \in Requests : CommitCores(a.mask) = a.mask
    PROVE  Settled /\ Counted /\ Attended /\ Signalled /\ Sums
<1>1. /\ NewJob.done = FALSE /\ NewJob.int_mask = {} /\ NewJob.mask = {} /\ NewJob.ret = "0"
      /\ NewJob.life = "none" /\ NewJob.fence = "none" /\ NewJob.tasks = 0
      /\ IdleIrq.at = "idle" /\ NoCall.at = "none" /\ IdleHw.job = NoJob /\ NewLocal.ret = "none"
  BY DEF NewJob, IdleIrq, NoCall, IdleHw, NewLocal
<1>2. \A j \in Jobs : job[j] = NewJob /\ pc[j] = "new" /\ local[j] = NewLocal
  BY DEF Init
<1>3. \A c \in Cores : /\ cur[c] = NoJob /\ todo[c] = <<>> /\ irq[c] = IdleIrq
                       /\ hw[c] = IdleHw /\ line[c] = "none" /\ task_num[c] = 0
  BY DEF Init
<1>4. \A e \in Executors : nx[e] = NoCall
  BY DEF Init
<1>5. CommitCores({}) = {}
  BY DEF CommitCores
<1>6. \A j \in Jobs : JobSettled(j)
  BY <1>1, <1>2, <1>5 DEF JobSettled, Failed, Queued
<1>7. \A c \in Cores : CoreSettled(c)
  BY <1>1, <1>3 DEF CoreSettled
<1>8. Counted /\ Attended /\ Signalled
  BY <1>1, <1>2, <1>3
     DEF Counted, JobCounted, Queued, Attended, CoreAttended, Signalled, JobSignalled
<1>9. \A c \in Cores : Load(c) = {}
  <2>1. \A i \in Jobs, c \in Cores : ~At(i, c)
    BY <1>3, JobAssumption DEF At, Waiting
  <2>2. QED
    BY <2>1 DEF Load
<1>10. Holders = {}
  BY <1>2 DEF Holders, Holds, Queued
<1>11. Sums
  BY <1>3, <1>9, <1>10, FS_EmptySet DEF Sums, Init
<1>12. QED
  BY <1>6, <1>7, <1>8, <1>11 DEF Settled

(* The rest of the invariant is kept by every step.                        *)
LEMMA QuietStep ==
    ASSUME Untroubled, QuietInv, IInv', [Next]_vars
    PROVE  Settled' /\ Counted' /\ Attended' /\ Signalled' /\ Sums'
<1>1. /\ ExactInv /\ Settled /\ Attended /\ Signalled /\ Sums
      /\ \A i \in Jobs : JobCounted(i)
  BY DEF QuietInv, Counted
<1>2. Settled'
  BY <1>1, SettledStep
<1>3. ASSUME NEW j \in Jobs, ThreadStep(j)
      PROVE  Counted' /\ Attended' /\ Signalled' /\ Sums'
  <2>1. \A i \in Jobs : JobCounted(i)'
    BY <1>1, <1>3, ThreadCounts
  <2>2. QED
    BY <1>1, <1>3, <2>1, ThreadAttends, ThreadSignals, ThreadSums DEF Counted
<1>4. ASSUME NEW e \in Executors, NextCall(e)
      PROVE  Counted' /\ Attended' /\ Signalled' /\ Sums'
  <2>1. \A i \in Jobs : JobCounted(i)'
    BY <1>1, <1>4, CallCounts
  <2>2. QED
    BY <1>1, <1>4, <2>1, CallAttends, CallSignals, CallSums DEF Counted
<1>5. ASSUME NEW c \in Cores, Handler(c) \/ HwFinish(c)
      PROVE  Counted' /\ Attended' /\ Signalled' /\ Sums'
  <2>1. \A i \in Jobs : JobCounted(i)'
    BY <1>1, <1>5, HandlerCounts
  <2>2. QED
    BY <1>1, <1>5, <2>1, HandlerAttends, HandlerSignals, HandlerSums DEF Counted
<1>6. CASE UNCHANGED vars
  <2>1. UNCHANGED <<job, cur, todo, task_num, domref, work, pc, local, irq, nx>>
    BY <1>6 DEF vars, coreVars, devVars
  <2>2. \A i \in Jobs : /\ SameAt(i) /\ Reaching(i)' = Reaching(i)
                        /\ Unfinished(i)' = Unfinished(i)
    BY <2>1, SamePlaces DEF SameCalls, SameAt, Unfinished
  <2>3. \A i \in Jobs : SameCounts(i) /\ KeepsStarting(i) /\ job[i].mask \subseteq Cores
    BY <1>1, <2>1, <2>2, ExactFacts
       DEF SameCounts, KeepsStarting, Starting, Queued, Failed, JobType
  <2>4. \A i \in Jobs : JobCounted(i)'
    BY <1>1, <2>3, CountsStay
  <2>5. \A c \in Cores : AttendanceKept(c) /\ SameLoad(c)
    BY <2>1 DEF AttendanceKept, Looking, SameLoad, At, Waiting
  <2>6. \A i \in Jobs : SignalKept(i) /\ Steady(i) /\ job'[i].done = job[i].done
    BY <2>1 DEF SignalKept, Steady
  <2>7. SameHolders
    BY <2>6, UntouchedHolds DEF SameHolders
  <2>8. Attended'
    BY <1>1, <2>5, AttendanceStays DEF Attended
  <2>9. Signalled'
    BY <1>1, <2>6, SignalStays DEF Signalled
  <2>10. Sums'
    BY <1>1, <2>1, <2>5, <2>7, SumsStay
  <2>11. QED
    BY <1>2, <2>4, <2>8, <2>9, <2>10 DEF Counted
<1>7. QED
  BY <1>1, <1>2, <1>3, <1>4, <1>5, <1>6, NothingStrays DEF Next, ThreadStep

(* A job of two cores is one of core 0.                                    *)
LEMMA TwoCoresHaveZero ==
    ASSUME NEW m \in SUBSET Cores, CommitCores(m) = m, NEW c \in m, NEW d \in m, c # d
    PROVE  0 \in m
BY DEF CommitCores

(* What a quiet driver has of a job that is at a core.                     *)
LEMMA QuietJob ==
    ASSUME QuietInv, Quiet, NEW k \in Jobs, NEW c \in Cores, At(k, c)
    PROVE  /\ Queued(k) /\ job[k].mask \in SUBSET Cores /\ CommitCores(job[k].mask) = job[k].mask
           /\ \A d \in Cores : At(k, d) => d \in job[k].mask
           /\ cur[c] = k =>
                 /\ \E d \in Cores : d # c /\ Waiting(k, d)
                 /\ \A d \in job[k].mask : At(k, d)
<1>1. /\ ExactInv /\ Settled /\ JobCounted(k) /\ Once
      /\ JobSettled(k) /\ JobOrderly(k) /\ Started(k) /\ Placed(k) /\ job[k] \in JobType
      /\ \A d \in Cores : CoreSettled(d)
  BY SettledFacts, ExactFacts DEF QuietInv, Counted, Settled, IInv
<1>2. /\ pc[k] \in {"new", "ret"} /\ \A e \in Executors : nx[e].at = "none"
      /\ \A d \in Cores : irq[d].at = "idle" /\ line[d] = "none" /\ hw[d].job = NoJob
  BY DEF Quiet
<1>3. ~Unknown(k) /\ ~Gone(k)
  BY DEF At, Waiting, Unknown, Gone
<1>4. pc[k] # "new" /\ pc[k] \notin Early
  BY <1>1, <1>3, ExactFacts, KnownIsSubmitted
<1>5. Queued(k)
  BY <1>1, <1>3, <1>4 DEF Queued, JobSettled, JobOrderly
<1>6. /\ job[k].mask \in SUBSET Cores /\ CommitCores(job[k].mask) = job[k].mask
      /\ \A d \in Cores : At(k, d) => d \in job[k].mask
  BY <1>1 DEF JobSettled, JobType, Placed
<1>7. ASSUME cur[c] = k
      PROVE  (\E d \in Cores : d # c /\ Waiting(k, d)) /\ \A d \in job[k].mask : At(k, d)
  <2>1. c \in job[k].mask /\ c \notin job[k].int_mask
    BY <1>1, <1>2, <1>6, <1>7, JobAssumption DEF CoreSettled
  <2>2. job[k].run_count = Cardinality(Reaching(k)) /\ job[k].run_count # 0
    BY <1>1, <1>2, <1>5, <2>1 DEF JobCounted, Starting
  <2>3. Reaching(k) \in SUBSET Cores /\ Reaching(k) # {}
    BY <2>2, FS_EmptySet DEF Reaching
  <2>4. PICK d \in Cores : Waiting(k, d)
    BY <1>2, <2>3 DEF Reaching, Counting
  <2>5. d # c
    BY <1>1, <1>7, <2>4 DEF Once, Waiting
  <2>6. job[k].int_mask = {}
    <3>1. job[k].run_count \in Nat
      BY <2>2, <2>3, MaskSize
    <3>2. ~(job[k].run_count <= 0)
      BY <2>2, <3>1
    <3>3. QED
      BY <1>1, <3>2 DEF Started
  <2>7. \A e \in job[k].mask : executed[k][e] = 0 /\ job[k].tasks # 0
    BY <1>1, <1>4, <1>6, <2>6 DEF Placed, Started
  <2>8. \A e \in job[k].mask : At(k, e)
    <3>1. c \in Unfinished(k)
      BY DEF Unfinished
    <3>2. \A e \in job[k].mask : At(k, e) \/ executed[k][e] = job[k].tasks
      BY <1>1, <3>1 DEF Placed
    <3>3. QED
      BY <2>7, <3>2
  <2>9. QED
    BY <2>4, <2>5, <2>8
<1>8. QED
  BY <1>5, <1>6, <1>7

(* No core has a job: it would wait for a core whose job waits in turn,    *)
(* and both would be jobs of core 0, served in opposite orders.            *)
LEMMA QuietCores ==
    ASSUME QuietInv, Quiet, NEW c \in Cores
    PROVE  cur[c] = NoJob /\ todo[c] = <<>>
<1>1. /\ cur \in [Cores -> Jobs \cup {NoJob}] /\ todo \in [Cores -> Seq(Jobs)]
      /\ Once /\ GangNeverCrossed /\ 0 \in Cores /\ NoJob \notin Jobs
  BY ExactFacts, ZeroCore, JobAssumption DEF QuietInv, IInv, TypeOK, CoresTypeOK
<1>2. ASSUME NEW d \in Cores, cur[d] = NoJob PROVE todo[d] = <<>>
  <2>1. CoreAttended(d)
    BY DEF QuietInv, Attended
  <2>2. \A e \in Executors : ~Looking(e, d)
    BY DEF Quiet, Looking
  <2>3. (\A j \in Jobs : pc[j] # "kick") /\ irq[d].at = "idle"
    BY DEF Quiet
  <2>4. QED
    BY <1>2, <2>1, <2>2, <2>3 DEF CoreAttended
<1>3. ASSUME NEW k \in Jobs, NEW d \in Cores, Waiting(k, d)
      PROVE  cur[d] \in Jobs /\ cur[d] # k /\ k \in ToSet(todo[d])
  <2>1. PICK n \in DOMAIN todo[d] : todo[d][n] = k
    BY <1>3 DEF Waiting
  <2>2. todo[d] # <<>>
    BY <2>1
  <2>3. cur[d] # NoJob /\ cur[d] # k
    BY <1>1, <1>2, <2>1, <2>2 DEF Once
  <2>4. QED
    BY <1>1, <2>1, <2>3 DEF ToSet
<1>4. ASSUME NEW d \in Cores, cur[d] \in Jobs
      PROVE  /\ \E e \in Cores : e # d /\ Waiting(cur[d], e)
             /\ 0 \in job[cur[d]].mask /\ At(cur[d], 0)
  <2>1. PICK k \in Jobs : k = cur[d]
    BY <1>4
  <2>2. At(k, d)
    BY <2>1 DEF At
  <2>3. /\ job[k].mask \in SUBSET Cores /\ CommitCores(job[k].mask) = job[k].mask
        /\ \A e \in Cores : At(k, e) => e \in job[k].mask
        /\ \E e \in Cores : e # d /\ Waiting(k, e)
        /\ \A e \in job[k].mask : At(k, e)
    BY <2>1, <2>2, QuietJob
  <2>4. PICK e \in Cores : e # d /\ Waiting(k, e)
    BY <2>3
  <2>5. d \in job[k].mask /\ e \in job[k].mask
    BY <2>2, <2>3, <2>4 DEF At
  <2>6. 0 \in job[k].mask
    BY <2>3, <2>4, <2>5, TwoCoresHaveZero
  <2>7. QED
    BY <2>1, <2>3, <2>6
<1>5. ASSUME NEW d \in Cores, cur[d] \in Jobs PROVE FALSE
  <2>1. At(cur[d], 0)
    BY <1>4, <1>5
  <2>2. cur[0] \in Jobs
    BY <1>1, <1>3, <1>5, <2>1 DEF At
  <2>3. PICK x \in Jobs : x = cur[0]
    BY <2>2
  <2>4. PICK e \in Cores : e # 0 /\ Waiting(x, e)
    BY <1>1, <1>4, <2>3
  <2>5. cur[e] \in Jobs /\ cur[e] # x /\ x \in ToSet(todo[e])
    BY <1>3, <2>4
  <2>6. PICK y \in Jobs : y = cur[e]
    BY <2>5
  <2>7. At(y, 0) /\ y # x
    BY <1>4, <2>5, <2>6
  <2>8. Waiting(y, 0)
    BY <2>3, <2>7 DEF At
  <2>9. y \in ToSet(todo[0])
    BY <1>1, <1>3, <2>8
  <2>10. Ahead(x, y, 0) /\ Ahead(y, x, e)
    BY <2>3, <2>5, <2>6, <2>9 DEF Ahead
  <2>11. QED
    BY <1>1, <2>10 DEF GangNeverCrossed
<1>6. cur[c] = NoJob
  BY <1>1, <1>5
<1>7. QED
  BY <1>2, <1>6

(* Nothing under way and nothing at a core: every job is DONE or failed,   *)
(* so no count has anything left to stand for.                             *)
LEMMA QuietIsClean == ASSUME QuietInv PROVE QuietMeansClean
<1> SUFFICES ASSUME Quiet
             PROVE  /\ \A c \in Cores : cur[c] = NoJob /\ todo[c] = <<>> /\ task_num[c] = 0
                    /\ domref = 0
                    /\ \A j \in Jobs : job[j].life # "live" /\ job[j].fence # "shared"
  BY DEF QuietMeansClean
<1>1. \A c \in Cores : cur[c] = NoJob /\ todo[c] = <<>>
  BY QuietCores
<1>2. /\ \A j \in Jobs : pc[j] \in {"new", "ret"} /\ j \notin work
      /\ \A c \in Cores : irq[c].at = "idle"
  BY DEF Quiet
<1>3. \A i \in Jobs, c \in Cores : ~At(i, c)
  BY <1>1, JobAssumption DEF At, Waiting
<1>4. \A c \in Cores : task_num[c] = 0
  <2>1. \A c \in Cores : Load(c) = {}
    BY <1>3 DEF Load
  <2>2. QED
    BY <2>1, FS_EmptySet DEF QuietInv, Sums
<1>5. ASSUME NEW j \in Jobs, Queued(j) PROVE job[j].done = TRUE
  <2>1. Unfinished(j) = {}
    BY <1>2, <1>3 DEF Unfinished
  <2>2. job[j].done \in BOOLEAN
    BY ExactFacts DEF QuietInv, JobType
  <2>3. JobCounted(j)
    BY DEF QuietInv, Counted
  <2>4. QED
    BY <1>5, <2>1, <2>2, <2>3 DEF JobCounted
<1>6. domref = 0
  <2>1. Holders = {}
    BY <1>2, <1>5 DEF Holders, Holds
  <2>2. QED
    BY <2>1, FS_EmptySet DEF QuietInv, Sums
<1>7. ASSUME NEW j \in Jobs PROVE job[j].life # "live" /\ job[j].fence # "shared"
  <2>1. /\ JobSettled(j) /\ JobSignalled(j) /\ job[j].nonblock \in BOOLEAN
    BY ExactFacts DEF QuietInv, Settled, Signalled, JobType
  <2>2. CASE pc[j] = "new" \/ Failed(j)
    BY <2>1, <2>2 DEF JobSettled
  <2>3. CASE pc[j] = "ret" /\ ~Failed(j)
    <3>1. job[j].done = TRUE
      BY <1>5, <2>3 DEF Queued, Early
    <3>2. job[j].fence # "shared" /\ (job[j].nonblock = TRUE => job[j].life = "freed")
      BY <1>2, <2>1, <3>1 DEF JobSignalled
    <3>3. QED
      BY <2>1, <2>3, <3>2 DEF JobSettled
  <2>4. QED
    BY <1>2, <2>2, <2>3
<1>8. QED
  BY <1>1, <1>4, <1>6, <1>7

(* With none of the faults of Untroubled, the counters of every job, the   *)
(* tasks of every core and the users of the domain are exact at every      *)
(* step, no free core is left with a queue and no end of a job is lost,    *)
(* whatever the number of jobs, tasks and cores.                           *)
THEOREM JobQuietInvariance == ASSUME Untroubled PROVE Spec => []QuietInv
<1>1. NotLate /\ OwnLine /\ \A a \in Requests : CommitCores(a.mask) = a.mask
  BY UntroubledFaults DEF Untroubled
<1>2. Spec => []ExactInv
  BY <1>1, JobExactInvariance
<1>3. ASSUME Init, ExactInv PROVE QuietInv
  BY <1>1, <1>3, InitQuiet DEF QuietInv
<1>4. ASSUME QuietInv, ExactInv', [Next]_vars PROVE QuietInv'
  <2>1. IInv'
    BY <1>4 DEF ExactInv, OrderInv, OwnInv
  <2>2. QED
    BY <1>4, <2>1, QuietStep DEF QuietInv
<1>5. QED
  BY <1>2, <1>3, <1>4, PTL DEF Spec

(* When no thread, handler, call or worker has anything left to do, no     *)
(* core has a job or a queue, no job is left unfreed, no fence is          *)
(* unsignalled, and the counts of tasks and of domain users are back at    *)
(* zero.  In particular no number, mask or order of submits leaves a       *)
(* NONBLOCK job in a queue that nobody will look at again.                 *)
THEOREM JobQuietMeansClean == ASSUME Untroubled PROVE Spec => []QuietMeansClean
<1>1. Spec => []QuietInv
  BY JobQuietInvariance
<1>2. QuietInv => QuietMeansClean
  BY QuietIsClean
<1>3. QED
  BY <1>1, <1>2, PTL
=============================================================================
