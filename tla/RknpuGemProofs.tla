--------------------------- MODULE RknpuGemProofs ---------------------------
(***************************************************************************)
(* Proofs about the buffer objects of the DRM path, for any number of      *)
(* threads, files, objects, chunks and jobs, any set of failing calls and  *)
(* any overlap of calls.  iommu_domain_refcount is exact throughout.  Of   *)
(* an address nothing else is said once it is stale, that is once a call   *)
(* took a reference there when there was none left: rknpu_gem_object_find  *)
(* returns an object without one, and a submit looks up no handle at all.  *)
(***************************************************************************)
EXTENDS RknpuGem, TLAPS, FiniteSetTheorems

(* The steps of a create before it has a handle and up to its end; those   *)
(* of a call that has found an object; those of a destruction.             *)
PreHandle == {"get", "sram", "mm", "map", "ddr", "put", "release", "handle"}
CreateSteps == PreHandle \cup {"drop"}
UseSteps == {"drop", "track", "destroy", "untrack", "delete"}
FreeAll == {"free"} \cup FreeSteps

OthersKeep(t) == \A u \in Threads : u # t => call'[u] = call[u]

(* What the record of a call looks like at each step.                      *)
CallOK(c) ==
    /\ c.at = "idle" => c = Idle
    /\ c.at \notin FreeAll => c.after = "idle"
    /\ c.at \in CreateSteps \cup UseSteps => c.f \in Files /\ c.o \in Objs
    /\ c.at \in FreeAll => c.o \in Objs
    /\ c.after \in {"close", "delete", "track"} => c.f \in Files
    /\ c.at = "close" => c.f \in Files /\ c.o = NoObj

CallTyped == call \in [Threads -> CallType]
CallInv == \A t \in Threads : CallOK(call[t])
SramType == chunks \in [Objs -> SUBSET (0 .. Chunks - 1)] /\ refused \subseteq Objs

(* How often a call counts in iommu_domain_refcount.                       *)
InDom(c) == c.at \in DomainSteps \cup FreeSteps
Nested(c) == c.at \in FreeAll /\ c.after \in {"delete", "end"}
Weight(c) == (IF InDom(c) THEN 1 ELSE 0) + (IF Nested(c) THEN 1 ELSE 0)

(* What holds whatever the clients do.                                     *)
Base ==
    /\ CallTyped /\ CallInv /\ SramType
    /\ handles \in [Files -> SUBSET Objs]
    /\ DomainExact

(* What a step of thread t does to the calls and to the domain.            *)
CallStep(t) ==
    /\ CallTyped' /\ OthersKeep(t) /\ CallOK(call'[t])
    /\ domain' = domain + Weight(call'[t]) - Weight(call[t])

----------------------------------------------------------------------------
(* The threads in a set that only t may enter or leave, counted.           *)
LEMMA CountStep ==
    ASSUME NEW t \in Threads, NEW A, NEW B, A \subseteq Threads, B \subseteq Threads,
           \A u \in Threads : u # t => (u \in A <=> u \in B)
    PROVE  /\ Cardinality(A) \in Nat /\ Cardinality(B) \in Nat
           /\ t \in A /\ t \in B => Cardinality(B) = Cardinality(A)
           /\ t \notin A /\ t \notin B => Cardinality(B) = Cardinality(A)
           /\ t \notin A /\ t \in B => Cardinality(B) = Cardinality(A) + 1
           /\ t \in A /\ t \notin B => Cardinality(B) = Cardinality(A) - 1
<1>1. IsFiniteSet(A) /\ IsFiniteSet(B)
  BY GemAssumption, FS_Subset
<1>2. Cardinality(A) \in Nat /\ Cardinality(B) \in Nat
  BY <1>1, FS_CardinalityType
<1>3. (t \in A <=> t \in B) => A = B
  OBVIOUS
<1>4. ASSUME t \notin A, t \in B PROVE Cardinality(B) = Cardinality(A) + 1
  <2>1. B = A \cup {t}
    BY <1>4
  <2>2. QED
    BY <1>1, <1>4, <2>1, FS_AddElement
<1>5. ASSUME t \in A, t \notin B PROVE Cardinality(B) = Cardinality(A) - 1
  <2>1. B = A \ {t}
    BY <1>5
  <2>2. QED
    BY <1>1, <1>5, <2>1, FS_RemoveElement
<1>6. QED
  BY <1>2, <1>3, <1>4, <1>5

(* A step that moves iommu_domain_refcount as the weight of its call moves *)
(* keeps the count exact.                                                  *)
LEMMA CallStepKeeps ==
    ASSUME Base, NEW t \in Threads, CallStep(t)
    PROVE  CallTyped' /\ CallInv' /\ DomainExact'
<1>1. CallTyped' /\ CallInv'
  BY DEF Base, CallStep, CallInv, OthersKeep
<1>2. /\ t \in InDomain <=> InDom(call[t])
      /\ t \in NestedFree <=> Nested(call[t])
      /\ t \in InDomain' <=> InDom(call'[t])
      /\ t \in NestedFree' <=> Nested(call'[t])
  BY DEF InDomain, NestedFree, InDom, Nested, FreeAll
<1>3. /\ InDomain \subseteq Threads /\ InDomain' \subseteq Threads
      /\ NestedFree \subseteq Threads /\ NestedFree' \subseteq Threads
  BY DEF InDomain, NestedFree
<1>4. \A u \in Threads : u # t =>
         (u \in InDomain <=> u \in InDomain') /\ (u \in NestedFree <=> u \in NestedFree')
  BY DEF CallStep, OthersKeep, InDomain, NestedFree
<1> DEFINE a == Cardinality(InDomain)
           b == Cardinality(NestedFree)
           c == Cardinality(InDomain')
           d == Cardinality(NestedFree')
<1>5. /\ a \in Nat /\ c \in Nat
      /\ c = a + (IF InDom(call'[t]) THEN 1 ELSE 0) - (IF InDom(call[t]) THEN 1 ELSE 0)
  BY <1>2, <1>3, <1>4, CountStep
<1>6. /\ b \in Nat /\ d \in Nat
      /\ d = b + (IF Nested(call'[t]) THEN 1 ELSE 0) - (IF Nested(call[t]) THEN 1 ELSE 0)
  BY <1>2, <1>3, <1>4, CountStep
<1>7. domain = a + b
  BY DEF Base, DomainExact
<1>8. domain' = domain + Weight(call'[t]) - Weight(call[t])
  BY DEF CallStep
<1>9. domain' = c + d
  BY <1>5, <1>6, <1>7, <1>8 DEF Weight
<1>10. QED
  BY <1>1, <1>9 DEF DomainExact

(* Going on to a step, and back to the caller.                             *)
LEMMA GotoEffect ==
    ASSUME CallTyped, NEW t \in Threads, NEW step \in Steps, Goto(t, step)
    PROVE  /\ CallTyped' /\ OthersKeep(t)
           /\ step = "idle" => call'[t] = Idle
           /\ step # "idle" => call'[t] = [call[t] EXCEPT !.at = step]
<1>1. Idle \in CallType
  BY DEF CallType, Idle, Steps
<1>2. call[t] \in CallType
  BY DEF CallTyped
<1>3. [call[t] EXCEPT !.at = step] \in CallType
  BY <1>2 DEF CallType
<1>4. QED
  BY <1>1, <1>3 DEF Goto, CallTyped, OthersKeep

(* The fields of the record of an idle thread.                             *)
LEMMA IdleFields ==
    Idle.at = "idle" /\ Idle.f = NoFile /\ Idle.o = NoObj /\ Idle.after = "idle"
  BY DEF Idle

(* The same as fields, which is how the steps use it.                      *)
LEMMA GotoFields ==
    ASSUME CallTyped, NEW t \in Threads, NEW step \in Steps, Goto(t, step)
    PROVE  /\ CallTyped' /\ OthersKeep(t)
           /\ call'[t].at = step
           /\ step = "idle" => call'[t] = Idle /\ call'[t].after = "idle"
           /\ step # "idle" => /\ call'[t].f = call[t].f /\ call'[t].o = call[t].o
                               /\ call'[t].after = call[t].after
<1>1. call[t] \in CallType
  BY DEF CallTyped
<1>2. /\ CallTyped' /\ OthersKeep(t)
      /\ step = "idle" => call'[t] = Idle
      /\ step # "idle" => call'[t] = [call[t] EXCEPT !.at = step]
  BY GotoEffect
<1>3. CASE step = "idle"
  BY <1>2, <1>3, IdleFields
<1>4. CASE step # "idle"
  BY <1>1, <1>2, <1>4 DEF CallType
<1>5. QED
  BY <1>3, <1>4

(* A call that begins.                                                     *)
LEMMA BeginFields ==
    ASSUME CallTyped, NEW t \in Threads, NEW step \in Steps, NEW f \in Files,
           NEW o \in Objs \cup {NoObj}, Begin(t, step, f, o)
    PROVE  /\ CallTyped' /\ OthersKeep(t)
           /\ call[t].at = "idle"
           /\ call'[t].at = step /\ call'[t].f = f /\ call'[t].o = o
           /\ call'[t].after = "idle"
<1> DEFINE c == [Idle EXCEPT !.at = step, !.f = f, !.o = o]
<1>1. Idle \in CallType
  BY DEF CallType, Idle, Steps
<1>2. c \in CallType /\ c.at = step /\ c.f = f /\ c.o = o /\ c.after = "idle"
  BY <1>1 DEF CallType, Idle
<1>3. call' = [call EXCEPT ![t] = c] /\ call[t].at = "idle"
  BY DEF Begin, At
<1>4. QED
  BY <1>2, <1>3 DEF CallTyped, OthersKeep

(* Dropping a reference, and what comes after the last one.                *)
LEMMA PutFields ==
    ASSUME CallTyped, NEW t \in Threads, NEW o \in Objs,
           NEW next \in {"idle", "delete", "track", "end", "close"}, Put(t, o, next)
    PROVE  /\ CallTyped' /\ OthersKeep(t)
           /\ refs[o] = 1 => /\ call'[t].at = "free" /\ call'[t].f = call[t].f
                             /\ call'[t].o = o /\ call'[t].after = next
           /\ refs[o] # 1 => Goto(t, next)
<1>1. CASE refs[o] = 1
  <2> DEFINE c == [call[t] EXCEPT !.at = "free", !.o = o, !.tries = 0, !.after = next]
  <2>1. call[t] \in CallType
    BY DEF CallTyped
  <2>2. "free" \in Steps /\ 0 \in 0 .. 2
    BY DEF Steps
  <2>3. /\ c \in CallType /\ c.at = "free" /\ c.f = call[t].f /\ c.o = o
        /\ c.after = next
    BY <2>1, <2>2 DEF CallType
  <2>4. call' = [call EXCEPT ![t] = c]
    BY <1>1 DEF Put
  <2>5. QED
    BY <1>1, <2>3, <2>4 DEF CallTyped, OthersKeep
<1>2. CASE refs[o] # 1
  <2>1. Goto(t, next) /\ next \in Steps
    BY <1>2 DEF Put, Steps, DomainSteps
  <2>2. QED
    BY <1>2, <2>1, GotoFields
<1>3. QED
  BY <1>1, <1>2

(* The end of rknpu_gem_object_destroy.                                    *)
LEMMA ReturnFields ==
    ASSUME CallTyped, NEW t \in Threads, Return(t)
    PROVE  /\ CallTyped' /\ OthersKeep(t)
           /\ call'[t].at = call[t].after /\ call'[t].after = "idle"
           /\ call[t].after = "idle" => call'[t] = Idle
           /\ call[t].after = "close" => call'[t].o = NoObj
           /\ call[t].after # "idle" => call'[t].f = call[t].f
           /\ call[t].after \notin {"idle", "close"} => call'[t].o = call[t].o
<1>1. call[t] \in CallType
  BY DEF CallTyped
<1>2. CASE call[t].after = "idle"
  <2>1. Goto(t, "idle") /\ "idle" \in Steps
    BY <1>2 DEF Return, Steps
  <2>2. QED
    BY <1>2, <2>1, GotoFields
<1>3. CASE call[t].after # "idle"
  <2> DEFINE c == [call[t] EXCEPT !.at = call[t].after, !.after = "idle", !.tries = 0,
                      !.o = IF call[t].after = "close" THEN NoObj ELSE call[t].o]
  <2>1. call[t].after \in Steps /\ 0 \in 0 .. 2
    BY <1>1 DEF CallType, Steps, DomainSteps
  <2>2. /\ c \in CallType /\ c.at = call[t].after /\ c.f = call[t].f /\ c.after = "idle"
        /\ c.o = IF call[t].after = "close" THEN NoObj ELSE call[t].o
    BY <1>1, <2>1 DEF CallType
  <2>3. call' = [call EXCEPT ![t] = c]
    BY <1>3 DEF Return
  <2>4. QED
    BY <1>3, <2>2, <2>3 DEF CallTyped, OthersKeep
<1>4. QED
  BY <1>2, <1>3

(* Another attempt to enter the domain.                                    *)
LEMMA AgainFields ==
    ASSUME CallTyped, NEW t \in Threads, DomainGetAgain(t)
    PROVE  /\ CallTyped' /\ OthersKeep(t)
           /\ call'[t].at = call[t].at /\ call'[t].f = call[t].f
           /\ call'[t].o = call[t].o /\ call'[t].after = call[t].after
<1> DEFINE c == [call[t] EXCEPT !.tries = @ + 1]
<1>1. call[t] \in CallType
  BY DEF CallTyped
<1>2. call[t].tries \in 0 .. 2 /\ call[t].tries < 2
  BY <1>1 DEF CallType, DomainGetAgain
<1>3. call[t].tries + 1 \in 0 .. 2
  BY <1>2
<1>4. /\ c \in CallType /\ c.at = call[t].at /\ c.f = call[t].f /\ c.o = call[t].o
      /\ c.after = call[t].after
  BY <1>1, <1>3 DEF CallType
<1>5. call' = [call EXCEPT ![t] = c]
  BY DEF DomainGetAgain
<1>6. QED
  BY <1>4, <1>5 DEF CallTyped, OthersKeep

----------------------------------------------------------------------------
(* The count is a number.                                                  *)
LEMMA DomainType == ASSUME Base PROVE domain \in Nat
<1>1. IsFiniteSet(InDomain) /\ IsFiniteSet(NestedFree)
  <2>1. InDomain \subseteq Threads /\ NestedFree \subseteq Threads
    BY DEF InDomain, NestedFree
  <2>2. QED
    BY <2>1, GemAssumption, FS_Subset
<1>2. QED
  BY <1>1, FS_CardinalityType DEF Base, DomainExact

(* Every action keeps the records of the calls well formed, and moves      *)
(* iommu_domain_refcount with them.  First what is common to the steps     *)
(* that only go on: a weight is what the labels say it is.                 *)
LEMMA GotoCall ==
    ASSUME Base, NEW t \in Threads, NEW step \in Steps, Goto(t, step),
           call[t].at # "idle",
           call[t].at \in FreeAll <=> step \in FreeAll,
           step \in CreateSteps \cup UseSteps => call[t].at \in CreateSteps \cup UseSteps,
           step # "close",
           domain' = domain + (IF step \in DomainSteps \cup FreeSteps THEN 1 ELSE 0)
                     - (IF call[t].at \in DomainSteps \cup FreeSteps THEN 1 ELSE 0)
    PROVE  CallStep(t)
<1>1. CallTyped /\ CallOK(call[t])
  BY DEF Base, CallInv
<1>2. /\ CallTyped' /\ OthersKeep(t)
      /\ call'[t].at = step
      /\ step = "idle" => call'[t] = Idle /\ call'[t].after = "idle"
      /\ step # "idle" => /\ call'[t].f = call[t].f /\ call'[t].o = call[t].o
                          /\ call'[t].after = call[t].after
  BY <1>1, GotoFields
<1>3. /\ InDom(call'[t]) <=> step \in DomainSteps \cup FreeSteps
      /\ InDom(call[t]) <=> call[t].at \in DomainSteps \cup FreeSteps
  BY <1>2 DEF InDom
<1>4. "idle" \notin FreeAll /\ "idle" \notin CreateSteps \cup UseSteps
  BY DEF FreeAll, FreeSteps, CreateSteps, PreHandle, UseSteps
<1>5. Nested(call'[t]) <=> Nested(call[t])
  <2>1. CASE step = "idle"
    BY <1>2, <1>4, <2>1 DEF Nested
  <2>2. CASE step # "idle"
    BY <1>2, <2>2 DEF Nested
  <2>3. QED
    BY <2>1, <2>2
<1>6. CallOK(call'[t])
  <2>1. CASE step = "idle"
    BY <1>2, <1>4, <2>1 DEF CallOK
  <2>2. CASE step # "idle"
    BY <1>1, <1>2, <2>2 DEF CallOK
  <2>3. QED
    BY <2>1, <2>2
<1>7. domain \in Int
  BY DomainType
<1>8. domain' = domain + Weight(call'[t]) - Weight(call[t])
  BY <1>3, <1>5, <1>7 DEF Weight
<1>9. QED
  BY <1>2, <1>6, <1>8 DEF CallStep

(* GEM_CREATE and PRIME import begin with the only reference.              *)
LEMMA CreateCall ==
    ASSUME Base, NEW t \in Threads, NEW c \in CallType, c.at \in {"get", "handle"},
           c.f \in Files, c.o \in Objs, c.after = "idle",
           At(t, "idle"), domain' = domain, call' = [call EXCEPT ![t] = c]
    PROVE  CallStep(t) /\ call'[t] = c
<1>1. CallTyped' /\ OthersKeep(t) /\ call'[t] = c
  BY DEF Base, CallTyped, OthersKeep
<1>2. CallOK(call'[t])
  BY <1>1 DEF CallOK, FreeAll, FreeSteps
<1>3. ~InDom(call'[t]) /\ ~Nested(call'[t])
  BY <1>1 DEF InDom, Nested, FreeAll, FreeSteps, DomainSteps
<1>4. ~InDom(call[t]) /\ ~Nested(call[t])
  BY DEF At, InDom, Nested, FreeAll, FreeSteps, DomainSteps
<1>5. domain' = domain + Weight(call'[t]) - Weight(call[t])
  BY <1>3, <1>4, DomainType DEF Weight
<1>6. QED
  BY <1>1, <1>2, <1>5 DEF CallStep

(* The records they begin with.                                            *)
CreateRecord(f, o, n, tracks) ==
    [Idle EXCEPT !.at = "get", !.f = f, !.o = o, !.n = n, !.tracks = tracks]
ImportRecord(f, o) == [Idle EXCEPT !.at = "handle", !.f = f, !.o = o]

(* They are records of calls.                                              *)
LEMMA CreateRecords ==
    ASSUME NEW f \in Files, NEW o \in Objs, NEW n \in Nat, NEW tracks \in BOOLEAN
    PROVE  LET c == CreateRecord(f, o, n, tracks)
           IN c \in CallType /\ c.at = "get" /\ c.f = f /\ c.o = o /\ c.after = "idle"
<1>1. Idle \in CallType /\ "get" \in Steps
  BY DEF CallType, Idle, Steps
<1>2. QED
  BY <1>1 DEF CallType, Idle, CreateRecord

(* So is the record of an import.                                          *)
LEMMA ImportRecords ==
    ASSUME NEW f \in Files, NEW o \in Objs
    PROVE  LET c == ImportRecord(f, o)
           IN c \in CallType /\ c.at = "handle" /\ c.f = f /\ c.o = o /\ c.after = "idle"
<1>1. Idle \in CallType /\ "handle" \in Steps
  BY DEF CallType, Idle, Steps
<1>2. QED
  BY <1>1 DEF CallType, Idle, ImportRecord

(* The other calls.                                                        *)
LEMMA BeginCall ==
    ASSUME Base, NEW t \in Threads, NEW f \in Files, NEW o \in Objs \cup {NoObj},
           NEW step \in {"track", "destroy", "close", "sync", "end"}, Begin(t, step, f, o),
           step \in {"track", "destroy"} => o \in Objs,
           step = "close" => o = NoObj,
           domain' = domain + (IF step \in {"sync", "end"} THEN 1 ELSE 0)
    PROVE  CallStep(t)
<1>1. step \in Steps
  BY DEF Steps, DomainSteps
<1>2. /\ CallTyped' /\ OthersKeep(t)
      /\ call[t].at = "idle"
      /\ call'[t].at = step /\ call'[t].f = f /\ call'[t].o = o /\ call'[t].after = "idle"
  BY <1>1, BeginFields DEF Base
<1>3. CallOK(call'[t])
  BY <1>2 DEF CallOK, FreeAll, FreeSteps, CreateSteps, PreHandle, UseSteps
<1>4. ~InDom(call[t]) /\ ~Nested(call[t]) /\ ~Nested(call'[t])
  BY <1>2 DEF InDom, Nested, FreeAll, FreeSteps, DomainSteps
<1>5. InDom(call'[t]) <=> step \in {"sync", "end"}
  BY <1>2 DEF InDom, FreeSteps, DomainSteps
<1>6. domain' = domain + Weight(call'[t]) - Weight(call[t])
  BY <1>4, <1>5, DomainType DEF Weight
<1>7. QED
  BY <1>2, <1>3, <1>6 DEF CallStep

(* A reference is dropped.                                                 *)
LEMMA PutCall ==
    ASSUME Base, NEW t \in Threads, NEW o \in Objs,
           NEW next \in {"idle", "delete", "track", "end", "close"}, Put(t, o, next),
           call[t].at \notin FreeAll,
           next \in {"delete", "track"} => call[t].at \in UseSteps,
           next = "close" => call[t].at = "close",
           InDom(call[t]) <=> next \in {"delete", "end"},
           domain' = domain
    PROVE  CallStep(t)
<1>1. CallTyped /\ CallOK(call[t])
  BY DEF Base, CallInv
<1>2. /\ CallTyped' /\ OthersKeep(t)
      /\ refs[o] = 1 => /\ call'[t].at = "free" /\ call'[t].f = call[t].f
                        /\ call'[t].o = o /\ call'[t].after = next
      /\ refs[o] # 1 => Goto(t, next)
  BY <1>1, PutFields
<1>3. ~Nested(call[t])
  BY DEF Nested
<1>4. CASE refs[o] = 1
  <2>1. CallOK(call'[t])
    BY <1>1, <1>2, <1>4 DEF CallOK, FreeAll, CreateSteps, PreHandle, UseSteps
  <2>2. ~InDom(call'[t]) /\ (Nested(call'[t]) <=> next \in {"delete", "end"})
    BY <1>2, <1>4 DEF InDom, Nested, FreeAll, FreeSteps, DomainSteps
  <2>3. domain' = domain + Weight(call'[t]) - Weight(call[t])
    BY <1>3, <2>2, DomainType DEF Weight
  <2>4. QED
    BY <1>2, <2>1, <2>3 DEF CallStep
<1>5. CASE refs[o] # 1
  <2>1. next \in Steps
    BY DEF Steps, DomainSteps
  <2>2. /\ call'[t].at = next
        /\ next = "idle" => call'[t] = Idle /\ call'[t].after = "idle"
        /\ next # "idle" => /\ call'[t].f = call[t].f /\ call'[t].o = call[t].o
                            /\ call'[t].after = call[t].after
    BY <1>1, <1>2, <1>5, <2>1, GotoFields
  <2>3. CallOK(call'[t])
    <3>1. CASE next = "idle"
      BY <2>2, <3>1 DEF CallOK, FreeAll, FreeSteps, CreateSteps, PreHandle, UseSteps
    <3>2. CASE next # "idle"
      BY <1>1, <2>2, <3>2 DEF CallOK, FreeAll, FreeSteps, CreateSteps, PreHandle, UseSteps
    <3>3. QED
      BY <3>1, <3>2
  <2>4. ~Nested(call'[t]) /\ (InDom(call'[t]) <=> next \in {"delete", "end"})
    BY <2>2 DEF InDom, Nested, FreeAll, FreeSteps, DomainSteps
  <2>5. domain' = domain + Weight(call'[t]) - Weight(call[t])
    BY <1>3, <2>4, DomainType DEF Weight
  <2>6. QED
    BY <1>2, <2>3, <2>5 DEF CallStep
<1>6. QED
  BY <1>4, <1>5

(* A destruction returns, with its own domain_put or (giving up) without.  *)
LEMMA ReturnCall ==
    ASSUME Base, NEW t \in Threads, Return(t), call[t].at \in {"free", "free_release"},
           domain' = domain - (IF call[t].at = "free" THEN 0 ELSE 1)
    PROVE  CallStep(t)
<1>1. CallTyped /\ CallOK(call[t])
  BY DEF Base, CallInv
<1>2. /\ CallTyped' /\ OthersKeep(t)
      /\ call'[t].at = call[t].after /\ call'[t].after = "idle"
      /\ call[t].after = "idle" => call'[t] = Idle
      /\ call[t].after = "close" => call'[t].o = NoObj
      /\ call[t].after # "idle" => call'[t].f = call[t].f
      /\ call[t].after \notin {"idle", "close"} => call'[t].o = call[t].o
  BY <1>1, ReturnFields
<1>3. call[t].after \in {"idle", "delete", "track", "end", "close"}
  BY <1>1 DEF CallTyped, CallType
<1>4. call[t].at \in FreeAll /\ call[t].o \in Objs
  BY <1>1 DEF FreeAll, FreeSteps, CallOK
<1>5. CallOK(call'[t])
  BY <1>1, <1>2, <1>3, <1>4
     DEF CallOK, FreeAll, FreeSteps, CreateSteps, PreHandle, UseSteps
<1>6. /\ InDom(call[t]) <=> call[t].at # "free"
      /\ Nested(call[t]) <=> call[t].after \in {"delete", "end"}
  BY <1>4 DEF InDom, Nested, FreeSteps, DomainSteps
<1>7. /\ InDom(call'[t]) <=> call[t].after \in {"delete", "end"}
      /\ ~Nested(call'[t])
  BY <1>2, <1>3 DEF InDom, Nested, FreeSteps, DomainSteps
<1>8. domain' = domain + Weight(call'[t]) - Weight(call[t])
  BY <1>6, <1>7, DomainType DEF Weight
<1>9. QED
  BY <1>2, <1>5, <1>8 DEF CallStep

(* Another attempt counts as much as the one before.                       *)
LEMMA AgainCall ==
    ASSUME Base, NEW t \in Threads, DomainGetAgain(t), call[t].at # "idle"
    PROVE  CallStep(t)
<1>1. CallTyped /\ CallOK(call[t])
  BY DEF Base, CallInv
<1>2. /\ CallTyped' /\ OthersKeep(t)
      /\ call'[t].at = call[t].at /\ call'[t].f = call[t].f
      /\ call'[t].o = call[t].o /\ call'[t].after = call[t].after
  BY <1>1, AgainFields
<1>3. CallOK(call'[t])
  BY <1>1, <1>2 DEF CallOK
<1>4. Weight(call'[t]) = Weight(call[t]) /\ Weight(call[t]) \in Int
  BY <1>2 DEF Weight, InDom, Nested
<1>5. domain' = domain
  BY DEF DomainGetAgain
<1>6. QED
  BY <1>2, <1>3, <1>4, <1>5, DomainType DEF CallStep

----------------------------------------------------------------------------
(* The number of free chunks is a number.                                  *)
LEMMA FreeChunks ==
    ASSUME SramType
    PROVE  Chunks - Cardinality(Sram!AllHeld) \in Nat
<1>1. Sram!AllHeld \subseteq 0 .. Chunks - 1
  BY DEF SramType, Sram!AllHeld
<1>2. IsFiniteSet(0 .. Chunks - 1) /\ Cardinality(0 .. Chunks - 1) = Chunks
  BY GemAssumption, FS_Interval
<1>3. Cardinality(Sram!AllHeld) <= Chunks /\ Cardinality(Sram!AllHeld) \in Nat
  BY <1>1, <1>2, FS_Subset, FS_CardinalityType
<1>4. QED
  BY <1>3, GemAssumption

(* The request is cut to the free chunks.                                  *)
LEMMA SramCall ==
    ASSUME Base, NEW t \in Threads, CreateSram(t)
    PROVE  /\ CallStep(t)
           /\ call'[t].at \in {"mm", "ddr"} /\ call'[t].f = call[t].f
           /\ call'[t].o = call[t].o /\ call'[t].after = call[t].after
<1> DEFINE free == Chunks - Cardinality(Sram!AllHeld)
           step == IF free > 0 THEN "mm" ELSE "ddr"
           n == IF call[t].n > free THEN free ELSE call[t].n
           c == [call[t] EXCEPT !.at = step, !.n = n]
<1>1. free \in Nat
  BY FreeChunks DEF Base
<1>2. CallTyped /\ CallOK(call[t]) /\ call[t] \in CallType
  BY DEF Base, CallInv, CallTyped
<1>3. call[t].n \in Nat
  BY <1>2 DEF CallType
<1> HIDE DEF free
<1>4. n \in Nat /\ step \in {"mm", "ddr"}
  BY <1>1, <1>3
<1>5. call' = [call EXCEPT ![t] = c] /\ call[t].at = "sram" /\ domain' = domain
  BY DEF CreateSram, At, free
<1> HIDE DEF n, step
<1>6. step \in Steps
  BY <1>4 DEF Steps, DomainSteps
<1>7. c \in CallType /\ c.at = step /\ c.f = call[t].f /\ c.o = call[t].o
      /\ c.after = call[t].after
  BY <1>2, <1>4, <1>6 DEF CallType
<1> HIDE DEF c
<1>8. CallTyped' /\ OthersKeep(t) /\ call'[t] = c
  BY <1>2, <1>5, <1>7 DEF CallTyped, OthersKeep
<1>9. CallOK(c)
  BY <1>2, <1>4, <1>5, <1>7
     DEF CallOK, FreeAll, FreeSteps, CreateSteps, PreHandle, UseSteps
<1>10. InDom(c) /\ ~Nested(c) /\ InDom(call[t]) /\ ~Nested(call[t])
  BY <1>4, <1>5, <1>7 DEF InDom, Nested, FreeAll, FreeSteps, DomainSteps
<1>11. domain' = domain + Weight(call'[t]) - Weight(call[t])
  BY <1>5, <1>8, <1>10, DomainType DEF Weight
<1>12. QED
  BY <1>4, <1>7, <1>8, <1>9, <1>11 DEF CallStep

(* The steps of GEM_CREATE.                                                *)
LEMMA CreateStepCall == ASSUME Base, NEW t \in Threads, CreateStep(t) PROVE CallStep(t)
<1>0. domain \in Int /\ CallOK(call[t])
  BY DomainType DEF Base, CallInv
<1>1. CASE CreateGet(t)
  <2>1. CASE "domain" \in Faults /\ Goto(t, "idle") /\ domain' = domain
    BY <1>0, <1>1, <2>1, GotoCall DEF CreateGet, At, Steps, FreeAll, FreeSteps, DomainSteps,
         CreateSteps, PreHandle, UseSteps
  <2>2. ASSUME NEW step \in {"sram", "ddr"}, DomainGet(t, step) PROVE CallStep(t)
    BY <1>0, <1>1, <2>2, GotoCall DEF CreateGet, DomainGet, At, Steps, FreeAll, FreeSteps,
         DomainSteps, CreateSteps, PreHandle, UseSteps
  <2>3. QED
    BY <1>1, <2>1, <2>2 DEF CreateGet
<1>2. CASE CreateSram(t)
  BY <1>2, SramCall
<1>3. CASE CreateMm(t)
  <2>1. ASSUME NEW step \in {"map", "ddr"}, Goto(t, step) PROVE CallStep(t)
    BY <1>0, <1>3, <2>1, GotoCall DEF CreateMm, At, Steps, FreeAll, FreeSteps,
         DomainSteps, CreateSteps, PreHandle, UseSteps
  <2>2. QED
    BY <1>3, <2>1 DEF CreateMm
<1>4. CASE CreateMap(t)
  <2>1. ASSUME NEW step \in {"put", "release"}, Goto(t, step) PROVE CallStep(t)
    BY <1>0, <1>4, <2>1, GotoCall DEF CreateMap, At, Steps, FreeAll, FreeSteps,
         DomainSteps, CreateSteps, PreHandle, UseSteps
  <2>2. QED
    BY <1>4, <2>1 DEF CreateMap
<1>5. CASE CreateDdr(t)
  <2>1. ASSUME NEW step \in {"put", "release"}, Goto(t, step) PROVE CallStep(t)
    BY <1>0, <1>5, <2>1, GotoCall DEF CreateDdr, At, Steps, FreeAll, FreeSteps,
         DomainSteps, CreateSteps, PreHandle, UseSteps
  <2>2. QED
    BY <1>5, <2>1 DEF CreateDdr
<1>6. CASE CreateRelease(t)
  BY <1>0, <1>6, GotoCall DEF CreateRelease, At, Steps, FreeAll, FreeSteps,
       DomainSteps, CreateSteps, PreHandle, UseSteps
<1>7. CASE CreatePut(t)
  BY <1>0, <1>7, GotoCall DEF CreatePut, At, Steps, FreeAll, FreeSteps,
       DomainSteps, CreateSteps, PreHandle, UseSteps
<1>8. CASE CreateHandle(t)
  <2>1. ASSUME Goto(t, "drop") PROVE CallStep(t)
    BY <1>0, <1>8, <2>1, GotoCall DEF CreateHandle, At, Steps, FreeAll, FreeSteps,
         DomainSteps, CreateSteps, PreHandle, UseSteps
  <2>p. ASSUME Put(t, call[t].o, "idle") PROVE CallStep(t)
    <3>1. call[t].at = "handle" /\ domain' = domain
      BY <1>8 DEF CreateHandle, At
    <3>2. call[t].o \in Objs /\ call[t].at \notin FreeAll /\ ~InDom(call[t])
      BY <1>0, <3>1 DEF CallOK, CreateSteps, PreHandle, FreeAll, FreeSteps, DomainSteps, InDom
    <3>3. QED
      BY <2>p, <3>1, <3>2, PutCall
  <2>2. ASSUME Goto(t, "free") PROVE CallStep(t)
    <3>1. CallTyped /\ "free" \in Steps /\ call[t].at = "handle" /\ domain' = domain
      BY <1>8 DEF Base, Steps, CreateHandle, At
    <3>2. /\ CallTyped' /\ OthersKeep(t) /\ call'[t].at = "free" /\ call'[t].f = call[t].f
          /\ call'[t].o = call[t].o /\ call'[t].after = call[t].after
      BY <2>2, <3>1, GotoFields
    <3>3. call[t].o \in Objs /\ call[t].after = "idle"
      BY <1>0, <3>1 DEF CallOK, FreeAll, FreeSteps, CreateSteps, PreHandle
    <3>4. CallOK(call'[t])
      BY <3>2, <3>3 DEF CallOK, FreeAll, CreateSteps, PreHandle, UseSteps
    <3>5. /\ ~InDom(call'[t]) /\ ~InDom(call[t])
          /\ ~Nested(call'[t]) /\ ~Nested(call[t])
      BY <3>1, <3>2, <3>3 DEF InDom, Nested, FreeSteps, DomainSteps
    <3>6. domain' = domain + Weight(call'[t]) - Weight(call[t])
      BY <1>0, <3>1, <3>5 DEF Weight
    <3>7. QED
      BY <3>2, <3>4, <3>6 DEF CallStep
  <2>3. QED
    BY <1>8, <2>1, <2>p, <2>2 DEF CreateHandle
<1>9. CASE CreateDrop(t)
  <2>1. call[t].at = "drop" /\ domain' = domain
    BY <1>9 DEF CreateDrop, At
  <2>2. call[t].o \in Objs /\ call[t].at \in UseSteps /\ call[t].at \notin FreeAll
        /\ ~InDom(call[t])
    BY <1>0, <2>1 DEF CallOK, CreateSteps, UseSteps, FreeAll, FreeSteps, DomainSteps, InDom
  <2>3. ASSUME NEW next \in {"track", "idle"}, Put(t, call[t].o, next) PROVE CallStep(t)
    BY <2>1, <2>2, <2>3, PutCall
  <2>4. QED
    BY <1>9, <2>3 DEF CreateDrop
<1>10. CASE Track(t)
  BY <1>0, <1>10, GotoCall DEF Track, At, Steps, FreeAll, FreeSteps,
       DomainSteps, CreateSteps, PreHandle, UseSteps
<1>11. QED
  BY <1>1, <1>2, <1>3, <1>4, <1>5, <1>6, <1>7, <1>8, <1>9, <1>10 DEF CreateStep

(* drm_gem_handle_delete, by GEM_DESTROY or by the close of the file.      *)
LEMMA DeleteCall ==
    ASSUME Base, NEW t \in Threads, NEW o \in Objs, NEW next \in {"end", "close"},
           call[t].at = (IF next = "end" THEN "delete" ELSE "close"),
           DeleteHandle(t, call[t].f, o, next)
    PROVE  CallStep(t)
<1>0. domain \in Int /\ CallOK(call[t]) /\ CallTyped
  BY DomainType DEF Base, CallInv
<1>1. domain' = domain
  BY DEF DeleteHandle
<1>2. call[t].at \notin FreeAll /\ (InDom(call[t]) <=> next \in {"delete", "end"})
  BY DEF FreeAll, FreeSteps, InDom, DomainSteps
<1>3. CASE Put(t, o, next)
  BY <1>1, <1>2, <1>3, PutCall
<1>4. CASE Goto(t, next)
  <2>1. CASE next = "end"
    BY <1>0, <1>1, <1>4, <2>1, GotoCall DEF Steps, FreeAll, FreeSteps, DomainSteps,
         CreateSteps, PreHandle, UseSteps
  <2>2. CASE next = "close"
    <3>1. next \in Steps
      BY <2>2 DEF Steps
    <3>2. /\ CallTyped' /\ OthersKeep(t) /\ call'[t].at = "close"
          /\ call'[t].f = call[t].f /\ call'[t].o = call[t].o
          /\ call'[t].after = call[t].after
      BY <1>0, <1>4, <2>2, <3>1, GotoFields
    <3>3. call[t].at = "close"
      BY <2>2
    <3>4. CallOK(call'[t])
      BY <1>0, <3>2, <3>3 DEF CallOK
    <3>5. Weight(call'[t]) = Weight(call[t]) /\ Weight(call[t]) \in Int
      BY <3>2, <3>3 DEF Weight, InDom, Nested
    <3>6. QED
      BY <1>0, <1>1, <3>2, <3>4, <3>5 DEF CallStep
  <2>3. QED
    BY <2>1, <2>2
<1>5. QED
  BY <1>3, <1>4 DEF DeleteHandle

(* The steps of GEM_DESTROY and of the close of a file.                    *)
LEMMA DestroyStepCall == ASSUME Base, NEW t \in Threads, DestroyStep(t) PROVE CallStep(t)
<1>0. domain \in Int /\ CallOK(call[t])
  BY DomainType DEF Base, CallInv
<1>1. CASE DestroyGet(t)
  <2>0. call[t].at = "destroy"
    BY <1>1 DEF DestroyGet, At
  <2>1. CASE DomainGet(t, "untrack")
    BY <1>0, <2>0, <2>1, GotoCall DEF DomainGet, Steps, FreeAll, FreeSteps,
         DomainSteps, CreateSteps, PreHandle, UseSteps
  <2>2. CASE DomainGetAgain(t)
    BY <2>0, <2>2, AgainCall
  <2>3. CASE Goto(t, "idle") /\ UNCHANGED domain
    BY <1>0, <2>0, <2>3, GotoCall DEF Steps, FreeAll, FreeSteps,
         DomainSteps, CreateSteps, PreHandle, UseSteps
  <2>4. QED
    BY <1>1, <2>1, <2>2, <2>3 DEF DestroyGet
<1>2. CASE Untrack(t)
  <2>1. call[t].at = "untrack" /\ domain' = domain
    BY <1>2 DEF Untrack, At
  <2>2. call[t].o \in Objs /\ call[t].at \in UseSteps /\ call[t].at \notin FreeAll
        /\ InDom(call[t])
    BY <1>0, <2>1 DEF CallOK, CreateSteps, UseSteps, FreeAll, FreeSteps, DomainSteps, InDom
  <2>3. CASE Put(t, call[t].o, "delete")
    BY <2>1, <2>2, <2>3, PutCall
  <2>4. CASE Goto(t, "delete")
    BY <1>0, <2>1, <2>4, GotoCall DEF Steps, FreeAll, FreeSteps,
         DomainSteps, CreateSteps, PreHandle, UseSteps
  <2>5. QED
    BY <1>2, <2>3, <2>4 DEF Untrack
<1>3. CASE HandleDestroy(t)
  <2>1. call[t].at = "delete" /\ call[t].o \in Objs
    BY <1>0, <1>3 DEF HandleDestroy, At, CallOK, UseSteps
  <2>2. DeleteHandle(t, call[t].f, call[t].o, "end")
    BY <1>3 DEF HandleDestroy
  <2>3. QED
    BY <2>1, <2>2, DeleteCall
<1>4. CASE DomainPut(t)
  BY <1>0, <1>4, GotoCall DEF DomainPut, Steps, FreeAll, FreeSteps,
       DomainSteps, CreateSteps, PreHandle, UseSteps
<1>5. CASE CloseNext(t)
  <2>1. call[t].at = "close" /\ call[t].f \in Files
    BY <1>0, <1>5 DEF CloseNext, At, CallOK
  <2>2. ASSUME NEW o \in handles[call[t].f], DeleteHandle(t, call[t].f, o, "close")
        PROVE  CallStep(t)
    <3>1. o \in Objs
      BY <2>1 DEF Base
    <3>2. QED
      BY <2>1, <2>2, <3>1, DeleteCall
  <2>3. CASE Goto(t, "idle") /\ domain' = domain
    BY <1>0, <2>1, <2>3, GotoCall DEF Steps, FreeAll, FreeSteps,
         DomainSteps, CreateSteps, PreHandle, UseSteps
  <2>4. QED
    BY <1>5, <2>2, <2>3 DEF CloseNext, DropHandle
<1>6. QED
  BY <1>1, <1>2, <1>3, <1>4, <1>5 DEF DestroyStep

(* The steps of rknpu_gem_object_destroy.                                  *)
LEMMA FreeStepCall == ASSUME Base, NEW t \in Threads, FreeStep(t) PROVE CallStep(t)
<1>0. domain \in Int /\ CallOK(call[t])
  BY DomainType DEF Base, CallInv
<1>1. CASE FreeGet(t)
  <2>0. call[t].at = "free"
    BY <1>1 DEF FreeGet, At
  <2>1. ASSUME NEW step \in {"free_import", "free_mm", "free_buf"}, DomainGet(t, step)
        PROVE  CallStep(t)
    BY <1>0, <2>0, <2>1, GotoCall DEF DomainGet, Steps, FreeAll, FreeSteps,
         DomainSteps, CreateSteps, PreHandle, UseSteps
  <2>2. CASE DomainGetAgain(t)
    BY <2>0, <2>2, AgainCall
  <2>3. CASE Return(t) /\ UNCHANGED domain
    BY <1>0, <2>0, <2>3, ReturnCall
  <2>4. QED
    BY <1>1, <2>1, <2>2, <2>3 DEF FreeGet
<1>2. CASE FreeMm(t)
  BY <1>0, <1>2, GotoCall DEF FreeMm, At, Steps, FreeAll, FreeSteps,
       DomainSteps, CreateSteps, PreHandle, UseSteps
<1>3. CASE FreeCache(t) \/ FreeBuf(t) \/ FreeImport(t)
  BY <1>0, <1>3, GotoCall DEF FreeCache, FreeBuf, FreeImport, FreeMemory, At, Steps,
       FreeAll, FreeSteps, DomainSteps, CreateSteps, PreHandle, UseSteps
<1>4. CASE FreeRelease(t)
  <2>1. Return(t) /\ call[t].at = "free_release" /\ domain' = domain - 1
    BY <1>4 DEF FreeRelease, At
  <2>2. QED
    BY <2>1, ReturnCall
<1>5. QED
  BY <1>1, <1>2, <1>3, <1>4 DEF FreeStep

(* The calls that begin, and the jobs.                                     *)
NewCall(t) ==
    \/ \E f \in Files : Close(t, f) \/ SetDomain(t, f) \/ Sync(t, f)
    \/ \E f \in Files, o \in Objs :
          \/ Create(t, f, o) \/ DumbCreate(t, f, o) \/ Import(t, f, o)
          \/ CreateFound(t, f, o) \/ Destroy(t, f, o) \/ HandleClose(t, f, o)
          \/ Submit(t, f, o)
    \/ \E o \in Objs : JobFree(t, o)

(* They keep the records of the calls.                                     *)
LEMMA NewCallCall == ASSUME Base, NEW t \in Threads, NewCall(t) PROVE CallStep(t)
<1>0. domain \in Int /\ CallOK(call[t])
  BY DomainType DEF Base, CallInv
<1>1. ASSUME NEW f \in Files, Close(t, f) PROVE CallStep(t)
  BY <1>0, <1>1, BeginCall DEF Close
<1>2. ASSUME NEW f \in Files, SetDomain(t, f) PROVE CallStep(t)
  BY <1>0, <1>2, BeginCall DEF SetDomain
<1>3. ASSUME NEW f \in Files, NEW o \in Objs, CreateFound(t, f, o) PROVE CallStep(t)
  BY <1>0, <1>3, BeginCall DEF CreateFound
<1>4. ASSUME NEW f \in Files, NEW o \in Objs, Destroy(t, f, o) PROVE CallStep(t)
  BY <1>0, <1>4, BeginCall DEF Destroy
<1>5. ASSUME NEW f \in Files, Sync(t, f) PROVE CallStep(t)
  BY <1>0, <1>5, BeginCall DEF Sync
<1>h. ASSUME NEW f \in Files, NEW o \in Objs, HandleClose(t, f, o) PROVE CallStep(t)
  <2>1. call[t].at = "idle" /\ Put(t, o, "idle") /\ domain' = domain
    BY <1>h DEF HandleClose, Found, DropHandle, DeleteHandle, At
  <2>2. call[t].at \notin FreeAll /\ ~InDom(call[t])
    BY <2>1 DEF FreeAll, FreeSteps, DomainSteps, InDom
  <2>3. QED
    BY <2>1, <2>2, PutCall
<1>6. ASSUME NEW f \in Files, NEW o \in Objs, NEW n \in Nat, NEW tracks \in BOOLEAN,
             CreateInit(t, f, o, n, tracks)
      PROVE  CallStep(t)
  <2> DEFINE c == CreateRecord(f, o, n, tracks)
  <2>1. call' = [call EXCEPT ![t] = c] /\ domain' = domain /\ At(t, "idle")
    BY <1>6 DEF CreateInit, CreateRecord
  <2>2. c \in CallType /\ c.at = "get" /\ c.f = f /\ c.o = o /\ c.after = "idle"
    BY CreateRecords
  <2> HIDE DEF c
  <2>3. QED
    BY <2>1, <2>2, CreateCall
<1>7. ASSUME NEW f \in Files, NEW o \in Objs, Create(t, f, o) PROVE CallStep(t)
  <2>1. \A size \in Sizes, sram_size \in Sizes \cup {0} : RealSram(size, sram_size) \in Nat
    BY GemAssumption DEF RealSram
  <2>2. QED
    BY <1>6, <1>7, <2>1 DEF Create
<1>8. ASSUME NEW f \in Files, NEW o \in Objs, DumbCreate(t, f, o) PROVE CallStep(t)
  BY <1>6, <1>8 DEF DumbCreate
<1>9. ASSUME NEW f \in Files, NEW o \in Objs, Import(t, f, o) PROVE CallStep(t)
  <2> DEFINE c == ImportRecord(f, o)
  <2>1. call' = [call EXCEPT ![t] = c] /\ domain' = domain /\ At(t, "idle")
    BY <1>9 DEF Import, ImportRecord
  <2>2. c \in CallType /\ c.at = "handle" /\ c.f = f /\ c.o = o /\ c.after = "idle"
    BY ImportRecords
  <2> HIDE DEF c
  <2>3. QED
    BY <2>1, <2>2, CreateCall
<1>10. ASSUME NEW f \in Files, NEW o \in Objs, Submit(t, f, o) PROVE CallStep(t)
  <2>1. call' = call /\ domain' = domain
    BY <1>10 DEF Submit
  <2>2. Weight(call[t]) \in Int
    BY DEF Weight
  <2>3. QED
    BY <1>0, <2>1, <2>2 DEF CallStep, OthersKeep, Base, CallTyped
<1>11. ASSUME NEW o \in Objs, JobFree(t, o) PROVE CallStep(t)
  <2>1. call[t].at = "idle" /\ Put(t, o, "idle") /\ domain' = domain
    BY <1>11 DEF JobFree, At
  <2>2. call[t].at \notin FreeAll /\ ~InDom(call[t])
    BY <2>1 DEF FreeAll, FreeSteps, DomainSteps, InDom
  <2>3. QED
    BY <2>1, <2>2, PutCall
<1>12. QED
  BY <1>1, <1>2, <1>3, <1>4, <1>5, <1>h, <1>7, <1>8, <1>9, <1>10, <1>11 DEF NewCall

----------------------------------------------------------------------------
(* Handles are handles of objects, and the chunks of an object are chunks. *)
LEMMA StoreType ==
    ASSUME Base, NEW t \in Threads,
           CreateStep(t) \/ DestroyStep(t) \/ FreeStep(t) \/ NewCall(t)
    PROVE  SramType' /\ handles' \in [Files -> SUBSET Objs]
<1>0. /\ CallOK(call[t]) /\ call[t] \in CallType
      /\ SramType /\ handles \in [Files -> SUBSET Objs]
  BY DEF Base, CallInv, CallTyped
<1>1. ASSUME NEW f, NEW o, handles' = [handles EXCEPT ![f] = @ \ {o}]
      PROVE  handles' \in [Files -> SUBSET Objs]
  BY <1>0, <1>1
<1>2. ASSUME MmFree(call[t].o) PROVE SramType'
  BY <1>0, <1>2 DEF SramType, MmFree
<1>3. ASSUME UNCHANGED chunks, refused' \subseteq refused PROVE SramType'
  BY <1>0, <1>3 DEF SramType
<1>4. CASE CreateStep(t)
  <2>1. CASE CreateMm(t)
    <3>1. call[t].o \in Objs /\ call[t].n \in Nat /\ handles' = handles
      BY <1>0, <2>1 DEF CreateMm, At, CallOK, CreateSteps, PreHandle, CallType, objVars
    <3>2. ASSUME Sram!Grant(call[t].o, call[t].n) PROVE SramType'
      <4>1. PICK s \in 0 .. Chunks - 1 :
                s + call[t].n <= Chunks
                /\ chunks' = [chunks EXCEPT ![call[t].o] = s .. s + call[t].n - 1]
        BY <3>2 DEF Sram!Grant, Sram!FreeRun
      <4>2. s .. s + call[t].n - 1 \subseteq 0 .. Chunks - 1
        BY <3>1, <4>1, GemAssumption
      <4>3. chunks' \in [Objs -> SUBSET (0 .. Chunks - 1)]
        BY <1>0, <4>1, <4>2 DEF SramType
      <4>4. QED
        BY <1>0, <3>2, <4>3 DEF SramType, Sram!Grant
    <3>3. ASSUME Sram!Refuse(call[t].o, call[t].n) PROVE SramType'
      BY <1>0, <3>1, <3>3 DEF SramType, Sram!Refuse
    <3>4. QED
      BY <1>0, <2>1, <3>1, <3>2, <3>3 DEF CreateMm
  <2>2. CASE CreateMap(t)
    <3>1. handles' = handles
      BY <2>2 DEF CreateMap, objVars
    <3>2. QED
      BY <1>0, <1>2, <1>3, <2>2, <3>1 DEF CreateMap
  <2>3. CASE CreateHandle(t)
    <3>1. call[t].o \in Objs /\ UNCHANGED <<chunks, refused>>
      BY <1>0, <2>3 DEF CreateHandle, At, CallOK, CreateSteps, PreHandle, memVars
    <3>2. CASE handles' = [handles EXCEPT ![call[t].f] = @ \cup {call[t].o}]
      BY <1>0, <1>3, <3>1, <3>2
    <3>3. CASE handles' = handles
      BY <1>0, <1>3, <3>1, <3>3
    <3>4. QED
      BY <2>3, <3>2, <3>3 DEF CreateHandle
  <2>4. CASE UNCHANGED <<handles, chunks>> /\ refused' \subseteq refused
    BY <1>0, <1>3, <2>4
  <2>5. QED
    BY <1>4, <2>1, <2>2, <2>3, <2>4 DEF CreateStep, CreateGet, CreateSram, CreateDdr,
         CreateRelease, CreatePut, CreateDrop, Track, objVars, memVars
<1>5. CASE DestroyStep(t)
  <2>1. UNCHANGED <<chunks, refused>>
    BY <1>5 DEF DestroyStep, DestroyGet, Untrack, HandleDestroy, DomainPut, CloseNext,
         DropHandle, DeleteHandle, memVars
  <2>2. CASE handles' = handles
    BY <1>0, <1>3, <2>1, <2>2
  <2>3. ASSUME NEW o, handles' = [handles EXCEPT ![call[t].f] = @ \ {o}]
        PROVE  SramType' /\ handles' \in [Files -> SUBSET Objs]
    BY <1>1, <1>3, <2>1, <2>3
  <2>4. ASSUME DestroyGet(t) \/ Untrack(t) \/ DomainPut(t) PROVE handles' = handles
    BY <2>4 DEF DestroyGet, Untrack, DomainPut, objVars
  <2>5. HandleDestroy(t) => handles' = [handles EXCEPT ![call[t].f] = @ \ {call[t].o}]
    BY Zenon DEF HandleDestroy, DeleteHandle
  <2>6. CloseNext(t) => handles' = handles
                        \/ \E o : handles' = [handles EXCEPT ![call[t].f] = @ \ {o}]
    BY Zenon DEF CloseNext, DropHandle, DeleteHandle, objVars
  <2>7. QED
    BY <1>5, <2>2, <2>3, <2>4, <2>5, <2>6, Zenon DEF DestroyStep
<1>6. CASE FreeStep(t)
  <2>1. handles' = handles
    BY <1>6 DEF FreeStep, FreeGet, FreeMm, FreeCache, FreeBuf, FreeImport, FreeMemory,
         FreeRelease, objVars
  <2>2. MmFree(call[t].o) \/ (UNCHANGED chunks /\ refused' \subseteq refused)
    BY <1>6 DEF FreeStep, FreeGet, FreeMm, FreeCache, FreeBuf, FreeImport, FreeMemory,
         FreeRelease, memVars
  <2>3. QED
    BY <1>0, <1>2, <1>3, <2>1, <2>2
<1>7. CASE NewCall(t)
  <2>1. UNCHANGED <<chunks, refused>>
        /\ (handles' = handles \/ \E f \in Files, o \in Objs : HandleClose(t, f, o))
    <3> DEFINE Same == UNCHANGED <<handles, chunks, refused>>
    <3>1. ASSUME NEW f \in Files, Close(t, f) \/ SetDomain(t, f) \/ Sync(t, f) PROVE Same
      BY <3>1 DEF Close, SetDomain, Sync, objVars, memVars
    <3>2. ASSUME NEW f \in Files, NEW o \in Objs, Create(t, f, o) \/ DumbCreate(t, f, o) PROVE Same
      <4>1. ASSUME NEW n, NEW tracks, CreateInit(t, f, o, n, tracks) PROVE Same
        BY <4>1 DEF CreateInit, memVars
      <4>2. QED
        BY <3>2, <4>1, Zenon DEF Create, DumbCreate
    <3>3. ASSUME NEW f \in Files, NEW o \in Objs,
                 Import(t, f, o) \/ CreateFound(t, f, o) \/ Destroy(t, f, o) \/ Submit(t, f, o)
          PROVE  Same
      BY <3>3 DEF Import, CreateFound, Destroy, Submit, objVars, memVars
    <3>4. ASSUME NEW f \in Files, NEW o \in Objs, HandleClose(t, f, o)
          PROVE  UNCHANGED <<chunks, refused>>
      BY <3>4 DEF HandleClose, DropHandle, DeleteHandle, memVars
    <3>5. ASSUME NEW o \in Objs, JobFree(t, o) PROVE Same
      BY <3>5 DEF JobFree, objVars, memVars
    <3>6. QED
      BY <1>7, <3>1, <3>2, <3>3, <3>4, <3>5, Zenon DEF NewCall
  <2>2. CASE handles' = handles
    BY <1>0, <1>3, <2>1, <2>2
  <2>3. ASSUME NEW f \in Files, NEW o \in Objs, HandleClose(t, f, o)
        PROVE  handles' = [handles EXCEPT ![f] = @ \ {o}]
    BY <2>3 DEF HandleClose, DropHandle, DeleteHandle
  <2>4. QED
    BY <1>1, <1>3, <2>1, <2>2, <2>3
<1>8. QED
  BY <1>4, <1>5, <1>6, <1>7

(* A step of the system is a step of a thread.                             *)
LEMMA NextThread ==
    ASSUME Next
    PROVE  \E t \in Threads : CreateStep(t) \/ DestroyStep(t) \/ FreeStep(t) \/ NewCall(t)
  BY DEF Next, NewCall

(* Initially every thread is idle.                                         *)
LEMMA InitBase == Init => Base
<1> SUFFICES ASSUME Init PROVE Base
  OBVIOUS
<1>1. Idle \in CallType
  BY DEF CallType, Idle, Steps
<1>2. \A t \in Threads : call[t] = Idle
  BY DEF Init
<1>3. CallTyped
  BY <1>1 DEF Init, CallTyped
<1>4. CallInv
  BY <1>2, IdleFields
     DEF CallInv, CallOK, FreeAll, FreeSteps, CreateSteps, PreHandle, UseSteps
<1>5. InDomain = {} /\ NestedFree = {}
  BY <1>2, IdleFields DEF InDomain, NestedFree, DomainSteps, FreeSteps
<1>6. DomainExact
  BY <1>5, FS_EmptySet DEF Init, DomainExact
<1>7. SramType /\ handles \in [Files -> SUBSET Objs]
  BY DEF Init, SramType
<1>8. QED
  BY <1>3, <1>4, <1>6, <1>7 DEF Base

(* Every step keeps what holds whatever the clients do.                    *)
LEMMA NextBase == Base /\ [Next]_vars => Base'
<1> SUFFICES ASSUME Base, [Next]_vars PROVE Base'
  OBVIOUS
<1>1. CASE Next
  <2>1. PICK t \in Threads : CreateStep(t) \/ DestroyStep(t) \/ FreeStep(t) \/ NewCall(t)
    BY <1>1, NextThread
  <2>2. CallStep(t)
    BY <2>1, CreateStepCall, DestroyStepCall, FreeStepCall, NewCallCall
  <2>3. QED
    BY <2>1, <2>2, CallStepKeeps, StoreType DEF Base
<1>2. CASE UNCHANGED vars
  BY <1>2 DEF vars, objVars, memVars, Base, CallTyped, CallInv, SramType, DomainExact,
       InDomain, NestedFree
<1>3. QED
  BY <1>1, <1>2

(* iommu_domain_refcount is the number of calls between domain_get and     *)
(* domain_put, with the nested destructions counted again, whatever the    *)
(* clients do and whichever calls fail.                                    *)
THEOREM GemDomainExact == Spec => []DomainExact
<1>1. Spec => []Base
  BY InitBase, NextBase, PTL DEF Spec
<1>2. Base => DomainExact
  BY DEF Base
<1>3. QED
  BY <1>1, <1>2, PTL

----------------------------------------------------------------------------
(* What is known of an object whose address is not stale.  A call has a    *)
(* role for it while it creates or destroys it.                            *)
Roles == CreateSteps \cup FreeAll
Role(t, o) == call[t].o = o /\ call[t].at \in Roles
Creates(t, o) == call[t].o = o /\ call[t].at \in CreateSteps
Frees(t, o) == call[t].o = o /\ call[t].at \in FreeAll
Deletes(t, o) == call[t].o = o /\ call[t].at = "delete"

Created(o) == \E t \in Threads : Creates(t, o)
CreateRef(o) == IF Created(o) THEN 1 ELSE 0

(* One call at a time has a role: a destruction starts when no reference   *)
(* is left, that of a create included.                                     *)
OneRole(o) == \A t, u \in Threads : Role(t, o) /\ Role(u, o) => t = u
RoleFits(o) ==
    \A t \in Threads : call[t].o = o =>
        /\ call[t].at \in PreHandle => \A f \in Files : o \notin handles[f]
        /\ call[t].at \in FreeAll => refs[o] = 0 /\ o \in live /\ o \notin given_up

(* RefsExact, with at most one create to count; an object without          *)
(* references is being destroyed, given up, or gone.                       *)
RefsFit(o) == refs[o] = CreateRef(o) + Cardinality(Holders(o)) + jobs[o] + Tracked(o)
LiveFits(o) ==
    /\ refs[o] > 0 => o \in live
    /\ o \in given_up => refs[o] = 0 /\ o \in live
    /\ o \in live => refs[o] > 0 \/ o \in given_up \/ \E t \in Threads : Frees(t, o)

(* A range entry that a GEM_DESTROY will find: there is a handle, and none *)
(* is on its way that has untracked already.                               *)
Kept(o) ==
    o \in ranges /\ o \notin orphaned =>
        /\ \E f \in Files : o \in handles[f]
        /\ \A t \in Threads : ~Deletes(t, o)

ObjOK(o) == OneRole(o) /\ RoleFits(o) /\ RefsFit(o) /\ LiveFits(o) /\ Kept(o)

(* The type of the state that the owners of references share.              *)
ObjType ==
    /\ live \subseteq Objs
    /\ refs \in [Objs -> Int]
    /\ ranges \subseteq Objs
    /\ jobs \in [Objs -> 0 .. MaxJobs]
    /\ given_up \subseteq Objs
    /\ orphaned \subseteq ranges
    /\ stale \subseteq Objs

Own == Base /\ ObjType /\ \A o \in Objs \ stale : ObjOK(o)

----------------------------------------------------------------------------
(* What a reference count says.                                            *)
LEMMA RefsFacts ==
    ASSUME Own, NEW o \in Objs, o \notin stale
    PROVE  /\ refs[o] \in Nat /\ CreateRef(o) \in {0, 1} /\ Tracked(o) \in {0, 1}
           /\ jobs[o] \in Nat /\ Cardinality(Holders(o)) \in Nat /\ IsFiniteSet(Holders(o))
           /\ refs[o] = CreateRef(o) + Cardinality(Holders(o)) + jobs[o] + Tracked(o)
           /\ \A f \in Files : o \in handles[f] => Cardinality(Holders(o)) > 0
           /\ refs[o] = 0 => /\ ~Created(o) /\ jobs[o] = 0 /\ o \notin ranges
                             /\ \A f \in Files : o \notin handles[f]
           /\ refs[o] = 1 /\ Created(o) => /\ jobs[o] = 0 /\ o \notin ranges
                                           /\ \A f \in Files : o \notin handles[f]
<1>1. refs[o] \in Int /\ jobs[o] \in Nat
  BY GemAssumption DEF Own, ObjType
<1>2. CreateRef(o) \in {0, 1} /\ (Created(o) => CreateRef(o) = 1)
  BY DEF CreateRef
<1>3. Tracked(o) \in {0, 1} /\ (o \in ranges => Tracked(o) = 1)
  BY DEF Tracked
<1>4. Holders(o) \in SUBSET Files
  BY DEF Holders
<1>5. IsFiniteSet(Holders(o)) /\ Cardinality(Holders(o)) \in Nat
  BY <1>4, GemAssumption, FS_Subset, FS_CardinalityType
<1>6. \A f \in Files : o \in handles[f] => Cardinality(Holders(o)) > 0
  <2>1. \A f \in Files : o \in handles[f] => Holders(o) # {}
    BY DEF Holders
  <2>2. QED
    BY <1>5, <2>1, FS_EmptySet
<1>7. refs[o] = CreateRef(o) + Cardinality(Holders(o)) + jobs[o] + Tracked(o)
  BY DEF Own, ObjOK, RefsFit
<1>8. ASSUME refs[o] = 0
      PROVE  /\ ~Created(o) /\ jobs[o] = 0 /\ o \notin ranges
             /\ \A f \in Files : o \notin handles[f]
  <2>1. CreateRef(o) = 0 /\ Cardinality(Holders(o)) = 0 /\ jobs[o] = 0 /\ Tracked(o) = 0
    BY <1>1, <1>2, <1>3, <1>5, <1>7, <1>8
  <2>2. QED
    BY <1>2, <1>3, <1>6, <2>1
<1>9. ASSUME refs[o] = 1, Created(o)
      PROVE  jobs[o] = 0 /\ o \notin ranges /\ \A f \in Files : o \notin handles[f]
  <2>1. CreateRef(o) = 1
    BY <1>2, <1>9
  <2>2. Cardinality(Holders(o)) = 0 /\ jobs[o] = 0 /\ Tracked(o) = 0
    BY <1>1, <1>3, <1>5, <1>7, <1>9, <2>1
  <2>3. QED
    BY <1>3, <1>6, <2>2
<1>10. refs[o] \in Nat
  BY <1>1, <1>2, <1>3, <1>5, <1>7
<1>11. QED
  BY <1>1, <1>2, <1>3, <1>5, <1>6, <1>7, <1>8, <1>9, <1>10

(* The handles of an object, counted before and after a step.              *)
LEMMA HoldersStep ==
    ASSUME NEW o \in Objs, NEW f \in Files, handles \in [Files -> SUBSET Objs],
           \A g \in Files : g # f => (o \in handles'[g] <=> o \in handles[g])
    PROVE  /\ Cardinality(Holders(o)) \in Nat
           /\ (o \in handles'[f] <=> o \in handles[f]) =>
                 Cardinality(Holders(o)') = Cardinality(Holders(o))
           /\ o \notin handles[f] /\ o \in handles'[f] =>
                 Cardinality(Holders(o)') = Cardinality(Holders(o)) + 1
           /\ o \in handles[f] /\ o \notin handles'[f] =>
                 Cardinality(Holders(o)') = Cardinality(Holders(o)) - 1
<1>1. Holders(o) \in SUBSET Files
  BY DEF Holders
<1>2. IsFiniteSet(Holders(o)) /\ Cardinality(Holders(o)) \in Nat
  BY <1>1, GemAssumption, FS_Subset, FS_CardinalityType
<1>3. (o \in handles'[f] <=> o \in handles[f]) => Holders(o)' = Holders(o)
  BY DEF Holders
<1>4. o \notin handles[f] /\ o \in handles'[f] =>
         Holders(o)' = Holders(o) \cup {f} /\ f \notin Holders(o)
  BY DEF Holders
<1>5. o \in handles[f] /\ o \notin handles'[f] =>
         Holders(o)' = Holders(o) \ {f} /\ f \in Holders(o)
  BY DEF Holders
<1>6. QED
  BY <1>2, <1>3, <1>4, <1>5, FS_AddElement, FS_RemoveElement

(* Only an object with a reference is created, only one without is         *)
(* destroyed, and both are live.                                           *)
LEMMA RoleNeeds ==
    ASSUME Own, NEW u \in Threads, NEW o \in Objs, o \notin stale, Role(u, o)
    PROVE  /\ o \in live
           /\ Creates(u, o) => refs[o] > 0
           /\ Frees(u, o) => refs[o] = 0 /\ o \notin given_up
<1>1. ObjOK(o)
  BY DEF Own
<1>2. CASE Creates(u, o)
  <2>1. Created(o)
    BY <1>2 DEF Created
  <2>2. refs[o] > 0
    BY <2>1, RefsFacts
  <2>3. ~Frees(u, o)
    BY <1>2 DEF Creates, Frees, CreateSteps, PreHandle, FreeAll, FreeSteps
  <2>4. QED
    BY <1>1, <2>2, <2>3 DEF ObjOK, LiveFits
<1>3. CASE Frees(u, o)
  <2>1. ~Creates(u, o)
    BY <1>3 DEF Creates, Frees, CreateSteps, PreHandle, FreeAll, FreeSteps
  <2>2. QED
    BY <1>1, <1>3, <2>1 DEF ObjOK, RoleFits, Frees
<1>4. QED
  BY <1>2, <1>3 DEF Role, Roles, Creates, Frees

(* Nobody but t has a role for o.                                          *)
Alone(t, o) == \A u \in Threads : u # t => ~Role(u, o)

(* Calls with a role have an object.                                       *)
LEMMA RoleFacts ==
    ASSUME Base, NEW t \in Threads
    PROVE  /\ call[t].at \in Roles => call[t].o \in Objs
           /\ call[t].at \in CreateSteps => call[t].f \in Files
           /\ call[t].at = "idle" => call[t].at \notin Roles /\ call[t].o = NoObj
  BY IdleFields DEF Base, CallInv, CallOK, Roles, CreateSteps, PreHandle, FreeAll, FreeSteps

(* A call that has a role for an object is alone in that.                  *)
LEMMA RoleAlone ==
    ASSUME Own, NEW t \in Threads, call[t].at \in Roles, call[t].o \notin stale
    PROVE  Alone(t, call[t].o)
<1>1. call[t].o \in Objs /\ Role(t, call[t].o)
  BY RoleFacts DEF Own, Role
<1>2. QED
  BY <1>1 DEF Own, ObjOK, OneRole, Alone

----------------------------------------------------------------------------
(* A step of thread t that is about object o only.                         *)
RefsKeep(p) ==
    /\ jobs'[p] = jobs[p]
    /\ p \in ranges' <=> p \in ranges
    /\ p \in orphaned' <=> p \in orphaned
    /\ \A f \in Files : p \in handles'[f] <=> p \in handles[f]
ObjKeeps(p) ==
    /\ RefsKeep(p)
    /\ refs'[p] = refs[p]
    /\ p \in live' <=> p \in live
    /\ p \in given_up' <=> p \in given_up
CallKeeps(t, p) ==
    /\ Creates(t, p)' <=> Creates(t, p)
    /\ Frees(t, p)' <=> Frees(t, p)
    /\ call'[t].o = p /\ call'[t].at \in PreHandle => call[t].at \in PreHandle
    /\ Deletes(t, p)' => Deletes(t, p) \/ p \notin ranges
Local(t, o) ==
    /\ OthersKeep(t)
    /\ stale \subseteq stale'
    /\ \A p \in Objs : p # o => ObjKeeps(p) /\ CallKeeps(t, p)

(* The calls of the others are what they were.                             *)
LEMMA OthersSame ==
    ASSUME NEW t \in Threads, OthersKeep(t), NEW u \in Threads, u # t, NEW p
    PROVE  /\ call'[u] = call[u]
           /\ Role(u, p)' <=> Role(u, p)
           /\ Creates(u, p)' <=> Creates(u, p)
           /\ Frees(u, p)' <=> Frees(u, p)
           /\ Deletes(u, p)' <=> Deletes(u, p)
<1>1. call'[u] = call[u]
  BY DEF OthersKeep
<1>2. QED
  BY <1>1 DEF Role, Creates, Frees, Deletes

(* It leaves what is known of the other objects as it was.                 *)
LEMMA LocalKeeps ==
    ASSUME Own, NEW t \in Threads, NEW o, Local(t, o), NEW p \in Objs, p # o, p \notin stale
    PROVE  ObjOK(p)'
<1>1. ObjKeeps(p) /\ CallKeeps(t, p) /\ OthersKeep(t)
  BY DEF Local
<1>2. ObjOK(p)
  BY DEF Own
<1>3. \A u \in Threads : /\ Creates(u, p)' <=> Creates(u, p)
                         /\ Frees(u, p)' <=> Frees(u, p)
                         /\ Deletes(u, p)' => Deletes(u, p) \/ p \notin ranges
  BY <1>1, OthersSame DEF CallKeeps
<1>4. \A u \in Threads : Role(u, p)' <=> Role(u, p)
  BY <1>3 DEF Role, Creates, Frees, Roles
<1>5. OneRole(p)'
  BY <1>2, <1>4 DEF ObjOK, OneRole
<1>6. RoleFits(p)'
  <2> SUFFICES ASSUME NEW u \in Threads, call'[u].o = p
               PROVE  /\ call'[u].at \in PreHandle => \A f \in Files : p \notin handles'[f]
                      /\ call'[u].at \in FreeAll =>
                            refs'[p] = 0 /\ p \in live' /\ p \notin given_up'
    BY DEF RoleFits
  <2>1. ASSUME call'[u].at \in PreHandle PROVE \A f \in Files : p \notin handles'[f]
    <3>1. Creates(u, p)
      BY <1>3, <2>1 DEF Creates, CreateSteps
    <3>2. call[u].at \in PreHandle
      BY <1>1, <2>1 DEF CallKeeps, OthersKeep
    <3>3. QED
      BY <1>1, <1>2, <3>1, <3>2 DEF Creates, ObjOK, RoleFits, ObjKeeps, RefsKeep
  <2>2. ASSUME call'[u].at \in FreeAll
        PROVE  refs'[p] = 0 /\ p \in live' /\ p \notin given_up'
    <3>1. Frees(u, p)
      BY <1>3, <2>2 DEF Frees
    <3>2. QED
      BY <1>1, <1>2, <3>1 DEF Frees, ObjOK, RoleFits, ObjKeeps
  <2>3. QED
    BY <2>1, <2>2
<1>7. Created(p)' <=> Created(p)
  BY <1>3 DEF Created
<1>8. Holders(p)' = Holders(p)
  BY <1>1 DEF Holders, ObjKeeps, RefsKeep
<1>9. RefsFit(p)'
  BY <1>1, <1>2, <1>7, <1>8 DEF ObjOK, RefsFit, CreateRef, Tracked, ObjKeeps, RefsKeep
<1>10. LiveFits(p)'
  BY <1>1, <1>2, <1>3 DEF ObjOK, LiveFits, ObjKeeps
<1>11. Kept(p)'
  BY <1>1, <1>2, <1>3 DEF ObjOK, Kept, ObjKeeps, RefsKeep
<1>12. QED
  BY <1>5, <1>6, <1>9, <1>10, <1>11 DEF ObjOK

(* The parts of a step put together.                                       *)
LEMMA OwnStep ==
    ASSUME Own, Base', NEW t \in Threads, NEW o, Local(t, o), ObjType',
           o \in Objs /\ o \notin stale' => ObjOK(o)'
    PROVE  Own'
<1>1. ASSUME NEW p \in Objs, p \notin stale' PROVE ObjOK(p)'
  <2>1. CASE p = o
    BY <1>1, <2>1
  <2>2. CASE p # o
    <3>1. p \notin stale
      BY <1>1 DEF Local
    <3>2. QED
      BY <2>2, <3>1, LocalKeeps
  <2>3. QED
    BY <2>1, <2>2
<1>2. QED
  BY <1>1 DEF Own

(* What is left to show of the object that the step is about.              *)
TFits(t, o) ==
    call'[t].o = o =>
        /\ call'[t].at \in PreHandle => \A f \in Files : o \notin handles'[f]
        /\ call'[t].at \in FreeAll => refs'[o] = 0 /\ o \in live' /\ o \notin given_up'
UFits(t, o) ==
    \A u \in Threads : u # t =>
        /\ Role(u, o) => \A f \in Files : o \in handles'[f] => o \in handles[f]
        /\ Frees(u, o) => refs'[o] = 0 /\ o \in live' /\ o \notin given_up'

(* That is enough to know the object after the step.                       *)
LEMMA ObjStep ==
    ASSUME Own, NEW t \in Threads, NEW o \in Objs, o \notin stale, OthersKeep(t),
           Role(t, o)' => Alone(t, o), TFits(t, o), UFits(t, o),
           RefsFit(o)', LiveFits(o)', Kept(o)'
    PROVE  ObjOK(o)'
<1>1. ObjOK(o)
  BY DEF Own
<1>2. OneRole(o)'
  <2>1. \A u \in Threads : u # t => (Role(u, o)' <=> Role(u, o))
    BY OthersSame
  <2>2. QED
    BY <1>1, <2>1 DEF OneRole, ObjOK, Alone
<1>3. RoleFits(o)'
  <2> SUFFICES ASSUME NEW u \in Threads, call'[u].o = o
               PROVE  /\ call'[u].at \in PreHandle => \A f \in Files : o \notin handles'[f]
                      /\ call'[u].at \in FreeAll =>
                            refs'[o] = 0 /\ o \in live' /\ o \notin given_up'
    BY DEF RoleFits
  <2>1. CASE u = t
    BY <2>1 DEF TFits
  <2>2. CASE u # t
    <3>1. call[u].o = o /\ call'[u] = call[u]
      BY <2>2 DEF OthersKeep
    <3>2. ASSUME call[u].at \in PreHandle PROVE \A f \in Files : o \notin handles'[f]
      <4>1. Role(u, o)
        BY <3>1, <3>2 DEF Role, Roles, CreateSteps
      <4>2. QED
        BY <1>1, <2>2, <3>1, <3>2, <4>1 DEF ObjOK, RoleFits, UFits
    <3>3. ASSUME call[u].at \in FreeAll
          PROVE  refs'[o] = 0 /\ o \in live' /\ o \notin given_up'
      BY <2>2, <3>1, <3>3 DEF Frees, UFits
    <3>4. QED
      BY <3>1, <3>2, <3>3
  <2>3. QED
    BY <2>1, <2>2
<1>4. QED
  BY <1>2, <1>3 DEF ObjOK

----------------------------------------------------------------------------
(* Steps that touch no reference: a call goes on within its role, or has   *)
(* none before and after, and comes to drm_gem_handle_delete only with an  *)
(* object that is not tracked.                                             *)
Unowned ==
    UNCHANGED <<refs, jobs, ranges, live, given_up, handles, orphaned, stale>>
SameRole(from, step) ==
    \/ from \notin Roles /\ step \notin Roles
    \/ from \in PreHandle /\ step \in PreHandle
    \/ from \in FreeAll /\ step \in FreeAll
GoesOn(t) ==
    /\ SameRole(call[t].at, call'[t].at)
    /\ call'[t].at \in Roles => call'[t].o = call[t].o
    /\ call'[t].at = "delete" => call'[t].o \notin ranges

(* They keep what is known.                                                *)
LEMMA QuietOwn ==
    ASSUME Own, Base', NEW t \in Threads, Unowned, OthersKeep(t), GoesOn(t)
    PROVE  Own'
<1>1. \A p \in Objs : ObjKeeps(p)
  BY DEF Unowned, ObjKeeps, RefsKeep
<1>2. \A p \in Objs : CallKeeps(t, p)
  <2>1. PreHandle \subseteq CreateSteps /\ CreateSteps \subseteq Roles
        /\ FreeAll \subseteq Roles /\ PreHandle \cap FreeAll = {}
        /\ CreateSteps \cap FreeAll = {}
    BY DEF Roles, CreateSteps, PreHandle, FreeAll, FreeSteps
  <2>2. QED
    BY <2>1 DEF GoesOn, SameRole, CallKeeps, Creates, Frees, Deletes
<1>3. Local(t, NoObj) /\ ObjType'
  BY <1>1, <1>2 DEF Local, Unowned, Own, ObjType
<1>4. NoObj \notin Objs
  BY GemAssumption
<1>5. QED
  BY <1>3, <1>4, OwnStep

(* The step with which the call of t takes a role for o, or leaves it.     *)
Turns(t, o) ==
    /\ call[t].at \in Roles => call[t].o = o
    /\ call'[t].at \in Roles => call'[t].o = o
    /\ call'[t].at = "delete" => call'[t].o = o

(* It is about o only.                                                     *)
LEMMA TurnsLocal ==
    ASSUME NEW t \in Threads, NEW o, OthersKeep(t), stale \subseteq stale', Turns(t, o),
           \A p \in Objs : p # o => ObjKeeps(p)
    PROVE  Local(t, o)
<1>1. PreHandle \subseteq CreateSteps /\ CreateSteps \subseteq Roles /\ FreeAll \subseteq Roles
  BY DEF Roles, CreateSteps
<1>2. QED
  BY <1>1 DEF Local, Turns, CallKeeps, Creates, Frees, Deletes

(* Creates and destructions of an object that t has for itself.            *)
LEMMA AloneFacts ==
    ASSUME NEW t \in Threads, NEW o \in Objs, OthersKeep(t), Alone(t, o)
    PROVE  /\ Created(o) <=> Creates(t, o)
           /\ Created(o)' <=> Creates(t, o)'
           /\ (\E u \in Threads : Frees(u, o)') <=> Frees(t, o)'
           /\ UFits(t, o)
           /\ \A u \in Threads : u # t => ~Role(u, o)'
<1>1. \A u \in Threads : u # t => ~Creates(u, o) /\ ~Frees(u, o)
  BY DEF Alone, Role, Roles, Creates, Frees
<1>2. \A u \in Threads : u # t => ~Creates(u, o)' /\ ~Frees(u, o)' /\ ~Role(u, o)'
  BY <1>1, OthersSame DEF Alone
<1>3. QED
  BY <1>1, <1>2 DEF Created, UFits, Alone

(* A buffer is allocated, or imported, with the reference of its create.   *)
LEMMA BornOwn ==
    ASSUME Own, Base', NEW t \in Threads, NEW o \in Objs, o \notin live,
           call[t].at = "idle", OthersKeep(t),
           call'[t].o = o, call'[t].at \in {"get", "handle"},
           live' = live \cup {o}, refs' = [refs EXCEPT ![o] = 1],
           UNCHANGED <<handles, ranges, jobs, given_up, orphaned, stale>>
    PROVE  Own'
<1>1. ObjType /\ call[t].at \notin Roles
  BY RoleFacts DEF Own
<1>2. call'[t].at \in PreHandle /\ call'[t].at \notin FreeAll /\ call'[t].at # "delete"
  BY DEF PreHandle, FreeAll, FreeSteps
<1>3. ObjType'
  BY <1>1 DEF ObjType
<1>4. Local(t, o)
  <2>1. \A p \in Objs : p # o => ObjKeeps(p)
    BY <1>1 DEF ObjKeeps, RefsKeep, ObjType
  <2>2. QED
    BY <1>1, <1>2, <2>1, TurnsLocal DEF Turns
<1>5. ASSUME o \notin stale PROVE ObjOK(o)'
  <2>1. refs[o] = 0 /\ refs'[o] = 1 /\ o \notin given_up
    BY <1>1, <1>5, RefsFacts DEF Own, ObjType, ObjOK, LiveFits
  <2>2. Alone(t, o)
    BY <1>5, RoleNeeds DEF Alone
  <2>3. /\ Cardinality(Holders(o)) = 0 /\ jobs[o] = 0 /\ o \notin ranges
        /\ \A f \in Files : o \notin handles[f]
    BY <1>5, <2>1, RefsFacts
  <2>4. Created(o)'
    BY <1>2, <2>2, AloneFacts DEF Creates, CreateSteps
  <2>5. RefsFit(o)'
    <3>1. Holders(o)' = Holders(o)
      BY DEF Holders
    <3>2. QED
      BY <2>1, <2>3, <2>4, <3>1 DEF RefsFit, CreateRef, Tracked
  <2>6. LiveFits(o)' /\ Kept(o)' /\ TFits(t, o)
    BY <1>2, <2>1, <2>3 DEF LiveFits, Kept, TFits
  <2>7. QED
    BY <1>5, <2>2, <2>5, <2>6, AloneFacts, ObjStep
<1>6. QED
  BY <1>3, <1>4, <1>5, OwnStep

(* What the owner of a create finds if it has the only reference.          *)
LEMMA OnlyRef ==
    ASSUME Own, NEW t \in Threads, NEW o \in Objs, o \notin stale, Creates(t, o),
           refs[o] = 1
    PROVE  /\ Alone(t, o) /\ Cardinality(Holders(o)) = 0 /\ jobs[o] = 0 /\ o \notin ranges
           /\ \A f \in Files : o \notin handles[f]
           /\ o \in live /\ o \notin given_up
<1>1. Created(o) /\ call[t].at \in Roles /\ call[t].o = o
  BY DEF Created, Creates, Roles
<1>2. Alone(t, o)
  BY <1>1, RoleAlone
<1>3. CreateRef(o) = 1
  BY <1>1 DEF CreateRef
<1>4. Cardinality(Holders(o)) = 0
  BY <1>3, RefsFacts
<1>5. jobs[o] = 0 /\ o \notin ranges /\ \A f \in Files : o \notin handles[f]
  BY <1>1, RefsFacts
<1>6. o \in live /\ o \notin given_up
  BY DEF Own, ObjOK, LiveFits
<1>7. QED
  BY <1>2, <1>4, <1>5, <1>6

(* A create that fails before it has a handle releases the object, or goes *)
(* on to destroy it, whatever its count is.                                *)
LEMMA DiscardOwn ==
    ASSUME Own, Base', NEW t \in Threads, NEW o \in Objs, Creates(t, o),
           OthersKeep(t), Discard(o),
           \/ call'[t] = Idle /\ live' = live \ {o}
           \/ call'[t].at = "free" /\ call'[t].o = o /\ live' = live,
           UNCHANGED <<handles, ranges, jobs, given_up, orphaned>>
    PROVE  Own'
<1>1. ObjType /\ call[t].o = o
  BY DEF Own, Creates
<1>2. call'[t].at \in {"idle", "free"}
  BY IdleFields
<1>3. /\ call'[t].at \in Roles => call'[t].o = o
      /\ call'[t].at \notin CreateSteps /\ call'[t].at # "delete"
  BY <1>2, IdleFields DEF Roles, CreateSteps, PreHandle, FreeAll, FreeSteps
<1>4. stale \subseteq stale' /\ stale' \subseteq Objs
  BY <1>1 DEF Discard, ObjType
<1>5. refs' = [refs EXCEPT ![o] = 0] /\ (o \notin stale' => o \notin stale /\ refs[o] = 1)
  BY DEF Discard
<1>6. ObjType'
  BY <1>1, <1>4, <1>5 DEF ObjType
<1>7. Local(t, o)
  <2>1. \A p \in Objs : p # o => ObjKeeps(p)
    BY <1>1, <1>5 DEF ObjKeeps, RefsKeep, ObjType
  <2>2. QED
    BY <1>1, <1>3, <1>4, <2>1, TurnsLocal DEF Turns
<1>8. ASSUME o \notin stale' PROVE ObjOK(o)'
  <2>1. o \notin stale /\ refs[o] = 1 /\ refs'[o] = 0
    BY <1>1, <1>5, <1>8 DEF ObjType
  <2>2. /\ Alone(t, o) /\ Cardinality(Holders(o)) = 0 /\ jobs[o] = 0 /\ o \notin ranges
        /\ o \in live /\ o \notin given_up
    BY <2>1, OnlyRef
  <2>3. ~Created(o)'
    BY <1>3, <2>2, AloneFacts DEF Creates
  <2>4. RefsFit(o)'
    <3>1. Holders(o)' = Holders(o)
      BY DEF Holders
    <3>2. QED
      BY <2>1, <2>2, <2>3, <3>1 DEF RefsFit, CreateRef, Tracked
  <2>5. call'[t].at \in FreeAll => live' = live
    BY IdleFields DEF FreeAll, FreeSteps
  <2>6. TFits(t, o)
    BY <1>3, <2>1, <2>2, <2>5 DEF TFits, CreateSteps
  <2>7. LiveFits(o)'
    <3>1. o \in live' => Frees(t, o)'
      BY DEF Frees, FreeAll
    <3>2. QED
      BY <2>1, <2>2, <3>1 DEF LiveFits
  <2>8. Kept(o)'
    BY <2>2 DEF Kept
  <2>9. QED
    BY <2>1, <2>2, <2>4, <2>6, <2>7, <2>8, AloneFacts, ObjStep
<1>9. QED
  BY <1>6, <1>7, <1>8, OwnStep

(* The new handle has a reference of its own.                              *)
LEMMA HandleOwn ==
    ASSUME Own, Base', NEW t \in Threads, NEW o \in Objs, NEW f \in Files,
           o = call[t].o, f = call[t].f,
           call[t].at = "handle", OthersKeep(t),
           call'[t].at = "drop", call'[t].o = o,
           handles' = [handles EXCEPT ![f] = @ \cup {o}], refs' = [refs EXCEPT ![o] = @ + 1],
           UNCHANGED <<live, ranges, jobs, given_up, orphaned, stale>>
    PROVE  Own'
<1>1. ObjType /\ handles \in [Files -> SUBSET Objs]
  BY DEF Own, Base
<1>2. /\ Creates(t, o) /\ Creates(t, o)' /\ call[t].at \in Roles /\ call[t].at \in PreHandle
      /\ call'[t].at \in Roles /\ call'[t].at \notin PreHandle /\ call'[t].at \notin FreeAll
  BY DEF Creates, Roles, CreateSteps, PreHandle, FreeAll, FreeSteps
<1>3. ObjType'
  BY <1>1 DEF ObjType
<1>4. Local(t, o)
  <2>1. \A p \in Objs : p # o => ObjKeeps(p)
    BY <1>1 DEF ObjKeeps, RefsKeep, ObjType
  <2>2. QED
    BY <2>1, TurnsLocal DEF Turns
<1>5. ASSUME o \notin stale PROVE ObjOK(o)'
  <2>1. ObjOK(o) /\ refs[o] \in Nat /\ refs'[o] = refs[o] + 1
    BY <1>1, <1>5, RefsFacts DEF Own, ObjType
  <2>2. Created(o) /\ refs[o] > 0
    BY <1>2, <1>5, RefsFacts DEF Created, CreateRef
  <2>3. Alone(t, o)
    BY <1>2, <1>5, RoleAlone
  <2>4. \A g \in Files : o \notin handles[g]
    BY <1>2, <2>1 DEF ObjOK, RoleFits
  <2>5. Created(o)'
    BY <1>2, <2>3, AloneFacts
  <2>6. Cardinality(Holders(o)') = Cardinality(Holders(o)) + 1
    BY <1>1, <2>4, HoldersStep
  <2>7. RefsFit(o)'
    BY <1>5, <2>1, <2>2, <2>5, <2>6, RefsFacts DEF RefsFit, CreateRef, Tracked
  <2>8. LiveFits(o)' /\ TFits(t, o)
    BY <1>2, <2>1, <2>2 DEF ObjOK, LiveFits, TFits
  <2>9. Kept(o)'
    BY <2>1, <2>4 DEF ObjOK, Kept
  <2>10. QED
    BY <1>5, <2>3, <2>7, <2>8, <2>9, AloneFacts, ObjStep
<1>6. QED
  BY <1>3, <1>4, <1>5, OwnStep

(* The references of files, jobs and range entries.                        *)
Sum(o) == Cardinality(Holders(o)) + jobs[o] + Tracked(o)
SumKeeps(o) == \A p \in Objs : p # o => RefsKeep(p)
RefsTyped ==
    /\ ranges \subseteq Objs
    /\ jobs \in [Objs -> 0 .. MaxJobs]
    /\ orphaned \subseteq ranges

(* They are numbers, before a step and after it.                           *)
LEMMA SumType ==
    ASSUME ObjType, NEW o \in Objs
    PROVE  /\ Cardinality(Holders(o)) \in Nat /\ jobs[o] \in Nat /\ Tracked(o) \in Nat
           /\ Sum(o) \in Nat
<1>1. Holders(o) \in SUBSET Files
  BY DEF Holders
<1>2. Cardinality(Holders(o)) \in Nat
  BY <1>1, GemAssumption, FS_Subset, FS_CardinalityType
<1>3. jobs[o] \in Nat /\ Tracked(o) \in Nat
  BY GemAssumption DEF ObjType, Tracked
<1>4. QED
  BY <1>2, <1>3 DEF Sum

(* The same after a step.                                                  *)
LEMMA SumTypeNext ==
    ASSUME ObjType', NEW o \in Objs
    PROVE  /\ Cardinality(Holders(o)') \in Nat /\ jobs'[o] \in Nat /\ Tracked(o)' \in Nat
           /\ Sum(o)' = Cardinality(Holders(o)') + jobs'[o] + Tracked(o)' /\ Sum(o)' \in Nat
<1>1. Holders(o)' \in SUBSET Files
  BY DEF Holders
<1>2. Cardinality(Holders(o)') \in Nat
  BY <1>1, GemAssumption, FS_Subset, FS_CardinalityType
<1>3. jobs'[o] \in Nat /\ Tracked(o)' \in Nat
  BY GemAssumption DEF ObjType, Tracked
<1>4. QED
  BY <1>2, <1>3 DEF Sum

(* A reference is dropped: that of a handle, a job or a range entry that   *)
(* went, or that of the create that t ends with it.                        *)
LEMMA PutOwn ==
    ASSUME Own, Base', NEW t \in Threads, NEW o \in Objs,
           NEW next \in {"idle", "delete", "track", "end", "close"}, Put(t, o, next),
           call[t].at \notin FreeAll,
           call[t].at \in CreateSteps => call[t].o = o,
           next = "delete" => call[t].o = o,
           UNCHANGED <<live, given_up, stale>>, SumKeeps(o), RefsTyped',
           \A f \in Files : o \in handles'[f] => o \in handles[f],
           o \notin stale =>
              /\ Sum(o)' = Sum(o) - (IF call[t].at \in CreateSteps THEN 0 ELSE 1)
              /\ o \in ranges' /\ o \notin orphaned' =>
                    /\ o \in ranges /\ o \notin orphaned
                    /\ \E f \in Files : o \in handles'[f]
                    /\ next # "delete"
    PROVE  Own'
<1>1. ObjType /\ CallTyped
  BY DEF Own, Base
<1>2. refs' = [refs EXCEPT ![o] = @ - 1]
  BY DEF Put
<1>3. /\ OthersKeep(t)
      /\ refs[o] = 1 => call'[t].at = "free" /\ call'[t].o = o
      /\ refs[o] # 1 => /\ call'[t].at = next
                        /\ next # "idle" => call'[t].o = call[t].o
  <2>1. /\ OthersKeep(t)
        /\ refs[o] = 1 => call'[t].at = "free" /\ call'[t].o = o
        /\ refs[o] # 1 => Goto(t, next)
    BY <1>1, PutFields
  <2>2. next \in Steps
    BY DEF Steps, DomainSteps
  <2>3. QED
    BY <1>1, <2>1, <2>2, GotoFields
<1>4. ObjType'
  BY <1>1, <1>2 DEF ObjType, RefsTyped
<1>5. /\ call'[t].at \notin CreateSteps
      /\ refs[o] # 1 => call'[t].at \notin Roles
      /\ call'[t].at = "delete" => next = "delete"
      /\ "free" \in Roles /\ "free" \in FreeAll
  BY <1>3 DEF Roles, CreateSteps, PreHandle, FreeAll, FreeSteps
<1>6. Local(t, o)
  <2>1. \A p \in Objs : p # o => ObjKeeps(p)
    BY <1>1, <1>2 DEF SumKeeps, ObjKeeps, ObjType
  <2>2. Turns(t, o)
    BY <1>3, <1>5 DEF Turns, Roles
  <2>3. QED
    BY <1>3, <2>1, <2>2, TurnsLocal
<1>7. ASSUME o \notin stale PROVE ObjOK(o)'
  <2>1. /\ ObjOK(o) /\ refs[o] \in Nat /\ refs'[o] = refs[o] - 1
        /\ refs[o] = CreateRef(o) + Sum(o)
        /\ Sum(o) \in Nat /\ Sum(o)' \in Nat /\ CreateRef(o) \in {0, 1}
    <3>1. Sum(o) \in Nat
      BY <1>1, SumType
    <3>2. Sum(o)' \in Nat
      BY <1>4, SumTypeNext
    <3>3. QED
      BY <1>1, <1>2, <1>7, <3>1, <3>2, RefsFacts DEF Own, ObjType, Sum
  <2>2. call[t].at \in CreateSteps <=> Creates(t, o)
    BY DEF Creates
  <2>3. CreateRef(o)' = CreateRef(o) - (IF Creates(t, o) THEN 1 ELSE 0)
    <3>1. \A u \in Threads : u # t => (Creates(u, o)' <=> Creates(u, o))
      BY <1>3, OthersSame
    <3>2. ~Creates(t, o)'
      BY <1>5 DEF Creates
    <3>3. CASE Creates(t, o)
      <4>1. Alone(t, o) /\ Created(o)
        BY <1>7, <3>3, RoleAlone DEF Creates, Created, Roles
      <4>2. ~Created(o)'
        BY <1>3, <3>2, <4>1, AloneFacts
      <4>3. QED
        BY <3>3, <4>1, <4>2 DEF CreateRef
    <3>4. CASE ~Creates(t, o)
      BY <3>1, <3>2, <3>4 DEF CreateRef, Created
    <3>5. QED
      BY <3>3, <3>4
  <2>4. refs'[o] = CreateRef(o)' + Sum(o)' /\ refs[o] > 0
    <3>1. Sum(o)' = Sum(o) - (IF Creates(t, o) THEN 0 ELSE 1)
      BY <1>7, <2>2
    <3>2. Creates(t, o) => CreateRef(o) = 1
      BY DEF CreateRef, Created
    <3>3. QED
      BY <2>1, <2>3, <3>1, <3>2
  <2>5. o \in live /\ o \notin given_up /\ \A u \in Threads : ~Frees(u, o)
    BY <1>7, <2>1, <2>4, RoleNeeds DEF ObjOK, LiveFits, Role, Frees, Roles
  <2>6. refs[o] = 1 => Alone(t, o)
    <3> SUFFICES ASSUME refs[o] = 1, NEW u \in Threads, u # t, Creates(u, o) PROVE FALSE
      BY <2>5 DEF Alone, Role, Roles, Creates, Frees
    <3>1. Created(o)'
      BY <1>3, OthersSame DEF Created
    <3>2. CreateRef(o)' = 1
      BY <3>1 DEF CreateRef
    <3>3. QED
      BY <2>1, <2>4, <3>2
  <2>7. Role(t, o)' => Alone(t, o)
    BY <1>5, <2>6 DEF Role
  <2>8. TFits(t, o) /\ UFits(t, o)
    <3>1. call'[t].at \in FreeAll => refs[o] = 1
      BY <1>5 DEF Roles
    <3>2. call'[t].at \notin PreHandle
      BY <1>5 DEF CreateSteps
    <3>3. QED
      BY <2>1, <2>5, <3>1, <3>2 DEF TFits, UFits
  <2>9. RefsFit(o)'
    <3>1. CreateRef(o)' \in Nat
      BY DEF CreateRef
    <3>2. QED
      BY <1>4, <2>4, <3>1, SumTypeNext DEF RefsFit
  <2>10. LiveFits(o)'
    <3>1. refs[o] = 1 => Frees(t, o)'
      BY <1>3, <1>5 DEF Frees
    <3>2. QED
      BY <2>1, <2>4, <2>5, <3>1 DEF LiveFits
  <2>11. Kept(o)'
    <3> SUFFICES ASSUME o \in ranges', o \notin orphaned'
                 PROVE  /\ \E f \in Files : o \in handles'[f]
                        /\ \A u \in Threads : ~Deletes(u, o)'
      BY DEF Kept
    <3>1. /\ \E f \in Files : o \in handles'[f]
          /\ o \in ranges /\ o \notin orphaned /\ next # "delete"
      BY <1>7
    <3>2. \A u \in Threads : ~Deletes(u, o)
      BY <2>1, <3>1 DEF ObjOK, Kept
    <3>3. ~Deletes(t, o)'
      BY <1>5, <3>1 DEF Deletes
    <3>4. QED
      BY <1>3, <3>1, <3>2, <3>3, OthersSame
  <2>12. QED
    BY <1>3, <1>7, <2>7, <2>8, <2>9, <2>10, <2>11, ObjStep
<1>8. QED
  BY <1>4, <1>6, <1>7, OwnStep

(* A reference is taken, by a job or a range entry.                        *)
LEMMA TakeOwn ==
    ASSUME Own, Base', NEW t \in Threads, NEW o \in Objs, Take(o),
           OthersKeep(t), call[t].at \notin Roles, call'[t].at \notin Roles \cup {"delete"},
           UNCHANGED <<live, given_up, handles>>, SumKeeps(o), RefsTyped',
           o \notin stale =>
              /\ Sum(o)' = Sum(o) + 1
              /\ o \in ranges' /\ o \notin orphaned' =>
                    /\ \E f \in Files : o \in handles[f]
                    /\ \A u \in Threads : ~Deletes(u, o)
    PROVE  Own'
<1>1. ObjType
  BY DEF Own
<1>2. refs' = [refs EXCEPT ![o] = @ + 1] /\ stale \subseteq stale' /\ stale' \subseteq Objs
  BY <1>1 DEF Take, ObjType
<1>3. ObjType'
  BY <1>1, <1>2 DEF ObjType, RefsTyped
<1>4. Local(t, o)
  <2>1. \A p \in Objs : p # o => ObjKeeps(p)
    BY <1>1, <1>2 DEF SumKeeps, ObjKeeps, ObjType
  <2>2. Turns(t, o)
    BY DEF Turns
  <2>3. QED
    BY <1>2, <2>1, <2>2, TurnsLocal
<1>5. ASSUME o \notin stale' PROVE ObjOK(o)'
  <2>1. o \notin stale /\ refs[o] > 0
    BY <1>5 DEF Take
  <2>2. ObjOK(o) /\ refs[o] \in Nat /\ refs'[o] = refs[o] + 1
    BY <1>1, <1>2, <2>1, RefsFacts DEF Own, ObjType
  <2>3. o \in live /\ o \notin given_up /\ \A u \in Threads : ~Frees(u, o)
    BY <2>1, <2>2, RoleNeeds DEF ObjOK, LiveFits, Role, Frees, Roles
  <2>4. Created(o)' <=> Created(o)
    <3>1. ~Creates(t, o) /\ ~Creates(t, o)'
      BY DEF Creates, Roles
    <3>2. QED
      BY <3>1, OthersSame DEF Created
  <2>5. RefsFit(o)'
    <3>1. Sum(o) \in Nat /\ refs[o] = CreateRef(o) + Sum(o) /\ CreateRef(o) \in {0, 1}
      BY <1>1, <2>1, SumType, RefsFacts DEF Sum
    <3>2. Sum(o)' = Sum(o) + 1 /\ CreateRef(o)' = CreateRef(o)
      BY <2>1, <2>4 DEF CreateRef
    <3>3. refs'[o] = CreateRef(o)' + Sum(o)'
      BY <2>2, <3>1, <3>2
    <3>4. CreateRef(o)' \in Nat
      BY DEF CreateRef
    <3>5. QED
      BY <1>3, <3>3, <3>4, SumTypeNext DEF RefsFit
  <2>6. LiveFits(o)'
    BY <2>1, <2>2, <2>3 DEF LiveFits
  <2>7. ~Role(t, o)' /\ TFits(t, o) /\ UFits(t, o)
    BY <2>3 DEF Role, TFits, UFits, Roles, CreateSteps
  <2>8. Kept(o)'
    <3>1. ~Deletes(t, o)'
      BY DEF Deletes
    <3>2. QED
      BY <2>1, <3>1, OthersSame DEF Kept
  <2>9. QED
    BY <2>1, <2>5, <2>6, <2>7, <2>8, ObjStep
<1>6. QED
  BY <1>3, <1>4, <1>5, OwnStep

(* A destruction ends: the object is released, or it is given up on.       *)
LEMMA EndOwn ==
    ASSUME Own, Base', NEW t \in Threads, NEW o \in Objs, Frees(t, o),
           OthersKeep(t),
           call'[t].at \in {"idle", "delete", "track", "end", "close"},
           call'[t].at = "delete" => call'[t].o = o,
           \/ live' = live \ {o} /\ given_up' = given_up
           \/ live' = live /\ given_up' = given_up \cup {o},
           UNCHANGED <<refs, handles, ranges, jobs, orphaned, stale>>
    PROVE  Own'
<1>1. ObjType /\ call[t].at \in Roles /\ call[t].o = o
  BY DEF Own, Roles, Frees
<1>2. call'[t].at \notin Roles
  BY DEF Roles, CreateSteps, PreHandle, FreeAll, FreeSteps
<1>3. ObjType'
  BY <1>1 DEF ObjType
<1>4. Local(t, o)
  <2>1. \A p \in Objs : p # o => ObjKeeps(p)
    BY <1>1 DEF ObjKeeps, RefsKeep
  <2>2. QED
    BY <1>1, <1>2, <2>1, TurnsLocal DEF Turns
<1>5. ASSUME o \notin stale PROVE ObjOK(o)'
  <2>1. refs[o] = 0 /\ o \in live /\ o \notin given_up
    BY <1>1, <1>5, RoleNeeds DEF Role
  <2>2. Alone(t, o)
    BY <1>1, <1>5, RoleAlone
  <2>3. ~Created(o) /\ ~Created(o)' /\ o \notin ranges
    BY <1>2, <1>5, <2>1, <2>2, AloneFacts, RefsFacts DEF Creates, Roles
  <2>4. RefsFit(o)'
    <3>1. Holders(o)' = Holders(o) /\ Tracked(o)' = Tracked(o) /\ CreateRef(o)' = CreateRef(o)
      BY <2>3 DEF Holders, Tracked, CreateRef
    <3>2. QED
      BY <1>5, <3>1 DEF Own, ObjOK, RefsFit
  <2>5. LiveFits(o)' /\ Kept(o)' /\ TFits(t, o)
    BY <1>2, <2>1, <2>3 DEF LiveFits, Kept, TFits, Roles, CreateSteps
  <2>6. QED
    BY <1>2, <1>5, <2>2, <2>4, <2>5, AloneFacts, ObjStep DEF Role
<1>6. QED
  BY <1>3, <1>4, <1>5, OwnStep

----------------------------------------------------------------------------
(* The actions, sorted into these kinds.  A call that goes on to its next  *)
(* step.                                                                   *)
LEMMA GotoOwn ==
    ASSUME Own, Base', NEW t \in Threads, NEW step \in Steps, Goto(t, step), Unowned,
           SameRole(call[t].at, step), step = "delete" => call[t].o \notin ranges
    PROVE  Own'
<1>1. /\ OthersKeep(t) /\ call'[t].at = step
      /\ step # "idle" => call'[t].o = call[t].o
  BY GotoFields DEF Own, Base
<1>2. "idle" \notin Roles
  BY DEF Roles, CreateSteps, PreHandle, FreeAll, FreeSteps
<1>3. GoesOn(t)
  BY <1>1, <1>2 DEF GoesOn
<1>4. QED
  BY <1>1, <1>3, QuietOwn

(* A create drops the reference of the allocation.                         *)
LEMMA CreatorPutOwn ==
    ASSUME Own, Base', NEW t \in Threads, NEW o \in Objs, Creates(t, o),
           NEW next \in {"idle", "track"}, Put(t, o, next),
           UNCHANGED <<live, handles, ranges, jobs, given_up, orphaned, stale>>
    PROVE  Own'
<1>1. call[t].at \in CreateSteps /\ call[t].at \notin FreeAll /\ call[t].o = o
  BY DEF Creates, CreateSteps, PreHandle, FreeAll, FreeSteps
<1>2. SumKeeps(o) /\ RefsTyped'
  BY DEF SumKeeps, RefsKeep, RefsTyped, Own, ObjType
<1>3. Sum(o)' = Sum(o)
  BY DEF Sum, Holders, Tracked
<1>4. Sum(o) = Sum(o) - 0
  BY SumType DEF Own
<1>5. o \notin stale /\ o \in ranges /\ o \notin orphaned => \E f \in Files : o \in handles[f]
  BY DEF Own, ObjOK, Kept
<1>6. QED
  BY <1>1, <1>2, <1>3, <1>4, <1>5, PutOwn

(* GEM_CREATE, up to the handle.                                           *)
LEMMA CreateStepOwn ==
    ASSUME Own, Base', NEW t \in Threads, CreateStep(t)
    PROVE  Own'
<1>0. CallTyped /\ CallOK(call[t]) /\ ObjType
  BY DEF Own, Base, CallInv
<1>i. ASSUME Goto(t, "idle") PROVE call'[t] = Idle /\ OthersKeep(t)
  BY <1>0, <1>i, GotoFields DEF Steps
<1>c. ASSUME call[t].at \in CreateSteps PROVE Creates(t, call[t].o) /\ call[t].o \in Objs
  BY <1>0, <1>c DEF Creates, CallOK
<1>1. CASE CreateGet(t)
  <2>0. call[t].at = "get" /\ call[t].at \in CreateSteps
    BY <1>1 DEF CreateGet, At, CreateSteps, PreHandle
  <2>1. ASSUME NEW step \in {"sram", "ddr"}, DomainGet(t, step),
               UNCHANGED <<live, refs, stale>>
        PROVE  Own'
    BY <1>1, <2>0, <2>1, GotoOwn DEF CreateGet, DomainGet, Unowned, Steps, DomainSteps,
         SameRole, PreHandle
  <2>2. ASSUME live' = live \ {call[t].o}, Discard(call[t].o), Goto(t, "idle")
        PROVE  Own'
    <3>1. UNCHANGED <<handles, ranges, jobs, given_up, orphaned>>
      BY <1>1 DEF CreateGet
    <3>2. QED
      BY <1>c, <1>i, <2>0, <2>2, <3>1, DiscardOwn
  <2>3. QED
    BY <1>1, <2>1, <2>2 DEF CreateGet
<1>2. CASE CreateSram(t)
  <2>1. /\ CallStep(t)
        /\ call'[t].at \in {"mm", "ddr"} /\ call'[t].o = call[t].o
    BY <1>2, SramCall DEF Own
  <2>2. Unowned /\ call[t].at = "sram"
    BY <1>2 DEF CreateSram, Unowned, At, objVars
  <2>3. OthersKeep(t)
    BY <2>1 DEF CallStep
  <2>4. GoesOn(t)
    BY <2>1, <2>2 DEF GoesOn, SameRole, PreHandle
  <2>5. QED
    BY <2>2, <2>3, <2>4, QuietOwn
<1>3. CASE CreateMm(t)
  <2>1. Unowned /\ call[t].at = "mm"
    BY <1>3 DEF CreateMm, Unowned, At, objVars
  <2>2. ASSUME NEW step \in {"map", "ddr"}, Goto(t, step) PROVE Own'
    BY <2>1, <2>2, GotoOwn DEF Steps, DomainSteps, SameRole, PreHandle
  <2>3. QED
    BY <1>3, <2>2 DEF CreateMm
<1>4. CASE CreateMap(t)
  <2>1. Unowned /\ call[t].at = "map"
    BY <1>4 DEF CreateMap, Unowned, At, objVars
  <2>2. ASSUME NEW step \in {"put", "release"}, Goto(t, step) PROVE Own'
    BY <2>1, <2>2, GotoOwn DEF Steps, DomainSteps, SameRole, PreHandle
  <2>3. QED
    BY <1>4, <2>2 DEF CreateMap
<1>5. CASE CreateDdr(t)
  <2>1. Unowned /\ call[t].at = "ddr"
    BY <1>5 DEF CreateDdr, Unowned, At, objVars
  <2>2. ASSUME NEW step \in {"put", "release"}, Goto(t, step) PROVE Own'
    BY <2>1, <2>2, GotoOwn DEF Steps, DomainSteps, SameRole, PreHandle
  <2>3. QED
    BY <1>5, <2>2 DEF CreateDdr
<1>6. CASE CreateRelease(t)
  <2>1. call[t].at \in CreateSteps
    BY <1>6 DEF CreateRelease, At, CreateSteps, PreHandle
  <2>2. /\ live' = live \ {call[t].o} /\ Discard(call[t].o)
        /\ Goto(t, "idle") /\ UNCHANGED <<handles, ranges, jobs, given_up, orphaned>>
    BY <1>6 DEF CreateRelease
  <2>3. QED
    BY <1>c, <1>i, <2>1, <2>2, DiscardOwn
<1>7. CASE CreatePut(t)
  <2>1. Unowned /\ call[t].at = "put" /\ Goto(t, "handle")
    BY <1>7 DEF CreatePut, Unowned, At, objVars
  <2>2. QED
    BY <2>1, GotoOwn DEF Steps, SameRole, PreHandle
<1>8. CASE CreateHandle(t)
  <2>1. /\ call[t].at = "handle" /\ call[t].at \in CreateSteps
        /\ UNCHANGED <<live, ranges, jobs, given_up, orphaned>>
    BY <1>8 DEF CreateHandle, At, CreateSteps, PreHandle
  <2>2. call[t].o \in Objs /\ call[t].f \in Files /\ Creates(t, call[t].o)
    BY <1>0, <1>c, <2>1 DEF CallOK
  <2>3. ASSUME handles' = [handles EXCEPT ![call[t].f] = @ \cup {call[t].o}],
               refs' = [refs EXCEPT ![call[t].o] = @ + 1], Goto(t, "drop"), stale' = stale
        PROVE  Own'
    <3>1. OthersKeep(t) /\ call'[t].at = "drop" /\ call'[t].o = call[t].o
      BY <1>0, <2>3, GotoFields DEF Steps
    <3>2. QED
      BY <2>1, <2>2, <2>3, <3>1, HandleOwn
  <2>4. ASSUME handles' = handles, Discard(call[t].o), Goto(t, "free")
        PROVE  Own'
    <3>1. OthersKeep(t) /\ call'[t].at = "free" /\ call'[t].o = call[t].o
      BY <1>0, <2>4, GotoFields DEF Steps
    <3>2. QED
      BY <2>1, <2>2, <2>4, <3>1, DiscardOwn
  <2>5. ASSUME UNCHANGED <<handles, stale>>, Put(t, call[t].o, "idle") PROVE Own'
    BY <2>1, <2>2, <2>5, CreatorPutOwn
  <2>6. QED
    BY <1>8, <2>3, <2>4, <2>5 DEF CreateHandle
<1>9. CASE CreateDrop(t)
  <2>1. /\ call[t].at \in CreateSteps
        /\ UNCHANGED <<live, handles, ranges, jobs, given_up, orphaned, stale>>
    BY <1>9 DEF CreateDrop, At, CreateSteps
  <2>2. ASSUME NEW next \in {"idle", "track"}, Put(t, call[t].o, next) PROVE Own'
    BY <1>c, <2>1, <2>2, CreatorPutOwn
  <2>3. QED
    BY <1>9, <2>2 DEF CreateDrop
<1>10. CASE Track(t)
  <2>1. /\ call[t].at = "track" /\ call[t].o \in Objs /\ Goto(t, "idle")
        /\ UNCHANGED <<live, handles, jobs, given_up>>
    BY <1>0, <1>10 DEF Track, At, CallOK, UseSteps
  <2>2. ASSUME NEW o \in Objs, o = call[t].o, o \notin ranges, ranges' = ranges \cup {o},
               orphaned' = IF Late(o) THEN orphaned \cup {o} ELSE orphaned, Take(o)
        PROVE  Own'
    <3>1. call[t].at \notin Roles
      BY <2>1 DEF Roles, CreateSteps, PreHandle, FreeAll, FreeSteps
    <3>2. OthersKeep(t) /\ call'[t].at \notin Roles \cup {"delete"}
      BY <1>i, <2>1, IdleFields DEF Roles, CreateSteps, PreHandle, FreeAll, FreeSteps
    <3>3. SumKeeps(o) /\ RefsTyped'
      BY <1>0, <2>1, <2>2 DEF SumKeeps, RefsKeep, RefsTyped, ObjType
    <3>4. Sum(o)' = Sum(o) + 1
      <4>1. Holders(o)' = Holders(o) /\ jobs'[o] = jobs[o] /\ Tracked(o) = 0 /\ Tracked(o)' = 1
        BY <2>1, <2>2 DEF Holders, Tracked
      <4>2. QED
        BY <1>0, <4>1, SumType DEF Sum
    <3>5. o \notin orphaned' => /\ \E f \in Files : o \in handles[f]
                                /\ \A u \in Threads : ~Deletes(u, o)
      BY <2>2 DEF Late, Holders, Deletes, At
    <3>6. QED
      BY <2>1, <2>2, <3>1, <3>2, <3>3, <3>4, <3>5, TakeOwn
  <2>3. ASSUME UNCHANGED <<ranges, orphaned, refs, stale>> PROVE Own'
    BY <2>1, <2>3, GotoOwn DEF Steps, SameRole, Unowned, Roles, CreateSteps, PreHandle,
         FreeAll, FreeSteps
  <2>4. QED
    BY <1>10, <2>1, <2>2, <2>3 DEF Track
<1>11. QED
  BY <1>1, <1>2, <1>3, <1>4, <1>5, <1>6, <1>7, <1>8, <1>9, <1>10 DEF CreateStep

(* The handle of a file goes, and its reference with it.                   *)
LEMMA UnhandleOwn ==
    ASSUME Own, Base', NEW t \in Threads, NEW o \in Objs, NEW f \in Files, o \in handles[f],
           NEW next \in {"idle", "end", "close"}, Put(t, o, next), call[t].at \notin Roles,
           handles' = [handles EXCEPT ![f] = @ \ {o}],
           \/ orphaned' = orphaned /\ Deletes(t, o)
           \/ orphaned' = IF o \in ranges /\ Holders(o) = {f} THEN orphaned \cup {o}
                                                              ELSE orphaned,
           UNCHANGED <<live, ranges, jobs, given_up, stale>>
    PROVE  Own'
<1>1. ObjType /\ handles \in [Files -> SUBSET Objs] /\ f \in Holders(o)
  BY DEF Own, Base, Holders
<1>2. SumKeeps(o) /\ RefsTyped'
  BY <1>1 DEF SumKeeps, RefsKeep, RefsTyped, ObjType
<1>3. \A g \in Files : o \in handles'[g] <=> o \in handles[g] /\ g # f
  BY <1>1
<1>4. Sum(o)' = Sum(o) - 1
  <2>1. Cardinality(Holders(o)') = Cardinality(Holders(o)) - 1
    BY <1>1, <1>3, HoldersStep
  <2>2. jobs'[o] = jobs[o] /\ Tracked(o)' = Tracked(o)
    BY DEF Tracked
  <2>3. QED
    BY <1>1, <2>1, <2>2, SumType DEF Sum
<1>5. ASSUME o \notin stale, o \in ranges', o \notin orphaned'
      PROVE  o \in ranges /\ o \notin orphaned /\ \E g \in Files : o \in handles'[g]
  <2>1. o \in ranges /\ o \notin orphaned
    BY <1>5
  <2>2. ~Deletes(t, o)
    BY <1>5, <2>1 DEF Own, ObjOK, Kept
  <2>3. Holders(o) # {f}
    BY <1>5, <2>1, <2>2
  <2>4. PICK g \in Files : o \in handles[g] /\ g # f
    BY <1>1, <2>3 DEF Holders
  <2>5. QED
    BY <1>3, <2>1, <2>4
<1>6. call[t].at \notin FreeAll /\ call[t].at \notin CreateSteps
  BY DEF Roles
<1>7. QED
  BY <1>2, <1>3, <1>4, <1>5, <1>6, PutOwn

(* GEM_DESTROY, and the close of a file.                                   *)
LEMMA DestroyStepOwn ==
    ASSUME Own, Base', NEW t \in Threads, DestroyStep(t)
    PROVE  Own'
<1>0. CallTyped /\ CallOK(call[t]) /\ ObjType /\ handles \in [Files -> SUBSET Objs]
  BY DEF Own, Base, CallInv
<1>n. \A step \in {"destroy", "untrack", "delete", "end", "sync", "close", "idle"} :
         step \notin Roles /\ step \in Steps
  BY DEF Roles, CreateSteps, PreHandle, FreeAll, FreeSteps, Steps, DomainSteps
<1>1. CASE DestroyGet(t)
  <2>1. Unowned /\ call[t].at = "destroy"
    BY <1>1 DEF DestroyGet, At, Unowned, objVars
  <2>2. ASSUME NEW step \in {"untrack", "idle"}, Goto(t, step) PROVE Own'
    BY <1>n, <2>1, <2>2, GotoOwn DEF SameRole
  <2>3. ASSUME DomainGetAgain(t) PROVE Own'
    <3>1. OthersKeep(t) /\ call'[t].at = "destroy"
      BY <1>0, <2>1, <2>3, AgainFields
    <3>2. GoesOn(t)
      BY <1>n, <2>1, <3>1 DEF GoesOn, SameRole
    <3>3. QED
      BY <2>1, <3>1, <3>2, QuietOwn
  <2>4. QED
    BY <1>1, <2>2, <2>3 DEF DestroyGet, DomainGet
<1>2. CASE Untrack(t)
  <2>1. PICK o \in Objs : o = call[t].o
    BY <1>0, <1>2 DEF Untrack, At, CallOK, UseSteps
  <2>2. /\ call[t].at = "untrack" /\ ranges' = ranges \ {o} /\ orphaned' = orphaned \ {o}
        /\ UNCHANGED <<live, handles, jobs, given_up, stale>>
    BY <1>2, <2>1 DEF Untrack, At
  <2>3. CASE o \in ranges
    <3>1. Put(t, o, "delete")
      BY <1>2, <2>1, <2>3 DEF Untrack
    <3>2. SumKeeps(o) /\ RefsTyped'
      BY <1>0, <2>2 DEF SumKeeps, RefsKeep, RefsTyped, ObjType
    <3>3. Sum(o)' = Sum(o) - 1
      <4>1. Holders(o)' = Holders(o) /\ jobs'[o] = jobs[o] /\ Tracked(o) = 1 /\ Tracked(o)' = 0
        BY <2>2, <2>3 DEF Holders, Tracked
      <4>2. QED
        BY <1>0, <4>1, SumType DEF Sum
    <3>4. call[t].at \notin FreeAll /\ call[t].at \notin CreateSteps /\ o \notin ranges'
      BY <1>n, <2>2 DEF Roles
    <3>5. QED
      BY <2>1, <2>2, <3>1, <3>2, <3>3, <3>4, PutOwn
  <2>4. CASE o \notin ranges
    <3>1. Goto(t, "delete") /\ refs' = refs
      BY <1>2, <2>1, <2>4 DEF Untrack
    <3>2. Unowned
      BY <1>0, <2>2, <2>4, <3>1 DEF Unowned, ObjType
    <3>3. QED
      BY <1>n, <2>1, <2>2, <2>4, <3>1, <3>2, GotoOwn DEF SameRole
  <2>5. QED
    BY <2>3, <2>4
<1>3. CASE HandleDestroy(t)
  <2>1. PICK o \in Objs, f \in Files : o = call[t].o /\ f = call[t].f
    BY <1>0, <1>3 DEF HandleDestroy, At, CallOK, UseSteps
  <2>2. /\ call[t].at = "delete" /\ orphaned' = orphaned
        /\ handles' = [handles EXCEPT ![f] = @ \ {o}]
        /\ UNCHANGED <<live, ranges, jobs, given_up, stale>>
    BY <1>3, <2>1 DEF HandleDestroy, DeleteHandle, At
  <2>3. CASE o \in handles[f]
    <3>1. Put(t, o, "end") /\ Deletes(t, o)
      BY <1>3, <2>1, <2>2, <2>3 DEF HandleDestroy, DeleteHandle, Deletes
    <3>2. QED
      BY <1>n, <2>2, <2>3, <3>1, UnhandleOwn
  <2>4. CASE o \notin handles[f]
    <3>1. Goto(t, "end") /\ refs' = refs /\ handles' = handles
      BY <1>0, <1>3, <2>1, <2>2, <2>4 DEF HandleDestroy, DeleteHandle
    <3>2. QED
      BY <1>n, <2>2, <3>1, GotoOwn DEF SameRole, Unowned
  <2>5. QED
    BY <2>3, <2>4
<1>4. CASE DomainPut(t)
  <2>1. Unowned /\ call[t].at \in {"end", "sync"} /\ Goto(t, "idle")
    BY <1>4 DEF DomainPut, Unowned, objVars
  <2>2. QED
    BY <1>n, <2>1, GotoOwn DEF SameRole
<1>5. CASE CloseNext(t)
  <2>1. PICK f \in Files : call[t].at = "close" /\ f = call[t].f
    BY <1>0, <1>5 DEF CloseNext, At, CallOK
  <2>2. ASSUME NEW o \in handles[f], DropHandle(t, f, o, "close")
        PROVE  Own'
    <3>1. o \in Objs
      BY <1>0
    <3>2. /\ Put(t, o, "close") /\ handles' = [handles EXCEPT ![f] = @ \ {o}]
          /\ orphaned' = IF o \in ranges /\ Holders(o) = {f} THEN orphaned \cup {o}
                                                             ELSE orphaned
          /\ UNCHANGED <<live, ranges, jobs, given_up, stale>>
      BY <2>2 DEF DropHandle, DeleteHandle
    <3>3. QED
      BY <1>n, <2>1, <3>1, <3>2, UnhandleOwn
  <2>3. ASSUME Goto(t, "idle"), UNCHANGED objVars PROVE Own'
    BY <1>n, <2>1, <2>3, GotoOwn DEF SameRole, Unowned, objVars
  <2>4. QED
    BY <1>5, <2>1, <2>2, <2>3 DEF CloseNext
<1>6. QED
  BY <1>1, <1>2, <1>3, <1>4, <1>5 DEF DestroyStep

(* rknpu_gem_object_destroy.                                               *)
LEMMA FreeStepOwn ==
    ASSUME Own, Base', NEW t \in Threads, FreeStep(t)
    PROVE  Own'
<1>0. CallTyped /\ CallOK(call[t])
  BY DEF Own, Base, CallInv
<1>1. ASSUME Return(t), call[t].at \in FreeAll,
             \/ live' = live \ {call[t].o} /\ given_up' = given_up
             \/ live' = live /\ given_up' = given_up \cup {call[t].o},
             UNCHANGED <<refs, handles, ranges, jobs, orphaned, stale>>
      PROVE  Own'
  <2>1. /\ OthersKeep(t) /\ call'[t].at = call[t].after
        /\ call[t].after \notin {"idle", "close"} => call'[t].o = call[t].o
    BY <1>0, <1>1, ReturnFields
  <2>2. call[t].o \in Objs /\ Frees(t, call[t].o)
    BY <1>0, <1>1 DEF CallOK, Frees
  <2>3. call[t].after \in {"idle", "delete", "track", "end", "close"}
    BY <1>0 DEF CallTyped, CallType
  <2>4. QED
    BY <1>1, <2>1, <2>2, <2>3, EndOwn
<1>2. CASE FreeGet(t)
  <2>1. /\ call[t].at = "free" /\ call[t].at \in FreeAll
        /\ UNCHANGED <<live, refs, handles, ranges, jobs, orphaned, stale>>
    BY <1>2 DEF FreeGet, At, FreeAll
  <2>2. ASSUME NEW step \in {"free_import", "free_mm", "free_buf"}, Goto(t, step),
               UNCHANGED given_up
        PROVE  Own'
    BY <2>1, <2>2, GotoOwn DEF Steps, SameRole, FreeAll, FreeSteps, Unowned
  <2>3. ASSUME DomainGetAgain(t), UNCHANGED given_up PROVE Own'
    <3>1. OthersKeep(t) /\ call'[t].at = "free" /\ call'[t].o = call[t].o
      BY <1>0, <2>1, <2>3, AgainFields
    <3>2. GoesOn(t)
      BY <2>1, <3>1 DEF GoesOn, SameRole
    <3>3. QED
      BY <2>1, <2>3, <3>1, <3>2, QuietOwn DEF Unowned
  <2>4. ASSUME given_up' = given_up \cup {call[t].o}, Return(t) PROVE Own'
    BY <1>1, <2>1, <2>4
  <2>5. QED
    BY <1>2, <2>2, <2>3, <2>4 DEF FreeGet, DomainGet
<1>3. CASE FreeMm(t)
  <2>1. Unowned /\ call[t].at = "free_mm" /\ Goto(t, "free_cache")
    BY <1>3 DEF FreeMm, At, Unowned, objVars
  <2>2. QED
    BY <2>1, GotoOwn DEF Steps, SameRole, FreeAll, FreeSteps
<1>4. CASE FreeCache(t) \/ FreeBuf(t) \/ FreeImport(t)
  <2>1. /\ Unowned /\ call[t].at \in {"free_cache", "free_buf", "free_import"}
        /\ Goto(t, "free_release")
    BY <1>4 DEF FreeCache, FreeBuf, FreeImport, FreeMemory, At, Unowned, objVars
  <2>2. QED
    BY <2>1, GotoOwn DEF Steps, SameRole, FreeAll, FreeSteps
<1>5. CASE FreeRelease(t)
  <2>1. /\ call[t].at \in FreeAll /\ Return(t) /\ live' = live \ {call[t].o}
        /\ UNCHANGED <<refs, handles, ranges, jobs, given_up, orphaned, stale>>
    BY <1>5 DEF FreeRelease, At, FreeAll, FreeSteps
  <2>2. QED
    BY <1>1, <2>1
<1>6. QED
  BY <1>2, <1>3, <1>4, <1>5 DEF FreeStep

(* The calls that begin, the GEM_CLOSE ioctl and the jobs.                 *)
LEMMA NewCallOwn ==
    ASSUME Own, Base', NEW t \in Threads, NewCall(t)
    PROVE  Own'
<1>0. /\ CallTyped /\ CallOK(call[t]) /\ ObjType
      /\ handles \in [Files -> SUBSET Objs]
  BY DEF Own, Base, CallInv
<1>r. call[t].at = "idle" => call[t].at \notin Roles /\ call[t].at # "delete"
  BY RoleFacts DEF Own
<1>1. ASSUME NEW f \in Files, NEW o \in Objs \cup {NoObj},
             NEW step \in {"track", "destroy", "close", "sync", "end"},
             Begin(t, step, f, o), Unowned
      PROVE  Own'
  <2>1. OthersKeep(t) /\ call[t].at = "idle" /\ call'[t].at = step
    BY <1>0, <1>1, BeginFields DEF Steps, DomainSteps
  <2>2. GoesOn(t)
    BY <1>r, <2>1 DEF GoesOn, SameRole, Roles, CreateSteps, PreHandle, FreeAll, FreeSteps
  <2>3. QED
    BY <1>1, <2>1, <2>2, QuietOwn
<1>2. ASSUME NEW f \in Files, Close(t, f) \/ SetDomain(t, f) \/ Sync(t, f) PROVE Own'
  BY <1>1, <1>2 DEF Close, SetDomain, Sync, Unowned, objVars
<1>3. ASSUME NEW f \in Files, NEW o \in Objs, CreateFound(t, f, o) \/ Destroy(t, f, o)
      PROVE  Own'
  BY <1>1, <1>3 DEF CreateFound, Destroy, Unowned, objVars
<1>4. ASSUME NEW f \in Files, NEW o \in Objs, HandleClose(t, f, o) PROVE Own'
  <2>1. /\ call[t].at = "idle" /\ o \in handles[f] /\ Put(t, o, "idle")
        /\ handles' = [handles EXCEPT ![f] = @ \ {o}]
        /\ orphaned' = IF o \in ranges /\ Holders(o) = {f} THEN orphaned \cup {o}
                                                           ELSE orphaned
        /\ UNCHANGED <<live, ranges, jobs, given_up, stale>>
    BY <1>4 DEF HandleClose, Found, DropHandle, DeleteHandle, At
  <2>2. QED
    BY <1>r, <2>1, UnhandleOwn
<1>7. ASSUME NEW f \in Files, NEW o \in Objs, NEW c \in CallType,
             c.at \in {"get", "handle"}, c.f = f, c.o = o, c.after = "idle",
             At(t, "idle"), o \notin live, call' = [call EXCEPT ![t] = c],
             live' = live \cup {o}, refs' = [refs EXCEPT ![o] = 1],
             UNCHANGED <<handles, ranges, jobs, given_up, orphaned, stale>>
      PROVE  Own'
  <2>1. OthersKeep(t) /\ call'[t] = c /\ call[t].at = "idle"
    BY <1>0, <1>7 DEF CallTyped, OthersKeep, At
  <2>2. QED
    BY <1>7, <2>1, BornOwn
<1>8. ASSUME NEW f \in Files, NEW o \in Objs, NEW n \in Nat, NEW tracks \in BOOLEAN,
             CreateInit(t, f, o, n, tracks)
      PROVE  Own'
  <2> DEFINE c == CreateRecord(f, o, n, tracks)
  <2>1. /\ call' = [call EXCEPT ![t] = c] /\ At(t, "idle") /\ o \notin live
        /\ live' = live \cup {o} /\ refs' = [refs EXCEPT ![o] = 1]
        /\ UNCHANGED <<handles, ranges, jobs, given_up, orphaned, stale>>
    BY <1>8 DEF CreateInit, CreateRecord
  <2>2. c \in CallType /\ c.at = "get" /\ c.f = f /\ c.o = o /\ c.after = "idle"
    BY CreateRecords
  <2> HIDE DEF c
  <2>3. QED
    BY <1>7, <2>1, <2>2
<1>9. ASSUME NEW f \in Files, NEW o \in Objs, Create(t, f, o) \/ DumbCreate(t, f, o)
      PROVE  Own'
  <2>1. \A size \in Sizes, sram_size \in Sizes \cup {0} : RealSram(size, sram_size) \in Nat
    BY GemAssumption DEF RealSram
  <2>2. QED
    BY <1>8, <1>9, <2>1 DEF Create, DumbCreate
<1>10. ASSUME NEW f \in Files, NEW o \in Objs, Import(t, f, o) PROVE Own'
  <2> DEFINE c == ImportRecord(f, o)
  <2>1. /\ call' = [call EXCEPT ![t] = c] /\ At(t, "idle") /\ o \notin live
        /\ live' = live \cup {o} /\ refs' = [refs EXCEPT ![o] = 1]
        /\ UNCHANGED <<handles, ranges, jobs, given_up, orphaned, stale>>
    BY <1>10 DEF Import, ImportRecord
  <2>2. c \in CallType /\ c.at = "handle" /\ c.f = f /\ c.o = o /\ c.after = "idle"
    BY ImportRecords
  <2> HIDE DEF c
  <2>3. QED
    BY <1>7, <2>1, <2>2
<1>k. ASSUME NEW o \in Objs, o \notin stale, o \in ranges, o \notin orphaned
      PROVE  /\ \E f \in Files : o \in handles[f]
             /\ \A u \in Threads : ~Deletes(u, o)
  BY <1>k DEF Own, ObjOK, Kept
<1>11. ASSUME NEW f \in Files, NEW o \in Objs, Submit(t, f, o) PROVE Own'
  <2>1. /\ call[t].at = "idle" /\ call' = call /\ Take(o)
        /\ jobs[o] < MaxJobs /\ jobs' = [jobs EXCEPT ![o] = @ + 1]
        /\ UNCHANGED <<live, handles, ranges, given_up, orphaned>>
    BY <1>11 DEF Submit, At
  <2>2. OthersKeep(t) /\ call'[t].at \notin Roles \cup {"delete"} /\ call[t].at \notin Roles
    BY <1>r, <2>1 DEF OthersKeep
  <2>3. SumKeeps(o) /\ RefsTyped'
    BY <1>0, <2>1, GemAssumption DEF SumKeeps, RefsKeep, RefsTyped, ObjType
  <2>4. Sum(o)' = Sum(o) + 1
    <3>1. Holders(o)' = Holders(o) /\ jobs'[o] = jobs[o] + 1 /\ Tracked(o)' = Tracked(o)
      BY <1>0, <2>1 DEF Holders, Tracked, ObjType
    <3>2. QED
      BY <1>0, <3>1, SumType DEF Sum
  <2>5. QED
    BY <1>k, <2>1, <2>2, <2>3, <2>4, TakeOwn
<1>12. ASSUME NEW o \in Objs, JobFree(t, o) PROVE Own'
  <2>1. /\ call[t].at = "idle" /\ jobs[o] > 0 /\ jobs' = [jobs EXCEPT ![o] = @ - 1]
        /\ Put(t, o, "idle")
        /\ UNCHANGED <<live, handles, ranges, given_up, orphaned, stale>>
    BY <1>12 DEF JobFree, At
  <2>2. SumKeeps(o) /\ RefsTyped'
    BY <1>0, <2>1, GemAssumption DEF SumKeeps, RefsKeep, RefsTyped, ObjType
  <2>3. Sum(o)' = Sum(o) - 1
    <3>1. Holders(o)' = Holders(o) /\ jobs'[o] = jobs[o] - 1 /\ Tracked(o)' = Tracked(o)
      BY <1>0, <2>1 DEF Holders, Tracked, ObjType
    <3>2. QED
      BY <1>0, <3>1, SumType DEF Sum
  <2>4. call[t].at \notin FreeAll /\ call[t].at \notin CreateSteps
    BY <1>r, <2>1 DEF Roles
  <2>5. QED
    BY <1>k, <2>1, <2>2, <2>3, <2>4, PutOwn
<1>13. QED
  BY <1>2, <1>3, <1>4, <1>9, <1>10, <1>11, <1>12 DEF NewCall

----------------------------------------------------------------------------
(* Initially there are no objects.                                         *)
LEMMA InitOwn == Init => Own
<1> SUFFICES ASSUME Init PROVE Own
  OBVIOUS
<1>1. Base
  BY InitBase
<1>2. \A t \in Threads : call[t].at = "idle"
  BY IdleFields DEF Init
<1>3. ObjType
  BY GemAssumption DEF Init, ObjType
<1>4. ASSUME NEW o \in Objs PROVE ObjOK(o)
  <2>1. \A t \in Threads : call[t].at \notin Roles
    BY <1>2 DEF Roles, CreateSteps, PreHandle, FreeAll, FreeSteps
  <2>2. OneRole(o) /\ RoleFits(o) /\ ~Created(o)
    BY <2>1 DEF OneRole, RoleFits, Role, Roles, CreateSteps, Created, Creates
  <2>3. Cardinality(Holders(o)) = 0
    <3>1. Holders(o) = {}
      BY DEF Init, Holders
    <3>2. QED
      BY <3>1, FS_EmptySet
  <2>4. refs[o] = 0 /\ jobs[o] = 0 /\ Tracked(o) = 0
    BY DEF Init, Tracked
  <2>5. RefsFit(o)
    BY <2>2, <2>3, <2>4 DEF RefsFit, CreateRef
  <2>6. LiveFits(o) /\ Kept(o)
    BY <2>4 DEF Init, LiveFits, Kept
  <2>7. QED
    BY <2>2, <2>5, <2>6 DEF ObjOK
<1>5. QED
  BY <1>1, <1>3, <1>4 DEF Own

(* Every step keeps what is known of the references.                       *)
LEMMA NextOwn == Own /\ [Next]_vars => Own'
<1> SUFFICES ASSUME Own, [Next]_vars PROVE Own'
  OBVIOUS
<1>0. Base'
  BY NextBase DEF Own
<1>1. CASE Next
  <2>1. PICK t \in Threads : CreateStep(t) \/ DestroyStep(t) \/ FreeStep(t) \/ NewCall(t)
    BY <1>1, NextThread
  <2>2. QED
    BY <1>0, <2>1, CreateStepOwn, DestroyStepOwn, FreeStepOwn, NewCallOwn
<1>2. CASE UNCHANGED vars
  <2>1. Unowned /\ call' = call
    BY <1>2 DEF vars, objVars, Unowned
  <2>2. ObjType'
    BY <2>1 DEF Own, ObjType, Unowned
  <2>3. ASSUME NEW o \in Objs \ stale PROVE ObjOK(o)'
    <3>1. ObjOK(o)
      BY DEF Own
    <3>2. \A u \in Threads : /\ Role(u, o)' <=> Role(u, o)
                             /\ Creates(u, o)' <=> Creates(u, o)
                             /\ Frees(u, o)' <=> Frees(u, o)
                             /\ Deletes(u, o)' <=> Deletes(u, o)
      BY <2>1 DEF Role, Creates, Frees, Deletes
    <3>3. OneRole(o)' /\ RoleFits(o)' /\ Kept(o)'
      BY <2>1, <3>1, <3>2 DEF ObjOK, OneRole, RoleFits, Kept, Unowned
    <3>4. Holders(o)' = Holders(o) /\ Tracked(o)' = Tracked(o) /\ CreateRef(o)' = CreateRef(o)
      BY <2>1, <3>2 DEF Holders, Tracked, CreateRef, Created, Unowned
    <3>5. RefsFit(o)' /\ LiveFits(o)'
      BY <2>1, <3>1, <3>2, <3>4 DEF ObjOK, RefsFit, LiveFits, Unowned
    <3>6. QED
      BY <3>3, <3>5 DEF ObjOK
  <2>4. QED
    BY <1>0, <2>1, <2>2, <2>3 DEF Own, Unowned
<1>3. QED
  BY <1>1, <1>2

(* The reference count of every buffer is the number of its handles, jobs, *)
(* range entries and unfinished creates, whichever calls overlap and       *)
(* whichever fail, for as long as no call takes a reference at its address *)
(* when there is none left, or discards one that is not the last: a client *)
(* may send both.                                                          *)
THEOREM GemRefsExact == Spec => []RefsExact
<1>1. Spec => []Own
  BY InitOwn, NextOwn, PTL DEF Spec
<1>2. Own => RefsExact
  <2> SUFFICES ASSUME Own, NEW o \in Objs \ stale
               PROVE  refs[o] = Cardinality(Creators(o)) + Cardinality(Holders(o)) + jobs[o]
                                + Tracked(o)
    BY DEF RefsExact
  <2>1. Creators(o) = {t \in Threads : Creates(t, o)}
    BY DEF Creators, CreateSteps, PreHandle, Creates
  <2>2. Cardinality(Creators(o)) = CreateRef(o)
    <3>1. CASE Created(o)
      <4>1. PICK t \in Threads : Creates(t, o)
        BY <3>1 DEF Created
      <4>2. \A u \in Creators(o) : u = t
        BY <2>1, <4>1 DEF Own, ObjOK, OneRole, Role, Roles, Creates
      <4>3. Creators(o) = {t}
        BY <2>1, <4>1, <4>2
      <4>4. QED
        BY <3>1, <4>3, FS_Singleton DEF CreateRef
    <3>2. CASE ~Created(o)
      <4>1. Creators(o) = {}
        BY <2>1, <3>2 DEF Created
      <4>2. QED
        BY <3>2, <4>1, FS_EmptySet DEF CreateRef
    <3>3. QED
      BY <3>1, <3>2
  <2>3. QED
    BY <2>2, RefsFacts
<1>3. QED
  BY <1>1, <1>2, PTL

(* The memory of an object: a create that has not mapped it yet has none,  *)
(* one that asked for SRAM in vain has no chunks, and a destruction loses  *)
(* first the chunks, then the mapping, then the object.  Nothing is said   *)
(* of stale addresses.                                                     *)
NotMapped == {"get", "sram", "mm", "map", "ddr", "release"}
NoChunks == {"get", "sram", "mm", "ddr", "release",
             "free_cache", "free_buf", "free_import", "free_release"}
TMem(t) ==
    call[t].o \notin stale =>
        /\ call[t].at \in NotMapped => call[t].o \notin dma /\ call[t].o \notin imported
        /\ call[t].at \in NoChunks => chunks[call[t].o] = {}
        /\ call[t].at = "free_release" => call[t].o \notin dma
MemOf(o) ==
    /\ o \notin live => o \notin dma /\ chunks[o] = {}
    /\ o \in imported => chunks[o] = {} /\ o \in live
MemInv ==
    /\ imported \subseteq Objs /\ dma \subseteq Objs
    /\ \A t \in Threads : TMem(t)
    /\ \A o \in Objs \ stale : MemOf(o)

MemKeeps(p) ==
    /\ p \in live' <=> p \in live
    /\ p \in imported' <=> p \in imported
    /\ p \in dma' <=> p \in dma
    /\ chunks'[p] = chunks[p]

(* Steps that leave the memory alone.                                      *)
LEMMA MemQuiet ==
    ASSUME MemInv, NEW t \in Threads, OthersKeep(t),
           UNCHANGED <<live, imported, dma, chunks>>, stale \subseteq stale', TMem(t)'
    PROVE  MemInv'
<1>1. ASSUME NEW u \in Threads PROVE TMem(u)'
  <2>1. CASE u = t
    BY <2>1
  <2>2. CASE u # t
    BY <2>2 DEF OthersKeep, MemInv, TMem
  <2>3. QED
    BY <2>1, <2>2
<1>2. QED
  BY <1>1 DEF MemInv, MemOf

(* Steps of a call that has a role for the object, or takes one.           *)
LEMMA MemAlone ==
    ASSUME Own, MemInv, NEW t \in Threads, NEW o \in Objs, OthersKeep(t),
           stale \subseteq stale', o \notin stale' => Alone(t, o) /\ MemOf(o)',
           \A p \in Objs : p # o => MemKeeps(p),
           imported' \subseteq Objs, dma' \subseteq Objs, TMem(t)'
    PROVE  MemInv'
<1>1. ASSUME NEW u \in Threads PROVE TMem(u)'
  <2>1. CASE u = t
    BY <2>1
  <2>2. CASE u # t
    <3>1. call'[u] = call[u] /\ TMem(u)
      BY <2>2 DEF OthersKeep, MemInv
    <3>2. CASE call[u].at \in NotMapped \cup NoChunks /\ call[u].o \notin stale'
      <4>1. call[u].at \in Roles
        BY <3>2 DEF NotMapped, NoChunks, Roles, CreateSteps, PreHandle, FreeAll, FreeSteps
      <4>2. call[u].o \in Objs /\ call[u].o # o
        BY <2>2, <3>2, <4>1, RoleFacts DEF Own, Alone, Role
      <4>3. MemKeeps(call[u].o) /\ call[u].o \notin stale
        BY <3>2, <4>2
      <4>4. QED
        BY <3>1, <4>3 DEF TMem, MemKeeps
    <3>3. CASE call[u].at \notin NotMapped \cup NoChunks
      BY <3>1, <3>3 DEF TMem, NoChunks
    <3>4. CASE call[u].o \in stale'
      BY <3>1, <3>4 DEF TMem
    <3>5. QED
      BY <3>2, <3>3, <3>4
  <2>3. QED
    BY <2>1, <2>2
<1>2. ASSUME NEW p \in Objs, p \notin stale' PROVE MemOf(p)'
  <2>1. CASE p = o
    BY <1>2, <2>1
  <2>2. CASE p # o
    BY <1>2, <2>2 DEF MemInv, MemOf, MemKeeps
  <2>3. QED
    BY <2>1, <2>2
<1>3. QED
  BY <1>1, <1>2 DEF MemInv

(* A call at a step about which nothing is said.                           *)
LEMMA TMemFree ==
    ASSUME NEW t \in Threads, call'[t].at \notin NotMapped \cup NoChunks
    PROVE  TMem(t)'
  BY DEF TMem, NoChunks

(* GEM_CREATE.                                                             *)
LEMMA CreateStepMem ==
    ASSUME Own, MemInv, NEW t \in Threads, CreateStep(t)
    PROVE  MemInv'
<1>0. CallTyped /\ CallOK(call[t]) /\ SramType /\ TMem(t)
  BY DEF Own, Base, CallInv, MemInv
<1>1. ASSUME NEW step \in Steps, Goto(t, step)
      PROVE  /\ OthersKeep(t) /\ call'[t].at = step
             /\ step # "idle" => call'[t].o = call[t].o
  BY <1>0, <1>1, GotoFields
<1>2. ASSUME call[t].at \in NotMapped
      PROVE  /\ call[t].o \in Objs
             /\ call[t].o \notin stale => Alone(t, call[t].o) /\ call[t].o \in live
  <2>1. call[t].at \in Roles
    BY <1>2 DEF NotMapped, Roles, CreateSteps, PreHandle
  <2>2. QED
    BY <2>1, RoleFacts, RoleAlone, RoleNeeds DEF Own, Role
<1>d. ASSUME Discard(call[t].o) PROVE stale \subseteq stale'
  BY <1>d DEF Discard
<1>3. CASE CreateGet(t)
  <2>0. /\ call[t].at = "get" /\ UNCHANGED <<imported, dma, chunks>>
        /\ call[t].at \in NotMapped /\ call[t].at \in NoChunks
    BY <1>3 DEF CreateGet, At, memVars, NotMapped, NoChunks
  <2>1. ASSUME NEW step \in {"sram", "ddr"}, Goto(t, step), UNCHANGED <<live, stale>>
        PROVE  MemInv'
    <3>1. OthersKeep(t) /\ call'[t].at = step /\ call'[t].o = call[t].o
      BY <1>1, <2>1 DEF Steps, DomainSteps
    <3>2. TMem(t)'
      BY <1>0, <2>0, <2>1, <3>1 DEF TMem, NotMapped, NoChunks
    <3>3. QED
      BY <2>0, <2>1, <3>1, <3>2, MemQuiet
  <2>2. ASSUME live' = live \ {call[t].o}, Discard(call[t].o), Goto(t, "idle")
        PROVE  MemInv'
    <3>1. OthersKeep(t) /\ call'[t].at = "idle"
      BY <1>1, <2>2 DEF Steps
    <3>2. TMem(t)'
      BY <3>1, TMemFree DEF NotMapped, NoChunks
    <3>3. PICK o \in Objs : o = call[t].o /\ (o \notin stale => Alone(t, o) /\ o \in live)
      BY <1>2, <2>0
    <3>4. stale \subseteq stale' /\ (o \notin stale' => MemOf(o)')
      BY <1>0, <1>d, <2>0, <2>2, <3>3 DEF TMem, MemOf
    <3>5. \A p \in Objs : p # o => MemKeeps(p)
      BY <2>0, <2>2, <3>3 DEF MemKeeps
    <3>6. QED
      BY <2>0, <3>1, <3>2, <3>3, <3>4, <3>5, MemAlone DEF MemInv
  <2>3. QED
    BY <1>3, <2>1, <2>2 DEF CreateGet, DomainGet
<1>4. CASE CreateSram(t)
  <2>0. /\ call[t].at = "sram" /\ UNCHANGED <<live, imported, dma, chunks, stale>>
        /\ call[t].at \in NotMapped /\ call[t].at \in NoChunks
    BY <1>4 DEF CreateSram, At, objVars, memVars, NotMapped, NoChunks
  <2>1. CallStep(t) /\ call'[t].at \in {"mm", "ddr"} /\ call'[t].o = call[t].o
    BY <1>4, SramCall DEF Own
  <2>2. OthersKeep(t)
    BY <2>1 DEF CallStep
  <2>3. TMem(t)'
    BY <1>0, <2>0, <2>1 DEF TMem, NotMapped, NoChunks
  <2>4. QED
    BY <2>0, <2>2, <2>3, MemQuiet
<1>5. CASE CreateMm(t)
  <2>0. /\ call[t].at = "mm" /\ UNCHANGED <<live, imported, dma, stale>>
        /\ call[t].at \in NotMapped /\ call[t].at \in NoChunks
    BY <1>5 DEF CreateMm, At, objVars, NotMapped, NoChunks
  <2>1. PICK o \in Objs : o = call[t].o /\ (o \notin stale => Alone(t, o) /\ o \in live)
    BY <1>2, <2>0
  <2>2. o \notin stale => o \in live /\ o \notin imported
    BY <1>0, <2>0, <2>1 DEF TMem
  <2>3. ASSUME Sram!Grant(call[t].o, call[t].n), Goto(t, "map") PROVE MemInv'
    <3>1. OthersKeep(t) /\ call'[t].at = "map" /\ call'[t].o = o
      BY <1>1, <2>1, <2>3 DEF Steps, DomainSteps
    <3>2. TMem(t)'
      BY <1>0, <2>0, <2>1, <3>1 DEF TMem, NotMapped, NoChunks
    <3>3. o \notin stale => MemOf(o)'
      BY <2>0, <2>2 DEF MemOf
    <3>4. \A p \in Objs : p # o => MemKeeps(p)
      BY <1>0, <2>0, <2>1, <2>3 DEF Sram!Grant, MemKeeps, SramType
    <3>5. QED
      BY <2>0, <2>1, <3>1, <3>2, <3>3, <3>4, MemAlone DEF MemInv
  <2>4. ASSUME Sram!Refuse(call[t].o, call[t].n), Goto(t, "ddr") PROVE MemInv'
    <3>1. OthersKeep(t) /\ call'[t].at = "ddr" /\ call'[t].o = o
      BY <1>1, <2>1, <2>4 DEF Steps, DomainSteps
    <3>2. chunks' = chunks
      BY <2>4 DEF Sram!Refuse
    <3>3. TMem(t)'
      BY <1>0, <2>0, <2>1, <3>1, <3>2 DEF TMem, NotMapped, NoChunks
    <3>4. QED
      BY <2>0, <3>1, <3>2, <3>3, MemQuiet
  <2>5. QED
    BY <1>5, <2>3, <2>4 DEF CreateMm
<1>6. CASE CreateMap(t)
  <2>0. /\ call[t].at = "map" /\ UNCHANGED <<live, imported, stale>>
        /\ call[t].at \in NotMapped
    BY <1>6 DEF CreateMap, At, objVars, NotMapped
  <2>1. PICK o \in Objs : o = call[t].o /\ (o \notin stale => Alone(t, o) /\ o \in live)
    BY <1>2, <2>0
  <2>2. o \notin stale => o \in live /\ o \notin imported /\ o \notin dma
    BY <1>0, <2>0, <2>1 DEF TMem
  <2>3. o \notin stale => MemOf(o)'
    BY <2>0, <2>2 DEF MemOf
  <2>4. ASSUME dma' = dma \cup {call[t].o}, Goto(t, "put"), chunks' = chunks PROVE MemInv'
    <3>1. OthersKeep(t) /\ call'[t].at = "put"
      BY <1>1, <2>4 DEF Steps, DomainSteps
    <3>2. TMem(t)'
      BY <3>1, TMemFree DEF NotMapped, NoChunks
    <3>3. \A p \in Objs : p # o => MemKeeps(p)
      BY <2>0, <2>1, <2>4 DEF MemKeeps
    <3>4. QED
      BY <2>0, <2>1, <2>3, <2>4, <3>1, <3>2, <3>3, MemAlone DEF MemInv
  <2>5. ASSUME MmFree(call[t].o), Goto(t, "release"), dma' = dma PROVE MemInv'
    <3>1. OthersKeep(t) /\ call'[t].at = "release" /\ call'[t].o = o
      BY <1>1, <2>1, <2>5 DEF Steps, DomainSteps
    <3>2. chunks'[o] = {} /\ \A p \in Objs : p # o => MemKeeps(p)
      BY <1>0, <2>0, <2>1, <2>5 DEF MemKeeps, MmFree, SramType
    <3>3. TMem(t)'
      BY <2>0, <2>2, <2>5, <3>1, <3>2 DEF TMem
    <3>4. QED
      BY <2>0, <2>1, <2>3, <2>5, <3>1, <3>2, <3>3, MemAlone DEF MemInv
  <2>6. QED
    BY <1>6, <2>4, <2>5 DEF CreateMap
<1>7. CASE CreateDdr(t)
  <2>0. /\ call[t].at = "ddr" /\ UNCHANGED <<live, imported, chunks, stale>>
        /\ call[t].at \in NotMapped /\ call[t].at \in NoChunks
    BY <1>7 DEF CreateDdr, At, objVars, NotMapped, NoChunks
  <2>1. PICK o \in Objs : o = call[t].o /\ (o \notin stale => Alone(t, o) /\ o \in live)
    BY <1>2, <2>0
  <2>2. o \notin stale => o \in live /\ o \notin imported /\ o \notin dma
    BY <1>0, <2>0, <2>1 DEF TMem
  <2>3. ASSUME dma' = dma \cup {call[t].o}, Goto(t, "put") PROVE MemInv'
    <3>1. OthersKeep(t) /\ call'[t].at = "put"
      BY <1>1, <2>3 DEF Steps, DomainSteps
    <3>2. TMem(t)'
      BY <3>1, TMemFree DEF NotMapped, NoChunks
    <3>3. (o \notin stale => MemOf(o)') /\ \A p \in Objs : p # o => MemKeeps(p)
      BY <2>0, <2>1, <2>2, <2>3 DEF MemKeeps, MemOf
    <3>4. QED
      BY <2>0, <2>1, <2>3, <3>1, <3>2, <3>3, MemAlone DEF MemInv
  <2>4. ASSUME Goto(t, "release"), dma' = dma PROVE MemInv'
    <3>1. OthersKeep(t) /\ call'[t].at = "release" /\ call'[t].o = call[t].o
      BY <1>1, <2>4 DEF Steps, DomainSteps
    <3>2. TMem(t)'
      BY <1>0, <2>0, <2>4, <3>1 DEF TMem
    <3>3. QED
      BY <2>0, <2>4, <3>1, <3>2, MemQuiet
  <2>5. QED
    BY <1>7, <2>3, <2>4 DEF CreateDdr
<1>8. CASE CreateRelease(t)
  <2>0. /\ call[t].at = "release" /\ UNCHANGED <<imported, dma, chunks>>
        /\ live' = live \ {call[t].o} /\ Goto(t, "idle") /\ Discard(call[t].o)
        /\ call[t].at \in NotMapped /\ call[t].at \in NoChunks
    BY <1>8 DEF CreateRelease, At, memVars, NotMapped, NoChunks
  <2>1. OthersKeep(t) /\ call'[t].at = "idle"
    BY <1>1, <2>0 DEF Steps
  <2>2. TMem(t)'
    BY <2>1, TMemFree DEF NotMapped, NoChunks
  <2>3. PICK o \in Objs : o = call[t].o /\ (o \notin stale => Alone(t, o) /\ o \in live)
    BY <1>2, <2>0
  <2>4. stale \subseteq stale' /\ (o \notin stale' => MemOf(o)')
    BY <1>0, <1>d, <2>0, <2>3 DEF TMem, MemOf
  <2>5. \A p \in Objs : p # o => MemKeeps(p)
    BY <2>0, <2>3 DEF MemKeeps
  <2>6. QED
    BY <2>0, <2>1, <2>2, <2>3, <2>4, <2>5, MemAlone DEF MemInv
<1>9. ASSUME NEW step \in {"handle", "drop", "free", "idle", "track"}, Goto(t, step),
             UNCHANGED <<live, imported, dma, chunks>>, stale \subseteq stale'
      PROVE  MemInv'
  <2>1. OthersKeep(t) /\ call'[t].at = step
    BY <1>1, <1>9 DEF Steps
  <2>2. TMem(t)'
    BY <2>1, TMemFree DEF NotMapped, NoChunks
  <2>3. QED
    BY <1>9, <2>1, <2>2, MemQuiet
<1>10. CASE CreatePut(t)
  BY <1>9, <1>10 DEF CreatePut, objVars, memVars
<1>p. ASSUME call[t].o \in Objs, UNCHANGED <<live, imported, dma, chunks, stale>>,
             NEW next \in {"track", "idle"}, Put(t, call[t].o, next)
      PROVE  MemInv'
  <2>1. OthersKeep(t) /\ (call'[t].at = "free" \/ Goto(t, next))
    BY <1>0, <1>p, PutFields
  <2>2. CASE call'[t].at = "free"
    <3>1. TMem(t)'
      BY <2>2, TMemFree DEF NotMapped, NoChunks
    <3>2. QED
      BY <1>p, <2>1, <3>1, MemQuiet
  <2>3. CASE Goto(t, next)
    BY <1>9, <1>p, <2>3
  <2>4. QED
    BY <2>1, <2>2, <2>3
<1>11. CASE CreateHandle(t)
  <2>1. call[t].o \in Objs /\ UNCHANGED <<live, imported, dma, chunks>>
    BY <1>0, <1>11 DEF CreateHandle, At, CallOK, CreateSteps, PreHandle, memVars
  <2>2. QED
    BY <1>9, <1>d, <1>p, <1>11, <2>1 DEF CreateHandle
<1>12. CASE CreateDrop(t)
  <2>1. call[t].o \in Objs /\ UNCHANGED <<live, imported, dma, chunks, stale>>
    BY <1>0, <1>12 DEF CreateDrop, At, CallOK, CreateSteps, memVars
  <2>2. QED
    BY <1>p, <1>12, <2>1 DEF CreateDrop
<1>13. CASE Track(t)
  <2>1. stale \subseteq stale' /\ UNCHANGED <<live, imported, dma, chunks>> /\ Goto(t, "idle")
    BY <1>13 DEF Track, Take, memVars
  <2>2. QED
    BY <1>9, <2>1
<1>14. QED
  BY <1>3, <1>4, <1>5, <1>6, <1>7, <1>8, <1>10, <1>11, <1>12, <1>13 DEF CreateStep

(* GEM_DESTROY and the close of a file only drop references.               *)
LEMMA DestroyStepMem ==
    ASSUME Own, MemInv, NEW t \in Threads, DestroyStep(t)
    PROVE  MemInv'
<1>0. CallTyped /\ CallOK(call[t])
  BY DEF Own, Base, CallInv
<1>1. UNCHANGED <<live, imported, dma, chunks, stale>>
  BY DEF DestroyStep, DestroyGet, Untrack, HandleDestroy, DomainPut, CloseNext,
       DropHandle, DeleteHandle, objVars, memVars
<1>2. ASSUME OthersKeep(t),
             call'[t].at \in {"untrack", "destroy", "idle", "delete", "end", "close", "free"}
      PROVE  MemInv'
  <2>1. TMem(t)'
    BY <1>2, TMemFree DEF NotMapped, NoChunks
  <2>2. QED
    BY <1>1, <1>2, <2>1, MemQuiet
<1>3. ASSUME NEW step \in {"untrack", "idle", "delete", "end", "close"}, Goto(t, step)
      PROVE  MemInv'
  <2>1. OthersKeep(t) /\ call'[t].at = step
    BY <1>0, <1>3, GotoFields DEF Steps, DomainSteps
  <2>2. QED
    BY <1>2, <2>1
<1>4. ASSUME NEW o \in Objs, NEW next \in {"delete", "end", "close"}, Put(t, o, next)
      PROVE  MemInv'
  <2>1. OthersKeep(t) /\ (call'[t].at = "free" \/ Goto(t, next))
    BY <1>0, <1>4, PutFields
  <2>2. QED
    BY <1>2, <1>3, <2>1
<1>5. CASE DestroyGet(t)
  <2>1. ASSUME DomainGetAgain(t) PROVE MemInv'
    <3>1. OthersKeep(t) /\ call'[t].at = call[t].at /\ call[t].at = "destroy"
      BY <1>0, <1>5, <2>1, AgainFields DEF DestroyGet, At
    <3>2. QED
      BY <1>2, <3>1
  <2>2. QED
    BY <1>3, <1>5, <2>1 DEF DestroyGet, DomainGet
<1>6. CASE Untrack(t)
  <2>1. call[t].o \in Objs
    BY <1>0, <1>6 DEF Untrack, At, CallOK, UseSteps
  <2>2. QED
    BY <1>3, <1>4, <1>6, <2>1 DEF Untrack
<1>7. CASE HandleDestroy(t)
  <2>1. call[t].o \in Objs
    BY <1>0, <1>7 DEF HandleDestroy, At, CallOK, UseSteps
  <2>2. QED
    BY <1>3, <1>4, <1>7, <2>1 DEF HandleDestroy, DeleteHandle
<1>8. CASE DomainPut(t)
  BY <1>3, <1>8 DEF DomainPut
<1>9. CASE CloseNext(t)
  <2>1. call[t].f \in Files
    BY <1>0, <1>9 DEF CloseNext, At, CallOK
  <2>2. \A o \in handles[call[t].f] : o \in Objs
    BY <2>1 DEF Own, Base
  <2>3. QED
    BY <1>3, <1>4, <1>9, <2>2 DEF CloseNext, DropHandle, DeleteHandle
<1>10. QED
  BY <1>5, <1>6, <1>7, <1>8, <1>9 DEF DestroyStep

(* rknpu_gem_object_destroy: the chunks, the mapping, the object.          *)
LEMMA FreeStepMem ==
    ASSUME Own, MemInv, NEW t \in Threads, FreeStep(t)
    PROVE  MemInv'
<1>0. CallTyped /\ CallOK(call[t]) /\ SramType /\ TMem(t)
  BY DEF Own, Base, CallInv, MemInv
<1>1. PICK o \in Objs : /\ o = call[t].o
                        /\ o \notin stale => Alone(t, o) /\ o \in live /\ MemOf(o)
  <2>1. call[t].at \in FreeAll /\ call[t].at \in Roles
    BY DEF FreeStep, FreeGet, FreeMm, FreeCache, FreeBuf, FreeImport, FreeRelease, At,
         FreeAll, FreeSteps, Roles
  <2>2. call[t].o \in Objs /\ (call[t].o \notin stale => Alone(t, call[t].o))
    BY <2>1, RoleFacts, RoleAlone DEF Own
  <2>3. call[t].o \notin stale => call[t].o \in live /\ MemOf(call[t].o)
    BY <2>1, <2>2, RoleNeeds DEF Role, MemInv
  <2>4. QED
    BY <2>2, <2>3
<1>s. stale' = stale
  BY DEF FreeStep, FreeGet, FreeMm, FreeCache, FreeBuf, FreeImport, FreeRelease, FreeMemory,
       objVars
<1>2. ASSUME NEW step \in Steps, Goto(t, step), step # "idle"
      PROVE  OthersKeep(t) /\ call'[t].at = step /\ call'[t].o = o
  BY <1>0, <1>1, <1>2, GotoFields
<1>3. ASSUME Return(t)
      PROVE  OthersKeep(t) /\ TMem(t)'
  <2>1. OthersKeep(t) /\ call'[t].at = call[t].after
    BY <1>0, <1>3, ReturnFields
  <2>2. call'[t].at \in {"idle", "delete", "track", "end", "close"}
    BY <1>0, <2>1 DEF CallTyped, CallType
  <2>3. QED
    BY <2>1, <2>2, TMemFree DEF NotMapped, NoChunks
<1>4. CASE FreeGet(t)
  <2>0. call[t].at = "free" /\ UNCHANGED <<live, imported, dma, chunks>>
    BY <1>4 DEF FreeGet, At, memVars
  <2>1. ASSUME NEW step \in {"free_import", "free_mm", "free_buf"}, Goto(t, step),
               step = "free_import" => o \in imported,
               step = "free_buf" => chunks[o] = {}
        PROVE  MemInv'
    <3>1. OthersKeep(t) /\ call'[t].at = step /\ call'[t].o = o
      BY <1>2, <2>1 DEF Steps, FreeSteps
    <3>2. TMem(t)'
      BY <1>1, <1>s, <2>0, <2>1, <3>1 DEF TMem, MemOf, NotMapped, NoChunks
    <3>3. QED
      BY <2>0, <3>1, <3>2, <1>s, MemQuiet
  <2>2. ASSUME DomainGetAgain(t) PROVE MemInv'
    <3>1. OthersKeep(t) /\ call'[t].at = "free"
      BY <1>0, <2>0, <2>2, AgainFields
    <3>2. TMem(t)'
      BY <3>1, TMemFree DEF NotMapped, NoChunks
    <3>3. QED
      BY <2>0, <3>1, <3>2, <1>s, MemQuiet
  <2>3. ASSUME Return(t) PROVE MemInv'
    BY <1>3, <2>0, <2>3, <1>s, MemQuiet
  <2>4. QED
    BY <1>1, <1>4, <2>1, <2>2, <2>3 DEF FreeGet, DomainGet
<1>5. CASE FreeMm(t)
  <2>0. MmFree(o) /\ Goto(t, "free_cache") /\ UNCHANGED <<live, imported, dma>>
    BY <1>1, <1>5 DEF FreeMm, objVars
  <2>1. OthersKeep(t) /\ call'[t].at = "free_cache" /\ call'[t].o = o
    BY <1>2, <2>0 DEF Steps, FreeSteps
  <2>2. chunks'[o] = {} /\ \A p \in Objs : p # o => MemKeeps(p)
    BY <1>0, <2>0 DEF MemKeeps, MmFree, SramType
  <2>3. TMem(t)' /\ (o \notin stale' => MemOf(o)')
    BY <1>1, <1>s, <2>0, <2>1, <2>2 DEF TMem, MemOf, NotMapped
  <2>4. QED
    BY <1>1, <2>0, <2>1, <2>2, <2>3, <1>s, MemAlone DEF MemInv
<1>6. CASE FreeCache(t) \/ FreeBuf(t) \/ FreeImport(t)
  <2>0. /\ dma' = dma \ {o} /\ Goto(t, "free_release") /\ UNCHANGED <<live, imported, chunks>>
        /\ call[t].at \in NoChunks
    BY <1>1, <1>6 DEF FreeCache, FreeBuf, FreeImport, FreeMemory, At, NoChunks, objVars
  <2>1. OthersKeep(t) /\ call'[t].at = "free_release" /\ call'[t].o = o
    BY <1>2, <2>0 DEF Steps, FreeSteps
  <2>2. \A p \in Objs : p # o => MemKeeps(p)
    BY <2>0 DEF MemKeeps
  <2>3. TMem(t)' /\ (o \notin stale' => MemOf(o)')
    BY <1>0, <1>1, <1>s, <2>0, <2>1 DEF TMem, MemOf, NotMapped
  <2>4. QED
    BY <1>1, <2>0, <2>1, <2>2, <2>3, <1>s, MemAlone DEF MemInv
<1>7. CASE FreeRelease(t)
  <2>0. /\ live' = live \ {o} /\ imported' = imported \ {o} /\ Return(t)
        /\ UNCHANGED <<dma, chunks>> /\ call[t].at = "free_release"
    BY <1>1, <1>7 DEF FreeRelease, At, memVars
  <2>1. o \notin stale => o \notin dma /\ chunks[o] = {}
    BY <1>0, <1>1, <2>0 DEF TMem, NoChunks
  <2>2. (o \notin stale => MemOf(o)') /\ \A p \in Objs : p # o => MemKeeps(p)
    BY <2>0, <2>1 DEF MemOf, MemKeeps
  <2>3. QED
    BY <1>1, <1>3, <2>0, <2>2, <1>s, MemAlone DEF MemInv
<1>8. QED
  BY <1>4, <1>5, <1>6, <1>7 DEF FreeStep

(* The calls that begin, the GEM_CLOSE ioctl and the jobs.                 *)
LEMMA NewCallMem ==
    ASSUME Own, MemInv, NEW t \in Threads, NewCall(t)
    PROVE  MemInv'
<1>0. CallTyped /\ CallOK(call[t])
  BY DEF Own, Base, CallInv
<1>1. ASSUME OthersKeep(t), UNCHANGED <<live, imported, dma, chunks>>,
             stale \subseteq stale',
             call'[t].at \in {"track", "destroy", "close", "sync", "end", "idle", "free"}
      PROVE  MemInv'
  <2>1. TMem(t)'
    BY <1>1, TMemFree DEF NotMapped, NoChunks
  <2>2. QED
    BY <1>1, <2>1, MemQuiet
<1>2. ASSUME NEW f \in Files, NEW o \in Objs \cup {NoObj},
             NEW step \in {"track", "destroy", "close", "sync", "end"}, Begin(t, step, f, o),
             UNCHANGED <<live, imported, dma, chunks, stale>>
      PROVE  MemInv'
  <2>1. OthersKeep(t) /\ call'[t].at = step
    BY <1>0, <1>2, BeginFields DEF Steps, DomainSteps
  <2>2. QED
    BY <1>1, <1>2, <2>1
<1>3. ASSUME NEW f \in Files, Close(t, f) \/ SetDomain(t, f) \/ Sync(t, f) PROVE MemInv'
  BY <1>2, <1>3 DEF Close, SetDomain, Sync, objVars, memVars
<1>4. ASSUME NEW f \in Files, NEW o \in Objs, CreateFound(t, f, o) \/ Destroy(t, f, o)
      PROVE  MemInv'
  BY <1>2, <1>4 DEF CreateFound, Destroy, objVars, memVars
<1>5. ASSUME NEW o \in Objs, o \notin live, o \notin stale
      PROVE  Alone(t, o) /\ o \notin dma /\ o \notin imported /\ chunks[o] = {}
  BY <1>5, RoleNeeds DEF Alone, MemInv, MemOf
<1>6. ASSUME NEW f \in Files, NEW o \in Objs, NEW n \in Nat, NEW tracks \in BOOLEAN,
             CreateInit(t, f, o, n, tracks)
      PROVE  MemInv'
  <2> DEFINE c == CreateRecord(f, o, n, tracks)
  <2>1. /\ call' = [call EXCEPT ![t] = c] /\ o \notin live
        /\ live' = live \cup {o} /\ UNCHANGED <<imported, dma, chunks, stale>>
    BY <1>6 DEF CreateInit, CreateRecord, memVars
  <2>2. c.o = o /\ c.at = "get"
    BY CreateRecords
  <2> HIDE DEF c
  <2>3. OthersKeep(t) /\ call'[t] = c
    BY <1>0, <2>1 DEF CallTyped, OthersKeep
  <2>4. TMem(t)' /\ (o \notin stale => MemOf(o)')
    BY <1>5, <2>1, <2>2, <2>3 DEF TMem, MemOf
  <2>5. \A p \in Objs : p # o => MemKeeps(p)
    BY <2>1 DEF MemKeeps
  <2>6. QED
    BY <1>5, <2>1, <2>3, <2>4, <2>5, MemAlone DEF MemInv
<1>7. ASSUME NEW f \in Files, NEW o \in Objs, Create(t, f, o) \/ DumbCreate(t, f, o)
      PROVE  MemInv'
  <2>1. \A size \in Sizes, sram_size \in Sizes \cup {0} : RealSram(size, sram_size) \in Nat
    BY GemAssumption DEF RealSram
  <2>2. QED
    BY <1>6, <1>7, <2>1 DEF Create, DumbCreate
<1>8. ASSUME NEW f \in Files, NEW o \in Objs, Import(t, f, o) PROVE MemInv'
  <2> DEFINE c == ImportRecord(f, o)
  <2>1. /\ call' = [call EXCEPT ![t] = c] /\ o \notin live
        /\ live' = live \cup {o} /\ imported' = imported \cup {o}
        /\ dma' = dma \cup {o} /\ UNCHANGED <<chunks, stale>>
    BY <1>8 DEF Import, ImportRecord
  <2>2. c.o = o /\ c.at = "handle"
    BY ImportRecords
  <2> HIDE DEF c
  <2>3. OthersKeep(t) /\ call'[t] = c
    BY <1>0, <2>1 DEF CallTyped, OthersKeep
  <2>4. TMem(t)'
    BY <2>2, <2>3, TMemFree DEF NotMapped, NoChunks
  <2>5. (o \notin stale => MemOf(o)') /\ \A p \in Objs : p # o => MemKeeps(p)
    BY <1>5, <2>1 DEF MemKeeps, MemOf
  <2>6. QED
    BY <1>5, <2>1, <2>3, <2>4, <2>5, MemAlone DEF MemInv
<1>p. ASSUME NEW o \in Objs, Put(t, o, "idle"), UNCHANGED <<live, imported, dma, chunks, stale>>
      PROVE  MemInv'
  <2>1. OthersKeep(t) /\ (call'[t].at = "free" \/ Goto(t, "idle"))
    BY <1>0, <1>p, PutFields
  <2>2. call'[t].at \in {"free", "idle"}
    BY <1>0, <2>1, GotoFields DEF Steps
  <2>3. QED
    BY <1>1, <1>p, <2>1, <2>2
<1>9. ASSUME NEW f \in Files, NEW o \in Objs, HandleClose(t, f, o) PROVE MemInv'
  BY <1>9, <1>p DEF HandleClose, Found, DropHandle, DeleteHandle, memVars
<1>10. ASSUME NEW f \in Files, NEW o \in Objs, Submit(t, f, o) PROVE MemInv'
  <2>1. /\ UNCHANGED <<live, imported, dma, chunks>> /\ call' = call /\ call[t].at = "idle"
        /\ stale \subseteq stale'
    BY <1>10 DEF Submit, At, Take, memVars
  <2>2. QED
    BY <1>1, <2>1 DEF OthersKeep
<1>11. ASSUME NEW o \in Objs, JobFree(t, o) PROVE MemInv'
  BY <1>11, <1>p DEF JobFree, memVars
<1>12. QED
  BY <1>3, <1>4, <1>7, <1>8, <1>9, <1>10, <1>11 DEF NewCall

(* The inductive invariant of the buffer objects.                          *)
IInv == Own /\ MemInv

(* It holds initially and every step keeps it.                             *)
LEMMA GemInductive == (Init => IInv) /\ (IInv /\ [Next]_vars => IInv')
<1>1. Init => IInv
  <2> SUFFICES ASSUME Init PROVE MemInv
    BY InitOwn DEF IInv
  <2>1. \A t \in Threads : call[t].at = "idle"
    BY IdleFields DEF Init
  <2>2. QED
    BY <2>1 DEF Init, MemInv, TMem, MemOf, NotMapped, NoChunks
<1>2. IInv /\ [Next]_vars => IInv'
  <2> SUFFICES ASSUME IInv, [Next]_vars PROVE MemInv'
    BY NextOwn DEF IInv
  <2>1. CASE Next
    <3>1. PICK t \in Threads : CreateStep(t) \/ DestroyStep(t) \/ FreeStep(t) \/ NewCall(t)
      BY <2>1, NextThread
    <3>2. QED
      BY <3>1, CreateStepMem, DestroyStepMem, FreeStepMem, NewCallMem DEF IInv
  <2>2. CASE UNCHANGED vars
    BY <2>2 DEF vars, objVars, memVars, IInv, MemInv, TMem, MemOf
  <2>3. QED
    BY <2>1, <2>2
<1>3. QED
  BY <1>1, <1>2

(* The state is of its type whatever calls overlap: iommu_domain_refcount, *)
(* and the reference count of every address that is not stale, never go    *)
(* below 0.                                                                *)
THEOREM GemTypeCorrect == Spec => []TypeOK
<1>1. Spec => []IInv
  BY GemInductive, PTL DEF Spec
<1>2. IInv => TypeOK
  <2> SUFFICES ASSUME IInv PROVE TypeOK
    OBVIOUS
  <2>1. /\ ObjType /\ CallTyped /\ SramType /\ handles \in [Files -> SUBSET Objs]
        /\ imported \subseteq Objs /\ dma \subseteq Objs
    BY DEF IInv, Own, Base, MemInv
  <2>2. domain \in Nat
    BY DomainType DEF IInv, Own
  <2>3. imported \ stale \subseteq live
    BY DEF IInv, MemInv, MemOf
  <2>4. \A o \in Objs \ stale : refs[o] >= 0
    BY RefsFacts DEF IInv
  <2>5. given_up \ stale \subseteq live
    BY <2>1 DEF IInv, Own, ObjOK, LiveFits, ObjType
  <2>6. QED
    BY <2>1, <2>2, <2>3, <2>4, <2>5 DEF TypeOK, ObjType, CallTyped, SramType
<1>3. QED
  BY <1>1, <1>2, PTL

(* A buffer that nobody refers to is being destroyed, or its destruction   *)
(* gave up, or its tracked reference is the one that nobody can give back; *)
(* and a buffer that was released left no memory, mapping or SRAM chunk    *)
(* behind, on every error path.  Stale addresses apart.                    *)
THEOREM GemNothingForgotten == Spec => []NothingForgotten
<1>1. Spec => []IInv
  BY GemInductive, PTL DEF Spec
<1>2. IInv => NothingForgotten
  <2> SUFFICES ASSUME IInv PROVE NothingForgotten
    OBVIOUS
  <2>1. ASSUME NEW o \in live \ (orphaned \cup given_up \cup stale)
        PROVE  Holders(o) # {} \/ jobs[o] > 0 \/ Creators(o) # {} \/ Freeing(o)
    <3>1. o \in Objs /\ o \notin stale /\ ObjOK(o) /\ Own
      BY DEF IInv, Own, ObjType
    <3>2. (\E t \in Threads : Frees(t, o)) => Freeing(o)
      BY DEF Frees, FreeAll, Freeing
    <3>3. CASE o \in ranges
      BY <3>1, <3>3 DEF ObjOK, Kept, Holders
    <3>4. CASE o \notin ranges /\ ~Freeing(o)
      <4>1. refs[o] > 0 /\ Tracked(o) = 0
        BY <3>1, <3>2, <3>4 DEF ObjOK, LiveFits, Tracked
      <4>2. Holders(o) = {} => Cardinality(Holders(o)) = 0
        BY FS_EmptySet
      <4>3. Created(o) => Creators(o) # {}
        BY DEF Created, Creates, Creators, CreateSteps, PreHandle
      <4>4. CreateRef(o) > 0 \/ Cardinality(Holders(o)) > 0 \/ jobs[o] > 0
        BY <3>1, <4>1, RefsFacts
      <4>5. QED
        BY <4>2, <4>3, <4>4 DEF CreateRef
    <3>5. QED
      BY <3>3, <3>4
  <2>2. \A o \in Objs \ (live \cup stale) : o \notin dma /\ chunks[o] = {}
    BY DEF IInv, MemInv, MemOf
  <2>3. QED
    BY <2>1, <2>2 DEF NothingForgotten
<1>3. QED
  BY <1>1, <1>2, PTL
=============================================================================
