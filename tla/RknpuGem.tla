------------------------------ MODULE RknpuGem ------------------------------
(***************************************************************************)
(* Buffer objects of the DRM path (rknpu_gem.c): the ioctls GEM_CREATE,    *)
(* GEM_DESTROY and MEM_SYNC, dumb buffers, PRIME import, the reference a   *)
(* job takes on its task buffer (rknpu_job.c), the list of tracked ranges, *)
(* and rknpu_gem_object_destroy, which whoever drops the last reference    *)
(* runs.  SRAM comes from the allocator ChunkAllocator describes (which    *)
(* RknpuMm implements); a chunk is one page.                               *)
(*                                                                         *)
(* A call is a thread with a record: where it is, its file, its object and *)
(* where it goes on after rknpu_gem_object_destroy.  An object identity is *)
(* an address: once released it may be handed out again.  GEM_CREATE and   *)
(* GEM_DESTROY look it up by its handle and keep no reference; a submit    *)
(* and MEM_SYNC take it from the client as it is.  So a call may have the  *)
(* address of an object that is gone, or of another one by then: stale are *)
(* the addresses where the count of references has been spoilt this way,   *)
(* and nothing is said of those any more.                                  *)
(***************************************************************************)
EXTENDS Integers, FiniteSets

CONSTANTS Threads,   \* callers of ioctls, closers of files, job cleanups
          Files,     \* open files of the DRM device
          Objs,      \* the rknpu_gem_object allocations there may be
          NoFile, NoObj,
          Chunks,    \* sram_mm->total_chunks
          Sizes,     \* the sizes a client asks for, in pages
          MaxJobs,   \* bound: jobs that hold one object at a time
          Faults     \* "domain", "map", "alloc", "handle", "track": what may fail

ASSUME GemAssumption ==
    /\ IsFiniteSet(Threads) /\ IsFiniteSet(Files) /\ IsFiniteSet(Objs)
    /\ NoFile \notin Files /\ NoObj \notin Objs
    /\ Chunks \in Nat /\ MaxJobs \in Nat
    /\ Sizes \subseteq Nat \ {0}
    /\ Faults \subseteq {"domain", "map", "alloc", "handle", "track"}

VARIABLES live,     \* the objects allocated and not yet released
          refs,     \* refs[o]: the reference count of the drm_gem_object
          handles,  \* handles[f]: the objects file f has a handle of
          ranges,   \* the objects on rknpu_dkms_gem_ranges
          jobs,     \* jobs[o]: the jobs that hold a reference on o
          imported, \* the objects with import_attach
          dma,      \* the objects whose memory is allocated and mapped
          chunks,   \* chunks[o]: the SRAM chunks of sram_obj
          refused,  \* the objects whose request for SRAM failed
          given_up, \* the objects rknpu_gem_object_destroy gave up on
          domain,   \* iommu_domain_refcount
          call,     \* call[t]: what thread t is doing
          orphaned, \* history: left on the range list when the last handle went
          stale     \* history: referred to once the count was 0, or freed before

objVars == <<live, refs, handles, ranges, jobs, imported, given_up, orphaned, stale>>
memVars == <<dma, chunks, refused>>
vars == <<objVars, memVars, domain, call>>

Sram == INSTANCE ChunkAllocator
            WITH Objects <- Objs, TotalChunks <- Chunks, Lengths <- Sizes,
                 held <- chunks, refused <- refused

DomainSteps == {"sram", "mm", "map", "ddr", "put", "release",
                "untrack", "delete", "end", "sync"}
FreeSteps == {"free_mm", "free_cache", "free_buf", "free_import", "free_release"}
Steps == {"idle", "get", "handle", "drop", "track", "destroy", "close", "free"}
         \cup DomainSteps \cup FreeSteps

CallType == [at : Steps, f : Files \cup {NoFile}, o : Objs \cup {NoObj},
             n : Nat, tracks : BOOLEAN, tries : 0 .. 2,
             after : {"idle", "delete", "track", "end", "close"}]

Idle == [at |-> "idle", f |-> NoFile, o |-> NoObj, n |-> 0, tracks |-> FALSE,
         tries |-> 0, after |-> "idle"]

Init ==
    /\ live = {}
    /\ refs = [o \in Objs |-> 0]
    /\ handles = [f \in Files |-> {}]
    /\ ranges = {}
    /\ jobs = [o \in Objs |-> 0]
    /\ imported = {}
    /\ dma = {}
    /\ chunks = [o \in Objs |-> {}]
    /\ refused = {}
    /\ given_up = {}
    /\ domain = 0
    /\ call = [t \in Threads |-> Idle]
    /\ orphaned = {}
    /\ stale = {}

----------------------------------------------------------------------------
(* Bookkeeping shared by the actions.                                      *)
At(t, step) == call[t].at = step
Goto(t, step) ==
    call' = [call EXCEPT ![t] = IF step = "idle" THEN Idle ELSE [@ EXCEPT !.at = step]]
Begin(t, step, f, o) ==
    /\ At(t, "idle")
    /\ call' = [call EXCEPT ![t] = [Idle EXCEPT !.at = step, !.f = f, !.o = o]]

(* A file is closed once; until then its owner may make calls with it.     *)
Open(f) == \A t \in Threads : call[t].f = f => "close" \notin {call[t].at, call[t].after}

(* rknpu_gem_object_find: the object of a handle, and no reference on it.  *)
Found(f, o) == Open(f) /\ o \in handles[f]

(* rknpu_gem_object_get, on what may be an object no longer.               *)
Take(o) ==
    /\ refs' = [refs EXCEPT ![o] = @ + 1]
    /\ stale' = IF refs[o] > 0 THEN stale ELSE stale \cup {o}

(* The object goes with its count, whoever else may have a reference.      *)
Discard(o) ==
    /\ refs' = [refs EXCEPT ![o] = 0]
    /\ stale' = IF refs[o] = 1 THEN stale ELSE stale \cup {o}

(* rknpu_gem_object_put: the thread that drops the last reference goes to  *)
(* rknpu_gem_object_destroy and then on to step next.                      *)
Put(t, o, next) ==
    /\ refs' = [refs EXCEPT ![o] = @ - 1]
    /\ IF refs[o] = 1
         THEN call' = [call EXCEPT ![t] = [@ EXCEPT !.at = "free", !.o = o, !.tries = 0,
                                                    !.after = next]]
         ELSE Goto(t, next)

(* rknpu_iommu_domain_get_and_switch, tried at most three times.           *)
DomainGet(t, next) ==
    /\ domain' = domain + 1
    /\ Goto(t, next)

DomainGetAgain(t) ==
    /\ "domain" \in Faults
    /\ call[t].tries < 2
    /\ call' = [call EXCEPT ![t].tries = @ + 1]
    /\ UNCHANGED domain

DomainGiveUp(t) == "domain" \in Faults /\ call[t].tries = 2

----------------------------------------------------------------------------
(* GEM_CREATE with a new handle, and rknpu_gem_dumb_create (which asks for *)
(* no SRAM and does not track): rknpu_gem_init.  n is the amount of SRAM   *)
(* to try for, 0 without RKNPU_MEM_TRY_ALLOC_SRAM.                         *)
RealSram(size, sram_size) ==
    IF sram_size # 0 /\ size > sram_size THEN sram_size ELSE size

CreateInit(t, f, o, n, tracks) ==
    /\ At(t, "idle")
    /\ Open(f)
    /\ o \notin live
    /\ call' = [call EXCEPT ![t] = [Idle EXCEPT !.at = "get", !.f = f, !.o = o, !.n = n,
                                                !.tracks = tracks]]
    /\ live' = live \cup {o}
    /\ refs' = [refs EXCEPT ![o] = 1]
    /\ UNCHANGED <<handles, ranges, jobs, imported, given_up, orphaned, stale, memVars, domain>>

Create(t, f, o) ==
    \/ CreateInit(t, f, o, 0, TRUE)
    \/ \E size \in Sizes, sram_size \in Sizes \cup {0} :
          CreateInit(t, f, o, RealSram(size, sram_size), TRUE)

DumbCreate(t, f, o) == CreateInit(t, f, o, 0, FALSE)

(* GEM_CREATE with a handle that exists finds the object (lookup and put   *)
(* in one go) and only tracks it.                                          *)
CreateFound(t, f, o) ==
    /\ Found(f, o)
    /\ Begin(t, "track", f, o)
    /\ UNCHANGED <<objVars, memVars, domain>>

CreateGet(t) ==
    /\ At(t, "get")
    /\ \/ /\ DomainGet(t, IF call[t].n > 0 /\ Chunks > 0 THEN "sram" ELSE "ddr")
          /\ UNCHANGED <<live, refs, stale>>
       \/ /\ "domain" \in Faults
          /\ live' = live \ {call[t].o}
          /\ Discard(call[t].o)
          /\ Goto(t, "idle")
          /\ UNCHANGED domain
    /\ UNCHANGED <<handles, ranges, jobs, imported, given_up, orphaned, memVars>>

(* free_chunks is read without the lock of sram_mm, and the request is cut *)
(* to it; no free chunk at all means no SRAM.                              *)
CreateSram(t) ==
    LET free == Chunks - Cardinality(Sram!AllHeld)
    IN /\ At(t, "sram")
       /\ call' = [call EXCEPT ![t] =
             [@ EXCEPT !.at = IF free > 0 THEN "mm" ELSE "ddr",
                       !.n = IF call[t].n > free THEN free ELSE call[t].n]]
       /\ UNCHANGED <<objVars, memVars, domain>>

(* rknpu_mm_alloc; if there is no such run the buffer is DDR only.         *)
CreateMm(t) ==
    /\ At(t, "mm")
    /\ \/ Sram!Grant(call[t].o, call[t].n) /\ Goto(t, "map")
       \/ Sram!Refuse(call[t].o, call[t].n) /\ Goto(t, "ddr")
    /\ UNCHANGED <<objVars, dma, domain>>

(* rknpu_gem_alloc_buf_with_cache, which undoes its own work when it       *)
(* fails; the label mm_free then gives the chunks back.                    *)
MmFree(o) ==
    /\ chunks' = [chunks EXCEPT ![o] = {}]
    /\ UNCHANGED refused

CreateMap(t) ==
    /\ At(t, "map")
    /\ \/ /\ dma' = dma \cup {call[t].o}
          /\ Goto(t, "put")
          /\ UNCHANGED <<chunks, refused>>
       \/ /\ "map" \in Faults
          /\ MmFree(call[t].o)
          /\ Goto(t, "release")
          /\ UNCHANGED dma
    /\ UNCHANGED <<objVars, domain>>

(* rknpu_gem_alloc_buf: DMA memory, its table and its pages, or nothing.   *)
CreateDdr(t) ==
    /\ At(t, "ddr")
    /\ \/ /\ dma' = dma \cup {call[t].o}
          /\ Goto(t, "put")
       \/ /\ "alloc" \in Faults
          /\ Goto(t, "release")
          /\ UNCHANGED dma
    /\ UNCHANGED <<objVars, chunks, refused, domain>>

CreateReleaseOnly(t) ==              \* mutant: the domain is not put
    /\ At(t, "release")
    /\ live' = live \ {call[t].o}
    /\ Discard(call[t].o)
    /\ refused' = refused \ {call[t].o}
    /\ Goto(t, "idle")
    /\ UNCHANGED <<handles, ranges, jobs, imported, given_up, orphaned, dma, chunks, domain>>

(* gem_release: rknpu_gem_release and rknpu_iommu_domain_put.              *)
CreateRelease(t) ==
    /\ At(t, "release")
    /\ live' = live \ {call[t].o}
    /\ Discard(call[t].o)
    /\ domain' = domain - 1
    /\ refused' = refused \ {call[t].o}
    /\ Goto(t, "idle")
    /\ UNCHANGED <<handles, ranges, jobs, imported, given_up, orphaned, dma, chunks>>

CreatePut(t) ==
    /\ At(t, "put")
    /\ domain' = domain - 1
    /\ Goto(t, "handle")
    /\ UNCHANGED <<objVars, memVars>>

(* rknpu_gem_handle_create: the handle takes a reference of its own, then  *)
(* the one of the allocation is dropped.  If it fails the object is        *)
(* destroyed straight away; the DRM core puts one that it imported.        *)
CreateHandle(t) ==
    /\ At(t, "handle")
    /\ \/ /\ handles' = [handles EXCEPT ![call[t].f] = @ \cup {call[t].o}]
          /\ refs' = [refs EXCEPT ![call[t].o] = @ + 1]
          /\ Goto(t, "drop")
          /\ UNCHANGED stale
       \/ /\ "handle" \in Faults
          /\ call[t].o \notin imported
          /\ Discard(call[t].o)
          /\ Goto(t, "free")
          /\ UNCHANGED handles
       \/ /\ "handle" \in Faults
          /\ call[t].o \in imported
          /\ Put(t, call[t].o, "idle")
          /\ UNCHANGED <<handles, stale>>
    /\ UNCHANGED <<live, ranges, jobs, imported, given_up, orphaned, memVars, domain>>

CreateKeep(t) ==                     \* mutant: the allocation's reference is kept
    /\ At(t, "drop")
    /\ Goto(t, IF call[t].tracks THEN "track" ELSE "idle")
    /\ UNCHANGED <<objVars, memVars, domain>>

CreateDrop(t) ==
    /\ At(t, "drop")
    /\ Put(t, call[t].o, IF call[t].tracks THEN "track" ELSE "idle")
    /\ UNCHANGED <<live, handles, ranges, jobs, imported, given_up, orphaned, stale, memVars, domain>>

(* rknpu_dkms_track_gem_obj: once per object, with a reference.  It comes  *)
(* too late for a GEM_DESTROY that has done its untracking, and finds no   *)
(* handle at all if that was quicker.                                      *)
Holders(o) == {f \in Files : o \in handles[f]}
Late(o) == Holders(o) = {} \/ \E u \in Threads : call[u].o = o /\ At(u, "delete")

Track(t) ==
    LET o == call[t].o
    IN /\ At(t, "track")
       /\ \/ /\ o \in dma \/ o \notin live
             /\ o \notin ranges
             /\ ranges' = ranges \cup {o}
             /\ orphaned' = IF Late(o) THEN orphaned \cup {o} ELSE orphaned
             /\ Take(o)
          \/ /\ o \in ranges \/ o \notin dma \/ "track" \in Faults
             /\ UNCHANGED <<ranges, orphaned, refs, stale>>
       /\ Goto(t, "idle")
       /\ UNCHANGED <<live, handles, jobs, imported, given_up, memVars, domain>>

(* rknpu_gem_prime_import_sg_table: the pages belong to the exporter.  The *)
(* DRM core then makes the handle and drops the reference, as above.       *)
Import(t, f, o) ==
    /\ At(t, "idle")
    /\ Open(f)
    /\ o \notin live
    /\ call' = [call EXCEPT ![t] = [Idle EXCEPT !.at = "handle", !.f = f, !.o = o]]
    /\ live' = live \cup {o}
    /\ imported' = imported \cup {o}
    /\ dma' = dma \cup {o}
    /\ refs' = [refs EXCEPT ![o] = 1]
    /\ UNCHANGED <<handles, ranges, jobs, given_up, orphaned, stale, chunks, refused, domain>>

----------------------------------------------------------------------------
(* GEM_DESTROY: find the object, enter its domain, untrack it, delete the  *)
(* handle, leave the domain.                                               *)
Destroy(t, f, o) ==
    /\ Found(f, o)
    /\ Begin(t, "destroy", f, o)
    /\ UNCHANGED <<objVars, memVars, domain>>

DestroyGet(t) ==
    /\ At(t, "destroy")
    /\ \/ DomainGet(t, "untrack")
       \/ DomainGetAgain(t)
       \/ /\ DomainGiveUp(t) \/ call[t].o \notin live   \* no domain of that number
          /\ Goto(t, "idle")
          /\ UNCHANGED domain
    /\ UNCHANGED <<objVars, memVars>>

UntrackUnchecked(t) ==               \* mutant: puts what was never tracked
    /\ At(t, "untrack")
    /\ ranges' = ranges \ {call[t].o}
    /\ orphaned' = orphaned \ {call[t].o}
    /\ Put(t, call[t].o, "delete")
    /\ UNCHANGED <<live, handles, jobs, imported, given_up, stale, memVars, domain>>

UntrackForgotten(t) ==               \* mutant: GEM_DESTROY leaves the range entry
    /\ At(t, "untrack")
    /\ Goto(t, "delete")
    /\ UNCHANGED <<objVars, memVars, domain>>

(* rknpu_dkms_untrack_gem_obj.                                             *)
Untrack(t) ==
    /\ At(t, "untrack")
    /\ ranges' = ranges \ {call[t].o}
    /\ orphaned' = orphaned \ {call[t].o}
    /\ IF call[t].o \in ranges
         THEN Put(t, call[t].o, "delete")
         ELSE Goto(t, "delete") /\ UNCHANGED refs
    /\ UNCHANGED <<live, handles, jobs, imported, given_up, stale, memVars, domain>>

(* drm_gem_handle_delete: -EINVAL if the handle is gone.                   *)
DeleteHandle(t, f, o, next) ==
    /\ handles' = [handles EXCEPT ![f] = @ \ {o}]
    /\ IF o \in handles[f]
         THEN Put(t, o, next)
         ELSE Goto(t, next) /\ UNCHANGED refs
    /\ UNCHANGED <<live, ranges, jobs, imported, given_up, stale, memVars, domain>>

HandleDestroy(t) ==
    /\ At(t, "delete")
    /\ DeleteHandle(t, call[t].f, call[t].o, "end")
    /\ UNCHANGED orphaned

(* A handle that goes without GEM_DESTROY: nothing untracks the object, so *)
(* that after the last one nobody can.                                     *)
DropHandle(t, f, o, next) ==
    /\ DeleteHandle(t, f, o, next)
    /\ orphaned' = IF o \in ranges /\ Holders(o) = {f} THEN orphaned \cup {o} ELSE orphaned

(* DRM_IOCTL_GEM_CLOSE of the DRM core.                                    *)
HandleClose(t, f, o) ==
    /\ At(t, "idle")
    /\ Found(f, o)
    /\ DropHandle(t, f, o, "idle")

(* rknpu_iommu_domain_put, which ends GEM_DESTROY, MEM_SYNC and the action. *)
DomainPut(t) ==
    /\ call[t].at \in {"end", "sync"}
    /\ domain' = domain - 1
    /\ Goto(t, "idle")
    /\ UNCHANGED <<objVars, memVars>>

(* The DRM core deletes the handles of a file when its last user is gone.  *)
Close(t, f) ==
    /\ \A u \in Threads : call[u].f # f
    /\ handles[f] # {}
    /\ Begin(t, "close", f, NoObj)
    /\ UNCHANGED <<objVars, memVars, domain>>

CloseNext(t) ==
    /\ At(t, "close")
    /\ \/ \E o \in handles[call[t].f] : DropHandle(t, call[t].f, o, "close")
       \/ /\ handles[call[t].f] = {}
          /\ Goto(t, "idle")
          /\ UNCHANGED <<objVars, memVars, domain>>

(* MEM_SYNC of a cacheable object: whatever is at obj_addr is read, to the *)
(* end of the call, without handle or reference.  If that is no object any *)
(* more the call may also return at once, or stop for good.                *)
Sync(t, f) ==
    /\ Open(f)
    /\ Begin(t, "sync", f, NoObj)
    /\ domain' = domain + 1
    /\ UNCHANGED <<objVars, memVars>>

(* RKNPU_ACTION with RKNPU_SET_IOMMU_DOMAIN_ID: get and put.               *)
SetDomain(t, f) ==
    /\ Open(f)
    /\ Begin(t, "end", f, NoObj)
    /\ domain' = domain + 1
    /\ UNCHANGED <<objVars, memVars>>

(* rknpu_submit takes a reference on what is at task_obj_addr, be it an    *)
(* object of this file, of another or of none; rknpu_job_free gives it     *)
(* back.                                                                   *)
Submit(t, f, o) ==
    /\ At(t, "idle")
    /\ Open(f)
    /\ jobs[o] < MaxJobs
    /\ jobs' = [jobs EXCEPT ![o] = @ + 1]
    /\ Take(o)
    /\ UNCHANGED <<live, handles, ranges, imported, given_up, orphaned, memVars, domain, call>>

JobFree(t, o) ==
    /\ At(t, "idle")
    /\ jobs[o] > 0
    /\ jobs' = [jobs EXCEPT ![o] = @ - 1]
    /\ Put(t, o, "idle")
    /\ UNCHANGED <<live, handles, ranges, imported, given_up, orphaned, stale, memVars, domain>>

----------------------------------------------------------------------------
(* rknpu_gem_object_destroy.  It enters the domain of the object, at most  *)
(* three times; if it cannot, it returns and nothing is freed.             *)
Return(t) ==
    IF call[t].after = "idle" THEN Goto(t, "idle")
    ELSE call' = [call EXCEPT ![t] = [@ EXCEPT !.at = call[t].after, !.after = "idle",
                     !.tries = 0,
                     !.o = IF call[t].after = "close" THEN NoObj ELSE call[t].o]]

FreeGet(t) ==
    LET o == call[t].o
    IN /\ At(t, "free")
       /\ \/ /\ DomainGet(t, IF o \in imported THEN "free_import"
                             ELSE IF chunks[o] # {} THEN "free_mm" ELSE "free_buf")
             /\ UNCHANGED given_up
          \/ DomainGetAgain(t) /\ UNCHANGED given_up
          \/ /\ DomainGiveUp(t)
             /\ given_up' = given_up \cup {o}
             /\ Return(t)
             /\ UNCHANGED domain
       /\ UNCHANGED <<live, refs, handles, ranges, jobs, imported, orphaned, stale, memVars>>

(* The chunks are free for others before the IOMMU mapping is removed by   *)
(* rknpu_gem_free_buf_with_cache.                                          *)
FreeMm(t) ==
    /\ At(t, "free_mm")
    /\ MmFree(call[t].o)
    /\ Goto(t, "free_cache")
    /\ UNCHANGED <<objVars, dma, domain>>

FreeMemory(t) ==
    /\ dma' = dma \ {call[t].o}
    /\ Goto(t, "free_release")
    /\ UNCHANGED <<objVars, chunks, refused, domain>>

FreeCache(t) == At(t, "free_cache") /\ FreeMemory(t)

(* rknpu_gem_free_buf.                                                     *)
FreeBuf(t) == At(t, "free_buf") /\ FreeMemory(t)

(* drm_prime_gem_destroy; the memory itself is the exporter's.             *)
FreeImport(t) == At(t, "free_import") /\ FreeMemory(t)

FreeRelease(t) ==
    /\ At(t, "free_release")
    /\ live' = live \ {call[t].o}
    /\ imported' = imported \ {call[t].o}
    /\ domain' = domain - 1
    /\ Return(t)
    /\ refused' = refused \ {call[t].o}
    /\ UNCHANGED <<refs, handles, ranges, jobs, given_up, orphaned, stale, dma, chunks>>

----------------------------------------------------------------------------
CreateStep(t) ==
    \/ CreateGet(t) \/ CreateSram(t) \/ CreateMm(t) \/ CreateMap(t) \/ CreateDdr(t)
    \/ CreateRelease(t) \/ CreatePut(t) \/ CreateHandle(t) \/ CreateDrop(t) \/ Track(t)
DestroyStep(t) ==
    \/ DestroyGet(t) \/ Untrack(t) \/ HandleDestroy(t) \/ DomainPut(t) \/ CloseNext(t)
FreeStep(t) == FreeGet(t) \/ FreeMm(t) \/ FreeCache(t) \/ FreeBuf(t) \/ FreeImport(t)
               \/ FreeRelease(t)

Next ==
    \E t \in Threads :
        \/ CreateStep(t) \/ DestroyStep(t) \/ FreeStep(t)
        \/ \E f \in Files : Close(t, f) \/ SetDomain(t, f) \/ Sync(t, f)
        \/ \E f \in Files, o \in Objs :
              \/ Create(t, f, o) \/ DumbCreate(t, f, o) \/ Import(t, f, o)
              \/ CreateFound(t, f, o) \/ Destroy(t, f, o) \/ HandleClose(t, f, o)
              \/ Submit(t, f, o)
        \/ \E o \in Objs : JobFree(t, o)

Spec == Init /\ [][Next]_vars
----------------------------------------------------------------------------
(* Type correctness: no reference is given back that was not taken.        *)
TypeOK ==
    /\ live \subseteq Objs
    /\ refs \in [Objs -> Int] /\ \A o \in Objs \ stale : refs[o] >= 0
    /\ handles \in [Files -> SUBSET Objs]
    /\ ranges \subseteq Objs /\ orphaned \subseteq ranges
    /\ jobs \in [Objs -> 0 .. MaxJobs]
    /\ imported \subseteq Objs /\ imported \ stale \subseteq live
    /\ dma \subseteq Objs
    /\ chunks \in [Objs -> SUBSET (0 .. Chunks - 1)]
    /\ refused \subseteq Objs
    /\ given_up \subseteq Objs /\ given_up \ stale \subseteq live
    /\ domain \in Nat
    /\ call \in [Threads -> CallType]
    /\ stale \subseteq Objs

(* The threads whose create still holds the reference of the allocation.   *)
Creators(o) ==
    {t \in Threads : call[t].o = o /\ call[t].at \in {"get", "sram", "mm", "map", "ddr", "put",
                                                    "release", "handle", "drop"}}
Tracked(o) == IF o \in ranges THEN 1 ELSE 0

(* The reference count of a buffer is the number of its handles, jobs,     *)
(* range entries and unfinished creates, whatever calls overlap, so that   *)
(* it is not freed under any of them; unless its address is stale.  This   *)
(* says nothing of who gives a reference back: NothingForgotten does.      *)
RefsExact ==
    \A o \in Objs \ stale :
        refs[o] = Cardinality(Creators(o)) + Cardinality(Holders(o)) + jobs[o] + Tracked(o)

(* Nothing is forgotten but orphans.  An object that has no handle, no job *)
(* and no unfinished create is being destroyed by the thread that dropped  *)
(* its last reference, or its destruction gave up, or it is orphaned: its  *)
(* last handle went by GEM_CLOSE, close or exit while it was tracked, or   *)
(* it was tracked too late, and then the object, its memory and its SRAM   *)
(* are lost, for only a GEM_DESTROY with a handle untracks it.  An object  *)
(* that was released left no memory, mapping or chunk behind, whatever     *)
(* error path its create took.                                             *)
Freeing(o) == \E t \in Threads : call[t].o = o /\ call[t].at \in {"free"} \cup FreeSteps
NothingForgotten ==
    /\ \A o \in live \ (orphaned \cup given_up \cup stale) :
          Holders(o) # {} \/ jobs[o] > 0 \/ Creators(o) # {} \/ Freeing(o)
    /\ \A o \in Objs \ (live \cup stale) : o \notin dma /\ chunks[o] = {}

(* iommu_domain_refcount counts the calls that are between domain_get and  *)
(* domain_put, once more for a destroy ioctl that drops the last reference *)
(* itself: with the calls it returns to 0, or no domain could be switched. *)
InDomain == {t \in Threads : call[t].at \in DomainSteps \cup FreeSteps}
NestedFree ==
    {t \in Threads : call[t].at \in {"free"} \cup FreeSteps /\ call[t].after \in {"delete", "end"}}
DomainExact == domain = Cardinality(InDomain) + Cardinality(NestedFree)

(* What the comment of rknpu_gem_object_find says: the object it returned  *)
(* to an ioctl has a reference, so that it is there when it is used.       *)
FoundIsHeld ==
    \A t \in Threads : call[t].at \in {"destroy", "track"} => call[t].o \in live
=============================================================================
