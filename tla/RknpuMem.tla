------------------------------ MODULE RknpuMem ------------------------------
(***************************************************************************)
(* Buffer objects of the misc device (rknpu_mem.c, rknpu_open and          *)
(* rknpu_release in rknpu_drv.c): MEM_CREATE allocates a dma-buf or imports *)
(* one by its fd, attaches and maps it and puts the object on the list of  *)
(* the session; MEM_DESTROY takes it off and undoes that; closing the      *)
(* session does so for all that is left.                                   *)
(*                                                                         *)
(* dma_buf_fd makes the fd the owner of the reference of the allocation:   *)
(* an object of an imported buffer has a reference of its own, the object  *)
(* of an allocated buffer has none and nothing in the driver makes its     *)
(* client keep the fd.  The client duplicates and closes fds when it likes *)
(* (close, exit, fork, another thread in the middle of MEM_CREATE), so a   *)
(* dma-buf may be released while the driver still uses it.  The module     *)
(* goes on after that in two ways: the memory is as it was and the         *)
(* counters are kept, or the thread that touches it stops (Crash).         *)
(***************************************************************************)
EXTENDS Integers, FiniteSets

CONSTANTS Threads,   \* callers of ioctls, and of release
          Sessions,  \* files of the misc device
          Objs,      \* rknpu_mem_object allocations
          Bufs,      \* dma-bufs
          Foreign,   \* the dma-bufs other exporters made, with one fd each
          NoSession, NoObj, NoBuf,
          MaxFds,    \* bound: fds of one dma-buf
          Faults     \* "fd", "attach", "vmap", "copy": the call that may fail

ASSUME MemAssumption ==
    /\ IsFiniteSet(Threads) /\ IsFiniteSet(Objs)
    /\ Foreign \subseteq Bufs
    /\ NoSession \notin Sessions /\ NoObj \notin Objs /\ NoBuf \notin Bufs
    /\ MaxFds \in Nat \ {0}
    /\ Faults \subseteq {"fd", "attach", "vmap", "copy"}

VARIABLES fds,       \* fds[b]: the open fds of dma-buf b
          ref,       \* ref[b]: the gets of its file less the puts
          attached,  \* attached[b]: its attachments, mapped ones
          vmapped,   \* vmapped[b]: its kernel mappings
          dangling,  \* the dma-bufs of which a create that failed has put
                     \* the reference that belonged to the fd
          list,      \* list[s]: the objects on session->list
          closing,   \* closing[s]: local_list of rknpu_release
          obj,       \* obj[o]: dmabuf, owner, kv_addr (as a flag) of an object
          call       \* call[t]: what thread t is doing

bufVars == <<fds, ref, attached, vmapped, dangling>>
vars == <<bufVars, list, closing, obj, call>>

Labels == {"idle", "fd", "attach", "vmap", "copy", "list", "err_detach", "err_put",
           "err_fd", "bug", "oops", "unmap", "put", "release"}

Idle == [at |-> "idle", s |-> NoSession, o |-> NoObj, kmap |-> FALSE]
NoObject == [buf |-> NoBuf, owner |-> FALSE, kv |-> FALSE]

Init ==
    /\ fds = [b \in Bufs |-> IF b \in Foreign THEN 1 ELSE 0]
    /\ ref = fds
    /\ attached = [b \in Bufs |-> 0]
    /\ vmapped = [b \in Bufs |-> 0]
    /\ dangling = {}
    /\ list = [s \in Sessions |-> {}]
    /\ closing = [s \in Sessions |-> {}]
    /\ obj = [o \in Objs |-> NoObject]
    /\ call = [t \in Threads |-> Idle]

----------------------------------------------------------------------------
At(t, label) == call[t].at = label
Goto(t, label) == call' = [call EXCEPT ![t].at = label]
Return(t) == call' = [call EXCEPT ![t] = Idle]
Buf(t) == obj[call[t].o].buf

(* An object is free for kzalloc when nothing refers to it.                *)
Free(o) == obj[o] = NoObject
Busy(s) == \E t \in Threads : call[t].s = s

(* A dma-buf whose last reference is gone has been released.               *)
Dead(b) == ref[b] <= 0

(* The head of MEM_CREATE: kzalloc of the object and a reference on its    *)
(* buffer.  A session that is being released is not used any more.         *)
Start(t, s, o, b, owner, kmap, label) ==
    /\ At(t, "idle")
    /\ closing[s] = {} /\ \A u \in Threads : call[u].s = s => call[u].at # "release"
    /\ Free(o)
    /\ obj' = [obj EXCEPT ![o] = [buf |-> b, owner |-> owner, kv |-> FALSE]]
    /\ call' = [call EXCEPT ![t] = [at |-> label, s |-> s, o |-> o, kmap |-> kmap]]
    /\ ref' = [ref EXCEPT ![b] = @ + 1]
    /\ UNCHANGED <<fds, attached, vmapped, dangling, list, closing>>

(* Without a handle: rknpu_dkms_alloc exports a new dma-buf, one that       *)
(* nothing refers to.                                                      *)
CreateAlloc(t, s, o, b, kmap) ==
    /\ b \notin dangling /\ ref[b] = 0 /\ fds[b] = 0
    /\ \A p \in Objs : obj[p].buf # b
    /\ Start(t, s, o, b, TRUE, kmap, "fd")

(* With a handle: dma_buf_get takes a reference, unless there is none left. *)
CreateImport(t, s, o, b, kmap) ==
    /\ fds[b] > 0 /\ ~Dead(b)
    /\ Start(t, s, o, b, FALSE, kmap, "attach")

(* dma_buf_fd: the reference of the allocation is the fd's from now on.    *)
CreateFd(t) ==
    /\ At(t, "fd")
    /\ \/ fds' = [fds EXCEPT ![Buf(t)] = @ + 1] /\ Goto(t, "attach")
       \/ "fd" \in Faults /\ Goto(t, "err_fd") /\ UNCHANGED fds
    /\ UNCHANGED <<ref, attached, vmapped, dangling, list, closing, obj>>

(* dma_buf_attach and dma_buf_map_attachment; a failure of the second      *)
(* detaches again.                                                         *)
CreateAttach(t) ==
    /\ At(t, "attach")
    /\ \/ /\ attached' = [attached EXCEPT ![Buf(t)] = @ + 1]
          /\ Goto(t, IF call[t].kmap THEN "vmap" ELSE "copy")
       \/ "attach" \in Faults /\ Goto(t, "err_put") /\ UNCHANGED attached
    /\ UNCHANGED <<fds, ref, vmapped, dangling, list, closing, obj>>

CreateVmapSkipsDetach(t) ==          \* mutant: goto err_free_dma_buf
    /\ At(t, "vmap")
    /\ \/ /\ vmapped' = [vmapped EXCEPT ![Buf(t)] = @ + 1]
          /\ obj' = [obj EXCEPT ![call[t].o].kv = TRUE]
          /\ Goto(t, "copy")
       \/ "vmap" \in Faults /\ Goto(t, "err_put") /\ UNCHANGED <<vmapped, obj>>
    /\ UNCHANGED <<fds, ref, attached, dangling, list, closing>>

CreateVmap(t) ==
    /\ At(t, "vmap")
    /\ \/ /\ vmapped' = [vmapped EXCEPT ![Buf(t)] = @ + 1]
          /\ obj' = [obj EXCEPT ![call[t].o].kv = TRUE]
          /\ Goto(t, "copy")
       \/ "vmap" \in Faults /\ Goto(t, "err_detach") /\ UNCHANGED <<vmapped, obj>>
    /\ UNCHANGED <<fds, ref, attached, dangling, list, closing>>

(* copy_to_user.  Its error path calls dma_buf_vunmap also for a buffer it *)
(* did not map, which stops the thread in a BUG_ON of the dma-buf core, as *)
(* may the vunmap of one that was released.                                *)
CreateCopy(t) ==
    /\ At(t, "copy")
    /\ \/ Goto(t, "list") /\ UNCHANGED <<vmapped, obj>>
       \/ /\ "copy" \in Faults /\ obj[call[t].o].kv
          /\ vmapped' = [vmapped EXCEPT ![Buf(t)] = @ - 1]
          /\ obj' = [obj EXCEPT ![call[t].o].kv = FALSE]
          /\ Goto(t, "err_detach")
       \/ /\ "copy" \in Faults /\ (~obj[call[t].o].kv \/ Dead(Buf(t)))
          /\ Goto(t, "bug")
          /\ UNCHANGED <<vmapped, obj>>
    /\ UNCHANGED <<fds, ref, attached, dangling, list, closing>>

CreateList(t) ==
    /\ At(t, "list")
    /\ list' = [list EXCEPT ![call[t].s] = @ \cup {call[t].o}]
    /\ Return(t)
    /\ UNCHANGED <<bufVars, closing, obj>>

ErrDetach(t) ==
    /\ At(t, "err_detach")
    /\ attached' = [attached EXCEPT ![Buf(t)] = @ - 1]
    /\ Goto(t, "err_put")
    /\ UNCHANGED <<fds, ref, vmapped, dangling, list, closing, obj>>

ErrPutOwnedOnly(t) ==                \* mutant: the import's reference is kept
    /\ At(t, "err_put") \/ At(t, "err_fd")
    /\ ref' = [ref EXCEPT ![Buf(t)] = IF obj[call[t].o].owner THEN @ - 1 ELSE @]
    /\ dangling' = IF obj[call[t].o].owner /\ At(t, "err_put") THEN dangling \cup {Buf(t)}
                                                              ELSE dangling
    /\ obj' = [obj EXCEPT ![call[t].o] = NoObject]
    /\ Return(t)
    /\ UNCHANGED <<fds, attached, vmapped, list, closing>>

(* err_free_dma_buf and err_free_obj: owned or not, dma_buf_put.  For an   *)
(* allocated buffer whose fd was made this is the reference of the fd,     *)
(* which the fd's close puts too.                                          *)
ErrPut(t) ==
    /\ At(t, "err_put") \/ At(t, "err_fd")
    /\ ref' = [ref EXCEPT ![Buf(t)] = @ - 1]
    /\ dangling' = IF obj[call[t].o].owner /\ At(t, "err_put") THEN dangling \cup {Buf(t)}
                                                              ELSE dangling
    /\ obj' = [obj EXCEPT ![call[t].o] = NoObject]
    /\ Return(t)
    /\ UNCHANGED <<fds, attached, vmapped, list, closing>>

----------------------------------------------------------------------------
DestroyKeepsListed(t, s, o) ==       \* mutant: list_del is missing
    /\ At(t, "idle")
    /\ o \in list[s]
    /\ call' = [call EXCEPT ![t] = [Idle EXCEPT !.at = "unmap", !.s = s, !.o = o]]
    /\ UNCHANGED <<bufVars, list, closing, obj>>

(* MEM_DESTROY: whoever finds the object on the list takes it off, under   *)
(* the lock; for anybody else it is -EINVAL.                               *)
Destroy(t, s, o) ==
    /\ At(t, "idle")
    /\ o \in list[s]
    /\ list' = [list EXCEPT ![s] = @ \ {o}]
    /\ call' = [call EXCEPT ![t] = [Idle EXCEPT !.at = "unmap", !.s = s, !.o = o]]
    /\ UNCHANGED <<bufVars, closing, obj>>

DetachVunmapsAlways(t, label) ==     \* mutant: kv_addr is not looked at
    /\ vmapped' = [vmapped EXCEPT ![Buf(t)] = @ - 1]
    /\ obj' = [obj EXCEPT ![call[t].o].kv = FALSE]
    /\ attached' = [attached EXCEPT ![Buf(t)] = @ - 1]
    /\ Goto(t, label)
    /\ UNCHANGED <<fds, ref, dangling, list, closing>>

(* dma_buf_vunmap if there is a kernel mapping, unmap and detach.          *)
Detach(t, label) ==
    /\ vmapped' = [vmapped EXCEPT ![Buf(t)] = IF obj[call[t].o].kv THEN @ - 1 ELSE @]
    /\ obj' = [obj EXCEPT ![call[t].o].kv = FALSE]
    /\ attached' = [attached EXCEPT ![Buf(t)] = @ - 1]
    /\ Goto(t, label)
    /\ UNCHANGED <<fds, ref, dangling, list, closing>>

Unmap(t) == At(t, "unmap") /\ Detach(t, "put")

PutBufAlways(t) ==                   \* mutant: the owner check is missing
    /\ At(t, "put")
    /\ ref' = [ref EXCEPT ![Buf(t)] = @ - 1]
    /\ obj' = [obj EXCEPT ![call[t].o] = NoObject]
    /\ closing' = [closing EXCEPT ![call[t].s] = @ \ {call[t].o}]
    /\ IF call[t].o \in closing[call[t].s]
         THEN call' = [call EXCEPT ![t] = [Idle EXCEPT !.at = "release", !.s = call[t].s]]
         ELSE Return(t)
    /\ UNCHANGED <<fds, attached, vmapped, dangling, list>>

(* dma_buf_put unless the buffer is owned, and kfree; a release goes on.   *)
PutBuf(t) ==
    /\ At(t, "put")
    /\ ref' = [ref EXCEPT ![Buf(t)] = IF obj[call[t].o].owner THEN @ ELSE @ - 1]
    /\ obj' = [obj EXCEPT ![call[t].o] = NoObject]
    /\ closing' = [closing EXCEPT ![call[t].s] = @ \ {call[t].o}]
    /\ IF call[t].o \in closing[call[t].s]
         THEN call' = [call EXCEPT ![t] = [Idle EXCEPT !.at = "release", !.s = call[t].s]]
         ELSE Return(t)
    /\ UNCHANGED <<fds, attached, vmapped, dangling, list>>

(* rknpu_release, once no call uses the file: the list moves to a local    *)
(* one, which is emptied object by object.                                 *)
Release(t, s) ==
    /\ At(t, "idle")
    /\ ~Busy(s)
    /\ list[s] # {}
    /\ closing' = [closing EXCEPT ![s] = list[s]]
    /\ list' = [list EXCEPT ![s] = {}]
    /\ call' = [call EXCEPT ![t] = [Idle EXCEPT !.at = "release", !.s = s]]
    /\ UNCHANGED <<bufVars, obj>>

ReleaseNext(t) ==
    /\ At(t, "release")
    /\ \/ /\ \E o \in closing[call[t].s] :
                call' = [call EXCEPT ![t].at = "unmap", ![t].o = o]
          /\ UNCHANGED <<bufVars, list, closing, obj>>
       \/ /\ closing[call[t].s] = {}
          /\ Return(t)
          /\ UNCHANGED <<bufVars, list, closing, obj>>

(* A use of a dma-buf that was released may stop the thread; the object    *)
(* stays as it is, attached ("bug") or not ("oops").                       *)
Crash(t) ==
    /\ call[t].at \in {"attach", "vmap", "err_detach", "err_put", "unmap", "put"}
    /\ At(t, "put") => ~obj[call[t].o].owner
    /\ Dead(Buf(t))
    /\ Goto(t, IF call[t].at \in {"attach", "err_put", "put"} THEN "oops" ELSE "bug")
    /\ UNCHANGED <<bufVars, list, closing, obj>>

----------------------------------------------------------------------------
(* The client: dup (or fork) and close (or exit) of a buffer's fd, at any  *)
(* time.  A file that was released is not referenced again.                *)
DupFd(b) ==
    /\ fds[b] \in 1 .. MaxFds - 1 /\ ~Dead(b)
    /\ fds' = [fds EXCEPT ![b] = @ + 1]
    /\ ref' = [ref EXCEPT ![b] = @ + 1]
    /\ UNCHANGED <<attached, vmapped, dangling, list, closing, obj, call>>

CloseFd(b) ==
    /\ fds[b] > 0
    /\ fds' = [fds EXCEPT ![b] = @ - 1]
    /\ ref' = [ref EXCEPT ![b] = @ - 1]
    /\ UNCHANGED <<attached, vmapped, dangling, list, closing, obj, call>>

----------------------------------------------------------------------------
CreateStep(t) ==
    \/ CreateFd(t) \/ CreateAttach(t) \/ CreateVmap(t) \/ CreateCopy(t) \/ CreateList(t)
    \/ ErrDetach(t) \/ ErrPut(t) \/ Crash(t)

Next ==
    \/ \E t \in Threads :
          \/ CreateStep(t) \/ Unmap(t) \/ PutBuf(t) \/ ReleaseNext(t)
          \/ \E s \in Sessions :
                \/ Release(t, s)
                \/ \E o \in Objs :
                      \/ Destroy(t, s, o)
                      \/ \E b \in Bufs, kmap \in BOOLEAN :
                            CreateAlloc(t, s, o, b, kmap) \/ CreateImport(t, s, o, b, kmap)
    \/ \E b \in Bufs : DupFd(b) \/ CloseFd(b)

Spec == Init /\ [][Next]_vars
----------------------------------------------------------------------------
(* Type correctness; a file is put once more than it was got only if a     *)
(* create that failed put the reference of its fd (rknpu_mem.c:474).       *)
TypeOK ==
    /\ fds \in [Bufs -> 0 .. MaxFds]
    /\ ref \in [Bufs -> Int]
    /\ \A b \in Bufs : ref[b] >= (IF b \in dangling THEN -1 ELSE 0)
    /\ attached \in [Bufs -> Nat]
    /\ vmapped \in [Bufs -> Nat]
    /\ dangling \subseteq Bufs
    /\ list \in [Sessions -> SUBSET Objs]
    /\ closing \in [Sessions -> SUBSET Objs]
    /\ obj \in [Objs -> [buf : Bufs \cup {NoBuf}, owner : BOOLEAN, kv : BOOLEAN]]
    /\ call \in [Threads -> [at : Labels, s : Sessions \cup {NoSession},
                             o : Objs \cup {NoObj}, kmap : BOOLEAN]]

(* The threads that are doing label with an object of buffer b.            *)
Doing(labels, b) == {t \in Threads : call[t].at \in labels /\ Buf(t) = b}
ObjsOf(b) == {o \in Objs : obj[o].buf = b}
Imports(b) == {o \in ObjsOf(b) : ~obj[o].owner}

(* The file of a dma-buf is referenced by its fds, by the imports and by a *)
(* fresh allocation that has no fd yet, and by nothing else: a destroy and *)
(* a release of the session that race for the same object leave no         *)
(* reference behind and take none twice, and neither does a create that    *)
(* fails, with one exception that is exactly one reference per buffer: a   *)
(* create that fails after dma_buf_fd puts the reference of the fd.        *)
RefExact ==
    \A b \in Bufs :
        ref[b] = fds[b] + Cardinality(Imports(b))
                 + (IF Doing({"fd", "err_fd"}, b) # {} THEN 1 ELSE 0)
                 - (IF b \in dangling THEN 1 ELSE 0)

(* Every attachment belongs to one object and is removed once: the objects *)
(* of a buffer are attached from the end of dma_buf_attach to the detach,  *)
(* and the kernel mappings of a buffer are those of its objects.           *)
MappingsExact ==
    \A b \in Bufs :
        /\ attached[b] = Cardinality(ObjsOf(b))
                         - Cardinality(Doing({"fd", "attach", "err_fd", "err_put", "oops", "put"}, b))
        /\ vmapped[b] = Cardinality({o \in ObjsOf(b) : obj[o].kv})

(* When a buffer that is attached to the NPU may be released.  An import   *)
(* keeps it alive, whatever becomes of the fds and of the object of the    *)
(* allocation, and so does any fd.  With neither, only the object of the   *)
(* allocation uses it and it is released under that object: a client that  *)
(* closes its fds, or exits, before MEM_DESTROY or rknpu_release.  In a    *)
(* buffer of which a failed create put the fd's reference, one fd or       *)
(* import keeps nothing alive and it takes two.                            *)
Keepers(b) == fds[b] + Cardinality(Imports(b))
AttachedIsAlive ==
    \A b \in Bufs :
        attached[b] > 0 /\ Dead(b) =>
            \/ Keepers(b) = 0 /\ Cardinality(ObjsOf(b)) = 1
            \/ Keepers(b) <= 1 /\ b \in dangling

(* An object is on the list of one session, or in the hands of one thread: *)
(* when all calls have returned, the objects that exist can be destroyed.  *)
Hands(o) == {t \in Threads : call[t].o = o}
Lists(o) == {s \in Sessions : o \in list[s]}
OneOwner ==
    \A o \in Objs :
        obj[o] # NoObject =>
            \/ Cardinality(Hands(o)) + Cardinality(Lists(o)) = 1
            \/ Hands(o) = {} /\ \E s \in Sessions : o \in closing[s]
=============================================================================
