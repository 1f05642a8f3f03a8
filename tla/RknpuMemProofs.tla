--------------------------- MODULE RknpuMemProofs ---------------------------
(***************************************************************************)
(* Proofs about the buffer objects of the misc device, for any number of   *)
(* threads, sessions, objects and dma-bufs and any set of failing calls:   *)
(* an object has one owner at any time, the reference count of a dma-buf   *)
(* is what its fds and objects account for, less the reference a failed    *)
(* create took from an fd, attachments and kernel mappings are undone      *)
(* exactly once, and an attached buffer is released in two cases only.     *)
(***************************************************************************)
EXTENDS RknpuMem, TLAPS, FiniteSetTheorems, FunctionTheorems

(* The labels of MEM_CREATE, those of a thread that stopped, those at      *)
(* which a thread has an object in its hands, and those at which that      *)
(* object is not attached.                                                 *)
Creating == {"fd", "attach", "vmap", "copy", "list", "err_detach", "err_put", "err_fd"}
Stuck == {"bug", "oops"}
Holding == Creating \cup {"unmap", "put"} \cup Stuck
Off == {"fd", "attach", "err_fd", "err_put", "oops", "put"}
Unmapped == {"fd", "attach", "vmap", "err_detach", "err_put", "err_fd", "put"}

Live(o) == obj[o].buf \in Bufs

(* The thread that runs rknpu_release of its session.                      *)
Releaser(t) ==
    \/ call[t].at = "release"
    \/ call[t].s \in Sessions /\ call[t].o \in closing[call[t].s]

(* The part of TypeOK that is not about counters.                          *)
CtlType ==
    /\ dangling \subseteq Bufs
    /\ list \in [Sessions -> SUBSET Objs]
    /\ closing \in [Sessions -> SUBSET Objs]
    /\ obj \in [Objs -> [buf : Bufs \cup {NoBuf}, owner : BOOLEAN, kv : BOOLEAN]]
    /\ call \in [Threads -> [at : Labels, s : Sessions \cup {NoSession},
                             o : Objs \cup {NoObj}, kmap : BOOLEAN]]

(* What a thread is doing fits the object it has in its hands.             *)
CallInv ==
    \A t \in Threads :
        /\ call[t].at \in Holding =>
              call[t].s \in Sessions /\ call[t].o \in Objs /\ Live(call[t].o)
        /\ call[t].at = "idle" => call[t].s = NoSession /\ call[t].o = NoObj
        /\ call[t].at = "release" => call[t].s \in Sessions /\ call[t].o = NoObj

ObjInv == \A o \in Objs : obj[o] = NoObject \/ Live(o)

(* An object is in one hand, and if it is in one it is on no list; it may  *)
(* be on the local list of the thread that releases its session.           *)
OneHand ==
    \A t, u \in Threads : call[t].o \in Objs /\ call[u].o = call[t].o => t = u
HandNotListed == \A t \in Threads, s \in Sessions : call[t].o \notin list[s]
HandClosing ==
    \A t \in Threads, s \in Sessions :
        call[t].o \in closing[s] =>
            call[t].s = s /\ call[t].at \in {"unmap", "put"} \cup Stuck

(* The lists hold live objects, and have none in common.                   *)
ListedLive == \A s \in Sessions, o \in Objs : o \in list[s] \cup closing[s] => Live(o)
ListsApart ==
    \A s, r \in Sessions, o \in Objs :
        /\ o \in list[s] => o \notin closing[r]
        /\ o \in list[s] /\ o \in list[r] => s = r
        /\ o \in closing[s] /\ o \in closing[r] => s = r

(* No live object is lost.                                                 *)
KeptInv ==
    \A o \in Objs : Live(o) =>
        \/ \E t \in Threads : call[t].o = o
        \/ \E s \in Sessions : o \in list[s] \cup closing[s]

(* rknpu_release has its session for itself.                               *)
OneReleaser ==
    \A t, u \in Threads : Releaser(t) /\ call[u].s = call[t].s => t = u
ReleaserEmptied == \A t \in Threads : Releaser(t) => list[call[t].s] = {}
ClosingReleased ==
    \A s \in Sessions :
        closing[s] # {} => \E t \in Threads : Releaser(t) /\ call[t].s = s

Ctl ==
    /\ CtlType /\ CallInv /\ ObjInv
    /\ OneHand /\ HandNotListed /\ HandClosing
    /\ ListedLive /\ ListsApart /\ KeptInv
    /\ OneReleaser /\ ReleaserEmptied /\ ClosingReleased

----------------------------------------------------------------------------
(* What the actions do to threads, objects and lists, in three kinds.      *)
OthersKeep(t) == \A u \in Threads : u # t => call'[u] = call[u]
ObjsKeep(o) == \A p \in Objs : p # o => obj'[p] = obj[p]

Begins(t, s, o, b, own) ==
    /\ call[t].at = "idle" /\ obj[o] = NoObject /\ closing[s] = {}
    /\ \A u \in Threads : call[u].s = s => call[u].at # "release"
    /\ obj'[o].buf = b /\ obj'[o].owner = own /\ obj'[o].kv = FALSE
    /\ call'[t].at \in Creating /\ call'[t].s = s /\ call'[t].o = o
    /\ call'[t].at = IF own THEN "fd" ELSE "attach"
    /\ OthersKeep(t) /\ ObjsKeep(o)
    /\ list' = list /\ closing' = closing

Works(t) ==
    /\ \/ call[t].at \in Creating /\ call'[t].at \in Creating \cup Stuck
       \/ call[t].at = "unmap" /\ call'[t].at = "put"
       \/ call[t].at \in {"unmap", "put"} /\ call'[t].at \in Stuck
    /\ call'[t].s = call[t].s /\ call'[t].o = call[t].o
    /\ obj'[call[t].o].buf = obj[call[t].o].buf
    /\ obj'[call[t].o].owner = obj[call[t].o].owner
    /\ OthersKeep(t) /\ ObjsKeep(call[t].o)
    /\ list' = list /\ closing' = closing

Drops(t) ==
    /\ call[t].at \in {"err_put", "err_fd", "put"}
    /\ obj'[call[t].o] = NoObject /\ ObjsKeep(call[t].o)
    /\ list' = list
    /\ \A s \in Sessions : closing'[s] = closing[s] \ {call[t].o}
    /\ OthersKeep(t)
    /\ call'[t].o = NoObj
    /\ IF call[t].o \in closing[call[t].s]
       THEN call'[t].at = "release" /\ call'[t].s = call[t].s
       ELSE call'[t].at = "idle" /\ call'[t].s = NoSession

----------------------------------------------------------------------------
(* The sets of labels are labels; the model values are different from all  *)
(* that they stand beside.                                                 *)
LEMMA CtlFacts ==
    ASSUME Ctl
    PROVE  /\ NoSession \notin Sessions /\ NoObj \notin Objs /\ NoBuf \notin Bufs
           /\ \A t \in Threads : call[t].at \in Labels
           /\ \A s \in Sessions : list[s] \subseteq Objs /\ closing[s] \subseteq Objs
           /\ \A o \in Objs : obj[o] = NoObject => ~Live(o)
  BY MemAssumption DEF Ctl, CtlType, Live, NoObject

(* MEM_CREATE begins.                                                      *)
LEMMA CtlBegins ==
    ASSUME Ctl, CtlType', NEW t \in Threads, NEW s \in Sessions, NEW o \in Objs,
           NEW b \in Bufs, NEW own \in BOOLEAN, Begins(t, s, o, b, own)
    PROVE  Ctl'
<1>0. /\ NoSession \notin Sessions /\ NoObj \notin Objs /\ NoBuf \notin Bufs
      /\ ~Live(o)
      /\ call[t].o = NoObj /\ call[t].s = NoSession
      /\ call'[t].s = s /\ call'[t].o = o /\ call'[t].at \in Creating
      /\ list' = list /\ closing' = closing /\ OthersKeep(t)
  BY CtlFacts DEF Begins, Ctl, CallInv
<1>1. \A p \in Objs : Live(p)' <=> p = o \/ Live(p)
  BY DEF Begins, Live, ObjsKeep
<1>2. \A u \in Threads : call[u].o # o
  BY <1>0, CtlFacts DEF Ctl, CallInv, CtlType, Labels, Holding, Creating, Stuck
<1>3. \A r \in Sessions : o \notin list[r] /\ o \notin closing[r]
  BY <1>0 DEF Ctl, ListedLive
<1>4. CallInv'
  BY <1>0, <1>1 DEF Ctl, CallInv, OthersKeep, Holding, Creating, Stuck
<1>5. ObjInv'
  BY <1>1 DEF Ctl, ObjInv, Begins, ObjsKeep
<1>6. OneHand'
  BY <1>0, <1>2 DEF Ctl, OneHand, OthersKeep
<1>7. HandNotListed' /\ HandClosing'
  BY <1>0, <1>3 DEF Ctl, HandNotListed, HandClosing, OthersKeep
<1>8. ListedLive' /\ ListsApart'
  BY <1>0, <1>1 DEF Ctl, ListedLive, ListsApart
<1>9. KeptInv'
  BY <1>0, <1>1, <1>2 DEF Ctl, KeptInv, OthersKeep
<1>10. \A u \in Threads : Releaser(u)' <=> Releaser(u) /\ u # t
  BY <1>0, <1>3 DEF Releaser, OthersKeep, Creating, Begins
<1>11. \A u \in Threads : Releaser(u) => call[u].s # s /\ u # t
  BY <1>0 DEF Begins, Releaser
<1>12. OneReleaser'
  BY <1>0, <1>10, <1>11 DEF Ctl, OneReleaser, OthersKeep
<1>13. ReleaserEmptied'
  BY <1>0, <1>10 DEF Ctl, ReleaserEmptied, OthersKeep
<1>14. ClosingReleased'
  BY <1>0, <1>10, <1>11 DEF Ctl, ClosingReleased, OthersKeep
<1>15. QED
  BY <1>4, <1>5, <1>6, <1>7, <1>8, <1>9, <1>12, <1>13, <1>14 DEF Ctl

(* A step of MEM_CREATE, or the first of MEM_DESTROY.                      *)
LEMMA CtlWorks ==
    ASSUME Ctl, CtlType', NEW t \in Threads, Works(t)
    PROVE  Ctl'
<1>0. /\ call[t].s \in Sessions /\ call[t].o \in Objs /\ Live(call[t].o)
      /\ call'[t].s = call[t].s /\ call'[t].o = call[t].o
      /\ list' = list /\ closing' = closing /\ OthersKeep(t)
      /\ call'[t].at \in Holding /\ call[t].at \in Holding
  BY DEF Works, Ctl, CallInv, Holding
<1>1. \A p \in Objs : Live(p)' <=> Live(p)
  BY DEF Works, Live, ObjsKeep
<1>2. \A u \in Threads : call'[u].o = call[u].o /\ call'[u].s = call[u].s
  BY <1>0 DEF OthersKeep
<1>3. \A u \in Threads : Releaser(u)' <=> Releaser(u)
  BY <1>0, <1>2 DEF Releaser, OthersKeep, Holding, Creating, Stuck
<1>4. CallInv'
  BY <1>0, <1>1 DEF Ctl, CallInv, OthersKeep, Holding, Creating, Stuck
<1>5. ObjInv'
  BY <1>0, <1>1 DEF Ctl, ObjInv, Works, ObjsKeep
<1>6. OneHand' /\ HandNotListed'
  BY <1>0, <1>2 DEF Ctl, OneHand, HandNotListed
<1>7. HandClosing'
  BY <1>0, <1>2 DEF Ctl, HandClosing, Works, OthersKeep, Creating, Stuck
<1>8. ListedLive' /\ ListsApart'
  BY <1>0, <1>1 DEF Ctl, ListedLive, ListsApart
<1>9. KeptInv'
  BY <1>0, <1>1, <1>2 DEF Ctl, KeptInv
<1>10. OneReleaser' /\ ReleaserEmptied' /\ ClosingReleased'
  BY <1>0, <1>2, <1>3 DEF Ctl, OneReleaser, ReleaserEmptied, ClosingReleased
<1>11. QED
  BY <1>4, <1>5, <1>6, <1>7, <1>8, <1>9, <1>10 DEF Ctl

(* The object is freed.                                                    *)
LEMMA CtlDrops ==
    ASSUME Ctl, CtlType', NEW t \in Threads, Drops(t)
    PROVE  Ctl'
<1> DEFINE o == call[t].o
<1>0. /\ NoSession \notin Sessions /\ NoObj \notin Objs /\ NoBuf \notin Bufs
      /\ call[t].s \in Sessions /\ o \in Objs /\ Live(o)
      /\ list' = list /\ OthersKeep(t)
      /\ call'[t].o = NoObj
      /\ \A s \in Sessions : closing'[s] = closing[s] \ {o}
      /\ obj'[o] = NoObject /\ ObjsKeep(o)
  BY MemAssumption DEF Drops, Ctl, CallInv, Holding, Creating, Stuck
<1>1. \A p \in Objs : Live(p)' <=> Live(p) /\ p # o
  BY <1>0 DEF Live, ObjsKeep, NoObject
<1>2. \A u \in Threads : u # t => call[u].o # o
  BY <1>0 DEF Ctl, OneHand
<1>3. \A s \in Sessions : o \notin list[s]
  BY DEF Ctl, HandNotListed
<1>4. ASSUME o \in closing[call[t].s]
      PROVE  CallInv' /\ OneReleaser' /\ ReleaserEmptied' /\ ClosingReleased'
  <2>0. call'[t].at = "release" /\ call'[t].s = call[t].s
    BY <1>4 DEF Drops
  <2>1. \A u \in Threads : Releaser(u)' <=> Releaser(u)
    BY <1>0, <1>2, <1>4, <2>0 DEF Releaser, OthersKeep
  <2>2. CallInv'
    BY <1>0, <1>1, <1>2, <2>0 DEF Ctl, CallInv, OthersKeep, Holding, Creating, Stuck
  <2>3. \A u \in Threads : call'[u].s = call[u].s
    BY <1>0, <2>0 DEF OthersKeep
  <2>4. OneReleaser' /\ ReleaserEmptied' /\ ClosingReleased'
    BY <1>0, <2>1, <2>3 DEF Ctl, OneReleaser, ReleaserEmptied, ClosingReleased
  <2>5. QED
    BY <2>2, <2>4
<1>5. ASSUME o \notin closing[call[t].s]
      PROVE  CallInv' /\ OneReleaser' /\ ReleaserEmptied' /\ ClosingReleased'
  <2>0. /\ call'[t].at = "idle" /\ call'[t].s = NoSession
        /\ ~Releaser(t)
    BY <1>0, <1>5 DEF Drops, Releaser
  <2>1. \A u \in Threads : Releaser(u)' <=> Releaser(u)
    BY <1>0, <1>2, <1>5, <2>0 DEF Releaser, OthersKeep
  <2>2. CallInv'
    BY <1>0, <1>1, <1>2, <2>0 DEF Ctl, CallInv, OthersKeep, Holding, Creating, Stuck
  <2>3. \A u \in Threads : Releaser(u) => call'[u].s = call[u].s /\ u # t
    BY <1>0, <2>0 DEF OthersKeep
  <2>4. \A u \in Threads : Releaser(u) => call[u].s \in Sessions
    BY DEF Ctl, CallInv, Releaser
  <2>5. OneReleaser'
    BY <1>0, <2>0, <2>1, <2>3, <2>4 DEF Ctl, OneReleaser, OthersKeep
  <2>6. ReleaserEmptied' /\ ClosingReleased'
    BY <1>0, <2>1, <2>3 DEF Ctl, ReleaserEmptied, ClosingReleased
  <2>7. QED
    BY <2>2, <2>5, <2>6
<1>6. ObjInv'
  BY <1>0, <1>1 DEF Ctl, ObjInv, ObjsKeep
<1>7. OneHand' /\ HandNotListed'
  BY <1>0, CtlFacts DEF Ctl, OneHand, HandNotListed, OthersKeep
<1>8. HandClosing'
  BY <1>0, CtlFacts DEF Ctl, HandClosing, OthersKeep
<1>9. ListedLive' /\ ListsApart'
  BY <1>0, <1>1, <1>3 DEF Ctl, ListedLive, ListsApart
<1>10. KeptInv'
  BY <1>0, <1>1, <1>3 DEF Ctl, KeptInv, OthersKeep
<1>11. QED
  BY <1>4, <1>5, <1>6, <1>7, <1>8, <1>9, <1>10 DEF Ctl

(* The end of MEM_CREATE: the object goes from the hand to the list.       *)
LEMMA CtlCreateList ==
    ASSUME Ctl, CtlType', NEW t \in Threads, CreateList(t)
    PROVE  Ctl'
<1> DEFINE o == call[t].o
           s == call[t].s
<1>0. /\ NoSession \notin Sessions /\ NoObj \notin Objs
      /\ call[t].at = "list" /\ s \in Sessions /\ o \in Objs /\ Live(o)
      /\ closing' = closing /\ obj' = obj
  BY MemAssumption DEF CreateList, At, Ctl, CallInv, Holding, Creating, Stuck
<1>1. /\ \A r \in Sessions : list'[r] = IF r = s THEN list[s] \cup {o} ELSE list[r]
      /\ OthersKeep(t)
      /\ call'[t].at = "idle" /\ call'[t].s = NoSession /\ call'[t].o = NoObj
  BY <1>0 DEF CreateList, Return, Idle, Ctl, CtlType, OthersKeep
<1>2. \A p : Live(p)' <=> Live(p)
  BY <1>0 DEF Live
<1>3. \A u \in Threads : u # t => call[u].o # o
  BY <1>0 DEF Ctl, OneHand
<1>4. \A r \in Sessions : o \notin list[r] /\ o \notin closing[r]
  BY <1>0 DEF Ctl, HandNotListed, HandClosing, Stuck
<1>5. ~Releaser(t)
  BY <1>0, <1>4 DEF Releaser
<1>6. \A u \in Threads : Releaser(u) => call[u].s # s /\ call[u].s \in Sessions
  BY <1>0, <1>5 DEF Ctl, OneReleaser, CallInv, Releaser
<1>7. \A u \in Threads : Releaser(u)' <=> Releaser(u)
  BY <1>0, <1>1, <1>5 DEF Releaser, OthersKeep
<1>8. CallInv' /\ ObjInv'
  BY <1>0, <1>1, <1>2 DEF Ctl, CallInv, ObjInv, OthersKeep, Holding, Creating, Stuck
<1>9. OneHand'
  BY <1>0, <1>1 DEF Ctl, OneHand, OthersKeep
<1>10. HandNotListed' /\ HandClosing'
  BY <1>0, <1>1, <1>3, CtlFacts DEF Ctl, HandNotListed, HandClosing, OthersKeep
<1>11. ListedLive'
  BY <1>0, <1>1, <1>2 DEF Ctl, ListedLive
<1>12. ListsApart'
  BY <1>0, <1>1, <1>4 DEF Ctl, ListsApart
<1>13. KeptInv'
  <2> SUFFICES ASSUME NEW p \in Objs, Live(p)
               PROVE  \/ \E u \in Threads : call'[u].o = p
                      \/ \E r \in Sessions : p \in list'[r] \cup closing'[r]
    BY <1>2 DEF KeptInv
  <2>1. CASE p = o
    BY <1>0, <1>1, <2>1
  <2>2. CASE p # o
    BY <1>0, <1>1, <2>2 DEF Ctl, KeptInv, OthersKeep
  <2>3. QED
    BY <2>1, <2>2
<1>14. OneReleaser'
  BY <1>0, <1>1, <1>6, <1>7 DEF Ctl, OneReleaser, OthersKeep
<1>15. ReleaserEmptied'
  BY <1>1, <1>5, <1>6, <1>7 DEF Ctl, ReleaserEmptied, OthersKeep
<1>16. ClosingReleased'
  BY <1>0, <1>1, <1>5, <1>7 DEF Ctl, ClosingReleased, OthersKeep
<1>17. QED
  BY <1>8, <1>9, <1>10, <1>11, <1>12, <1>13, <1>14, <1>15, <1>16 DEF Ctl

(* MEM_DESTROY: the object goes from the list to the hand.                 *)
LEMMA CtlDestroy ==
    ASSUME Ctl, CtlType', NEW t \in Threads, NEW s \in Sessions, NEW o \in Objs,
           Destroy(t, s, o)
    PROVE  Ctl'
<1>0. /\ NoSession \notin Sessions /\ NoObj \notin Objs
      /\ call[t].s = NoSession /\ call[t].o = NoObj /\ call[t].at = "idle"
      /\ o \in list[s] /\ Live(o)
      /\ closing' = closing /\ obj' = obj
  BY MemAssumption DEF Destroy, At, Ctl, CallInv, ListedLive
<1>1. /\ \A r \in Sessions : list'[r] = IF r = s THEN list[s] \ {o} ELSE list[r]
      /\ OthersKeep(t)
      /\ call'[t].at = "unmap" /\ call'[t].s = s /\ call'[t].o = o
  BY <1>0 DEF Destroy, Idle, Ctl, CtlType, OthersKeep
<1>2. \A p : Live(p)' <=> Live(p)
  BY <1>0 DEF Live
<1>3. \A u \in Threads : call[u].o # o
  BY <1>0 DEF Ctl, HandNotListed
<1>4. \A r \in Sessions : o \notin closing[r] /\ (o \in list[r] => r = s)
  BY <1>0 DEF Ctl, ListsApart
<1>5. \A u \in Threads : Releaser(u) => call[u].s # s /\ u # t
  BY <1>0 DEF Ctl, ReleaserEmptied, Releaser
<1>6. \A u \in Threads : Releaser(u)' <=> Releaser(u)
  BY <1>0, <1>1, <1>4, <1>5 DEF Releaser, OthersKeep
<1>7. CallInv' /\ ObjInv'
  BY <1>0, <1>1, <1>2 DEF Ctl, CallInv, ObjInv, OthersKeep, Holding, Creating, Stuck
<1>8. OneHand'
  BY <1>0, <1>1, <1>3 DEF Ctl, OneHand, OthersKeep
<1>9. HandNotListed' /\ HandClosing'
  BY <1>0, <1>1, <1>4 DEF Ctl, HandNotListed, HandClosing, OthersKeep
<1>10. ListedLive' /\ ListsApart'
  BY <1>0, <1>1, <1>2 DEF Ctl, ListedLive, ListsApart
<1>11. KeptInv'
  <2> SUFFICES ASSUME NEW p \in Objs, Live(p)
               PROVE  \/ \E u \in Threads : call'[u].o = p
                      \/ \E r \in Sessions : p \in list'[r] \cup closing'[r]
    BY <1>2 DEF KeptInv
  <2>1. CASE p = o
    BY <1>1, <2>1
  <2>2. CASE p # o
    BY <1>0, <1>1, <2>2 DEF Ctl, KeptInv, OthersKeep
  <2>3. QED
    BY <2>1, <2>2
<1>12. OneReleaser'
  BY <1>0, <1>1, <1>5, <1>6 DEF Ctl, OneReleaser, OthersKeep
<1>13. ReleaserEmptied'
  <2>1. \A u \in Threads : Releaser(u) => call[u].s \in Sessions
    BY DEF Ctl, CallInv, Releaser
  <2>2. QED
    BY <1>0, <1>1, <1>5, <1>6, <2>1 DEF Ctl, ReleaserEmptied, OthersKeep
<1>14. ClosingReleased'
  BY <1>0, <1>1, <1>5, <1>6 DEF Ctl, ClosingReleased, OthersKeep
<1>15. QED
  BY <1>7, <1>8, <1>9, <1>10, <1>11, <1>12, <1>13, <1>14 DEF Ctl

(* rknpu_release moves the list of its session to its own.                 *)
LEMMA CtlRelease ==
    ASSUME Ctl, CtlType', NEW t \in Threads, NEW s \in Sessions, Release(t, s)
    PROVE  Ctl'
<1>0. /\ NoSession \notin Sessions /\ NoObj \notin Objs
      /\ call[t].s = NoSession /\ call[t].o = NoObj /\ call[t].at = "idle"
      /\ obj' = obj
      /\ \A u \in Threads : call[u].s # s
  BY MemAssumption DEF Release, At, Busy, Ctl, CallInv
<1>1. /\ \A r \in Sessions : list'[r] = IF r = s THEN {} ELSE list[r]
      /\ \A r \in Sessions : closing'[r] = IF r = s THEN list[s] ELSE closing[r]
      /\ OthersKeep(t)
      /\ call'[t].at = "release" /\ call'[t].s = s /\ call'[t].o = NoObj
  BY <1>0 DEF Release, Idle, Ctl, CtlType, OthersKeep
<1>2. \A p : Live(p)' <=> Live(p)
  BY <1>0 DEF Live
<1>3. closing[s] = {}
  BY <1>0 DEF Ctl, ClosingReleased
<1>4. \A u \in Threads : Releaser(u)' <=> Releaser(u) \/ u = t
  BY <1>0, <1>1 DEF Releaser, OthersKeep
<1>5. CallInv' /\ ObjInv'
  BY <1>0, <1>1, <1>2 DEF Ctl, CallInv, ObjInv, OthersKeep, Holding, Creating, Stuck
<1>6. OneHand'
  BY <1>0, <1>1 DEF Ctl, OneHand, OthersKeep
<1>7. HandNotListed'
  BY <1>0, <1>1, CtlFacts DEF Ctl, HandNotListed, OthersKeep
<1>8. HandClosing'
  BY <1>0, <1>1, CtlFacts DEF Ctl, HandClosing, HandNotListed, OthersKeep
<1>9. ListedLive'
  BY <1>1, <1>2 DEF Ctl, ListedLive
<1>10. ListsApart'
  BY <1>1 DEF Ctl, ListsApart
<1>11. KeptInv'
  BY <1>0, <1>1, <1>2, <1>3 DEF Ctl, KeptInv, OthersKeep
<1>12. OneReleaser' /\ ReleaserEmptied'
  <2>1. \A u \in Threads : Releaser(u) => call[u].s \in Sessions
    BY DEF Ctl, CallInv, Releaser
  <2>2. OneReleaser'
    BY <1>0, <1>1, <1>4 DEF Ctl, OneReleaser, OthersKeep
  <2>3. ReleaserEmptied'
    BY <1>0, <1>1, <1>4, <2>1 DEF Ctl, ReleaserEmptied, OthersKeep
  <2>4. QED
    BY <2>2, <2>3
<1>13. ClosingReleased'
  BY <1>0, <1>1, <1>4 DEF Ctl, ClosingReleased, OthersKeep
<1>14. QED
  BY <1>5, <1>6, <1>7, <1>8, <1>9, <1>10, <1>11, <1>12, <1>13 DEF Ctl

(* rknpu_release takes the next object of its list, or ends.               *)
LEMMA CtlReleaseNext ==
    ASSUME Ctl, CtlType', NEW t \in Threads, ReleaseNext(t)
    PROVE  Ctl'
<1> DEFINE s == call[t].s
<1>0. /\ NoSession \notin Sessions /\ NoObj \notin Objs
      /\ s \in Sessions /\ call[t].o = NoObj /\ call[t].at = "release"
      /\ obj' = obj /\ list' = list /\ closing' = closing /\ Releaser(t)
  BY MemAssumption DEF ReleaseNext, At, Ctl, CallInv, Releaser
<1>1. \A p : Live(p)' <=> Live(p)
  BY <1>0 DEF Live
<1>2. ObjInv' /\ ListedLive' /\ ListsApart'
  BY <1>0, <1>1 DEF Ctl, ObjInv, ListedLive, ListsApart
<1>3. ASSUME NEW o \in closing[s], call' = [call EXCEPT ![t].at = "unmap", ![t].o = o]
      PROVE  Ctl'
  <2>1. /\ OthersKeep(t)
        /\ call'[t].at = "unmap" /\ call'[t].s = s /\ call'[t].o = o
    BY <1>3 DEF Ctl, CtlType, OthersKeep
  <2>2. o \in Objs /\ Live(o)
    BY <1>0, CtlFacts DEF Ctl, ListedLive
  <2>3. \A u \in Threads : call[u].o # o
    BY <1>0, <2>2 DEF Ctl, HandClosing, OneReleaser
  <2>4. \A u \in Threads : Releaser(u)' <=> Releaser(u)
    BY <1>0, <2>1 DEF Releaser, OthersKeep
  <2>5. CallInv'
    BY <1>0, <1>1, <2>1, <2>2 DEF Ctl, CallInv, OthersKeep, Holding, Creating, Stuck
  <2>6. OneHand'
    BY <2>1, <2>3 DEF Ctl, OneHand, OthersKeep
  <2>7. HandNotListed' /\ HandClosing'
    BY <1>0, <2>1, <2>2 DEF Ctl, HandNotListed, HandClosing, ListsApart, OthersKeep
  <2>8. KeptInv'
    BY <1>0, <1>1, <2>1 DEF Ctl, KeptInv, OthersKeep
  <2>9. \A u \in Threads : call'[u].s = call[u].s
    BY <2>1 DEF OthersKeep
  <2>10. OneReleaser' /\ ReleaserEmptied' /\ ClosingReleased'
    BY <1>0, <2>4, <2>9 DEF Ctl, OneReleaser, ReleaserEmptied, ClosingReleased
  <2>11. QED
    BY <1>2, <2>5, <2>6, <2>7, <2>8, <2>10 DEF Ctl
<1>4. ASSUME closing[s] = {}, Return(t)
      PROVE  Ctl'
  <2>1. /\ OthersKeep(t)
        /\ call'[t].at = "idle" /\ call'[t].s = NoSession /\ call'[t].o = NoObj
    BY <1>4 DEF Return, Idle, Ctl, CtlType, OthersKeep
  <2>2. \A u \in Threads : Releaser(u)' <=> Releaser(u) /\ u # t
    BY <1>0, <2>1 DEF Releaser, OthersKeep
  <2>3. CallInv'
    BY <1>0, <1>1, <2>1 DEF Ctl, CallInv, OthersKeep, Holding, Creating, Stuck
  <2>4. \A u \in Threads : call'[u].o = call[u].o
    BY <1>0, <2>1 DEF OthersKeep
  <2>5. OneHand' /\ HandNotListed' /\ KeptInv'
    BY <1>0, <1>1, <2>4 DEF Ctl, OneHand, HandNotListed, KeptInv
  <2>6. HandClosing'
    BY <1>0, <2>1, CtlFacts DEF Ctl, HandClosing, OthersKeep
  <2>7. \A u \in Threads : Releaser(u) => call[u].s \in Sessions
    BY DEF Ctl, CallInv, Releaser
  <2>8. OneReleaser' /\ ReleaserEmptied'
    BY <1>0, <2>1, <2>2, <2>7 DEF Ctl, OneReleaser, ReleaserEmptied, OthersKeep
  <2>9. ClosingReleased'
    BY <1>0, <1>4, <2>1, <2>2 DEF Ctl, ClosingReleased, OthersKeep
  <2>10. QED
    BY <1>2, <2>3, <2>5, <2>6, <2>8, <2>9 DEF Ctl
<1>5. QED
  BY <1>3, <1>4 DEF ReleaseNext
----------------------------------------------------------------------------
(* Counting objects.                                                       *)
LEMMA CountObjs ==
    ASSUME NEW S \in SUBSET Objs, NEW o \in Objs
    PROVE  /\ IsFiniteSet(S) /\ Cardinality(S) \in Nat
           /\ o \notin S => Cardinality(S \cup {o}) = Cardinality(S) + 1
           /\ o \in S => Cardinality(S) > 0 /\ Cardinality(S \ {o}) = Cardinality(S) - 1
<1>1. IsFiniteSet(S)
  BY MemAssumption, FS_Subset
<1>2. Cardinality(S) \in Nat
  BY <1>1, FS_CardinalityType
<1>3. o \notin S => Cardinality(S \cup {o}) = Cardinality(S) + 1
  BY <1>1, FS_AddElement
<1>4. o \in S => Cardinality(S) > 0
  BY <1>1, <1>2, FS_EmptySet
<1>5. o \in S => Cardinality(S \ {o}) = Cardinality(S) - 1
  BY <1>1, FS_RemoveElement
<1>6. QED
  BY <1>1, <1>2, <1>3, <1>4, <1>5

(* The objects of b that are attached, and those mapped into the kernel.   *)
On(b) == {o \in Objs : /\ obj[o].buf = b
                       /\ \A t \in Threads : call[t].o = o => call[t].at \notin Off}
Kv(b) == {o \in Objs : obj[o].buf = b /\ obj[o].kv}

(* Attachments and kernel mappings are counted by their objects; before    *)
(* the mapping and after its end an object has none.                       *)
AttInv == attached \in [Bufs -> Nat] /\ \A b \in Bufs : attached[b] = Cardinality(On(b))
VmapInv == vmapped \in [Bufs -> Nat] /\ \A b \in Bufs : vmapped[b] = Cardinality(Kv(b))
KvInv == \A t \in Threads : call[t].at \in Unmapped => obj[call[t].o].kv = FALSE

(* A thread that works has a live object.                                  *)
LEMMA WorksHas ==
    ASSUME Ctl, NEW t \in Threads, Works(t)
    PROVE  call[t].o \in Objs /\ Buf(t) \in Bufs
  BY DEF Works, Ctl, CallInv, Holding, Live, Buf

(* A step that works on an object moves only that object in or out of the  *)
(* attached ones.                                                          *)
LEMMA OnWorks ==
    ASSUME Ctl, CtlType', NEW t \in Threads, Works(t), NEW b \in Bufs
    PROVE  /\ b # Buf(t) => On(b)' = On(b)
           /\ b = Buf(t) =>
                 /\ call'[t].at \in Off => On(b)' = On(b) \ {call[t].o}
                 /\ call'[t].at \notin Off => On(b)' = On(b) \cup {call[t].o}
                 /\ call[t].o \in On(b) <=> call[t].at \notin Off
<1>1. call[t].o \in Objs /\ Buf(t) \in Bufs
  BY WorksHas
<1>2. \A u \in Threads : u # t => call[u].o # call[t].o
  BY <1>1 DEF Ctl, OneHand
<1>3. /\ \A p \in Objs : obj'[p].buf = obj[p].buf
      /\ \A u \in Threads : call'[u].o = call[u].o
      /\ \A u \in Threads : u # t => call'[u].at = call[u].at
  BY DEF Works, OthersKeep, ObjsKeep
<1>4. b # Buf(t) => On(b)' = On(b)
  BY <1>1, <1>2, <1>3 DEF On, Buf
<1>5. ASSUME b = Buf(t)
      PROVE  /\ call'[t].at \in Off => On(b)' = On(b) \ {call[t].o}
             /\ call'[t].at \notin Off => On(b)' = On(b) \cup {call[t].o}
             /\ call[t].o \in On(b) <=> call[t].at \notin Off
  <2>1. \A p \in Objs : p # call[t].o => (p \in On(b)' <=> p \in On(b))
    BY <1>2, <1>3 DEF On
  <2>2. call[t].o \in On(b)' <=> call'[t].at \notin Off
    BY <1>1, <1>2, <1>3, <1>5 DEF On, Buf
  <2>3. call[t].o \in On(b) <=> call[t].at \notin Off
    BY <1>1, <1>2, <1>5 DEF On, Buf
  <2>4. On(b)' \subseteq Objs /\ On(b) \subseteq Objs
    BY DEF On
  <2>5. QED
    BY <1>1, <2>1, <2>2, <2>3, <2>4
<1>6. QED
  BY <1>4, <1>5

(* Nor does it map another object.                                         *)
LEMMA KvWorks ==
    ASSUME Ctl, CtlType', NEW t \in Threads, Works(t), NEW b \in Bufs
    PROVE  /\ b # Buf(t) => Kv(b)' = Kv(b)
           /\ b = Buf(t) =>
                 /\ obj'[call[t].o].kv = FALSE => Kv(b)' = Kv(b) \ {call[t].o}
                 /\ obj'[call[t].o].kv = TRUE => Kv(b)' = Kv(b) \cup {call[t].o}
                 /\ obj[call[t].o].kv = TRUE => call[t].o \in Kv(b)
                 /\ obj[call[t].o].kv = FALSE => call[t].o \notin Kv(b)
<1>1. call[t].o \in Objs /\ Buf(t) \in Bufs
  BY WorksHas
<1>2. /\ \A p \in Objs : obj'[p].buf = obj[p].buf
      /\ \A p \in Objs : p # call[t].o => obj'[p] = obj[p]
  BY DEF Works, ObjsKeep
<1>3. b # Buf(t) => Kv(b)' = Kv(b)
  BY <1>1, <1>2 DEF Kv, Buf
<1>4. ASSUME b = Buf(t)
      PROVE  /\ obj'[call[t].o].kv = FALSE => Kv(b)' = Kv(b) \ {call[t].o}
             /\ obj'[call[t].o].kv = TRUE => Kv(b)' = Kv(b) \cup {call[t].o}
             /\ obj[call[t].o].kv = TRUE => call[t].o \in Kv(b)
             /\ obj[call[t].o].kv = FALSE => call[t].o \notin Kv(b)
  BY <1>1, <1>2, <1>4 DEF Kv, Buf
<1>5. QED
  BY <1>3, <1>4

(* Attaching counts one more, detaching one less, and whatever does        *)
(* neither leaves the count alone.                                         *)
LEMMA AttWorks ==
    ASSUME Ctl, CtlType', AttInv, NEW t \in Threads, Works(t),
           \/ (call[t].at \in Off <=> call'[t].at \in Off) /\ attached' = attached
           \/ /\ call[t].at \in Off /\ call'[t].at \notin Off
              /\ attached' = [attached EXCEPT ![Buf(t)] = @ + 1]
           \/ /\ call[t].at \notin Off /\ call'[t].at \in Off
              /\ attached' = [attached EXCEPT ![Buf(t)] = @ - 1]
    PROVE  AttInv'
<1> DEFINE o == call[t].o
<1>0. attached \in [Bufs -> Nat] /\ o \in Objs /\ Buf(t) \in Bufs
  BY WorksHas DEF AttInv
<1>1. \A b \in Bufs : On(b) \in SUBSET Objs
  BY DEF On
<1>2. attached[Buf(t)] = Cardinality(On(Buf(t))) /\ attached[Buf(t)] \in Nat
  BY <1>0 DEF AttInv
<1>3. call[t].at \notin Off => attached[Buf(t)] > 0
  <2>1. ASSUME NEW b \in Bufs, b = Buf(t), call[t].at \notin Off PROVE Cardinality(On(b)) > 0
    <3>1. o \in On(b)
      BY <2>1, OnWorks
    <3>2. QED
      BY <1>0, <1>1, <3>1, CountObjs
  <2>2. QED
    BY <1>0, <1>2, <2>1
<1>4. attached' \in [Bufs -> Nat]
  BY <1>0, <1>2, <1>3
<1>5. ASSUME NEW b \in Bufs PROVE attached'[b] = Cardinality(On(b)')
  <2>1. attached[b] = Cardinality(On(b)) /\ attached[b] \in Nat
    BY <1>0 DEF AttInv
  <2>2. CASE b # Buf(t)
    BY <1>0, <2>1, <2>2, OnWorks
  <2>3. CASE b = Buf(t)
    <3>1. CASE (call[t].at \in Off <=> call'[t].at \in Off) /\ attached' = attached
      <4>1. On(b)' = On(b)
        BY <2>3, <3>1, OnWorks
      <4>2. QED
        BY <2>1, <3>1, <4>1
    <3>2. CASE /\ call[t].at \in Off /\ call'[t].at \notin Off
               /\ attached' = [attached EXCEPT ![Buf(t)] = @ + 1]
      <4>1. attached'[b] = attached[b] + 1
        BY <1>0, <2>3, <3>2
      <4>2. On(b)' = On(b) \cup {o} /\ o \notin On(b)
        BY <2>3, <3>2, OnWorks
      <4>3. QED
        BY <1>0, <1>1, <2>1, <4>1, <4>2, CountObjs
    <3>3. CASE /\ call[t].at \notin Off /\ call'[t].at \in Off
               /\ attached' = [attached EXCEPT ![Buf(t)] = @ - 1]
      <4>1. attached'[b] = attached[b] - 1
        BY <1>0, <2>3, <3>3
      <4>2. On(b)' = On(b) \ {o} /\ o \in On(b)
        BY <2>3, <3>3, OnWorks
      <4>3. QED
        BY <1>0, <1>1, <2>1, <4>1, <4>2, CountObjs
    <3>4. QED
      BY <3>1, <3>2, <3>3
  <2>4. QED
    BY <2>2, <2>3
<1>6. QED
  BY <1>4, <1>5 DEF AttInv

(* The same for kernel mappings and kv_addr.                               *)
LEMMA VmapWorks ==
    ASSUME Ctl, CtlType', VmapInv, NEW t \in Threads, Works(t),
           \/ obj'[call[t].o].kv = obj[call[t].o].kv /\ vmapped' = vmapped
           \/ /\ obj[call[t].o].kv = FALSE /\ obj'[call[t].o].kv = TRUE
              /\ vmapped' = [vmapped EXCEPT ![Buf(t)] = @ + 1]
           \/ /\ obj[call[t].o].kv = TRUE /\ obj'[call[t].o].kv = FALSE
              /\ vmapped' = [vmapped EXCEPT ![Buf(t)] = @ - 1]
    PROVE  VmapInv'
<1> DEFINE o == call[t].o
<1>0. vmapped \in [Bufs -> Nat] /\ o \in Objs /\ Buf(t) \in Bufs
  BY WorksHas DEF VmapInv
<1>1. \A b \in Bufs : Kv(b) \in SUBSET Objs
  BY DEF Kv
<1>2. vmapped[Buf(t)] = Cardinality(Kv(Buf(t))) /\ vmapped[Buf(t)] \in Nat
  BY <1>0 DEF VmapInv
<1>3. obj[o].kv = TRUE => vmapped[Buf(t)] > 0
  <2>1. ASSUME NEW b \in Bufs, b = Buf(t), obj[o].kv = TRUE PROVE Cardinality(Kv(b)) > 0
    <3>1. o \in Kv(b)
      BY <2>1, KvWorks
    <3>2. QED
      BY <1>0, <1>1, <3>1, CountObjs
  <2>2. QED
    BY <1>0, <1>2, <2>1
<1>4. vmapped' \in [Bufs -> Nat]
  BY <1>0, <1>2, <1>3
<1>5. ASSUME NEW b \in Bufs PROVE vmapped'[b] = Cardinality(Kv(b)')
  <2>1. vmapped[b] = Cardinality(Kv(b)) /\ vmapped[b] \in Nat
    BY <1>0 DEF VmapInv
  <2>2. CASE b # Buf(t)
    BY <1>0, <2>1, <2>2, KvWorks
  <2>3. CASE b = Buf(t)
    <3>1. CASE obj'[o].kv = obj[o].kv /\ vmapped' = vmapped
      <4>0. obj[o].kv \in BOOLEAN
        BY <1>0 DEF Ctl, CtlType
      <4>1. Kv(b)' = Kv(b)
        <5>1. CASE obj[o].kv = TRUE
          <6>1. Kv(b)' = Kv(b) \cup {o} /\ o \in Kv(b)
            BY <2>3, <3>1, <5>1, KvWorks
          <6>2. QED
            BY <6>1
        <5>2. CASE obj[o].kv = FALSE
          <6>1. Kv(b)' = Kv(b) \ {o} /\ o \notin Kv(b)
            BY <2>3, <3>1, <5>2, KvWorks
          <6>2. QED
            BY <6>1
        <5>3. QED
          BY <4>0, <5>1, <5>2
      <4>2. QED
        BY <2>1, <3>1, <4>1
    <3>2. CASE /\ obj[o].kv = FALSE /\ obj'[o].kv = TRUE
               /\ vmapped' = [vmapped EXCEPT ![Buf(t)] = @ + 1]
      <4>1. vmapped'[b] = vmapped[b] + 1
        BY <1>0, <2>3, <3>2
      <4>2. Kv(b)' = Kv(b) \cup {o} /\ o \notin Kv(b)
        BY <2>3, <3>2, KvWorks
      <4>3. QED
        BY <1>0, <1>1, <2>1, <4>1, <4>2, CountObjs
    <3>3. CASE /\ obj[o].kv = TRUE /\ obj'[o].kv = FALSE
               /\ vmapped' = [vmapped EXCEPT ![Buf(t)] = @ - 1]
      <4>1. vmapped'[b] = vmapped[b] - 1
        BY <1>0, <2>3, <3>3
      <4>2. Kv(b)' = Kv(b) \ {o} /\ o \in Kv(b)
        BY <2>3, <3>3, KvWorks
      <4>3. QED
        BY <1>0, <1>1, <2>1, <4>1, <4>2, CountObjs
    <3>4. QED
      BY <3>1, <3>2, <3>3
  <2>4. QED
    BY <2>2, <2>3
<1>6. QED
  BY <1>4, <1>5 DEF VmapInv

(* Beginning and freeing an object concern no attached or mapped object.   *)
LEMMA MapsBegins ==
    ASSUME Ctl, AttInv, VmapInv, NEW t \in Threads, NEW s \in Sessions, NEW o \in Objs,
           NEW b \in Bufs, NEW own \in BOOLEAN, Begins(t, s, o, b, own),
           attached' = attached, vmapped' = vmapped
    PROVE  AttInv' /\ VmapInv'
<1>0. /\ ~Live(o) /\ call[t].o = NoObj /\ NoObj \notin Objs
      /\ call'[t].o = o /\ call'[t].at \in Off /\ OthersKeep(t) /\ ObjsKeep(o)
      /\ obj'[o].kv = FALSE
  BY CtlFacts DEF Begins, Ctl, CallInv, Off
<1>1. \A u \in Threads : call[u].o # o
  BY <1>0, CtlFacts DEF Ctl, CallInv, Labels, Holding, Creating, Stuck
<1>2. ASSUME NEW c \in Bufs PROVE On(c)' = On(c)
  <2>1. \A p \in Objs : p # o => (p \in On(c)' <=> p \in On(c))
    BY <1>0 DEF On, OthersKeep, ObjsKeep
  <2>2. o \notin On(c) /\ o \notin On(c)'
    BY <1>0 DEF On, Live
  <2>3. On(c)' \subseteq Objs /\ On(c) \subseteq Objs
    BY DEF On
  <2>4. QED
    BY <2>1, <2>2, <2>3
<1>3. ASSUME NEW c \in Bufs PROVE Kv(c)' = Kv(c)
  BY <1>0 DEF Kv, ObjsKeep, Live
<1>4. QED
  BY <1>2, <1>3 DEF AttInv, VmapInv

(* An object that is freed was detached and unmapped before.               *)
LEMMA MapsDrops ==
    ASSUME Ctl, AttInv, VmapInv, KvInv, NEW t \in Threads, Drops(t),
           attached' = attached, vmapped' = vmapped
    PROVE  AttInv' /\ VmapInv'
<1> DEFINE o == call[t].o
<1>0. /\ NoObj \notin Objs /\ NoBuf \notin Bufs /\ o \in Objs
      /\ call[t].at \in Off /\ call'[t].o = NoObj /\ OthersKeep(t) /\ ObjsKeep(o)
      /\ obj[o].kv = FALSE /\ obj'[o].buf = NoBuf
  BY MemAssumption DEF Drops, Ctl, CallInv, Holding, Creating, Stuck, Off, Unmapped, KvInv, NoObject
<1>1. ASSUME NEW c \in Bufs PROVE On(c)' = On(c)
  <2>1. \A p \in Objs : p # o => (p \in On(c)' <=> p \in On(c))
    BY <1>0 DEF On, OthersKeep, ObjsKeep
  <2>2. o \notin On(c) /\ o \notin On(c)'
    BY <1>0 DEF On
  <2>3. On(c)' \subseteq Objs /\ On(c) \subseteq Objs
    BY DEF On
  <2>4. QED
    BY <2>1, <2>2, <2>3
<1>2. ASSUME NEW c \in Bufs PROVE Kv(c)' = Kv(c)
  <2>1. \A p \in Objs : p # o => (p \in Kv(c)' <=> p \in Kv(c))
    BY <1>0 DEF Kv, ObjsKeep
  <2>2. o \notin Kv(c) /\ o \notin Kv(c)'
    BY <1>0 DEF Kv
  <2>3. Kv(c)' \subseteq Objs /\ Kv(c) \subseteq Objs
    BY DEF Kv
  <2>4. QED
    BY <2>1, <2>2, <2>3
<1>3. QED
  BY <1>1, <1>2 DEF AttInv, VmapInv

(* A thread that passes an object on, to or from a list, unchanged.        *)
Passes(t) ==
    /\ call[t].at \in {"idle", "list", "release"}
    /\ call'[t].at \in {"idle", "unmap", "release"}
    /\ obj' = obj /\ OthersKeep(t) /\ UNCHANGED bufVars

(* Going on or off a list attaches, detaches and maps nothing.             *)
LEMMA MapsPasses ==
    ASSUME Ctl, AttInv, VmapInv, KvInv, NEW t \in Threads, Passes(t)
    PROVE  AttInv' /\ VmapInv' /\ KvInv'
<1>1. /\ obj' = obj /\ OthersKeep(t) /\ attached' = attached /\ vmapped' = vmapped
      /\ call[t].at \notin Off /\ call'[t].at \notin Off \cup Unmapped
  BY DEF Passes, bufVars, Off, Unmapped
<1>2. \A c \in Bufs : On(c)' = On(c)
  BY <1>1 DEF On, OthersKeep
<1>3. \A c \in Bufs : Kv(c)' = Kv(c)
  BY <1>1 DEF Kv
<1>4. KvInv'
  BY <1>1 DEF KvInv, OthersKeep
<1>5. QED
  BY <1>1, <1>2, <1>3, <1>4 DEF AttInv, VmapInv
----------------------------------------------------------------------------
(* An allocation whose fd is being made, or was not made, has the buffer   *)
(* for itself; a buffer has one object of its allocation at most, and      *)
(* while there is one nobody has put the reference of its fd.              *)
Fresh == {"fd", "err_fd"}
FreshAlone ==
    \A t \in Threads : call[t].at \in Fresh =>
        /\ obj[call[t].o].owner = TRUE /\ fds[Buf(t)] = 0
        /\ \A p \in Objs : obj[p].buf = Buf(t) => p = call[t].o
OneAllocated ==
    \A o, p \in Objs :
        (/\ Live(o) /\ obj[o].owner = TRUE
         /\ obj[p].owner = TRUE /\ obj[p].buf = obj[o].buf) => o = p
NotDangling == \A o \in Objs : Live(o) /\ obj[o].owner = TRUE => obj[o].buf \notin dangling

OwnInv == FreshAlone /\ OneAllocated /\ NotDangling

(* RefExact, with the owner's flag a value.                                *)
ImportsOf(b) == {o \in Objs : obj[o].buf = b /\ obj[o].owner = FALSE}
HasFresh(b) == \E t \in Threads : call[t].at \in Fresh /\ Buf(t) = b
Pending(b) == IF HasFresh(b) THEN 1 ELSE 0
Taken(b) == IF b \in dangling THEN 1 ELSE 0
RefInv ==
    /\ fds \in [Bufs -> 0 .. MaxFds]
    /\ ref \in [Bufs -> Int]
    /\ \A b \in Bufs :
          ref[b] = fds[b] + Cardinality(ImportsOf(b)) + Pending(b) - Taken(b)

(* The numbers a count of references is made of.                           *)
LEMMA RefFacts ==
    ASSUME Ctl, RefInv, NEW b \in Bufs
    PROVE  /\ fds[b] \in Nat /\ ref[b] \in Int /\ Pending(b) \in {0, 1} /\ Taken(b) \in {0, 1}
           /\ ImportsOf(b) \in SUBSET Objs /\ Cardinality(ImportsOf(b)) \in Nat
           /\ ref[b] = fds[b] + Cardinality(ImportsOf(b)) + Pending(b) - Taken(b)
<1>1. fds[b] \in Nat /\ ref[b] \in Int
  BY MemAssumption DEF RefInv
<1>2. Pending(b) \in {0, 1} /\ Taken(b) \in {0, 1}
  BY DEF Pending, Taken
<1>3. ImportsOf(b) \in SUBSET Objs
  BY DEF ImportsOf
<1>4. IsFiniteSet(ImportsOf(b)) /\ Cardinality(ImportsOf(b)) \in Nat
  BY <1>3, MemAssumption, FS_Subset, FS_CardinalityType
<1>5. QED
  BY <1>1, <1>2, <1>3, <1>4 DEF RefInv

(* A fresh allocation is the only one of its buffer.                       *)
LEMMA OneFresh ==
    ASSUME Ctl, OwnInv, NEW t \in Threads, NEW u \in Threads,
           call[t].at \in Fresh, call[u].at \in Fresh, Buf(t) = Buf(u)
    PROVE  t = u
<1>1. call[t].o \in Objs /\ call[u].o \in Objs
  BY DEF Ctl, CallInv, Holding, Creating, Stuck, Fresh
<1>2. call[u].o = call[t].o
  BY <1>1 DEF OwnInv, FreshAlone, Buf
<1>3. QED
  BY <1>1, <1>2 DEF Ctl, OneHand

(* Steps that leave buffers, ownership and fresh allocations alone.        *)
LEMMA RefKeeps ==
    ASSUME Ctl, RefInv, \A p \in Objs : obj'[p].buf = obj[p].buf /\ obj'[p].owner = obj[p].owner,
           \A b \in Bufs : HasFresh(b)' <=> HasFresh(b),
           fds' = fds, ref' = ref, dangling' = dangling
    PROVE  RefInv'
<1>1. \A b \in Bufs : ImportsOf(b)' = ImportsOf(b)
  BY DEF ImportsOf
<1>2. \A b \in Bufs : Pending(b)' = Pending(b) /\ Taken(b)' = Taken(b)
  BY DEF Pending, Taken
<1>3. QED
  BY <1>1, <1>2 DEF RefInv

(* A step of MEM_CREATE or MEM_DESTROY other than dma_buf_fd.              *)
LEMMA OwnWorks ==
    ASSUME Ctl, CtlType', RefInv, OwnInv, NEW t \in Threads, Works(t),
           call'[t].at \in Fresh <=> call[t].at \in Fresh,
           fds' = fds, ref' = ref, dangling' = dangling
    PROVE  RefInv' /\ OwnInv'
<1>0. /\ call[t].o \in Objs /\ Buf(t) \in Bufs
      /\ \A u \in Threads : call'[u].o = call[u].o
      /\ \A u \in Threads : call'[u].at \in Fresh <=> call[u].at \in Fresh
  BY WorksHas DEF Works, OthersKeep
<1>1. \A p \in Objs : obj'[p].buf = obj[p].buf /\ obj'[p].owner = obj[p].owner
  BY DEF Works, ObjsKeep
<1>2. \A u \in Threads : call[u].at \in Fresh => call[u].o \in Objs
  BY DEF Ctl, CallInv, Holding, Creating, Stuck, Fresh
<1>3. \A b \in Bufs : HasFresh(b)' <=> HasFresh(b)
  BY <1>0, <1>1, <1>2 DEF HasFresh, Buf
<1>4. RefInv'
  BY <1>1, <1>3, RefKeeps
<1>5. FreshAlone'
  BY <1>0, <1>1, <1>2 DEF OwnInv, FreshAlone, Buf
<1>6. OneAllocated' /\ NotDangling'
  BY <1>1 DEF OwnInv, OneAllocated, NotDangling, Live
<1>7. QED
  BY <1>4, <1>5, <1>6 DEF OwnInv

(* A thread that passes an object on.                                      *)
LEMMA OwnPasses ==
    ASSUME Ctl, RefInv, OwnInv, NEW t \in Threads, Passes(t)
    PROVE  RefInv' /\ OwnInv'
<1>1. /\ obj' = obj /\ OthersKeep(t) /\ fds' = fds /\ ref' = ref /\ dangling' = dangling
      /\ call[t].at \notin Fresh /\ call'[t].at \notin Fresh
  BY DEF Passes, bufVars, Fresh
<1>2. \A b \in Bufs : HasFresh(b)' <=> HasFresh(b)
  BY <1>1 DEF HasFresh, Buf, OthersKeep
<1>3. RefInv'
  BY <1>1, <1>2, RefKeeps
<1>4. FreshAlone'
  BY <1>1 DEF OwnInv, FreshAlone, Buf, OthersKeep
<1>5. OneAllocated' /\ NotDangling'
  BY <1>1 DEF OwnInv, OneAllocated, NotDangling, Live
<1>6. QED
  BY <1>3, <1>4, <1>5 DEF OwnInv

(* dma_buf_fd hands the reference of the allocation to the fd.             *)
LEMMA OwnFd ==
    ASSUME Ctl, CtlType', RefInv, OwnInv, NEW t \in Threads, Works(t),
           call[t].at = "fd", call'[t].at = "attach",
           fds' = [fds EXCEPT ![Buf(t)] = @ + 1], ref' = ref, dangling' = dangling
    PROVE  RefInv' /\ OwnInv'
<1> DEFINE b == Buf(t)
           o == call[t].o
<1>0. /\ o \in Objs /\ b \in Bufs /\ b = obj[o].buf
      /\ \A u \in Threads : call'[u].o = call[u].o
      /\ \A u \in Threads : u # t => call'[u].at = call[u].at
      /\ call[t].at \in Fresh /\ call'[t].at \notin Fresh
  BY WorksHas DEF Works, OthersKeep, Buf, Fresh
<1>1. \A p \in Objs : obj'[p].buf = obj[p].buf /\ obj'[p].owner = obj[p].owner
  BY DEF Works, ObjsKeep
<1>2. fds[b] = 0
  BY <1>0 DEF OwnInv, FreshAlone
<1>3. /\ fds' \in [Bufs -> 0 .. MaxFds] /\ fds'[b] = 1
      /\ \A c \in Bufs : c # b => fds'[c] = fds[c]
  BY <1>0, <1>2, MemAssumption DEF RefInv
<1>4. \A u \in Threads : u # t /\ call[u].at \in Fresh =>
          call[u].o \in Objs /\ Buf(u) \in Bufs /\ Buf(u) # b
  BY <1>0, OneFresh DEF Ctl, CallInv, Holding, Creating, Stuck, Fresh, Live, Buf
<1>5. \A u \in Threads : call'[u].at \in Fresh <=> u # t /\ call[u].at \in Fresh
  BY <1>0
<1>6. \A c \in Bufs : c # b => (HasFresh(c)' <=> HasFresh(c))
  BY <1>0, <1>1, <1>4, <1>5 DEF HasFresh, Buf
<1>7. \A c \in Bufs : c = b => HasFresh(c) /\ ~HasFresh(c)'
  BY <1>0, <1>1, <1>4, <1>5 DEF HasFresh, Buf
<1> HIDE DEF b, o
<1>8. RefInv'
  <2>1. \A c \in Bufs : ImportsOf(c)' = ImportsOf(c) /\ Taken(c)' = Taken(c)
    BY <1>1 DEF ImportsOf, Taken
  <2>2. ASSUME NEW c \in Bufs
        PROVE  ref[c] = fds'[c] + Cardinality(ImportsOf(c)) + Pending(c)' - Taken(c)
    <3>1. /\ ref[c] = fds[c] + Cardinality(ImportsOf(c)) + Pending(c) - Taken(c)
          /\ Cardinality(ImportsOf(c)) \in Nat /\ fds[c] \in Nat /\ Taken(c) \in {0, 1}
      BY RefFacts
    <3>2. CASE c # b
      BY <1>3, <1>6, <3>1, <3>2 DEF Pending
    <3>3. CASE c = b
      <4>1. HasFresh(c) /\ ~HasFresh(c)'
        BY <1>7, <3>3
      <4>2. Pending(c) = 1 /\ Pending(c)' = 0
        BY <4>1 DEF Pending
      <4>3. QED
        BY <1>2, <1>3, <3>1, <3>3, <4>2
    <3>4. QED
      BY <3>2, <3>3
  <2>3. QED
    BY <1>3, <2>1, <2>2 DEF RefInv
<1>9. FreshAlone'
  <2> SUFFICES ASSUME NEW u \in Threads, call'[u].at \in Fresh
               PROVE  /\ obj'[call'[u].o].owner = TRUE /\ fds'[obj'[call'[u].o].buf] = 0
                      /\ \A p \in Objs : obj'[p].buf = obj'[call'[u].o].buf => p = call'[u].o
    BY DEF FreshAlone, Buf
  <2>1. call[u].at \in Fresh /\ call[u].o \in Objs /\ Buf(u) \in Bufs /\ Buf(u) # b
    BY <1>4, <1>5
  <2>2. /\ obj[call[u].o].owner = TRUE /\ fds[Buf(u)] = 0
        /\ \A p \in Objs : obj[p].buf = Buf(u) => p = call[u].o
    BY <2>1 DEF OwnInv, FreshAlone
  <2>3. QED
    BY <1>0, <1>1, <1>3, <2>1, <2>2 DEF Buf
<1>10. OneAllocated' /\ NotDangling'
  BY <1>1 DEF OwnInv, OneAllocated, NotDangling, Live
<1>11. QED
  BY <1>8, <1>9, <1>10 DEF OwnInv

(* MEM_CREATE takes one reference, and a fresh buffer has no other object. *)
LEMMA OwnBegins ==
    ASSUME Ctl, CtlType', RefInv, OwnInv, NEW t \in Threads, NEW s \in Sessions, NEW o \in Objs,
           NEW b \in Bufs, NEW own \in BOOLEAN, Begins(t, s, o, b, own),
           own = TRUE => fds[b] = 0 /\ b \notin dangling /\ \A p \in Objs : obj[p].buf # b,
           own = FALSE => fds[b] > 0,
           fds' = fds, ref' = [ref EXCEPT ![b] = @ + 1], dangling' = dangling
    PROVE  RefInv' /\ OwnInv'
<1>0. /\ ~Live(o) /\ NoObj \notin Objs /\ call[t].o = NoObj
      /\ call[t].at \notin Fresh
      /\ call'[t].o = o /\ OthersKeep(t) /\ ObjsKeep(o)
      /\ call'[t].at \in Fresh <=> own = TRUE
      /\ obj'[o].buf = b /\ obj'[o].owner = own
  BY CtlFacts DEF Begins, Ctl, CallInv, Fresh
<1>1. /\ \A p \in Objs : p # o => obj'[p] = obj[p]
      /\ \A u \in Threads : u # t => call'[u] = call[u]
  BY <1>0 DEF OthersKeep, ObjsKeep
<1>2. \A u \in Threads : call[u].at \in Fresh =>
          /\ u # t /\ call[u].o \in Objs /\ call[u].o # o /\ Buf(u) \in Bufs /\ Buf(u) # b
          /\ call'[u] = call[u] /\ obj'[call[u].o] = obj[call[u].o]
  <2> SUFFICES ASSUME NEW u \in Threads, call[u].at \in Fresh
               PROVE  /\ u # t /\ call[u].o \in Objs /\ call[u].o # o
                      /\ Buf(u) \in Bufs /\ Buf(u) # b
                      /\ call'[u] = call[u] /\ obj'[call[u].o] = obj[call[u].o]
    OBVIOUS
  <2>1. u # t /\ call[u].o \in Objs /\ Live(call[u].o) /\ Buf(u) \in Bufs
    BY <1>0 DEF Ctl, CallInv, Holding, Creating, Stuck, Fresh, Live, Buf
  <2>2. fds[Buf(u)] = 0
    BY DEF OwnInv, FreshAlone
  <2>3. Buf(u) # b
    <3>1. CASE own = TRUE
      BY <2>1, <3>1 DEF Buf
    <3>2. CASE own = FALSE
      BY <2>2, <3>2
    <3>3. QED
      BY <3>1, <3>2
  <2>4. QED
    BY <1>0, <1>1, <2>1, <2>3
<1>3. \A u \in Threads : call'[u].at \in Fresh <=>
          call[u].at \in Fresh \/ (u = t /\ own = TRUE)
  <2> SUFFICES ASSUME NEW u \in Threads
               PROVE  call'[u].at \in Fresh <=> call[u].at \in Fresh \/ (u = t /\ own = TRUE)
    OBVIOUS
  <2>1. CASE u = t
    BY <1>0, <2>1
  <2>2. CASE u # t
    BY <1>1, <2>2
  <2>3. QED
    BY <2>1, <2>2
<1>4. ASSUME NEW c \in Bufs, c # b PROVE HasFresh(c)' <=> HasFresh(c)
  <2>1. ASSUME HasFresh(c) PROVE HasFresh(c)'
    <3>1. PICK u \in Threads : call[u].at \in Fresh /\ Buf(u) = c
      BY <2>1 DEF HasFresh
    <3>2. call'[u].at \in Fresh /\ Buf(u)' = c
      BY <1>2, <3>1 DEF Buf
    <3>3. QED
      BY <3>2 DEF HasFresh
  <2>2. ASSUME HasFresh(c)' PROVE HasFresh(c)
    <3>1. PICK u \in Threads : call'[u].at \in Fresh /\ obj'[call'[u].o].buf = c
      BY <2>2 DEF HasFresh, Buf
    <3>2. u # t
      BY <1>0, <1>4, <3>1
    <3>3. call[u].at \in Fresh /\ Buf(u) = c
      BY <1>2, <1>3, <3>1, <3>2 DEF Buf
    <3>4. QED
      BY <3>3 DEF HasFresh
  <2>3. QED
    BY <2>1, <2>2
<1>5. ~HasFresh(b) /\ (HasFresh(b)' <=> own = TRUE)
  <2>1. ~HasFresh(b)
    BY <1>2 DEF HasFresh
  <2>2. ASSUME own = TRUE PROVE HasFresh(b)'
    BY <1>0, <2>2 DEF HasFresh, Buf
  <2>3. ASSUME HasFresh(b)' PROVE own = TRUE
    <3>1. PICK u \in Threads : call'[u].at \in Fresh /\ obj'[call'[u].o].buf = b
      BY <2>3 DEF HasFresh, Buf
    <3>2. ~(call[u].at \in Fresh)
      BY <1>2, <3>1 DEF Buf
    <3>3. QED
      BY <1>3, <3>1, <3>2
  <2>4. QED
    BY <2>1, <2>2, <2>3
<1>6. /\ fds[b] \in Nat /\ ref[b] \in Int
      /\ ref' \in [Bufs -> Int] /\ ref'[b] = ref[b] + 1
      /\ \A c \in Bufs : c # b => ref'[c] = ref[c]
  BY MemAssumption DEF RefInv
<1>7. RefInv'
  <2>1. \A c \in Bufs : c # b => ImportsOf(c)' = ImportsOf(c)
    BY <1>0, <1>1 DEF ImportsOf, Live
  <2>2. ASSUME NEW c \in Bufs
        PROVE  ref'[c] = fds[c] + Cardinality(ImportsOf(c)') + Pending(c)' - Taken(c)
    <3>0. /\ ref[c] = fds[c] + Cardinality(ImportsOf(c)) + Pending(c) - Taken(c)
          /\ Cardinality(ImportsOf(c)) \in Nat /\ ImportsOf(c) \in SUBSET Objs
          /\ fds[c] \in Nat /\ Pending(c) \in {0, 1} /\ Taken(c) \in {0, 1}
      BY RefFacts
    <3>1. CASE c # b
      BY <1>4, <1>6, <2>1, <3>0, <3>1 DEF Pending
    <3>2. CASE c = b /\ own = TRUE
      <4>1. ImportsOf(c)' = ImportsOf(c)
        BY <1>0, <1>1, <3>2 DEF ImportsOf, Live
      <4>2. Pending(c)' = 1 /\ Pending(c) = 0
        BY <1>5, <3>2 DEF Pending
      <4>3. QED
        BY <1>6, <3>0, <3>2, <4>1, <4>2
    <3>3. CASE c = b /\ own = FALSE
      <4>1. ImportsOf(c)' = ImportsOf(c) \cup {o} /\ o \notin ImportsOf(c)
        BY <1>0, <1>1, <3>3 DEF ImportsOf, Live
      <4>2. Pending(c)' = 0 /\ Pending(c) = 0
        BY <1>5, <3>3 DEF Pending
      <4>3. Cardinality(ImportsOf(c)') = Cardinality(ImportsOf(c)) + 1
        BY <3>0, <4>1, CountObjs
      <4>4. QED
        BY <1>6, <3>0, <3>3, <4>2, <4>3
    <3>4. QED
      BY <3>1, <3>2, <3>3
  <2>3. \A c \in Bufs : Taken(c)' = Taken(c)
    BY DEF Taken
  <2>4. QED
    BY <1>6, <2>2, <2>3 DEF RefInv
<1>8. FreshAlone'
  <2> SUFFICES ASSUME NEW u \in Threads, call'[u].at \in Fresh
               PROVE  /\ obj'[call'[u].o].owner = TRUE /\ fds[obj'[call'[u].o].buf] = 0
                      /\ \A p \in Objs : obj'[p].buf = obj'[call'[u].o].buf => p = call'[u].o
    BY DEF FreshAlone, Buf
  <2>1. CASE call[u].at \in Fresh
    <3>1. /\ obj[call[u].o].owner = TRUE /\ fds[Buf(u)] = 0
          /\ \A p \in Objs : obj[p].buf = Buf(u) => p = call[u].o
      BY <2>1 DEF OwnInv, FreshAlone
    <3>2. QED
      BY <1>0, <1>1, <1>2, <2>1, <3>1 DEF Buf
  <2>2. CASE u = t /\ own = TRUE
    BY <1>0, <1>1, <2>2
  <2>3. QED
    BY <1>3, <2>1, <2>2
<1>9. OneAllocated'
  <2> SUFFICES ASSUME NEW p \in Objs, NEW q \in Objs, obj'[p].buf \in Bufs,
                      obj'[p].owner = TRUE, obj'[q].owner = TRUE, obj'[q].buf = obj'[p].buf
               PROVE  p = q
    BY DEF OneAllocated, Live
  <2>1. CASE p # o /\ q # o
    BY <1>1, <2>1 DEF OwnInv, OneAllocated, Live
  <2>2. CASE p = o \/ q = o
    BY <1>0, <1>1, <2>2
  <2>3. QED
    BY <2>1, <2>2
<1>10. NotDangling'
  BY <1>0, <1>1 DEF OwnInv, NotDangling, Live
<1>11. QED
  BY <1>7, <1>8, <1>9, <1>10 DEF OwnInv

(* What freeing object o of buffer b does to the reference of b.           *)
PutsRef(t, o, b) ==
    /\ \/ /\ call[t].at \in {"err_put", "err_fd"} \/ obj[o].owner = FALSE
          /\ ref' = [ref EXCEPT ![b] = @ - 1]
       \/ /\ call[t].at = "put" /\ obj[o].owner = TRUE
          /\ ref' = ref
    /\ dangling' = IF call[t].at = "err_put" /\ obj[o].owner = TRUE
                   THEN dangling \cup {b} ELSE dangling

(* The end of an object: an import gives its reference back; an owner does *)
(* so only in the error path of its create, where it is the reference of   *)
(* the allocation, or that of the fd if dma_buf_fd was passed.             *)
LEMMA OwnDrops ==
    ASSUME Ctl, CtlType', RefInv, OwnInv, NEW t \in Threads, Drops(t), fds' = fds,
           NEW o \in Objs, NEW b \in Bufs, o = call[t].o, b = obj[o].buf,
           PutsRef(t, o, b)
    PROVE  RefInv' /\ OwnInv'
<1>0. /\ NoObj \notin Objs /\ NoBuf \notin Bufs
      /\ call'[t].o = NoObj /\ call[t].at \in {"err_put", "err_fd", "put"}
      /\ call'[t].at \notin Fresh /\ obj'[o].buf = NoBuf /\ obj'[o].owner = FALSE
      /\ call[t].at \in Fresh <=> call[t].at = "err_fd"
      /\ OthersKeep(t) /\ ObjsKeep(o) /\ obj[o].owner \in BOOLEAN
  BY MemAssumption DEF Drops, Ctl, CtlType, NoObject, Fresh
<1>1. /\ \A p \in Objs : p # o => obj'[p] = obj[p]
      /\ \A u \in Threads : u # t => call'[u] = call[u]
      /\ \A u \in Threads : u # t => call[u].o # o
  BY <1>0 DEF OthersKeep, ObjsKeep, Ctl, OneHand
<1>2. obj[o].owner = TRUE => b \notin dangling
  BY DEF OwnInv, NotDangling, Live
<1>3. call[t].at = "err_fd" => obj[o].owner = TRUE
  BY <1>0 DEF OwnInv, FreshAlone
<1>4. /\ ref[b] \in Int /\ ref' \in [Bufs -> Int]
      /\ \A c \in Bufs : c # b => ref'[c] = ref[c]
  BY DEF RefInv, PutsRef
<1>5. \A u \in Threads : call[u].at \in Fresh /\ u # t =>
          /\ call[u].o \in Objs /\ call[u].o # o /\ Buf(u) \in Bufs
          /\ call'[u] = call[u] /\ obj'[call[u].o] = obj[call[u].o]
  BY <1>1 DEF Ctl, CallInv, Holding, Creating, Stuck, Fresh, Live, Buf
<1>6. \A u \in Threads : call'[u].at \in Fresh <=> call[u].at \in Fresh /\ u # t
  BY <1>0, <1>1
<1>7. ASSUME NEW c \in Bufs, c # b \/ call[t].at # "err_fd"
      PROVE  HasFresh(c)' <=> HasFresh(c)
  <2>1. ~(call[t].at \in Fresh /\ Buf(t) = c)
    BY <1>0, <1>7 DEF Buf
  <2>2. ASSUME NEW u \in Threads, call[u].at \in Fresh, u # t PROVE Buf(u)' = Buf(u)
    BY <1>5, <2>2 DEF Buf
  <2>3. QED
    BY <1>6, <2>1, <2>2 DEF HasFresh
<1>8. ASSUME call[t].at = "err_fd" PROVE HasFresh(b) /\ ~HasFresh(b)'
  <2>1. Buf(t) = b /\ call[t].at \in Fresh
    BY <1>0, <1>8 DEF Buf
  <2>2. ASSUME NEW u \in Threads, call[u].at \in Fresh, u # t PROVE Buf(u)' # b
    BY <1>5, <2>1, <2>2, OneFresh DEF Buf
  <2>3. QED
    BY <1>6, <2>1, <2>2 DEF HasFresh
<1>9. RefInv'
  <2>1. ASSUME NEW c \in Bufs, c # b
        PROVE  ref'[c] = fds[c] + Cardinality(ImportsOf(c)') + Pending(c)' - Taken(c)'
    <3>1. ImportsOf(c)' = ImportsOf(c)
      BY <1>0, <1>1, <2>1 DEF ImportsOf
    <3>2. Pending(c)' = Pending(c)
      BY <1>7, <2>1 DEF Pending
    <3>3. Taken(c)' = Taken(c)
      BY <2>1 DEF Taken, PutsRef
    <3>4. QED
      BY <1>4, <2>1, <3>1, <3>2, <3>3, RefFacts
  <2>2. ref'[b] = fds[b] + Cardinality(ImportsOf(b)') + Pending(b)' - Taken(b)'
    <3>0. /\ ref[b] = fds[b] + Cardinality(ImportsOf(b)) + Pending(b) - Taken(b)
          /\ Cardinality(ImportsOf(b)) \in Nat /\ ImportsOf(b) \in SUBSET Objs
          /\ Pending(b) \in {0, 1} /\ Taken(b) \in {0, 1} /\ fds[b] \in Nat
      BY RefFacts
    <3>1. CASE obj[o].owner = FALSE
      <4>1. ref'[b] = ref[b] - 1
        BY <1>4, <3>1 DEF RefInv, PutsRef
      <4>2. ImportsOf(b)' = ImportsOf(b) \ {o} /\ o \in ImportsOf(b)
        BY <1>0, <1>1, <3>1 DEF ImportsOf
      <4>3. Pending(b)' = Pending(b)
        BY <1>3, <1>7, <3>1 DEF Pending
      <4>4. Taken(b)' = Taken(b)
        BY <3>1 DEF Taken, PutsRef
      <4>5. Cardinality(ImportsOf(b) \ {o}) = Cardinality(ImportsOf(b)) - 1
        BY <3>0, <4>2, CountObjs
      <4>6. Cardinality(ImportsOf(b)') = Cardinality(ImportsOf(b)) - 1
        BY <4>2, <4>5
      <4>7. QED
        BY <1>4, <3>0, <4>1, <4>3, <4>4, <4>6
    <3>2. CASE obj[o].owner = TRUE
      <4>1. ImportsOf(b)' = ImportsOf(b)
        BY <1>0, <1>1, <3>2 DEF ImportsOf
      <4>2. CASE call[t].at = "err_fd"
        <5>1. Pending(b) = 1 /\ Pending(b)' = 0
          BY <1>8, <4>2 DEF Pending
        <5>2. ref'[b] = ref[b] - 1 /\ Taken(b)' = Taken(b)
          BY <1>4, <4>2 DEF RefInv, PutsRef, Taken
        <5>3. QED
          BY <1>4, <3>0, <4>1, <5>1, <5>2
      <4>3. CASE call[t].at = "err_put"
        <5>1. Pending(b)' = Pending(b)
          BY <1>7, <4>3 DEF Pending
        <5>2. ref'[b] = ref[b] - 1
          BY <1>4, <4>3 DEF RefInv, PutsRef
        <5>3. Taken(b) = 0 /\ Taken(b)' = 1
          BY <1>2, <3>2, <4>3 DEF PutsRef, Taken
        <5>4. QED
          BY <1>4, <3>0, <4>1, <5>1, <5>2, <5>3
      <4>4. CASE call[t].at = "put"
        <5>1. Pending(b)' = Pending(b)
          BY <1>7, <4>4 DEF Pending
        <5>2. ref'[b] = ref[b] /\ Taken(b)' = Taken(b)
          BY <3>2, <4>4 DEF PutsRef, Taken
        <5>3. QED
          BY <3>0, <4>1, <5>1, <5>2
      <4>5. QED
        BY <1>0, <4>2, <4>3, <4>4
    <3>3. QED
      BY <1>0, <3>1, <3>2
  <2>3. QED
    BY <1>4, <2>1, <2>2 DEF RefInv
<1>10. FreshAlone'
  <2> SUFFICES ASSUME NEW u \in Threads, call'[u].at \in Fresh
               PROVE  /\ obj'[call'[u].o].owner = TRUE /\ fds[obj'[call'[u].o].buf] = 0
                      /\ \A p \in Objs : obj'[p].buf = obj'[call'[u].o].buf => p = call'[u].o
    BY DEF FreshAlone, Buf
  <2>1. call[u].at \in Fresh /\ u # t
    BY <1>6
  <2>2. /\ obj[call[u].o].owner = TRUE /\ fds[Buf(u)] = 0
        /\ \A p \in Objs : obj[p].buf = Buf(u) => p = call[u].o
    BY <2>1 DEF OwnInv, FreshAlone
  <2>3. QED
    BY <1>0, <1>1, <1>5, <2>1, <2>2 DEF Buf
<1>11. OneAllocated'
  BY <1>0, <1>1 DEF OwnInv, OneAllocated, Live
<1>12. NotDangling'
  <2> SUFFICES ASSUME NEW p \in Objs, obj'[p].buf \in Bufs, obj'[p].owner = TRUE
               PROVE  obj'[p].buf \notin dangling'
    BY DEF NotDangling, Live
  <2>1. p # o /\ obj'[p] = obj[p] /\ obj[p].buf \notin dangling
    BY <1>0, <1>1 DEF OwnInv, NotDangling, Live
  <2>2. obj[o].owner = TRUE => obj[p].buf # b
    BY <2>1 DEF OwnInv, OneAllocated, Live
  <2>3. QED
    BY <2>1, <2>2 DEF PutsRef
<1>13. QED
  BY <1>9, <1>10, <1>11, <1>12 DEF OwnInv

(* The client duplicates or closes an fd.                                  *)
LEMMA OwnFds ==
    ASSUME Ctl, RefInv, OwnInv, NEW b \in Bufs, fds[b] > 0,
           \/ /\ fds[b] < MaxFds
              /\ fds' = [fds EXCEPT ![b] = @ + 1] /\ ref' = [ref EXCEPT ![b] = @ + 1]
           \/ /\ fds' = [fds EXCEPT ![b] = @ - 1] /\ ref' = [ref EXCEPT ![b] = @ - 1],
           dangling' = dangling, obj' = obj, call' = call
    PROVE  RefInv' /\ OwnInv'
<1>0. /\ fds[b] \in 1 .. MaxFds /\ ref[b] \in Int /\ MaxFds \in Nat
      /\ fds \in [Bufs -> 0 .. MaxFds] /\ ref \in [Bufs -> Int]
  BY MemAssumption DEF RefInv
<1>1. PICK d \in {1, -1} : fds'[b] = fds[b] + d /\ ref'[b] = ref[b] + d
  <2>1. CASE /\ fds[b] < MaxFds
             /\ fds' = [fds EXCEPT ![b] = @ + 1] /\ ref' = [ref EXCEPT ![b] = @ + 1]
    <3>1. fds'[b] = fds[b] + 1 /\ ref'[b] = ref[b] + 1
      BY <1>0, <2>1
    <3>2. QED
      BY <3>1
  <2>2. CASE fds' = [fds EXCEPT ![b] = @ - 1] /\ ref' = [ref EXCEPT ![b] = @ - 1]
    <3>1. fds'[b] = fds[b] - 1 /\ ref'[b] = ref[b] - 1
      BY <1>0, <2>2
    <3>2. fds'[b] = fds[b] + (-1) /\ ref'[b] = ref[b] + (-1)
      BY <1>0, <3>1
    <3>3. QED
      BY <3>2
  <2>3. QED
    BY <2>1, <2>2
<1>2. /\ fds' \in [Bufs -> 0 .. MaxFds] /\ ref' \in [Bufs -> Int]
      /\ \A c \in Bufs : c # b => fds'[c] = fds[c] /\ ref'[c] = ref[c]
  BY <1>0
<1>3. RefInv'
  <2>1. \A c \in Bufs : /\ ImportsOf(c)' = ImportsOf(c)
                        /\ Pending(c)' = Pending(c) /\ Taken(c)' = Taken(c)
    BY DEF ImportsOf, Pending, HasFresh, Buf, Taken
  <2>2. ASSUME NEW c \in Bufs
        PROVE  ref'[c] = fds'[c] + Cardinality(ImportsOf(c)) + Pending(c) - Taken(c)
    <3>0. /\ ref[c] = fds[c] + Cardinality(ImportsOf(c)) + Pending(c) - Taken(c)
          /\ Cardinality(ImportsOf(c)) \in Nat /\ fds[c] \in Nat
          /\ Pending(c) \in {0, 1} /\ Taken(c) \in {0, 1}
      BY RefFacts
    <3>1. QED
      BY <1>1, <1>2, <3>0
  <2>3. QED
    BY <1>2, <2>1, <2>2 DEF RefInv
<1>4. FreshAlone'
  <2> SUFFICES ASSUME NEW u \in Threads, call[u].at \in Fresh
               PROVE  /\ obj[call[u].o].owner = TRUE /\ fds'[Buf(u)] = 0
                      /\ \A p \in Objs : obj[p].buf = Buf(u) => p = call[u].o
    BY DEF FreshAlone, Buf
  <2>1. /\ obj[call[u].o].owner = TRUE /\ fds[Buf(u)] = 0
        /\ \A p \in Objs : obj[p].buf = Buf(u) => p = call[u].o
    BY DEF OwnInv, FreshAlone
  <2>2. Buf(u) \in Bufs
    BY DEF Ctl, CallInv, Live, Holding, Creating, Stuck, Fresh, Buf
  <2>3. QED
    BY <1>0, <1>2, <2>1, <2>2
<1>5. OneAllocated' /\ NotDangling'
  BY DEF OwnInv, OneAllocated, NotDangling, Live
<1>6. QED
  BY <1>3, <1>4, <1>5 DEF OwnInv
----------------------------------------------------------------------------
(* The inductive invariant.                                                *)
IInv == Ctl /\ AttInv /\ VmapInv /\ KvInv /\ RefInv /\ OwnInv

CallType == [at : Labels, s : Sessions \cup {NoSession}, o : Objs \cup {NoObj}, kmap : BOOLEAN]
ObjType == [buf : Bufs \cup {NoBuf}, owner : BOOLEAN, kv : BOOLEAN]

(* Going on to another label.                                              *)
LEMMA GotoEffect ==
    ASSUME Ctl, NEW t \in Threads, NEW l \in Labels, Goto(t, l)
    PROVE  /\ call' \in [Threads -> CallType] /\ OthersKeep(t)
           /\ call'[t].at = l /\ call'[t].s = call[t].s /\ call'[t].o = call[t].o
  BY DEF Ctl, CtlType, Goto, OthersKeep, CallType

(* Changing the flag of a kernel mapping.                                  *)
LEMMA KvEffect ==
    ASSUME Ctl, NEW o \in Objs, NEW v \in BOOLEAN, obj' = [obj EXCEPT ![o].kv = v]
    PROVE  /\ obj' \in [Objs -> ObjType] /\ ObjsKeep(o)
           /\ obj'[o].kv = v /\ obj'[o].buf = obj[o].buf /\ obj'[o].owner = obj[o].owner
  BY DEF Ctl, CtlType, ObjsKeep, ObjType

(* A step on an object in the hand, all parts together.                    *)
LEMMA WorksStep ==
    ASSUME IInv, CtlType', NEW t \in Threads, NEW o \in Objs, o = call[t].o, Works(t),
           \/ (call[t].at \in Off <=> call'[t].at \in Off) /\ attached' = attached
           \/ /\ call[t].at \in Off /\ call'[t].at \notin Off
              /\ attached' = [attached EXCEPT ![Buf(t)] = @ + 1]
           \/ /\ call[t].at \notin Off /\ call'[t].at \in Off
              /\ attached' = [attached EXCEPT ![Buf(t)] = @ - 1],
           \/ obj'[o].kv = obj[o].kv /\ vmapped' = vmapped
           \/ /\ obj[o].kv = FALSE /\ obj'[o].kv = TRUE
              /\ vmapped' = [vmapped EXCEPT ![Buf(t)] = @ + 1]
           \/ /\ obj[o].kv = TRUE /\ obj'[o].kv = FALSE
              /\ vmapped' = [vmapped EXCEPT ![Buf(t)] = @ - 1],
           call'[t].at \in Unmapped => obj'[o].kv = FALSE,
           call'[t].at \in Fresh <=> call[t].at \in Fresh,
           fds' = fds, ref' = ref, dangling' = dangling
    PROVE  IInv'
<1>1. Ctl'
  BY CtlWorks DEF IInv
<1>2. AttInv' /\ VmapInv'
  BY AttWorks, VmapWorks DEF IInv
<1>3. KvInv'
  <2> SUFFICES ASSUME NEW u \in Threads, call'[u].at \in Unmapped
               PROVE  obj'[call'[u].o].kv = FALSE
    BY DEF KvInv
  <2>1. CASE u = t
    BY <2>1 DEF Works
  <2>2. CASE u # t
    <3>1. call'[u] = call[u] /\ call[u].o \in Objs /\ call[u].o # o
      BY <2>2 DEF Works, OthersKeep, IInv, Ctl, CallInv, Holding, Creating, Stuck, Unmapped, OneHand
    <3>2. obj'[call[u].o] = obj[call[u].o]
      BY <3>1 DEF Works, ObjsKeep
    <3>3. QED
      BY <3>1, <3>2 DEF IInv, KvInv
  <2>3. QED
    BY <2>1, <2>2
<1>4. RefInv' /\ OwnInv'
  BY OwnWorks DEF IInv
<1>5. QED
  BY <1>1, <1>2, <1>3, <1>4 DEF IInv

(* What a thread at a label of MEM_CREATE or MEM_DESTROY has.              *)
LEMMA HoldingHas ==
    ASSUME IInv, NEW t \in Threads, call[t].at \in Holding
    PROVE  /\ call[t].o \in Objs /\ Buf(t) \in Bufs /\ call[t].s \in Sessions
           /\ Buf(t) = obj[call[t].o].buf
           /\ obj[call[t].o].owner \in BOOLEAN /\ obj[call[t].o].kv \in BOOLEAN
           /\ call[t].at \in Unmapped => obj[call[t].o].kv = FALSE
  BY DEF IInv, Ctl, CtlType, CallInv, Live, Buf, KvInv

(* dma_buf_fd.                                                             *)
LEMMA CreateFdStep == ASSUME IInv, NEW t \in Threads, CreateFd(t) PROVE IInv'
<1> DEFINE o == call[t].o
<1>0. /\ call[t].at = "fd" /\ o \in Objs /\ obj[o].kv = FALSE
      /\ obj' = obj /\ list' = list /\ closing' = closing /\ dangling' = dangling
      /\ ref' = ref /\ attached' = attached /\ vmapped' = vmapped
  BY HoldingHas DEF CreateFd, At, Holding, Creating, Stuck, Unmapped
<1>1. ASSUME fds' = [fds EXCEPT ![Buf(t)] = @ + 1], Goto(t, "attach") PROVE IInv'
  <2>1. /\ call' \in [Threads -> CallType] /\ OthersKeep(t)
        /\ call'[t].at = "attach" /\ call'[t].s = call[t].s /\ call'[t].o = o
    BY <1>1, GotoEffect DEF IInv, Labels
  <2>2. CtlType'
    BY <1>0, <2>1 DEF IInv, Ctl, CtlType, CallType
  <2>3. Works(t)
    BY <1>0, <2>1 DEF Works, Creating, ObjsKeep
  <2>4. Ctl' /\ RefInv' /\ OwnInv'
    BY <1>0, <1>1, <2>1, <2>2, <2>3, CtlWorks, OwnFd DEF IInv
  <2>5. AttInv'
    BY <1>0, <2>1, <2>2, <2>3, AttWorks DEF IInv, Off
  <2>6. VmapInv'
    BY <1>0, <2>1, <2>2, <2>3, VmapWorks DEF IInv
  <2>7. KvInv'
    BY <1>0, <2>1 DEF IInv, KvInv, OthersKeep
  <2>8. QED
    BY <2>4, <2>5, <2>6, <2>7 DEF IInv
<1>2. ASSUME Goto(t, "err_fd"), fds' = fds PROVE IInv'
  <2>1. /\ call' \in [Threads -> CallType] /\ OthersKeep(t)
        /\ call'[t].at = "err_fd" /\ call'[t].s = call[t].s /\ call'[t].o = o
    BY <1>2, GotoEffect DEF IInv, Labels
  <2>2. CtlType'
    BY <1>0, <2>1 DEF IInv, Ctl, CtlType, CallType
  <2>3. Works(t)
    BY <1>0, <2>1 DEF Works, Creating, ObjsKeep
  <2>4. call[t].at \in Off /\ call'[t].at \in Off
    BY <1>0, <2>1 DEF Off
  <2>5. QED
    BY <1>0, <1>2, <2>1, <2>2, <2>3, <2>4, WorksStep DEF Fresh
<1>3. QED
  BY <1>1, <1>2 DEF CreateFd

(* dma_buf_attach and dma_buf_map_attachment.                              *)
LEMMA CreateAttachStep == ASSUME IInv, NEW t \in Threads, CreateAttach(t) PROVE IInv'
<1> DEFINE o == call[t].o
<1>0. /\ call[t].at = "attach" /\ o \in Objs /\ obj[o].kv = FALSE
      /\ obj' = obj /\ list' = list /\ closing' = closing /\ dangling' = dangling
      /\ ref' = ref /\ fds' = fds /\ vmapped' = vmapped
  BY HoldingHas DEF CreateAttach, At, Holding, Creating, Stuck, Unmapped
<1>1. PICK l \in {"vmap", "copy", "err_put"} :
          /\ Goto(t, l)
          /\ \/ l # "err_put" /\ attached' = [attached EXCEPT ![Buf(t)] = @ + 1]
             \/ l = "err_put" /\ attached' = attached
  BY DEF CreateAttach
<1>2. /\ call' \in [Threads -> CallType] /\ OthersKeep(t)
      /\ call'[t].at = l /\ call'[t].s = call[t].s /\ call'[t].o = o
  BY <1>1, GotoEffect DEF IInv, Labels
<1>3. CtlType'
  BY <1>0, <1>2 DEF IInv, Ctl, CtlType, CallType
<1>4. Works(t)
  BY <1>0, <1>2 DEF Works, Creating, ObjsKeep
<1>5. call[t].at \in Off /\ (l \in Off <=> l = "err_put")
  BY <1>0 DEF Off
<1>6. QED
  BY <1>0, <1>1, <1>2, <1>3, <1>4, <1>5, WorksStep DEF Fresh

(* dma_buf_vmap.                                                           *)
LEMMA CreateVmapStep == ASSUME IInv, NEW t \in Threads, CreateVmap(t) PROVE IInv'
<1> DEFINE o == call[t].o
<1>0. /\ call[t].at = "vmap" /\ o \in Objs /\ obj[o].kv = FALSE
      /\ list' = list /\ closing' = closing /\ dangling' = dangling
      /\ ref' = ref /\ fds' = fds /\ attached' = attached
  BY HoldingHas DEF CreateVmap, At, Holding, Creating, Stuck, Unmapped
<1>1. ASSUME vmapped' = [vmapped EXCEPT ![Buf(t)] = @ + 1],
             obj' = [obj EXCEPT ![o].kv = TRUE], Goto(t, "copy")
      PROVE  IInv'
  <2>1. /\ call' \in [Threads -> CallType] /\ OthersKeep(t)
        /\ call'[t].at = "copy" /\ call'[t].s = call[t].s /\ call'[t].o = o
    BY <1>1, GotoEffect DEF IInv, Labels
  <2>2. /\ obj' \in [Objs -> ObjType] /\ ObjsKeep(o)
        /\ obj'[o].kv = TRUE /\ obj'[o].buf = obj[o].buf /\ obj'[o].owner = obj[o].owner
    BY <1>0, <1>1, KvEffect DEF IInv
  <2>3. CtlType'
    BY <1>0, <2>1, <2>2 DEF IInv, Ctl, CtlType, CallType, ObjType
  <2>4. Works(t)
    BY <1>0, <2>1, <2>2 DEF Works, Creating
  <2>5. call[t].at \notin Off /\ call'[t].at \notin Off /\ call'[t].at \notin Unmapped
    BY <1>0, <2>1 DEF Off, Unmapped
  <2>6. QED
    BY <1>0, <1>1, <2>1, <2>2, <2>3, <2>4, <2>5, WorksStep DEF Fresh
<1>2. ASSUME Goto(t, "err_detach"), vmapped' = vmapped, obj' = obj PROVE IInv'
  <2>1. /\ call' \in [Threads -> CallType] /\ OthersKeep(t)
        /\ call'[t].at = "err_detach" /\ call'[t].s = call[t].s /\ call'[t].o = o
    BY <1>2, GotoEffect DEF IInv, Labels
  <2>2. CtlType'
    BY <1>0, <1>2, <2>1 DEF IInv, Ctl, CtlType, CallType
  <2>3. Works(t)
    BY <1>0, <1>2, <2>1 DEF Works, Creating, ObjsKeep
  <2>4. call[t].at \notin Off /\ call'[t].at \notin Off
    BY <1>0, <2>1 DEF Off
  <2>5. QED
    BY <1>0, <1>2, <2>1, <2>2, <2>3, <2>4, WorksStep DEF Fresh
<1>3. QED
  BY <1>1, <1>2 DEF CreateVmap

(* copy_to_user.                                                           *)
LEMMA CreateCopyStep == ASSUME IInv, NEW t \in Threads, CreateCopy(t) PROVE IInv'
<1> DEFINE o == call[t].o
<1>0. /\ call[t].at = "copy" /\ o \in Objs /\ obj[o].kv \in BOOLEAN
      /\ list' = list /\ closing' = closing /\ dangling' = dangling
      /\ ref' = ref /\ fds' = fds /\ attached' = attached
  BY HoldingHas DEF CreateCopy, At, Holding, Creating, Stuck
<1>1. ASSUME vmapped' = [vmapped EXCEPT ![Buf(t)] = @ - 1], obj[o].kv = TRUE,
             obj' = [obj EXCEPT ![o].kv = FALSE], Goto(t, "err_detach")
      PROVE  IInv'
  <2>1. /\ call' \in [Threads -> CallType] /\ OthersKeep(t)
        /\ call'[t].at = "err_detach" /\ call'[t].s = call[t].s /\ call'[t].o = o
    BY <1>1, GotoEffect DEF IInv, Labels
  <2>2. /\ obj' \in [Objs -> ObjType] /\ ObjsKeep(o)
        /\ obj'[o].kv = FALSE /\ obj'[o].buf = obj[o].buf /\ obj'[o].owner = obj[o].owner
    BY <1>0, <1>1, KvEffect DEF IInv
  <2>3. CtlType'
    BY <1>0, <2>1, <2>2 DEF IInv, Ctl, CtlType, CallType, ObjType
  <2>4. Works(t)
    BY <1>0, <2>1, <2>2 DEF Works, Creating
  <2>5. call[t].at \notin Off /\ call'[t].at \notin Off
    BY <1>0, <2>1 DEF Off
  <2>6. QED
    BY <1>0, <1>1, <2>1, <2>2, <2>3, <2>4, <2>5, WorksStep DEF Fresh
<1>2. ASSUME NEW l \in {"list", "bug"}, Goto(t, l), vmapped' = vmapped, obj' = obj PROVE IInv'
  <2>1. /\ call' \in [Threads -> CallType] /\ OthersKeep(t)
        /\ call'[t].at = l /\ call'[t].s = call[t].s /\ call'[t].o = o
    BY <1>2, GotoEffect DEF IInv, Labels
  <2>2. CtlType'
    BY <1>0, <1>2, <2>1 DEF IInv, Ctl, CtlType, CallType
  <2>3. Works(t)
    BY <1>0, <1>2, <2>1 DEF Works, Creating, Stuck, ObjsKeep
  <2>4. call[t].at \notin Off /\ call'[t].at \notin Off /\ call'[t].at \notin Unmapped
    BY <1>0, <2>1 DEF Off, Unmapped
  <2>5. QED
    BY <1>0, <1>2, <2>1, <2>2, <2>3, <2>4, WorksStep DEF Fresh
<1>3. QED
  BY <1>0, <1>1, <1>2 DEF CreateCopy

(* err_detach_dma_buf.                                                     *)
LEMMA ErrDetachStep == ASSUME IInv, NEW t \in Threads, ErrDetach(t) PROVE IInv'
<1> DEFINE o == call[t].o
<1>0. /\ call[t].at = "err_detach" /\ o \in Objs /\ obj[o].kv = FALSE
      /\ obj' = obj /\ list' = list /\ closing' = closing /\ dangling' = dangling
      /\ ref' = ref /\ fds' = fds /\ vmapped' = vmapped
      /\ attached' = [attached EXCEPT ![Buf(t)] = @ - 1] /\ Goto(t, "err_put")
  BY HoldingHas DEF ErrDetach, At, Holding, Creating, Stuck, Unmapped
<1>1. /\ call' \in [Threads -> CallType] /\ OthersKeep(t)
      /\ call'[t].at = "err_put" /\ call'[t].s = call[t].s /\ call'[t].o = o
  BY <1>0, GotoEffect DEF IInv, Labels
<1>2. CtlType'
  BY <1>0, <1>1 DEF IInv, Ctl, CtlType, CallType
<1>3. Works(t)
  BY <1>0, <1>1 DEF Works, Creating, ObjsKeep
<1>4. call[t].at \notin Off /\ call'[t].at \in Off
  BY <1>0, <1>1 DEF Off
<1>5. QED
  BY <1>0, <1>1, <1>2, <1>3, <1>4, WorksStep DEF Fresh

(* A thread that touches a released dma-buf stops.                         *)
LEMMA CrashStep == ASSUME IInv, NEW t \in Threads, Crash(t) PROVE IInv'
<1> DEFINE o == call[t].o
<1>0. /\ call[t].at \in {"attach", "vmap", "err_detach", "err_put", "unmap", "put"}
      /\ o \in Objs
      /\ obj' = obj /\ list' = list /\ closing' = closing /\ UNCHANGED bufVars
  BY HoldingHas DEF Crash, Holding, Creating
<1>1. PICK l \in Stuck : /\ Goto(t, l)
                         /\ l = "oops" <=> call[t].at \in {"attach", "err_put", "put"}
  BY DEF Crash, Stuck
<1>2. /\ call' \in [Threads -> CallType] /\ OthersKeep(t)
      /\ call'[t].at = l /\ call'[t].s = call[t].s /\ call'[t].o = o
  BY <1>1, GotoEffect DEF IInv, Labels, Stuck
<1>3. CtlType'
  BY <1>0, <1>2 DEF IInv, Ctl, CtlType, CallType, bufVars
<1>4. Works(t)
  BY <1>0, <1>2 DEF Works, Creating, ObjsKeep
<1>5. /\ call[t].at \in Off <=> call'[t].at \in Off
      /\ call'[t].at \notin Unmapped /\ call'[t].at \notin Fresh /\ call[t].at \notin Fresh
  BY <1>0, <1>1, <1>2 DEF Off, Unmapped, Fresh, Stuck
<1>6. QED
  BY <1>0, <1>2, <1>3, <1>4, <1>5, WorksStep DEF bufVars

(* The first half of MEM_DESTROY, and of an object's release.              *)
LEMMA UnmapStep == ASSUME IInv, NEW t \in Threads, Unmap(t) PROVE IInv'
<1> DEFINE o == call[t].o
<1>0. /\ call[t].at = "unmap" /\ o \in Objs /\ obj[o].kv \in BOOLEAN /\ Buf(t) \in Bufs
      /\ list' = list /\ closing' = closing /\ dangling' = dangling
      /\ ref' = ref /\ fds' = fds
      /\ attached' = [attached EXCEPT ![Buf(t)] = @ - 1] /\ Goto(t, "put")
      /\ obj' = [obj EXCEPT ![o].kv = FALSE]
  BY HoldingHas DEF Unmap, Detach, At, Holding
<1>1. /\ call' \in [Threads -> CallType] /\ OthersKeep(t)
      /\ call'[t].at = "put" /\ call'[t].s = call[t].s /\ call'[t].o = o
  BY <1>0, GotoEffect DEF IInv, Labels
<1>2. /\ obj' \in [Objs -> ObjType] /\ ObjsKeep(o)
      /\ obj'[o].kv = FALSE /\ obj'[o].buf = obj[o].buf /\ obj'[o].owner = obj[o].owner
  BY <1>0, KvEffect DEF IInv
<1>3. CtlType'
  BY <1>0, <1>1, <1>2 DEF IInv, Ctl, CtlType, CallType, ObjType
<1>4. Works(t)
  BY <1>0, <1>1, <1>2 DEF Works
<1>5. call[t].at \notin Off /\ call'[t].at \in Off
  BY <1>0, <1>1 DEF Off
<1>6. CASE obj[o].kv = TRUE
  <2>1. vmapped' = [vmapped EXCEPT ![Buf(t)] = @ - 1]
    BY <1>6 DEF Unmap, Detach
  <2>2. QED
    BY <1>0, <1>1, <1>2, <1>3, <1>4, <1>5, <1>6, <2>1, WorksStep DEF Fresh
<1>7. CASE obj[o].kv = FALSE
  <2>1. vmapped' = vmapped
    BY <1>7 DEF Unmap, Detach, IInv, VmapInv
  <2>2. QED
    BY <1>0, <1>1, <1>2, <1>3, <1>4, <1>5, <1>7, <2>1, WorksStep DEF Fresh
<1>8. QED
  BY <1>0, <1>6, <1>7

(* The head of MEM_CREATE.                                                 *)
LEMMA StartStep ==
    ASSUME IInv, NEW t \in Threads, NEW s \in Sessions, NEW o \in Objs, NEW b \in Bufs,
           NEW own \in BOOLEAN, NEW kmap \in BOOLEAN,
           Start(t, s, o, b, own, kmap, IF own THEN "fd" ELSE "attach"),
           own = TRUE => fds[b] = 0 /\ b \notin dangling /\ \A p \in Objs : obj[p].buf # b,
           own = FALSE => fds[b] > 0
    PROVE  IInv'
<1>0. /\ call[t].at = "idle" /\ obj[o] = NoObject
      /\ list' = list /\ closing' = closing /\ dangling' = dangling
      /\ fds' = fds /\ attached' = attached /\ vmapped' = vmapped
      /\ ref' = [ref EXCEPT ![b] = @ + 1]
  BY DEF Start, At, Free
<1>1. /\ call' \in [Threads -> CallType] /\ OthersKeep(t)
      /\ call'[t].at = IF own THEN "fd" ELSE "attach"
      /\ call'[t].s = s /\ call'[t].o = o
  BY DEF Start, IInv, Ctl, CtlType, CallType, OthersKeep, Labels
<1>2. /\ obj' \in [Objs -> ObjType] /\ ObjsKeep(o)
      /\ obj'[o].buf = b /\ obj'[o].owner = own /\ obj'[o].kv = FALSE
  BY DEF Start, IInv, Ctl, CtlType, ObjType, ObjsKeep
<1>3. CtlType'
  BY <1>0, <1>1, <1>2 DEF IInv, Ctl, CtlType, CallType, ObjType
<1>4. Begins(t, s, o, b, own)
  <2>1. call'[t].at \in Creating
    BY <1>1 DEF Creating
  <2>2. closing[s] = {} /\ \A u \in Threads : call[u].s = s => call[u].at # "release"
    BY DEF Start
  <2>3. QED
    BY <1>0, <1>1, <1>2, <2>1, <2>2 DEF Begins
<1>5. Ctl'
  BY <1>3, <1>4, CtlBegins DEF IInv
<1>6. AttInv' /\ VmapInv'
  BY <1>0, <1>4, MapsBegins DEF IInv
<1>7. RefInv' /\ OwnInv'
  BY <1>0, <1>3, <1>4, OwnBegins DEF IInv
<1>8. KvInv'
  <2> SUFFICES ASSUME NEW u \in Threads, call'[u].at \in Unmapped
               PROVE  obj'[call'[u].o].kv = FALSE
    BY DEF KvInv
  <2>1. CASE u = t
    BY <1>1, <1>2, <2>1
  <2>2. CASE u # t
    <3>1. call'[u] = call[u] /\ call[u].o \in Objs /\ Live(call[u].o)
      BY <1>1, <2>2 DEF OthersKeep, IInv, Ctl, CallInv, Holding, Creating, Stuck, Unmapped
    <3>2. call[u].o # o
      BY <1>0, <3>1, CtlFacts DEF IInv
    <3>3. QED
      BY <1>2, <3>1, <3>2 DEF IInv, KvInv, ObjsKeep
  <2>3. QED
    BY <2>1, <2>2
<1>9. QED
  BY <1>5, <1>6, <1>7, <1>8 DEF IInv

(* MEM_CREATE without a handle.                                            *)
LEMMA CreateAllocStep ==
    ASSUME IInv, NEW t \in Threads, NEW s \in Sessions, NEW o \in Objs, NEW b \in Bufs,
           NEW kmap \in BOOLEAN, CreateAlloc(t, s, o, b, kmap)
    PROVE  IInv'
<1>1. Start(t, s, o, b, TRUE, kmap, IF TRUE THEN "fd" ELSE "attach")
  BY DEF CreateAlloc
<1>2. QED
  BY <1>1, StartStep DEF CreateAlloc

(* MEM_CREATE with a handle.                                               *)
LEMMA CreateImportStep ==
    ASSUME IInv, NEW t \in Threads, NEW s \in Sessions, NEW o \in Objs, NEW b \in Bufs,
           NEW kmap \in BOOLEAN, CreateImport(t, s, o, b, kmap)
    PROVE  IInv'
<1>1. Start(t, s, o, b, FALSE, kmap, IF FALSE THEN "fd" ELSE "attach")
  BY DEF CreateImport
<1>2. QED
  BY <1>1, StartStep DEF CreateImport

(* The object is freed: all parts together.                                *)
LEMMA DropsStep ==
    ASSUME IInv, CtlType', NEW t \in Threads, Drops(t), fds' = fds,
           attached' = attached, vmapped' = vmapped,
           NEW o \in Objs, NEW b \in Bufs, o = call[t].o, b = obj[o].buf,
           PutsRef(t, o, b)
    PROVE  IInv'
<1>1. Ctl'
  BY CtlDrops DEF IInv
<1>2. AttInv' /\ VmapInv'
  BY MapsDrops DEF IInv
<1>3. RefInv' /\ OwnInv'
  <2>1. Ctl /\ RefInv /\ OwnInv
    BY DEF IInv
  <2>2. QED
    BY <2>1, OwnDrops
<1>4. KvInv'
  <2> SUFFICES ASSUME NEW u \in Threads, call'[u].at \in Unmapped
               PROVE  obj'[call'[u].o].kv = FALSE
    BY DEF KvInv
  <2>1. u # t
    BY DEF Drops, Unmapped
  <2>2. call'[u] = call[u] /\ call[u].o \in Objs /\ call[u].o # o
    BY <2>1 DEF Drops, OthersKeep, IInv, Ctl, CallInv, Holding, Creating, Stuck, Unmapped, OneHand
  <2>3. QED
    BY <2>2 DEF Drops, ObjsKeep, IInv, KvInv
<1>5. QED
  BY <1>1, <1>2, <1>3, <1>4 DEF IInv

(* err_free_dma_buf and err_free_obj.                                      *)
LEMMA ErrPutStep == ASSUME IInv, NEW t \in Threads, ErrPut(t) PROVE IInv'
<1>0. /\ call[t].at \in {"err_put", "err_fd"} /\ call[t].o \in Objs /\ Buf(t) \in Bufs
      /\ call[t].s \in Sessions /\ Buf(t) = obj[call[t].o].buf
      /\ obj[call[t].o].owner \in BOOLEAN
      /\ fds' = fds /\ attached' = attached /\ vmapped' = vmapped
      /\ list' = list /\ closing' = closing
      /\ ref' = [ref EXCEPT ![Buf(t)] = @ - 1]
  BY HoldingHas DEF ErrPut, At, Holding, Creating, Stuck
<1>1. /\ call' \in [Threads -> CallType] /\ OthersKeep(t)
      /\ call'[t].at = "idle" /\ call'[t].s = NoSession /\ call'[t].o = NoObj
  BY DEF ErrPut, Return, Idle, IInv, Ctl, CtlType, CallType, OthersKeep, Labels
<1>2. /\ obj' \in [Objs -> ObjType] /\ ObjsKeep(call[t].o) /\ obj'[call[t].o] = NoObject
  BY <1>0 DEF ErrPut, NoObject, IInv, Ctl, CtlType, ObjType, ObjsKeep
<1>3. dangling' = IF call[t].at = "err_put" /\ obj[call[t].o].owner = TRUE
                  THEN dangling \cup {Buf(t)} ELSE dangling
  BY <1>0 DEF ErrPut, At
<1>4. CtlType'
  BY <1>0, <1>1, <1>2, <1>3 DEF IInv, Ctl, CtlType, CallType, ObjType
<1>5. Drops(t)
  <2>1. \A s \in Sessions : call[t].o \notin closing[s]
    BY <1>0 DEF IInv, Ctl, HandClosing, Stuck
  <2>2. QED
    BY <1>0, <1>1, <1>2, <2>1 DEF Drops
<1>6. PutsRef(t, call[t].o, Buf(t))
  BY <1>0, <1>3 DEF PutsRef
<1>7. QED
  BY <1>0, <1>4, <1>5, <1>6, DropsStep

(* The second half of MEM_DESTROY, and of an object's release.             *)
LEMMA PutBufStep == ASSUME IInv, NEW t \in Threads, PutBuf(t) PROVE IInv'
<1> DEFINE o == call[t].o
           s == call[t].s
<1>0. /\ call[t].at = "put" /\ o \in Objs /\ Buf(t) \in Bufs
      /\ s \in Sessions /\ Buf(t) = obj[o].buf
      /\ obj[o].owner \in BOOLEAN
      /\ fds' = fds /\ attached' = attached /\ vmapped' = vmapped
      /\ list' = list /\ dangling' = dangling
      /\ closing' = [closing EXCEPT ![s] = @ \ {o}]
      /\ ref \in [Bufs -> Int]
  BY HoldingHas DEF PutBuf, At, Holding, IInv, RefInv
<1>1. /\ call' \in [Threads -> CallType] /\ OthersKeep(t) /\ call'[t].o = NoObj
      /\ IF o \in closing[s] THEN call'[t].at = "release" /\ call'[t].s = s
                             ELSE call'[t].at = "idle" /\ call'[t].s = NoSession
  <2>1. CASE o \in closing[s]
    <3>1. call' = [call EXCEPT ![t] = [Idle EXCEPT !.at = "release", !.s = s]]
      BY <2>1 DEF PutBuf
    <3>2. QED
      BY <1>0, <2>1, <3>1 DEF Idle, IInv, Ctl, CtlType, CallType, OthersKeep, Labels
  <2>2. CASE o \notin closing[s]
    <3>1. call' = [call EXCEPT ![t] = Idle]
      BY <2>2 DEF PutBuf, Return
    <3>2. QED
      BY <1>0, <2>2, <3>1 DEF Idle, IInv, Ctl, CtlType, CallType, OthersKeep, Labels
  <2>3. QED
    BY <2>1, <2>2
<1>2. /\ obj' \in [Objs -> ObjType] /\ ObjsKeep(o) /\ obj'[o] = NoObject
  BY <1>0 DEF PutBuf, NoObject, IInv, Ctl, CtlType, ObjType, ObjsKeep
<1>3. closing' \in [Sessions -> SUBSET Objs]
  BY <1>0 DEF IInv, Ctl, CtlType
<1>4. CtlType'
  BY <1>0, <1>1, <1>2, <1>3 DEF IInv, Ctl, CtlType, CallType, ObjType
<1>5. \A r \in Sessions : closing'[r] = closing[r] \ {o}
  <2>1. \A r \in Sessions : r # s => o \notin closing[r]
    BY DEF IInv, Ctl, HandClosing
  <2>2. QED
    BY <1>0, <2>1 DEF IInv, Ctl, CtlType
<1>6. Drops(t)
  BY <1>0, <1>1, <1>2, <1>5 DEF Drops
<1>7. CASE obj[o].owner = TRUE
  <2>1. ref' = ref
    BY <1>0, <1>7 DEF PutBuf
  <2>2. PutsRef(t, o, Buf(t))
    BY <1>0, <1>7, <2>1 DEF PutsRef
  <2>3. QED
    BY <1>0, <1>4, <1>6, <2>2, DropsStep
<1>8. CASE obj[o].owner = FALSE
  <2>1. ref' = [ref EXCEPT ![Buf(t)] = @ - 1]
    BY <1>8 DEF PutBuf
  <2>2. PutsRef(t, o, Buf(t))
    BY <1>0, <1>8, <2>1 DEF PutsRef
  <2>3. QED
    BY <1>0, <1>4, <1>6, <2>2, DropsStep
<1>9. QED
  BY <1>0, <1>7, <1>8

(* MEM_CREATE ends: the object goes on the list of its session.            *)
LEMMA CreateListStep == ASSUME IInv, NEW t \in Threads, CreateList(t) PROVE IInv'
<1>0. /\ call[t].at = "list" /\ call[t].o \in Objs /\ call[t].s \in Sessions
      /\ obj' = obj /\ closing' = closing /\ UNCHANGED bufVars
  BY HoldingHas DEF CreateList, At, Holding, Creating, Stuck
<1>1. call' \in [Threads -> CallType] /\ OthersKeep(t) /\ call'[t].at = "idle"
  BY DEF CreateList, Return, Idle, IInv, Ctl, CtlType, CallType, OthersKeep, Labels
<1>2. list' \in [Sessions -> SUBSET Objs]
  BY <1>0 DEF CreateList, IInv, Ctl, CtlType
<1>3. CtlType'
  BY <1>0, <1>1, <1>2 DEF IInv, Ctl, CtlType, CallType, bufVars
<1>4. Passes(t)
  BY <1>0, <1>1 DEF Passes
<1>5. Ctl'
  BY <1>3, CtlCreateList DEF IInv
<1>6. QED
  BY <1>4, <1>5, MapsPasses, OwnPasses DEF IInv

(* MEM_DESTROY takes the object off the list of its session.               *)
LEMMA DestroyStep ==
    ASSUME IInv, NEW t \in Threads, NEW s \in Sessions, NEW o \in Objs, Destroy(t, s, o)
    PROVE  IInv'
<1>0. /\ call[t].at = "idle" /\ obj' = obj /\ closing' = closing /\ UNCHANGED bufVars
  BY DEF Destroy, At
<1>1. call' \in [Threads -> CallType] /\ OthersKeep(t) /\ call'[t].at = "unmap"
  BY DEF Destroy, Idle, IInv, Ctl, CtlType, CallType, OthersKeep, Labels
<1>2. list' \in [Sessions -> SUBSET Objs]
  BY DEF Destroy, IInv, Ctl, CtlType
<1>3. CtlType'
  BY <1>0, <1>1, <1>2 DEF IInv, Ctl, CtlType, CallType, bufVars
<1>4. Passes(t)
  BY <1>0, <1>1 DEF Passes
<1>5. Ctl'
  BY <1>3, CtlDestroy DEF IInv
<1>6. QED
  BY <1>4, <1>5, MapsPasses, OwnPasses DEF IInv

(* rknpu_release begins.                                                   *)
LEMMA ReleaseStep ==
    ASSUME IInv, NEW t \in Threads, NEW s \in Sessions, Release(t, s)
    PROVE  IInv'
<1>0. /\ call[t].at = "idle" /\ obj' = obj /\ UNCHANGED bufVars
  BY DEF Release, At
<1>1. call' \in [Threads -> CallType] /\ OthersKeep(t) /\ call'[t].at = "release"
  BY DEF Release, Idle, IInv, Ctl, CtlType, CallType, OthersKeep, Labels
<1>2. list' \in [Sessions -> SUBSET Objs] /\ closing' \in [Sessions -> SUBSET Objs]
  BY DEF Release, IInv, Ctl, CtlType
<1>3. CtlType'
  BY <1>0, <1>1, <1>2 DEF IInv, Ctl, CtlType, CallType, bufVars
<1>4. Passes(t)
  BY <1>0, <1>1 DEF Passes
<1>5. Ctl'
  BY <1>3, CtlRelease DEF IInv
<1>6. QED
  BY <1>4, <1>5, MapsPasses, OwnPasses DEF IInv

(* rknpu_release goes on.                                                  *)
LEMMA ReleaseNextStep == ASSUME IInv, NEW t \in Threads, ReleaseNext(t) PROVE IInv'
<1>0. /\ call[t].at = "release" /\ call[t].s \in Sessions
      /\ obj' = obj /\ list' = list /\ closing' = closing /\ UNCHANGED bufVars
  BY DEF ReleaseNext, At, IInv, Ctl, CallInv
<1>1. /\ call' \in [Threads -> CallType] /\ OthersKeep(t)
      /\ call'[t].at \in {"unmap", "idle"}
  <2>1. ASSUME NEW o \in closing[call[t].s],
               call' = [call EXCEPT ![t].at = "unmap", ![t].o = o]
        PROVE  /\ call' \in [Threads -> CallType] /\ OthersKeep(t)
               /\ call'[t].at \in {"unmap", "idle"}
    <3>1. o \in Objs
      BY <1>0 DEF IInv, Ctl, CtlType
    <3>2. call \in [Threads -> CallType]
      BY DEF IInv, Ctl, CtlType, CallType
    <3>3. [call[t] EXCEPT !.at = "unmap", !.o = o] \in CallType
          /\ [call[t] EXCEPT !.at = "unmap", !.o = o].at = "unmap"
      BY <3>1, <3>2 DEF CallType, Labels
    <3>4. call' = [call EXCEPT ![t] = [call[t] EXCEPT !.at = "unmap", !.o = o]]
      BY <2>1, <3>2
    <3>5. QED
      BY <3>2, <3>3, <3>4 DEF OthersKeep
  <2>2. ASSUME Return(t)
        PROVE  /\ call' \in [Threads -> CallType] /\ OthersKeep(t)
               /\ call'[t].at \in {"unmap", "idle"}
    BY <2>2 DEF Return, Idle, IInv, Ctl, CtlType, CallType, OthersKeep, Labels
  <2>3. QED
    BY <2>1, <2>2 DEF ReleaseNext
<1>2. CtlType'
  BY <1>0, <1>1 DEF IInv, Ctl, CtlType, CallType, bufVars
<1>3. Passes(t)
  BY <1>0, <1>1 DEF Passes
<1>4. Ctl'
  BY <1>2, CtlReleaseNext DEF IInv
<1>5. QED
  BY <1>3, <1>4, MapsPasses, OwnPasses DEF IInv

(* The client's fds.                                                       *)
LEMMA FdsStep == ASSUME IInv, NEW b \in Bufs, DupFd(b) \/ CloseFd(b) PROVE IInv'
<1>0. /\ call' = call /\ obj' = obj /\ list' = list /\ closing' = closing
      /\ dangling' = dangling /\ attached' = attached /\ vmapped' = vmapped
      /\ fds[b] \in Nat /\ fds[b] > 0
  BY MemAssumption DEF DupFd, CloseFd, IInv, RefInv
<1>1. Ctl'
  BY <1>0 DEF IInv, Ctl, CtlType, CallInv, Live, ObjInv, OneHand, HandNotListed, HandClosing,
              ListedLive, ListsApart, KeptInv, OneReleaser, Releaser, ReleaserEmptied,
              ClosingReleased
<1>2. AttInv' /\ VmapInv' /\ KvInv'
  BY <1>0 DEF IInv, AttInv, VmapInv, KvInv, On, Kv
<1>3. \/ /\ fds[b] < MaxFds
         /\ fds' = [fds EXCEPT ![b] = @ + 1] /\ ref' = [ref EXCEPT ![b] = @ + 1]
      \/ fds' = [fds EXCEPT ![b] = @ - 1] /\ ref' = [ref EXCEPT ![b] = @ - 1]
  BY <1>0, MemAssumption DEF DupFd, CloseFd
<1>4. RefInv' /\ OwnInv'
  BY <1>0, <1>3, OwnFds DEF IInv
<1>5. QED
  BY <1>1, <1>2, <1>4 DEF IInv

(* The initial state.                                                      *)
LEMMA InitIInv == Init => IInv
<1> SUFFICES ASSUME Init PROVE IInv
  OBVIOUS
<1>0. /\ NoSession \notin Sessions /\ NoObj \notin Objs /\ NoBuf \notin Bufs
      /\ MaxFds \in Nat \ {0}
  BY MemAssumption
<1>1. /\ \A o \in Objs : /\ obj[o] = NoObject /\ obj[o].buf = NoBuf
                         /\ obj[o].owner = FALSE /\ obj[o].kv = FALSE
      /\ \A t \in Threads : call[t].at = "idle" /\ call[t].s = NoSession /\ call[t].o = NoObj
      /\ \A s \in Sessions : list[s] = {} /\ closing[s] = {}
      /\ dangling = {}
  BY DEF Init, NoObject, Idle
<1>2. CtlType
  BY DEF Init, CtlType, NoObject, Idle, Labels
<1>3. CallInv /\ ObjInv /\ OneHand /\ HandNotListed /\ HandClosing
  BY <1>0, <1>1 DEF CallInv, ObjInv, OneHand, HandNotListed, HandClosing, Holding, Creating, Stuck
<1>4. ListedLive /\ ListsApart /\ KeptInv
  BY <1>0, <1>1 DEF ListedLive, ListsApart, KeptInv, Live
<1>5. OneReleaser /\ ReleaserEmptied /\ ClosingReleased
  BY <1>0, <1>1 DEF OneReleaser, ReleaserEmptied, ClosingReleased, Releaser
<1>6. \A b \in Bufs : On(b) = {} /\ Kv(b) = {} /\ ImportsOf(b) = {}
  BY <1>0, <1>1 DEF On, Kv, ImportsOf
<1>7. AttInv /\ VmapInv
  BY <1>6, FS_EmptySet DEF Init, AttInv, VmapInv
<1>8. KvInv
  BY <1>1 DEF KvInv, Unmapped
<1>9. RefInv
  <2>1. \A b \in Bufs : Pending(b) = 0 /\ Taken(b) = 0
    BY <1>0, <1>1 DEF Pending, HasFresh, Fresh, Taken
  <2>2. fds \in [Bufs -> 0 .. MaxFds] /\ ref = fds
    BY <1>0 DEF Init
  <2>3. \A b \in Bufs : ref[b] = fds[b] + 0 + 0 - 0 /\ ref[b] \in Int
    BY <1>0, <2>2
  <2>4. QED
    BY <1>0, <1>6, <2>1, <2>2, <2>3, FS_EmptySet DEF RefInv
<1>10. OwnInv
  BY <1>0, <1>1 DEF OwnInv, FreshAlone, OneAllocated, NotDangling, Live, Fresh
<1>11. QED
  BY <1>2, <1>3, <1>4, <1>5, <1>7, <1>8, <1>9, <1>10 DEF IInv, Ctl

(* The invariant is inductive.                                             *)
LEMMA NextIInv == IInv /\ [Next]_vars => IInv'
<1> SUFFICES ASSUME IInv, [Next]_vars PROVE IInv'
  OBVIOUS
<1>1. ASSUME NEW t \in Threads, CreateStep(t) PROVE IInv'
  BY <1>1, CreateFdStep, CreateAttachStep, CreateVmapStep, CreateCopyStep, CreateListStep,
     ErrDetachStep, ErrPutStep, CrashStep DEF CreateStep
<1>2. ASSUME NEW t \in Threads, Unmap(t) \/ PutBuf(t) \/ ReleaseNext(t) PROVE IInv'
  BY <1>2, UnmapStep, PutBufStep, ReleaseNextStep
<1>3. ASSUME NEW t \in Threads, NEW s \in Sessions, Release(t, s) PROVE IInv'
  BY <1>3, ReleaseStep
<1>4. ASSUME NEW t \in Threads, NEW s \in Sessions, NEW o \in Objs, Destroy(t, s, o) PROVE IInv'
  BY <1>4, DestroyStep
<1>5. ASSUME NEW t \in Threads, NEW s \in Sessions, NEW o \in Objs, NEW b \in Bufs,
             NEW kmap \in BOOLEAN,
             CreateAlloc(t, s, o, b, kmap) \/ CreateImport(t, s, o, b, kmap)
      PROVE  IInv'
  BY <1>5, CreateAllocStep, CreateImportStep
<1>6. ASSUME NEW b \in Bufs, DupFd(b) \/ CloseFd(b) PROVE IInv'
  BY <1>6, FdsStep
<1>7. CASE UNCHANGED vars
  BY <1>7 DEF vars, bufVars, IInv, Ctl, CtlType, CallInv, Live, ObjInv, OneHand, HandNotListed,
              HandClosing, ListedLive, ListsApart, KeptInv, OneReleaser, Releaser,
              ReleaserEmptied, ClosingReleased, AttInv, VmapInv, KvInv, On, Kv, RefInv, ImportsOf,
              Pending, HasFresh, Taken, OwnInv, FreshAlone, OneAllocated, NotDangling, Buf
<1>8. QED
  BY <1>1, <1>2, <1>3, <1>4, <1>5, <1>6, <1>7 DEF Next

(* Every reachable state satisfies the inductive invariant.                *)
THEOREM MemInvariance == Spec => []IInv
  BY InitIInv, NextIInv, PTL DEF Spec

(* The objects of the misc device keep their types; no attachment and no   *)
(* kernel mapping is undone twice, and the file of a dma-buf is put at     *)
(* most once more than it was got, by a create that failed after           *)
(* dma_buf_fd and an fd.                                                   *)
THEOREM MemTypeCorrect == Spec => []TypeOK
<1>1. IInv => TypeOK
  <2> SUFFICES ASSUME IInv PROVE TypeOK
    OBVIOUS
  <2>1. ASSUME NEW b \in Bufs PROVE ref[b] >= (IF b \in dangling THEN -1 ELSE 0)
    <3>1. ref[b] >= 0 - Taken(b) /\ Taken(b) \in {0, 1} /\ ref[b] \in Int
      BY RefFacts DEF IInv
    <3>2. QED
      BY <3>1 DEF Taken
  <2>2. QED
    BY <2>1 DEF IInv, Ctl, CtlType, RefInv, AttInv, VmapInv, TypeOK
<1>2. QED
  BY <1>1, MemInvariance, PTL

(* A dma-buf is referenced by its fds, by the objects that imported it and *)
(* by an allocation that has no fd yet, and by nothing else, however       *)
(* creates, destroys, releases and the client's closes interleave; a       *)
(* create that fails after dma_buf_fd has taken one reference too many,    *)
(* that of the fd, and no other call has.                                  *)
THEOREM MemRefExact == Spec => []RefExact
<1>1. IInv => RefExact
  <2> SUFFICES ASSUME IInv, NEW b \in Bufs
               PROVE  ref[b] = fds[b] + Cardinality(Imports(b))
                        + (IF Doing({"fd", "err_fd"}, b) # {} THEN 1 ELSE 0)
                        - (IF b \in dangling THEN 1 ELSE 0)
    BY DEF RefExact
  <2>0. \A o \in Objs : obj[o].owner \in BOOLEAN
    BY DEF IInv, Ctl, CtlType
  <2>1. Imports(b) = ImportsOf(b)
    BY <2>0 DEF Imports, ObjsOf, ImportsOf
  <2>2. Doing({"fd", "err_fd"}, b) # {} <=> HasFresh(b)
    BY DEF Doing, HasFresh, Fresh
  <2>3. ref[b] = fds[b] + Cardinality(ImportsOf(b)) + Pending(b) - Taken(b)
    BY DEF IInv, RefInv
  <2>4. QED
    BY <2>1, <2>2, <2>3 DEF Pending, Taken
<1>2. QED
  BY <1>1, MemInvariance, PTL

(* Every attachment is one object's and is removed once, and the kernel    *)
(* mappings of a buffer are those of its objects.                          *)
THEOREM MemMappingsExact == Spec => []MappingsExact
<1>1. IInv => MappingsExact
  <2> SUFFICES ASSUME IInv, NEW b \in Bufs
               PROVE  /\ attached[b] = Cardinality(ObjsOf(b)) - Cardinality(Doing(Off, b))
                      /\ vmapped[b] = Cardinality({o \in ObjsOf(b) : obj[o].kv})
    BY DEF MappingsExact, Off
  <2>1. vmapped[b] = Cardinality({o \in ObjsOf(b) : obj[o].kv})
    <3>1. {o \in ObjsOf(b) : obj[o].kv} = Kv(b)
      BY DEF ObjsOf, Kv
    <3>2. QED
      BY <3>1 DEF IInv, VmapInv
  <2> DEFINE D == Doing(Off, b)
             W == {o \in Objs : /\ obj[o].buf = b
                                /\ \E t \in Threads : call[t].o = o /\ call[t].at \in Off}
             f == [t \in D |-> call[t].o]
  <2>2. \A t \in D : t \in Threads /\ call[t].at \in Off /\ call[t].o \in W
    BY DEF Doing, IInv, Ctl, CallInv, Holding, Creating, Stuck, Off, Buf
  <2>3. f \in Bijection(D, W)
    <3>1. f \in [D -> W]
      BY <2>2
    <3>2. \A t, u \in D : f[t] = f[u] => t = u
      BY <2>2 DEF IInv, Ctl, OneHand
    <3>3. \A o \in W : \E t \in D : f[t] = o
      BY DEF Doing, Buf
    <3> HIDE DEF D, W, f
    <3>4. QED
      BY <3>1, <3>2, <3>3, Fun_IsBij
  <2>4. IsFiniteSet(D) /\ Cardinality(W) = Cardinality(D)
    <3>1. D \in SUBSET Threads
      BY DEF Doing
    <3> HIDE DEF D, W, f
    <3>2. IsFiniteSet(D)
      BY <3>1, MemAssumption, FS_Subset
    <3>3. ExistsBijection(D, W)
      BY <2>3 DEF ExistsBijection
    <3>4. QED
      BY <3>2, <3>3, FS_Bijection
  <2>5. /\ ObjsOf(b) = On(b) \cup W /\ On(b) \cap W = {}
        /\ On(b) \in SUBSET Objs /\ W \in SUBSET Objs
    <3>1. \A o \in Objs : o \in On(b) <=> obj[o].buf = b /\ o \notin W
      BY DEF On
    <3>2. QED
      BY <3>1 DEF ObjsOf, On
  <2>6. Cardinality(ObjsOf(b)) = Cardinality(On(b)) + Cardinality(W)
        /\ Cardinality(On(b)) \in Nat /\ Cardinality(W) \in Nat
    <3> HIDE DEF D, W, f
    <3>1. IsFiniteSet(On(b)) /\ IsFiniteSet(W)
      BY <2>5, MemAssumption, FS_Subset
    <3>2. Cardinality(On(b)) \in Nat /\ Cardinality(W) \in Nat
      BY <3>1, FS_CardinalityType
    <3>3. Cardinality(On(b) \cap W) = 0
      BY <2>5, FS_EmptySet
    <3>4. Cardinality(On(b) \cup W)
            = Cardinality(On(b)) + Cardinality(W) - Cardinality(On(b) \cap W)
      BY <3>1, FS_Union
    <3>5. QED
      BY <2>5, <3>2, <3>3, <3>4
  <2>7. attached[b] = Cardinality(On(b))
    BY DEF IInv, AttInv
  <2> HIDE DEF D, W, f
  <2>8. attached[b] = Cardinality(ObjsOf(b)) - Cardinality(D)
    BY <2>4, <2>6, <2>7
  <2>9. QED
    BY <2>1, <2>8 DEF D
<1>2. QED
  BY <1>1, MemInvariance, PTL

(* An attached buffer is released in two cases only: its fds are closed    *)
(* and the object of its allocation is all that uses it, or a create that  *)
(* failed after dma_buf_fd has taken the reference of an fd or an import.  *)
THEOREM MemAttachedIsAlive == Spec => []AttachedIsAlive
<1>1. IInv => AttachedIsAlive
  <2> SUFFICES ASSUME IInv, NEW b \in Bufs, attached[b] > 0, ref[b] <= 0
               PROVE  \/ Keepers(b) = 0 /\ Cardinality(ObjsOf(b)) = 1
                      \/ Keepers(b) <= 1 /\ b \in dangling
    BY DEF AttachedIsAlive, Dead
  <2>0. \A o \in Objs : obj[o].owner \in BOOLEAN
    BY DEF IInv, Ctl, CtlType
  <2>1. Imports(b) = ImportsOf(b)
    BY <2>0 DEF Imports, ObjsOf, ImportsOf
  <2>2. /\ fds[b] \in Nat /\ Cardinality(ImportsOf(b)) \in Nat /\ ImportsOf(b) \in SUBSET Objs
        /\ Pending(b) \in {0, 1} /\ Taken(b) \in {0, 1}
        /\ ref[b] = fds[b] + Cardinality(ImportsOf(b)) + Pending(b) - Taken(b)
    BY RefFacts DEF IInv
  <2>3. Keepers(b) \in Nat /\ Keepers(b) <= Taken(b)
    BY <2>1, <2>2 DEF Keepers
  <2>4. CASE b \in dangling
    BY <2>3, <2>4 DEF Taken
  <2>5. CASE b \notin dangling
    <3>1. Keepers(b) = 0 /\ Cardinality(ImportsOf(b)) = 0
      BY <2>1, <2>2, <2>3, <2>5 DEF Taken, Keepers
    <3>2. ImportsOf(b) = {}
      <4>1. IsFiniteSet(ImportsOf(b))
        BY <2>2, MemAssumption, FS_Subset
      <4>2. QED
        BY <3>1, <4>1, FS_EmptySet
    <3>3. attached[b] = Cardinality(On(b))
      BY DEF IInv, AttInv
    <3>4. PICK o \in Objs : obj[o].buf = b
      BY <3>3, FS_EmptySet DEF On
    <3>5. \A p \in Objs : obj[p].buf = b => obj[p].owner = TRUE
      BY <2>0, <3>2 DEF ImportsOf
    <3>6. ObjsOf(b) = {o}
      BY <3>4, <3>5 DEF ObjsOf, IInv, OwnInv, OneAllocated, Live
    <3>7. QED
      BY <3>1, <3>6, FS_Singleton
  <2>6. QED
    BY <2>4, <2>5
<1>2. QED
  BY <1>1, MemInvariance, PTL

(* An object is on one list or in one hand: a destroy, a second destroy    *)
(* and the release of the session never both have it, and none loses it.   *)
THEOREM MemOneOwner == Spec => []OneOwner
<1>1. IInv => OneOwner
  <2> SUFFICES ASSUME IInv, NEW o \in Objs, obj[o] # NoObject
               PROVE  \/ Cardinality(Hands(o)) + Cardinality(Lists(o)) = 1
                      \/ Hands(o) = {} /\ \E s \in Sessions : o \in closing[s]
    BY DEF OneOwner
  <2>1. Live(o)
    BY DEF IInv, Ctl, ObjInv
  <2>2. CASE \E t \in Threads : call[t].o = o
    <3>1. PICK t \in Threads : call[t].o = o
      BY <2>2
    <3>2. Hands(o) = {t}
      BY <3>1 DEF Hands, IInv, Ctl, OneHand
    <3>3. Lists(o) = {}
      BY <3>1 DEF Lists, IInv, Ctl, HandNotListed
    <3>4. Cardinality(Hands(o)) = 1 /\ Cardinality(Lists(o)) = 0
      BY <3>2, <3>3, FS_Singleton, FS_EmptySet
    <3>5. QED
      BY <3>4
  <2>3. CASE /\ ~\E t \in Threads : call[t].o = o
             /\ \E s \in Sessions : o \in list[s]
    <3>1. PICK s \in Sessions : o \in list[s]
      BY <2>3
    <3>2. Lists(o) = {s}
      BY <3>1 DEF Lists, IInv, Ctl, ListsApart
    <3>3. Hands(o) = {}
      BY <2>3 DEF Hands
    <3>4. Cardinality(Hands(o)) = 0 /\ Cardinality(Lists(o)) = 1
      BY <3>2, <3>3, FS_Singleton, FS_EmptySet
    <3>5. QED
      BY <3>4
  <2>4. CASE /\ ~\E t \in Threads : call[t].o = o
             /\ ~\E s \in Sessions : o \in list[s]
    BY <2>1, <2>4 DEF IInv, Ctl, KeptInv, Hands
  <2>5. QED
    BY <2>2, <2>3, <2>4
<1>2. QED
  BY <1>1, MemInvariance, PTL
=============================================================================
