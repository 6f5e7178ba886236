------------------------------ MODULE BufferPool ------------------------------
(***************************************************************************)
(* Reference counted buffers and buffer pools (libavutil/buffer.c), as they  *)
(* are compiled with threads: the list of a pool is guarded by its mutex,    *)
(* the counters are atomic.  Threads reference, hand over, copy and release  *)
(* buffers, get them from the current pool, and replace the pool while       *)
(* buffers of the old one are still in use (update_frame_pool() of           *)
(* libavcodec/utils.c).                                                      *)
(*                                                                           *)
(* A block is the memory of one data buffer together with what describes it: *)
(* the AVBuffer while it is referenced and, when it came from a pool, the    *)
(* BufferPoolEntry.  Blocks, AVBufferRefs and pools may be reused once they  *)
(* are freed, as by malloc().                                                *)
(***************************************************************************)
EXTENDS Naturals, FiniteSets

CONSTANTS
  Threads,
  Refs,      \* AVBufferRef structures
  Blocks,    \* blocks of data
  Pools,     \* AVBufferPool structures
  None

ASSUME PoolAssumption ==
  /\ IsFiniteSet(Threads) /\ IsFiniteSet(Refs) /\ IsFiniteSet(Blocks) /\ IsFiniteSet(Pools)
  /\ None \notin Threads \cup Refs \cup Blocks \cup Pools

VARIABLES
  live,           \* the blocks that are allocated
  home,           \* the pool a block belongs to, None for one of av_buffer_create()
  flags,          \* AVBuffer.flags
  refcount,       \* AVBuffer.refcount
  buffer,         \* AVBufferRef.buffer
  holder,         \* the thread an AVBufferRef belongs to
  pools,          \* the pools that are allocated
  pool_refcount,  \* AVBufferPool.refcount
  entries,        \* the list AVBufferPool.pool
  mutex,          \* AVBufferPool.mutex
  ppool,          \* the client's pointer to its pool
  pc,             \* what each thread is doing
  pbuf, newbuf,   \* its references in av_buffer_make_writable() and av_buffer_realloc()
  buf, pool       \* its block and pool in a release or a get

buffers == <<live, home, flags, refcount>>
refs == <<buffer, holder>>
shared == <<pools, pool_refcount, entries, mutex>>
locals == <<pbuf, newbuf, buf, pool>>
vars == <<live, home, flags, refcount, buffer, holder, pools, pool_refcount, entries, mutex,
          ppool, pc, pbuf, newbuf, buf, pool>>

Init ==
  /\ live = {}
  /\ home = [d \in Blocks |-> None]
  /\ flags = [d \in Blocks |-> {}]
  /\ refcount = [d \in Blocks |-> 0]
  /\ buffer = [r \in Refs |-> None]
  /\ holder = [r \in Refs |-> None]
  /\ pools = {}
  /\ pool_refcount = [p \in Pools |-> 0]
  /\ entries = [p \in Pools |-> {}]
  /\ mutex = [p \in Pools |-> None]
  /\ ppool = None
  /\ pc = [t \in Threads |-> "idle"]
  /\ pbuf = [t \in Threads |-> None]
  /\ newbuf = [t \in Threads |-> None]
  /\ buf = [t \in Threads |-> None]
  /\ pool = [t \in Threads |-> None]

Goto(t, label) == pc' = [pc EXCEPT ![t] = label]

Holds(t, r) == holder[r] = t

\* av_buffer_create(): a reference r of t to the fresh or recycled block d.
Create(t, r, d, p, fl) ==
  /\ buffer[r] = None
  /\ live' = live \cup {d}
  /\ home' = [home EXCEPT ![d] = p]
  /\ flags' = [flags EXCEPT ![d] = fl]
  /\ refcount' = [refcount EXCEPT ![d] = 1]
  /\ buffer' = [buffer EXCEPT ![r] = d]
  /\ holder' = [holder EXCEPT ![r] = t]

-------------------------------------------------------------------------------
(***************************************************************************)
(* Buffers and references                                                  *)
(***************************************************************************)

\* av_buffer_create(), av_buffer_alloc() and av_buffer_realloc() of a NULL pointer.
Alloc(t) ==
  /\ pc[t] = "idle"
  /\ \E r \in Refs, d \in Blocks \ live, fl \in {{}, {"READONLY"}, {"REALLOCATABLE"}} :
       Create(t, r, d, None, fl)
  /\ UNCHANGED <<shared, ppool, pc, locals>>

\* av_buffer_ref()
Ref(t) ==
  /\ pc[t] = "idle"
  /\ \E r, s \in Refs :
       /\ Holds(t, r)
       /\ buffer[s] = None
       /\ buffer' = [buffer EXCEPT ![s] = buffer[r]]
       /\ holder' = [holder EXCEPT ![s] = t]
       /\ refcount' = [refcount EXCEPT ![buffer[r]] = @ + 1]
  /\ UNCHANGED <<live, home, flags, shared, ppool, pc, locals>>

\* A reference is handed to another thread, in a frame or a packet.
HandOver(t) ==
  /\ pc[t] = "idle"
  /\ \E r \in Refs, u \in Threads \ {t} :
       /\ Holds(t, r)
       /\ pc[u] = "idle"
       /\ holder' = [holder EXCEPT ![r] = u]
  /\ UNCHANGED <<buffers, buffer, shared, ppool, pc, locals>>

\* The decrement of AVBuffer.refcount yields zero.
LastReference(d) == refcount[d] = 1

\* The last steps of buffer_replace(): the count of the block that the reference
\* named falls, and when it was the last the thread goes on to free the block.
Release(t, d) ==
  /\ refcount' = [refcount EXCEPT ![d] = @ - 1]
  /\ Goto(t, IF LastReference(d) THEN "free" ELSE "idle")
  /\ buf' = [buf EXCEPT ![t] = IF LastReference(d) THEN d ELSE None]

\* av_buffer_unref()
Unref(t) ==
  /\ pc[t] = "idle"
  /\ \E r \in Refs :
       /\ Holds(t, r)
       /\ buffer' = [buffer EXCEPT ![r] = None]
       /\ holder' = [holder EXCEPT ![r] = None]
       /\ Release(t, buffer[r])
  /\ UNCHANGED <<live, home, flags, shared, ppool, pbuf, newbuf, pool>>

\* Variant: the flag alone decides.
WritableByFlag(d) == "READONLY" \notin flags[d]

\* av_buffer_is_writable()
Writable(d) == "READONLY" \notin flags[d] /\ refcount[d] = 1

\* A buffer that is writable is written to, or reallocated in place.
StartWrite(t) ==
  /\ pc[t] = "idle"
  /\ \E r \in Refs :
       /\ Holds(t, r)
       /\ Writable(buffer[r])
       /\ pbuf' = [pbuf EXCEPT ![t] = r]
  /\ Goto(t, "write")
  /\ UNCHANGED <<buffers, refs, shared, ppool, newbuf, buf, pool>>

EndWrite(t) ==
  /\ pc[t] = "write"
  /\ Goto(t, "idle")
  /\ pbuf' = [pbuf EXCEPT ![t] = None]
  /\ UNCHANGED <<buffers, refs, shared, ppool, newbuf, buf, pool>>

\* One that is not is copied first (av_buffer_make_writable()); a size is changed in
\* a copy also when the buffer is not reallocatable (av_buffer_realloc()).
StartCopy(t) ==
  /\ pc[t] = "idle"
  /\ \E r \in Refs :
       /\ Holds(t, r)
       /\ ~Writable(buffer[r]) \/ "REALLOCATABLE" \notin flags[buffer[r]]
       /\ pbuf' = [pbuf EXCEPT ![t] = r]
  /\ Goto(t, "copy")
  /\ UNCHANGED <<buffers, refs, shared, ppool, newbuf, buf, pool>>

\* No memory for the copy: the reference is left as it is.
CopyFails(t) ==
  /\ pc[t] = "copy"
  /\ Goto(t, "idle")
  /\ pbuf' = [pbuf EXCEPT ![t] = None]
  /\ UNCHANGED <<buffers, refs, shared, ppool, newbuf, buf, pool>>

Copy(t) ==
  /\ pc[t] = "copy"
  /\ \E r \in Refs, d \in Blocks \ live, fl \in {{}, {"REALLOCATABLE"}} :
       /\ Create(t, r, d, None, fl)
       /\ newbuf' = [newbuf EXCEPT ![t] = r]
  /\ Goto(t, "replace")
  /\ UNCHANGED <<shared, ppool, pbuf, buf, pool>>

\* buffer_replace(): the reference names the copy, the copy's own is freed.
Replace(t) ==
  /\ pc[t] = "replace"
  /\ buffer' = [buffer EXCEPT ![pbuf[t]] = buffer[newbuf[t]], ![newbuf[t]] = None]
  /\ holder' = [holder EXCEPT ![newbuf[t]] = None]
  /\ Release(t, buffer[pbuf[t]])
  /\ pbuf' = [pbuf EXCEPT ![t] = None]
  /\ newbuf' = [newbuf EXCEPT ![t] = None]
  /\ UNCHANGED <<live, home, flags, shared, ppool, pool>>

\* b->free() of a block that belongs to no pool.
FreeBlock(t) ==
  /\ pc[t] = "free"
  /\ home[buf[t]] = None
  /\ live' = live \ {buf[t]}
  /\ buf' = [buf EXCEPT ![t] = None]
  /\ Goto(t, "idle")
  /\ UNCHANGED <<home, flags, refcount, refs, shared, ppool, pbuf, newbuf, pool>>

-------------------------------------------------------------------------------
(***************************************************************************)
(* Pools                                                                   *)
(***************************************************************************)

InitialRefcount == 1

\* av_buffer_pool_init()
PoolInit(t) ==
  /\ pc[t] = "idle"
  /\ ppool = None
  /\ \E p \in Pools \ pools :
       /\ pools' = pools \cup {p}
       /\ pool_refcount' = [pool_refcount EXCEPT ![p] = InitialRefcount]
       /\ entries' = [entries EXCEPT ![p] = {}]
       /\ mutex' = [mutex EXCEPT ![p] = None]
       /\ ppool' = p
  /\ UNCHANGED <<buffers, refs, pc, locals>>

Getting(t) == pc[t] \in {"get", "count"}

\* Variant: the count is compared one too early.
LastUseEarly(p) == pool_refcount[p] <= 2

\* Variant: the value before the decrement is tested.
LastUseOldValue(p) == pool_refcount[p] = 0

\* The decrement of AVBufferPool.refcount yields zero.
LastUse(p) == pool_refcount[p] = 1

\* Whoever brings the pool's count to zero goes on to free the pool.
DropPool(t, p) ==
  /\ pool_refcount' = [pool_refcount EXCEPT ![p] = @ - 1]
  /\ Goto(t, IF LastUse(p) THEN "free pool" ELSE "idle")
  /\ pool' = [pool EXCEPT ![t] = IF LastUse(p) THEN p ELSE None]

\* av_buffer_pool_uninit(): no thread may be using the pointer that it clears.
PoolUninit(t) ==
  /\ pc[t] = "idle"
  /\ ppool # None
  /\ \A u \in Threads : ~Getting(u)
  /\ ppool' = None
  /\ DropPool(t, ppool)
  /\ UNCHANGED <<buffers, refs, pools, entries, mutex, pbuf, newbuf, buf>>

\* Variant: the list is used without the mutex.
Unguarded(p) == TRUE

Unlocked(p) == mutex[p] = None

\* av_buffer_pool_get() takes the mutex and looks at the list.
Get(t) ==
  /\ pc[t] = "idle"
  /\ ppool # None
  /\ Unlocked(ppool)
  /\ mutex' = [mutex EXCEPT ![ppool] = t]
  /\ pool' = [pool EXCEPT ![t] = ppool]
  /\ \E d \in IF entries[ppool] = {} THEN {None} ELSE entries[ppool] :
       buf' = [buf EXCEPT ![t] = d]
  /\ Goto(t, "get")
  /\ UNCHANGED <<buffers, refs, pools, pool_refcount, entries, ppool, pbuf, newbuf>>

\* The entry that it found gets a new AVBuffer and leaves the list.
GetEntry(t) ==
  /\ pc[t] = "get"
  /\ buf[t] # None
  /\ \E r \in Refs : Create(t, r, buf[t], pool[t], {})
  /\ entries' = [entries EXCEPT ![pool[t]] = @ \ {buf[t]}]
  /\ mutex' = [mutex EXCEPT ![pool[t]] = None]
  /\ Goto(t, "count")
  /\ UNCHANGED <<pools, pool_refcount, ppool, locals>>

\* The list was empty: pool_alloc_buffer().
GetNew(t) ==
  /\ pc[t] = "get"
  /\ buf[t] = None
  /\ \E r \in Refs, d \in Blocks \ live :
       /\ Create(t, r, d, pool[t], {})
       /\ buf' = [buf EXCEPT ![t] = d]
  /\ mutex' = [mutex EXCEPT ![pool[t]] = None]
  /\ Goto(t, "count")
  /\ UNCHANGED <<pools, pool_refcount, entries, ppool, pbuf, newbuf, pool>>

\* No memory: nothing is returned, an entry stays in the list.
GetFails(t) ==
  /\ pc[t] = "get"
  /\ mutex' = [mutex EXCEPT ![pool[t]] = None]
  /\ pool' = [pool EXCEPT ![t] = None]
  /\ buf' = [buf EXCEPT ![t] = None]
  /\ Goto(t, "idle")
  /\ UNCHANGED <<buffers, refs, pools, pool_refcount, entries, ppool, pbuf, newbuf>>

\* After the mutex is released a buffer that was got is counted.
CountGet(t) ==
  /\ pc[t] = "count"
  /\ pool_refcount' = [pool_refcount EXCEPT ![pool[t]] = @ + 1]
  /\ pool' = [pool EXCEPT ![t] = None]
  /\ buf' = [buf EXCEPT ![t] = None]
  /\ Goto(t, "idle")
  /\ UNCHANGED <<buffers, refs, pools, entries, mutex, ppool, pbuf, newbuf>>

\* b->free() of a block of a pool: pool_release_buffer() takes the mutex ...
ReleaseBuffer(t) ==
  /\ pc[t] = "free"
  /\ LET p == home[buf[t]]
     IN  /\ p # None
         /\ Unlocked(p)
         /\ mutex' = [mutex EXCEPT ![p] = t]
         /\ pool' = [pool EXCEPT ![t] = p]
  /\ Goto(t, "push")
  /\ UNCHANGED <<buffers, refs, pools, pool_refcount, entries, ppool, pbuf, newbuf, buf>>

\* ... puts the entry on the list ...
Push(t) ==
  /\ pc[t] = "push"
  /\ entries' = [entries EXCEPT ![pool[t]] = @ \cup {buf[t]}]
  /\ mutex' = [mutex EXCEPT ![pool[t]] = None]
  /\ buf' = [buf EXCEPT ![t] = None]
  /\ Goto(t, "drop")
  /\ UNCHANGED <<buffers, refs, pools, pool_refcount, ppool, pbuf, newbuf, pool>>

\* ... and gives up the block's reference to the pool.
Drop(t) ==
  /\ pc[t] = "drop"
  /\ DropPool(t, pool[t])
  /\ UNCHANGED <<buffers, refs, pools, entries, mutex, ppool, pbuf, newbuf, buf>>

\* Variant: the entries are not freed with the pool.
EntriesAreKept(t) == UNCHANGED live

\* b->free() of the data of every entry.
FreeEntries(t) == live' = live \ entries[pool[t]]

\* buffer_pool_free()
FreePool(t) ==
  /\ pc[t] = "free pool"
  /\ FreeEntries(t)
  /\ entries' = [entries EXCEPT ![pool[t]] = {}]
  /\ pools' = pools \ {pool[t]}
  /\ pool' = [pool EXCEPT ![t] = None]
  /\ Goto(t, "idle")
  /\ UNCHANGED <<home, flags, refcount, refs, pool_refcount, mutex, ppool, pbuf, newbuf, buf>>

-------------------------------------------------------------------------------
BufferStep(t) ==
  \/ Alloc(t) \/ Ref(t) \/ HandOver(t) \/ Unref(t) \/ StartWrite(t) \/ EndWrite(t)
  \/ StartCopy(t) \/ CopyFails(t) \/ Copy(t) \/ Replace(t) \/ FreeBlock(t)

PoolStep(t) ==
  \/ PoolInit(t) \/ PoolUninit(t) \/ Get(t) \/ GetEntry(t) \/ GetNew(t) \/ GetFails(t)
  \/ CountGet(t) \/ ReleaseBuffer(t) \/ Push(t) \/ Drop(t) \/ FreePool(t)

Next == \E t \in Threads : BufferStep(t) \/ PoolStep(t)

Spec == Init /\ [][Next]_vars

-------------------------------------------------------------------------------
(***************************************************************************)
(* Properties                                                              *)
(***************************************************************************)
TypeBuffers ==
  /\ live \subseteq Blocks
  /\ home \in [Blocks -> Pools \cup {None}]
  /\ flags \in [Blocks -> SUBSET {"READONLY", "REALLOCATABLE"}]

TypeRefs ==
  /\ refcount \in [Blocks -> Nat]
  /\ buffer \in [Refs -> Blocks \cup {None}]
  /\ holder \in [Refs -> Threads \cup {None}]

TypePools ==
  /\ pools \subseteq Pools
  /\ pool_refcount \in [Pools -> Nat]
  /\ entries \in [Pools -> SUBSET Blocks]
  /\ mutex \in [Pools -> Threads \cup {None}]
  /\ ppool \in Pools \cup {None}

TypeThreads ==
  /\ pc \in [Threads -> {"idle", "write", "copy", "replace", "free", "get", "count", "push",
                         "drop", "free pool"}]
  /\ pbuf \in [Threads -> Refs \cup {None}]
  /\ newbuf \in [Threads -> Refs \cup {None}]
  /\ buf \in [Threads -> Blocks \cup {None}]
  /\ pool \in [Threads -> Pools \cup {None}]

TypeOK == TypeBuffers /\ TypeRefs /\ TypePools /\ TypeThreads

Freeing(t) == pc[t] \in {"free", "push"}

\* What a reference names is neither freed nor back in a pool's list for somebody
\* else to get: the last unref() is the only one that frees.
NoUseAfterRelease ==
  \A r \in Refs : buffer[r] # None =>
    /\ buffer[r] \in live
    /\ \A p \in Pools : buffer[r] \notin entries[p]
    /\ \A t \in Threads : Freeing(t) => buf[t] # buffer[r]

\* A thread that found its buffer writable has the only reference to it until it
\* has written, although others go on referencing, copying and handing over.
ExclusiveWrite ==
  \A t \in Threads : pc[t] = "write" =>
    \A r \in Refs : buffer[r] = buffer[pbuf[t]] => r = pbuf[t]

\* A pool is there as long as the client has it, a buffer of it is referenced, or
\* a thread is inside a get or a release; and whoever frees it is alone with it.
PoolOutlivesItsUse ==
  /\ ppool \in pools \cup {None}
  /\ \A r \in Refs : buffer[r] # None /\ home[buffer[r]] # None => home[buffer[r]] \in pools
  /\ \A t \in Threads : pool[t] # None => pool[t] \in pools
  /\ \A t \in Threads : pc[t] = "free pool" =>
       /\ ppool # pool[t]
       /\ \A u \in Threads \ {t} : pool[u] # pool[t]
       /\ \A r \in Refs : buffer[r] # None => home[buffer[r]] # pool[t]

\* Once the client gave a pool up and all its buffers are back, the pool is freed:
\* whenever it still exists somebody holds a buffer of it or is about to drop it.
PoolIsFreedInTheEnd ==
  \A p \in pools : p # ppool =>
    \/ \E r \in Refs : buffer[r] # None /\ home[buffer[r]] = p
    \/ \E t \in Threads : pool[t] = p \/ (pc[t] = "free" /\ home[buf[t]] = p)

\* No block leaks: it is referenced, in a pool, or a thread is about to free it.
NoBlockLeaks ==
  \A d \in live :
    \/ \E r \in Refs : buffer[r] = d
    \/ \E p \in pools : d \in entries[p]
    \/ \E t \in Threads : Freeing(t) /\ buf[t] = d

-------------------------------------------------------------------------------
(***************************************************************************)
(* The inductive invariant                                                 *)
(***************************************************************************)
Named(d) == {r \in Refs : buffer[r] = d}

\* References belong to threads, and are what refcount counts.
InvRefs ==
  /\ \A r \in Refs : buffer[r] = None <=> holder[r] = None
  /\ \A d \in Blocks : refcount[d] = Cardinality(Named(d))

\* A block that is live is in exactly one place, one that is not in none.
InvPlaces ==
  /\ NoUseAfterRelease
  /\ NoBlockLeaks
  /\ \A p \in Pools : \A d \in entries[p] : p \in pools /\ d \in live /\ home[d] = p
  /\ \A t \in Threads : Freeing(t) =>
       /\ buf[t] \in live
       /\ \A p \in Pools : buf[t] \notin entries[p]
       /\ \A u \in Threads \ {t} : Freeing(u) => buf[u] # buf[t]

\* The references a thread works on are its own; one it writes to, or that it just
\* got, names a block that no other thread has.
LocalsOf(t) ==
  /\ pc[t] \in {"write", "copy", "replace"} => pbuf[t] \in Refs /\ holder[pbuf[t]] = t
  /\ pc[t] = "write" => Named(buffer[pbuf[t]]) = {pbuf[t]}
  /\ pc[t] = "replace" =>
       /\ newbuf[t] \in Refs /\ holder[newbuf[t]] = t
       /\ buffer[newbuf[t]] # buffer[pbuf[t]]
  /\ pc[t] = "push" => home[buf[t]] = pool[t]
  /\ pc[t] = "count" =>
       /\ buf[t] \in live /\ home[buf[t]] = pool[t]
       /\ \E r \in Refs : holder[r] = t /\ buffer[r] = buf[t]
       /\ \A r \in Refs : buffer[r] = buf[t] => holder[r] = t
  /\ pool[t] # None <=> pc[t] \in {"get", "count", "push", "drop", "free pool"}

InvLocals == \A t \in Threads : LocalsOf(t)

\* The mutex protects the list while a thread that found an entry is at work.
InvMutex ==
  /\ \A t \in Threads : pc[t] \in {"get", "push"} => mutex[pool[t]] = t
  /\ \A t \in Threads : pc[t] = "get" => buf[t] \in entries[pool[t]] \cup {None}

\* A pool in use is allocated, and the client keeps one while threads get from it.
InvPools ==
  /\ ppool \in pools \cup {None}
  /\ \A t \in Threads : pool[t] # None => pool[t] \in pools
  /\ \A t \in Threads : Getting(t) => pool[t] = ppool
  /\ \A d \in live : home[d] # None => home[d] \in pools

\* A pool is being freed by one thread, exactly when its count is zero.
InvFreePool ==
  /\ \A t \in Threads : pc[t] = "free pool" =>
       /\ ppool # pool[t]
       /\ pool_refcount[pool[t]] = 0
       /\ \A u \in Threads \ {t} : pc[u] = "free pool" => pool[u] # pool[t]
  /\ \A p \in pools : pool_refcount[p] = 0 =>
       \E t \in Threads : pc[t] = "free pool" /\ pool[t] = p

\* What the count of a pool counts: the client, its blocks that are not in the list
\* (nor just got), and the releases that are not finished.
Out(p) ==
  {d \in live : /\ home[d] = p
                /\ d \notin entries[p]
                /\ \A t \in Threads : pc[t] = "count" => buf[t] # d}
Dropping(p) == {t \in Threads : pc[t] = "drop" /\ pool[t] = p}
Client(p) == IF ppool = p THEN 1 ELSE 0

InvPoolCount ==
  \A p \in pools :
    pool_refcount[p] = Client(p) + Cardinality(Out(p)) + Cardinality(Dropping(p))

\* The inductive invariant, from which every property above follows.
IInv ==
  /\ TypeOK /\ InvRefs /\ InvPlaces /\ InvLocals
  /\ InvMutex /\ InvPools /\ InvFreePool /\ InvPoolCount
===============================================================================
