--------------------------- MODULE BufferPoolProofs ---------------------------
(***************************************************************************)
(* Proofs about BufferPool, for any finite numbers of threads, references,   *)
(* blocks and pools: IInv is inductive, and the properties follow from it.   *)
(***************************************************************************)
EXTENDS BufferPool, FiniteSetTheorems, TLAPS

-------------------------------------------------------------------------------
(***************************************************************************)
(* Facts about one state                                                   *)
(***************************************************************************)

\* The counter of a block tells whether references to it exist.
LEMMA CountOfNames ==
  ASSUME IInv, NEW d \in Blocks
  PROVE  /\ IsFiniteSet(Named(d))
         /\ refcount[d] \in Nat
         /\ refcount[d] = Cardinality(Named(d))
         /\ refcount[d] = 0 <=> Named(d) = {}
<1>1. IsFiniteSet(Named(d))
  BY PoolAssumption, FS_Subset DEF Named
<1>2. refcount[d] = Cardinality(Named(d))
  BY DEF IInv, InvRefs
<1>3. QED
  BY <1>1, <1>2, FS_EmptySet, FS_CardinalityType

\* A thread's reference names a live block that is counted; if the counter is 1 it
\* is the only one.
LEMMA HeldReference ==
  ASSUME IInv, NEW t \in Threads, NEW r \in Refs, Holds(t, r)
  PROVE  /\ buffer[r] \in Blocks /\ buffer[r] \in live
         /\ refcount[buffer[r]] \in Nat /\ refcount[buffer[r]] >= 1
         /\ refcount[buffer[r]] = 1 <=> Named(buffer[r]) = {r}
<1>1. buffer[r] # None /\ buffer[r] \in Blocks
  BY PoolAssumption DEF IInv, TypeOK, TypeRefs, InvRefs, Holds
<1>2. buffer[r] \in live
  BY <1>1 DEF IInv, InvPlaces, NoUseAfterRelease
<1>3. r \in Named(buffer[r])
  BY DEF Named
<1>4. refcount[buffer[r]] = 1 <=> Named(buffer[r]) = {r}
  BY <1>1, <1>3, CountOfNames, FS_Singleton
<1>5. QED
  BY <1>1, <1>2, <1>3, <1>4, CountOfNames

\* The sets that a pool's counter counts are finite.
LEMMA CountOfPool ==
  ASSUME IInv, NEW p \in pools
  PROVE  /\ p \in Pools /\ p # None
         /\ IsFiniteSet(Out(p)) /\ Cardinality(Out(p)) \in Nat
         /\ IsFiniteSet(Dropping(p)) /\ Cardinality(Dropping(p)) \in Nat
         /\ Cardinality(Out(p)) = 0 <=> Out(p) = {}
         /\ Cardinality(Dropping(p)) = 0 <=> Dropping(p) = {}
         /\ pool_refcount[p] = Client(p) + Cardinality(Out(p)) + Cardinality(Dropping(p))
<1>1. p \in Pools /\ p # None /\ live \subseteq Blocks
  BY PoolAssumption DEF IInv, TypeOK, TypeBuffers, TypePools
<1>2. IsFiniteSet(Out(p)) /\ IsFiniteSet(Dropping(p))
  BY <1>1, PoolAssumption, FS_Subset DEF Out, Dropping
<1>3. QED
  BY <1>1, <1>2, FS_EmptySet, FS_CardinalityType DEF IInv, InvPoolCount

\* A release that is about to give up its count is one of those counted.
LEMMA DropIsCounted ==
  ASSUME IInv, NEW t \in Threads, pc[t] = "drop"
  PROVE  /\ pool[t] \in pools /\ pool_refcount[pool[t]] \in Nat
         /\ pool_refcount[pool[t]] >= 1
<1>1. pool[t] \in pools
  BY DEF IInv, InvLocals, LocalsOf, InvPools
<1>2. t \in Dropping(pool[t])
  BY DEF Dropping
<1>3. QED
  BY <1>1, <1>2, CountOfPool DEF Client

\* The client's pointer is counted.
LEMMA ClientIsCounted ==
  ASSUME IInv, ppool # None
  PROVE  ppool \in pools /\ pool_refcount[ppool] \in Nat /\ pool_refcount[ppool] >= 1
<1>1. ppool \in pools
  BY DEF IInv, InvPools
<1>2. QED
  BY <1>1, CountOfPool DEF Client

\* None is not one of the things in use.
LEMMA NotNone ==
  ASSUME TypeOK
  PROVE  /\ None \notin live /\ None \notin pools /\ None \notin Threads
         /\ \A p \in Pools : None \notin entries[p]
  BY PoolAssumption DEF TypeOK, TypeBuffers, TypePools

\* A step of t to a label changes the label of no other thread.
LEMMA Labels ==
  ASSUME TypeThreads, NEW t \in Threads, NEW label, Goto(t, label)
  PROVE  pc'[t] = label /\ \A u \in Threads \ {t} : pc'[u] = pc[u]
BY DEF TypeThreads, Goto

\* A block that is not live, in a pool or being freed is not referenced.
LEMMA Unreferenced ==
  ASSUME IInv, NEW d \in Blocks,
         \/ d \notin live
         \/ \E p \in Pools : d \in entries[p]
         \/ \E t \in Threads : Freeing(t) /\ buf[t] = d
  PROVE  Named(d) = {}
<1>1. d # None
  BY PoolAssumption
<1>2. ASSUME NEW r \in Refs, buffer[r] = d PROVE FALSE
  BY <1>1, <1>2 DEF IInv, InvPlaces, NoUseAfterRelease
<1>3. QED
  BY <1>2 DEF Named

\* What one thread does to its own references, and with blocks that nobody else
\* refers to, leaves what the invariant says of another thread true.
LEMMA OtherLocals ==
  ASSUME IInv, NEW t \in Threads, NEW u \in Threads, u # t,
         pc'[u] = pc[u], pbuf'[u] = pbuf[u], newbuf'[u] = newbuf[u], buf'[u] = buf[u],
         pool'[u] = pool[u],
         \A q \in Refs : holder[q] = u => buffer'[q] = buffer[q] /\ holder'[q] = u,
         \A q \in Refs :
           \/ buffer'[q] \in {buffer[q], None}
           \/ \A o \in Refs : buffer[o] # buffer'[q]
           \/ \E o \in Refs : holder[o] = t /\ buffer[o] = buffer'[q],
         pc[u] \in {"push", "count"} => home'[buf[u]] = home[buf[u]],
         pc[u] = "count" => buf[u] \in live'
  PROVE  LocalsOf(u)'
<1>1. LocalsOf(u) /\ t # None /\ u # None
  BY PoolAssumption DEF IInv, InvLocals
<1>2. ASSUME pc[u] = "write" PROVE Named(buffer[pbuf[u]])' = {pbuf'[u]}
  <2>1. /\ pbuf[u] \in Refs /\ holder[pbuf[u]] = u /\ buffer'[pbuf[u]] = buffer[pbuf[u]]
        /\ Named(buffer[pbuf[u]]) = {pbuf[u]}
    BY <1>1, <1>2 DEF LocalsOf
  <2>2. buffer[pbuf[u]] # None
    BY <2>1, <1>1 DEF IInv, InvRefs
  <2>3. ASSUME NEW q \in Refs, buffer'[q] = buffer[pbuf[u]] PROVE q = pbuf[u]
    BY <1>1, <2>1, <2>2, <2>3 DEF Named
  <2>4. QED
    BY <2>1, <2>3 DEF Named
<1>3. ASSUME pc[u] = "count", NEW q \in Refs, buffer'[q] = buf[u] PROVE holder'[q] = u
  <2>1. buf[u] # None
    BY <1>1, <1>3, NotNone DEF LocalsOf, IInv
  <2>2. \E o \in Refs : holder[o] = u /\ buffer[o] = buf[u]
    BY <1>1, <1>3 DEF LocalsOf
  <2>3. \A o \in Refs : buffer[o] = buf[u] => holder[o] = u
    BY <1>1, <1>3 DEF LocalsOf
  <2>4. QED
    BY <1>3, <2>1, <2>2, <2>3
<1>4. ASSUME pc[u] \in {"write", "copy", "replace"}
      PROVE  pbuf[u] \in Refs /\ holder'[pbuf[u]] = u /\ buffer'[pbuf[u]] = buffer[pbuf[u]]
  BY <1>1, <1>4 DEF LocalsOf
<1>5. ASSUME pc[u] = "replace"
      PROVE  /\ newbuf[u] \in Refs /\ holder'[newbuf[u]] = u
             /\ buffer'[newbuf[u]] # buffer'[pbuf[u]]
  BY <1>1, <1>4, <1>5 DEF LocalsOf
<1>6. ASSUME pc[u] = "count"
      PROVE  /\ buf[u] \in live' /\ home'[buf[u]] = pool[u]
             /\ \E q \in Refs : holder'[q] = u /\ buffer'[q] = buf[u]
             /\ \A q \in Refs : buffer'[q] = buf[u] => holder'[q] = u
  BY <1>1, <1>3, <1>6 DEF LocalsOf
<1>7. pool'[u] # None <=> pc'[u] \in {"get", "count", "push", "drop", "free pool"}
  BY <1>1 DEF LocalsOf
<1>8. pc'[u] = "push" => home'[buf'[u]] = pool'[u]
  BY <1>1 DEF LocalsOf
<1>9. pc'[u] = "write" => Named(buffer[pbuf[u]])' = {pbuf'[u]}
  BY <1>2
<1>10. pc'[u] \in {"write", "copy", "replace"} => pbuf'[u] \in Refs /\ holder'[pbuf'[u]] = u
  BY <1>4
<1>11. pc'[u] = "replace" =>
         /\ newbuf'[u] \in Refs /\ holder'[newbuf'[u]] = u
         /\ buffer'[newbuf'[u]] # buffer'[pbuf'[u]]
  BY <1>5
<1>12. pc'[u] = "count" =>
         /\ buf'[u] \in live' /\ home'[buf'[u]] = pool'[u]
         /\ \E q \in Refs : holder'[q] = u /\ buffer'[q] = buf'[u]
         /\ \A q \in Refs : buffer'[q] = buf'[u] => holder'[q] = u
  BY <1>6
<1>13. QED
  BY <1>7, <1>8, <1>9, <1>10, <1>11, <1>12 DEF LocalsOf

-------------------------------------------------------------------------------
(***************************************************************************)
(* Parts of the invariant that a step leaves alone                         *)
(***************************************************************************)

\* No block moves, and t is not freeing one before or after.
LEMMA PlacesFrame ==
  ASSUME InvPlaces, NEW t \in Threads,
         pc[t] \notin {"free", "push"}, pc'[t] \notin {"free", "push"},
         \A u \in Threads \ {t} : pc'[u] = pc[u] /\ buf'[u] = buf[u],
         UNCHANGED <<live, home, buffer, entries>>, pools \subseteq pools'
  PROVE  InvPlaces'
<1>1. NoUseAfterRelease'
  BY DEF InvPlaces, NoUseAfterRelease, Freeing
<1>2. NoBlockLeaks'
  BY DEF InvPlaces, NoBlockLeaks, Freeing
<1>3. \A p \in Pools : \A d \in entries'[p] : p \in pools' /\ d \in live' /\ home'[d] = p
  BY DEF InvPlaces
<1>4. \A u \in Threads : pc'[u] \in {"free", "push"} =>
        /\ buf'[u] \in live'
        /\ \A p \in Pools : buf'[u] \notin entries'[p]
        /\ \A w \in Threads \ {u} : pc'[w] \in {"free", "push"} => buf'[w] # buf'[u]
  BY DEF InvPlaces, Freeing
<1>5. QED
  BY <1>1, <1>2, <1>3, <1>4 DEF InvPlaces, Freeing

\* The mutexes and the lists stay, and t does not work on a list before or after.
LEMMA MutexFrame ==
  ASSUME InvMutex, NEW t \in Threads,
         pc'[t] \notin {"get", "push"},
         \A u \in Threads \ {t} : pc'[u] = pc[u] /\ buf'[u] = buf[u] /\ pool'[u] = pool[u],
         UNCHANGED <<entries, mutex>>
  PROVE  InvMutex'
BY DEF InvMutex

\* The client's pool stays; the pool t works on, if any, is allocated.
LEMMA PoolsFrame ==
  ASSUME InvPools, NEW t \in Threads,
         pc'[t] \in {"get", "count"} => pool'[t] = ppool,
         pool'[t] # None => pool'[t] \in pools',
         \A u \in Threads \ {t} : pc'[u] = pc[u] /\ pool'[u] = pool[u],
         UNCHANGED <<pools, ppool>>,
         \A d \in live' : home'[d] # None => home'[d] \in pools'
  PROVE  InvPools'
BY DEF InvPools, Getting

\* No counter changes, and t is not freeing a pool before or after.
LEMMA FreePoolFrame ==
  ASSUME InvFreePool, NEW t \in Threads,
         pc[t] # "free pool", pc'[t] # "free pool",
         \A u \in Threads \ {t} : pc'[u] = pc[u] /\ pool'[u] = pool[u],
         UNCHANGED <<ppool, pools, pool_refcount>>
  PROVE  InvFreePool'
<1>1. ASSUME NEW u \in Threads
      PROVE  pc'[u] = "free pool" <=> pc[u] = "free pool"
  OBVIOUS
<1>2. ASSUME NEW u \in Threads, pc[u] = "free pool"
      PROVE  pool'[u] = pool[u]
  BY <1>2
<1>3. ASSUME NEW u \in Threads, pc'[u] = "free pool"
      PROVE  /\ ppool' # pool'[u]
             /\ pool_refcount'[pool'[u]] = 0
             /\ \A w \in Threads \ {u} : pc'[w] = "free pool" => pool'[w] # pool'[u]
  <2>1. pc[u] = "free pool" /\ pool'[u] = pool[u]
    BY <1>1, <1>2, <1>3
  <2>2. ppool' # pool'[u] /\ pool_refcount'[pool'[u]] = 0
    BY <2>1 DEF InvFreePool
  <2>3. ASSUME NEW w \in Threads \ {u}, pc'[w] = "free pool" PROVE pool'[w] # pool'[u]
    <3>1. pc[w] = "free pool" /\ pool'[w] = pool[w]
      BY <1>1, <1>2, <2>3
    <3>2. QED
      BY <2>1, <3>1, ZenonT(40) DEF InvFreePool
  <2>4. QED
    BY <2>2, <2>3
<1>4. ASSUME NEW p \in pools, pool_refcount[p] = 0
      PROVE  \E u \in Threads : pc'[u] = "free pool" /\ pool'[u] = p
  <2>1. PICK u \in Threads : pc[u] = "free pool" /\ pool[u] = p
    BY <1>4 DEF InvFreePool
  <2>2. QED
    BY <1>1, <1>2, <2>1
<1>5. QED
  BY <1>3, <1>4 DEF InvFreePool

\* Neither the counters nor what they count changes.
LEMMA PoolCountFrame ==
  ASSUME InvPoolCount, NEW t \in Threads,
         pc[t] \notin {"count", "drop"}, pc'[t] \notin {"count", "drop"},
         \A u \in Threads \ {t} : pc'[u] = pc[u] /\ buf'[u] = buf[u] /\ pool'[u] = pool[u],
         UNCHANGED <<ppool, pools, pool_refcount, live, home, entries>>
  PROVE  InvPoolCount'
<1>1. ASSUME NEW p \in pools
      PROVE  Out(p)' = Out(p) /\ Dropping(p)' = Dropping(p) /\ Client(p)' = Client(p)
  <2>1. Out(p)' = Out(p)
    BY DEF Out
  <2>2. Dropping(p)' = Dropping(p)
    BY DEF Dropping
  <2>3. Client(p)' = Client(p)
    BY DEF Client
  <2>4. QED
    BY <2>1, <2>2, <2>3
<1>2. QED
  BY <1>1 DEF InvPoolCount

\* t is done with the list of its pool, which may have changed.
LEMMA MutexReleased ==
  ASSUME InvMutex, TypePools, NEW t \in Threads,
         pc[t] \in {"get", "push"}, pc'[t] \notin {"get", "push"},
         \A u \in Threads \ {t} : pc'[u] = pc[u] /\ buf'[u] = buf[u] /\ pool'[u] = pool[u],
         mutex' = [mutex EXCEPT ![pool[t]] = None],
         \A p \in Pools \ {pool[t]} : entries'[p] = entries[p],
         \A u \in Threads : pc[u] = "get" => pool[u] \in Pools,
         \A u \in Threads : pc[u] = "push" => pool[u] \in Pools
  PROVE  InvMutex'
<1>1. ASSUME NEW u \in Threads, pc'[u] \in {"get", "push"}
      PROVE  /\ u # t /\ pc[u] = pc'[u] /\ pool'[u] = pool[u] /\ buf'[u] = buf[u]
             /\ pool[u] \in Pools /\ mutex[pool[u]] = u /\ pool[u] # pool[t]
  BY <1>1 DEF InvMutex
<1>2. ASSUME NEW u \in Threads, pc'[u] \in {"get", "push"} PROVE mutex'[pool'[u]] = u
  BY <1>1, <1>2 DEF TypePools
<1>3. ASSUME NEW u \in Threads, pc'[u] = "get" PROVE buf'[u] \in entries'[pool'[u]] \cup {None}
  BY <1>1, <1>3 DEF InvMutex
<1>4. QED
  BY <1>2, <1>3 DEF InvMutex

\* t takes the mutex of p, which is free.
LEMMA MutexTaken ==
  ASSUME InvMutex, TypePools, NEW t \in Threads, NEW p \in Pools, mutex[p] = None,
         pc[t] \notin {"get", "push"}, pc'[t] \in {"get", "push"}, pool'[t] = p,
         pc'[t] = "get" => buf'[t] \in entries[p] \cup {None},
         \A u \in Threads \ {t} : pc'[u] = pc[u] /\ buf'[u] = buf[u] /\ pool'[u] = pool[u],
         mutex' = [mutex EXCEPT ![p] = t], entries' = entries,
         \A u \in Threads : pc[u] \in {"get", "push"} => pool[u] \in Pools
  PROVE  InvMutex'
<1>1. ASSUME NEW u \in Threads, pc'[u] \in {"get", "push"}, u # t
      PROVE  /\ pc[u] = pc'[u] /\ pool'[u] = pool[u] /\ buf'[u] = buf[u]
             /\ pool[u] \in Pools /\ mutex[pool[u]] = u /\ pool[u] # p
  BY <1>1, PoolAssumption DEF InvMutex
<1>2. ASSUME NEW u \in Threads, pc'[u] \in {"get", "push"} PROVE mutex'[pool'[u]] = u
  BY <1>1, <1>2 DEF TypePools
<1>3. ASSUME NEW u \in Threads, pc'[u] = "get" PROVE buf'[u] \in entries'[pool'[u]] \cup {None}
  BY <1>1, <1>3 DEF InvMutex
<1>4. QED
  BY <1>2, <1>3 DEF InvMutex

\* A thread inside a get or a release works on an allocated pool.
LEMMA PoolOf ==
  ASSUME IInv, NEW u \in Threads, pc[u] \in {"get", "count", "push", "drop", "free pool"}
  PROVE  pool[u] # None /\ pool[u] \in pools /\ pool[u] \in Pools
<1>1. LocalsOf(u)
  BY DEF IInv, InvLocals
<1>2. pool[u] # None
  BY <1>1 DEF LocalsOf
<1>3. pool[u] \in pools
  BY <1>2 DEF IInv, InvPools
<1>4. QED
  BY <1>2, <1>3 DEF IInv, TypeOK, TypePools

\* av_buffer_ref(): one more reference to a block that somebody holds.
LEMMA RefStep ==
  ASSUME IInv, NEW t \in Threads, Ref(t)
  PROVE  IInv'
<1>1. PICK r \in Refs, s \in Refs :
        /\ Holds(t, r) /\ buffer[s] = None
        /\ buffer' = [buffer EXCEPT ![s] = buffer[r]]
        /\ holder' = [holder EXCEPT ![s] = t]
        /\ refcount' = [refcount EXCEPT ![buffer[r]] = refcount[buffer[r]] + 1]
  BY DEF Ref
<1>2. PICK b \in live :
        /\ b \in Blocks /\ b # None /\ refcount[b] \in Nat /\ buffer[r] = b
        /\ buffer' = [buffer EXCEPT ![s] = b]
        /\ refcount' = [refcount EXCEPT ![b] = refcount[b] + 1]
  BY <1>1, HeldReference, PoolAssumption
<1>3. /\ TypeOK /\ pc[t] = "idle" /\ TypeBuffers /\ TypeRefs /\ TypePools /\ TypeThreads
      /\ UNCHANGED <<live, home, flags, pools, pool_refcount, entries, mutex, ppool, pc, pbuf,
                     newbuf, buf, pool>>
  BY DEF IInv, TypeOK, Ref, shared, locals
<1>4. TypeOK'
  <2>1. refcount' \in [Blocks -> Nat]
    BY <1>2, <1>3 DEF TypeRefs
  <2>2. buffer' \in [Refs -> Blocks \cup {None}]
    BY <1>2, <1>3 DEF TypeRefs
  <2>3. holder' \in [Refs -> Threads \cup {None}]
    BY <1>1, <1>3 DEF TypeRefs
  <2>4. QED
    BY <1>3, <2>1, <2>2, <2>3 DEF TypeOK, TypeBuffers, TypeRefs, TypePools, TypeThreads
<1>5. InvRefs'
  <2>1. \A q \in Refs : buffer'[q] = None <=> holder'[q] = None
    BY <1>1, <1>2, <1>3, PoolAssumption DEF TypeRefs, IInv, InvRefs
  <2>2. ASSUME NEW d \in Blocks
        PROVE  refcount'[d] = Cardinality(Named(d)')
    <3>1. CASE d = b
      <4>1. Named(d)' = Named(d) \cup {s} /\ s \notin Named(d)
        BY <1>1, <1>2, <1>3, <3>1 DEF Named, TypeRefs
      <4>2. refcount'[d] = refcount[d] + 1
        BY <1>2, <1>3, <3>1 DEF TypeRefs
      <4>3. QED
        BY <4>1, <4>2, CountOfNames, FS_AddElement, ZenonT(40)
    <3>2. CASE d # b
      <4>1. Named(d)' = Named(d)
        BY <1>1, <1>2, <1>3, <3>2, PoolAssumption DEF Named, TypeRefs
      <4>2. refcount'[d] = refcount[d]
        BY <1>2, <1>3, <3>2 DEF TypeRefs
      <4>3. QED
        BY <4>1, <4>2, CountOfNames
    <3>3. QED
      BY <3>1, <3>2
  <2>3. QED
    BY <2>1, <2>2 DEF InvRefs
<1>6. InvPlaces'
  <2>1. \A q \in Refs : buffer'[q] # None =>
          \E o \in Refs : buffer[o] = buffer'[q] /\ buffer[o] # None
    BY <1>2, <1>3 DEF TypeRefs
  <2>2. NoUseAfterRelease'
    BY <1>3, <2>1 DEF IInv, InvPlaces, NoUseAfterRelease, Freeing
  <2>3. \A q \in Refs : buffer[q] # None => buffer'[q] = buffer[q]
    BY <1>1, <1>2, <1>3 DEF TypeRefs
  <2>4. NoBlockLeaks'
    BY <1>3, <2>3, NotNone DEF IInv, InvPlaces, NoBlockLeaks, Freeing
  <2>5. QED
    BY <1>3, <2>2, <2>4 DEF IInv, InvPlaces, Freeing
<1>7. InvLocals'
  <2>1. \A q \in Refs \ {s} : buffer'[q] = buffer[q] /\ holder'[q] = holder[q]
    BY <1>1, <1>3 DEF TypeRefs
  <2>2. buffer'[s] = b /\ holder[s] = None /\ buffer[r] = b /\ holder[r] = t
    BY <1>1, <1>2, <1>3 DEF TypeRefs, IInv, InvRefs, Holds
  <2>3. LocalsOf(t)'
    BY <1>3 DEF IInv, InvLocals, LocalsOf
  <2>4. ASSUME NEW u \in Threads, u # t PROVE LocalsOf(u)'
    <3>1. u # None /\ LocalsOf(u)
      BY <1>3, NotNone DEF IInv, InvLocals
    <3>2. \A q \in Refs : holder[q] = u => buffer'[q] = buffer[q] /\ holder'[q] = u
      BY <2>1, <2>2, <3>1
    <3>3. \A q \in Refs : \/ buffer'[q] = buffer[q]
                          \/ \E o \in Refs : holder[o] = t /\ buffer[o] = buffer'[q]
      BY <2>1, <2>2
    <3>4. pc[u] = "count" => buf[u] \in live'
      BY <1>3, <3>1 DEF LocalsOf
    <3>5. QED
      BY <1>3, <2>4, <3>2, <3>3, <3>4, OtherLocals
  <2>5. QED
    BY <2>3, <2>4 DEF InvLocals
<1>8. InvMutex'
  BY <1>3 DEF IInv, InvMutex
<1>9. InvPools'
  BY <1>3 DEF IInv, InvPools, Getting
<1>10. InvFreePool'
  BY <1>3 DEF IInv, InvFreePool
<1>11. InvPoolCount'
  BY <1>3, ZenonT(40) DEF IInv, InvPoolCount, Client, Out, Dropping
<1>12. QED
  BY <1>4, <1>5, <1>6, <1>7, <1>8, <1>9, <1>10, <1>11 DEF IInv
\* Looking at a reference or at a counter changes nothing but the thread's own place.
LEMMA QuietStep ==
  ASSUME IInv, NEW t \in Threads, NEW label \in {"idle", "write", "copy"}, Goto(t, label),
         pc[t] \in {"idle", "write", "copy"},
         pbuf' \in [Threads -> Refs \cup {None}],
         \A u \in Threads \ {t} : pbuf'[u] = pbuf[u],
         UNCHANGED <<buffers, refs, shared, ppool, newbuf, buf, pool>>,
         LocalsOf(t)'
  PROVE  IInv'
<1>1. /\ TypeOK /\ TypeBuffers /\ TypeRefs /\ TypePools /\ TypeThreads
      /\ UNCHANGED <<live, home, flags, refcount, buffer, holder, pools, pool_refcount, entries,
                     mutex, ppool, newbuf, buf, pool>>
  BY DEF IInv, TypeOK, buffers, refs, shared
<1>2. pc'[t] = label /\ \A u \in Threads \ {t} : pc'[u] = pc[u]
  BY <1>1, Labels
<1>3. pc[t] \in {"idle", "write", "copy"} /\ pc'[t] \in {"idle", "write", "copy"}
  BY <1>2
<1>4. TypeOK'
  <2>1. pc' \in [Threads -> {"idle", "write", "copy", "replace", "free", "get", "count", "push",
                             "drop", "free pool"}]
    BY <1>1 DEF TypeThreads, Goto
  <2>2. TypeThreads'
    BY <1>1, <2>1 DEF TypeThreads
  <2>3. TypeBuffers' /\ TypeRefs' /\ TypePools'
    BY <1>1 DEF TypeBuffers, TypeRefs, TypePools
  <2>4. QED
    BY <2>2, <2>3 DEF TypeOK
<1>5. InvRefs'
  BY <1>1 DEF IInv, InvRefs, Named
<1>6. InvPlaces'
  BY <1>1, <1>2, <1>3, PlacesFrame DEF IInv
<1>7. InvLocals'
  <2>1. ASSUME NEW u \in Threads, u # t PROVE LocalsOf(u)'
    <3>1. pc[u] = "count" => buf[u] \in live
      BY DEF IInv, InvLocals, LocalsOf
    <3>2. QED
      BY <1>1, <1>2, <2>1, <3>1, OtherLocals
  <2>2. QED
    BY <2>1 DEF InvLocals
<1>8. InvMutex'
  BY <1>1, <1>2, <1>3, MutexFrame DEF IInv
<1>9. InvPools'
  <2>1. pool'[t] # None => pool'[t] \in pools'
    BY <1>1 DEF IInv, InvPools
  <2>2. \A d \in live' : home'[d] # None => home'[d] \in pools'
    BY <1>1 DEF IInv, InvPools
  <2>3. QED
    BY <1>1, <1>2, <1>3, <2>1, <2>2, PoolsFrame DEF IInv
<1>10. InvFreePool'
  BY <1>1, <1>2, <1>3, FreePoolFrame DEF IInv
<1>11. InvPoolCount'
  BY <1>1, <1>2, <1>3, PoolCountFrame DEF IInv
<1>12. QED
  BY <1>4, <1>5, <1>6, <1>7, <1>8, <1>9, <1>10, <1>11 DEF IInv

\* av_buffer_is_writable() found the only reference to a buffer.
LEMMA StartWriteStep ==
  ASSUME IInv, NEW t \in Threads, StartWrite(t)
  PROVE  IInv'
<1>1. PICK r \in Refs : Holds(t, r) /\ Writable(buffer[r]) /\ pbuf' = [pbuf EXCEPT ![t] = r]
  BY DEF StartWrite
<1>2. /\ pc[t] = "idle" /\ Goto(t, "write") /\ TypeThreads
      /\ UNCHANGED <<buffers, refs, shared, ppool, newbuf, buf, pool>>
  BY DEF IInv, TypeOK, StartWrite
<1>3. pbuf' \in [Threads -> Refs \cup {None}] /\ pbuf'[t] = r
      /\ \A u \in Threads \ {t} : pbuf'[u] = pbuf[u]
  BY <1>1, <1>2 DEF TypeThreads
<1>4. Named(buffer[r]) = {r} /\ holder[r] = t
  BY <1>1, HeldReference DEF Writable, Holds
<1>5. pool[t] = None
  BY <1>2 DEF IInv, InvLocals, LocalsOf
<1>6. pc'[t] = "write" /\ buffer' = buffer /\ holder' = holder /\ pool' = pool
  BY <1>2, Labels DEF refs
<1>7. LocalsOf(t)'
  BY <1>3, <1>4, <1>5, <1>6 DEF LocalsOf, Named
<1>8. QED
  BY <1>2, <1>3, <1>7, QuietStep

\* A buffer that is not writable is going to be copied.
LEMMA StartCopyStep ==
  ASSUME IInv, NEW t \in Threads, StartCopy(t)
  PROVE  IInv'
<1>1. PICK r \in Refs : Holds(t, r) /\ pbuf' = [pbuf EXCEPT ![t] = r]
  BY DEF StartCopy
<1>2. /\ pc[t] = "idle" /\ Goto(t, "copy") /\ TypeThreads
      /\ UNCHANGED <<buffers, refs, shared, ppool, newbuf, buf, pool>>
  BY DEF IInv, TypeOK, StartCopy
<1>3. pbuf' \in [Threads -> Refs \cup {None}] /\ pbuf'[t] = r
      /\ \A u \in Threads \ {t} : pbuf'[u] = pbuf[u]
  BY <1>1, <1>2 DEF TypeThreads
<1>4. pool[t] = None
  BY <1>2 DEF IInv, InvLocals, LocalsOf
<1>5. pc'[t] = "copy" /\ holder' = holder /\ pool' = pool
  BY <1>2, Labels DEF refs
<1>6. LocalsOf(t)'
  BY <1>1, <1>3, <1>4, <1>5 DEF LocalsOf, Holds
<1>7. QED
  BY <1>2, <1>3, <1>6, QuietStep

\* EndWrite and CopyFails: the thread is done with its reference.
LEMMA LetGoStep ==
  ASSUME IInv, NEW t \in Threads, EndWrite(t) \/ CopyFails(t)
  PROVE  IInv'
<1>1. /\ pc[t] \in {"write", "copy"} /\ Goto(t, "idle") /\ TypeThreads
      /\ pbuf' = [pbuf EXCEPT ![t] = None]
      /\ UNCHANGED <<buffers, refs, shared, ppool, newbuf, buf, pool>>
  BY DEF IInv, TypeOK, EndWrite, CopyFails
<1>2. /\ pbuf' \in [Threads -> Refs \cup {None}]
      /\ \A u \in Threads \ {t} : pbuf'[u] = pbuf[u]
  BY <1>1 DEF TypeThreads
<1>3. pool[t] = None
  BY <1>1 DEF IInv, InvLocals, LocalsOf
<1>4. pc'[t] = "idle" /\ pool' = pool
  BY <1>1, Labels
<1>5. LocalsOf(t)'
  BY <1>3, <1>4 DEF LocalsOf
<1>6. QED
  BY <1>1, <1>2, <1>5, QuietStep

\* A reference changes hands; what it names stays counted once.
LEMMA HandOverStep ==
  ASSUME IInv, NEW t \in Threads, HandOver(t)
  PROVE  IInv'
<1>1. PICK r \in Refs, w \in Threads \ {t} :
        holder[r] = t /\ pc[w] = "idle" /\ holder' = [holder EXCEPT ![r] = w]
  BY DEF HandOver, Holds
<1>2. /\ TypeOK /\ TypeBuffers /\ TypeRefs /\ TypePools /\ TypeThreads /\ pc[t] = "idle"
      /\ UNCHANGED <<live, home, flags, refcount, buffer, pools, pool_refcount, entries, mutex,
                     ppool, pc, pbuf, newbuf, buf, pool>>
  BY DEF IInv, TypeOK, HandOver, buffers, shared, locals
<1>3. TypeOK'
  <2>1. holder' \in [Refs -> Threads \cup {None}]
    BY <1>1, <1>2 DEF TypeRefs
  <2>2. QED
    BY <1>2, <2>1 DEF TypeOK, TypeBuffers, TypeRefs, TypePools, TypeThreads
<1>4. /\ t # None /\ w # None
      /\ holder'[r] = w /\ \A q \in Refs \ {r} : holder'[q] = holder[q]
  BY <1>1, <1>2, NotNone DEF TypeRefs
<1>5. InvRefs'
  BY <1>1, <1>2, <1>4 DEF IInv, InvRefs, Named
<1>6. InvPlaces'
  BY <1>2 DEF IInv, InvPlaces, NoUseAfterRelease, NoBlockLeaks, Freeing
<1>7. InvLocals'
  <2>1. LocalsOf(t)'
    BY <1>2 DEF IInv, InvLocals, LocalsOf
  <2>2. ASSUME NEW u \in Threads, u # t PROVE LocalsOf(u)'
    <3>1. \A q \in Refs : holder[q] = u => buffer'[q] = buffer[q] /\ holder'[q] = u
      BY <1>1, <1>2, <1>4, <2>2
    <3>2. pc[u] = "count" => buf[u] \in live
      BY DEF IInv, InvLocals, LocalsOf
    <3>3. QED
      BY <1>2, <2>2, <3>1, <3>2, OtherLocals
  <2>3. QED
    BY <2>1, <2>2 DEF InvLocals
<1>8. InvMutex'
  BY <1>2 DEF IInv, InvMutex
<1>9. InvPools'
  BY <1>2 DEF IInv, InvPools, Getting
<1>10. InvFreePool'
  BY <1>2 DEF IInv, InvFreePool
<1>11. InvPoolCount'
  BY <1>2, ZenonT(40) DEF IInv, InvPoolCount, Client, Out, Dropping
<1>12. QED
  BY <1>3, <1>5, <1>6, <1>7, <1>8, <1>9, <1>10, <1>11 DEF IInv

-------------------------------------------------------------------------------
(***************************************************************************)
(* Steps that create a buffer                                              *)
(***************************************************************************)

\* What av_buffer_create() does to the buffers and references.
LEMMA CreateRefs ==
  ASSUME IInv, NEW t \in Threads, NEW r \in Refs, NEW d \in Blocks, NEW p \in Pools \cup {None},
         NEW fl \in SUBSET {"READONLY", "REALLOCATABLE"}, Create(t, r, d, p, fl),
         Named(d) = {}
  PROVE  /\ TypeBuffers' /\ TypeRefs' /\ InvRefs'
         /\ live' = live \cup {d} /\ d # None
         /\ home'[d] = p /\ \A e \in Blocks \ {d} : home'[e] = home[e]
         /\ buffer[r] = None /\ holder[r] = None /\ buffer'[r] = d /\ holder'[r] = t
         /\ \A q \in Refs \ {r} : buffer'[q] = buffer[q] /\ holder'[q] = holder[q]
         /\ \A q \in Refs : buffer[q] # d
<1>1. TypeBuffers /\ TypeRefs /\ t # None /\ d # None
  BY PoolAssumption DEF IInv, TypeOK
<1>2. TypeBuffers'
  BY <1>1 DEF TypeBuffers, Create
<1>3. refcount' \in [Blocks -> Nat] /\ refcount'[d] = 1
      /\ \A e \in Blocks \ {d} : refcount'[e] = refcount[e]
  BY <1>1 DEF TypeRefs, Create
<1>4. buffer' \in [Refs -> Blocks \cup {None}] /\ buffer'[r] = d
      /\ \A q \in Refs \ {r} : buffer'[q] = buffer[q]
  BY <1>1 DEF TypeRefs, Create
<1>5. holder' \in [Refs -> Threads \cup {None}] /\ holder'[r] = t
      /\ \A q \in Refs \ {r} : holder'[q] = holder[q]
  BY <1>1 DEF TypeRefs, Create
<1>6. TypeRefs'
  BY <1>3, <1>4, <1>5 DEF TypeRefs
<1>7. buffer[r] = None /\ holder[r] = None
  BY DEF IInv, InvRefs, Create
<1>8. \A q \in Refs : buffer[q] # d
  BY DEF Named
<1>9. InvRefs'
  <2>1. \A q \in Refs : buffer'[q] = None <=> holder'[q] = None
    BY <1>1, <1>4, <1>5 DEF IInv, InvRefs
  <2>2. ASSUME NEW e \in Blocks PROVE refcount'[e] = Cardinality(Named(e)')
    <3>1. CASE e = d
      <4>1. Named(e)' = {r}
        BY <1>4, <1>8, <3>1 DEF Named
      <4>2. QED
        BY <1>3, <3>1, <4>1, FS_Singleton
    <3>2. CASE e # d
      <4>1. e # None
        BY PoolAssumption
      <4>2. Named(e)' = Named(e)
        BY <1>4, <1>7, <3>2, <4>1 DEF Named
      <4>3. QED
        BY <1>3, <3>2, <4>2, CountOfNames
    <3>3. QED
      BY <3>1, <3>2
  <2>3. QED
    BY <2>1, <2>2 DEF InvRefs
<1>10. live' = live \cup {d} /\ home'[d] = p /\ \A e \in Blocks \ {d} : home'[e] = home[e]
  BY <1>1 DEF TypeBuffers, Create
<1>11. QED
  BY <1>1, <1>2, <1>4, <1>5, <1>6, <1>7, <1>8, <1>9, <1>10

\* The block comes from nowhere, or from the list of a pool, and is in no list then.
LEMMA CreatePlaces ==
  ASSUME IInv, NEW t \in Threads, NEW r \in Refs, NEW d \in Blocks, NEW p \in Pools \cup {None},
         NEW fl \in SUBSET {"READONLY", "REALLOCATABLE"}, Create(t, r, d, p, fl),
         d \notin live \/ \E o \in Pools : d \in entries[o],
         \A o \in Pools : entries'[o] = entries[o] \ {d},
         pools' = pools,
         pc[t] \notin {"free", "push"}, pc'[t] \notin {"free", "push"},
         \A u \in Threads \ {t} : pc'[u] = pc[u] /\ buf'[u] = buf[u]
  PROVE  InvPlaces'
<1>1. Named(d) = {}
  BY Unreferenced
<1>2. /\ live' = live \cup {d} /\ d # None /\ buffer'[r] = d /\ buffer[r] = None
      /\ \A e \in Blocks \ {d} : home'[e] = home[e]
      /\ \A q \in Refs \ {r} : buffer'[q] = buffer[q] /\ holder'[q] = holder[q]
      /\ \A q \in Refs : buffer[q] # d
  <2>1. live' = live \cup {d} /\ d # None /\ buffer'[r] = d /\ buffer[r] = None
    <3>1. live' = live \cup {d} /\ d # None
      BY PoolAssumption DEF Create
    <3>2. buffer'[r] = d
      BY <1>1, CreateRefs
    <3>3. buffer[r] = None
      BY <1>1, CreateRefs
    <3>4. QED
      BY <3>1, <3>2, <3>3
  <2>2. \A e \in Blocks \ {d} : home'[e] = home[e]
    BY <1>1, CreateRefs
  <2>3. \A q \in Refs \ {r} : buffer'[q] = buffer[q] /\ holder'[q] = holder[q]
    BY <1>1, CreateRefs
  <2>4. \A q \in Refs : buffer[q] # d
    BY <1>1 DEF Named
  <2>5. QED
    BY <2>1, <2>2, <2>3, <2>4
<1>3. InvPlaces /\ live \subseteq Blocks /\ \A o \in Pools : entries[o] \subseteq Blocks
  BY DEF IInv, TypeOK, TypeBuffers, TypePools
<1>4. \A u \in Threads : Freeing(u) => buf[u] # d
  BY <1>3 DEF InvPlaces
<1>5. \A u \in Threads : pc'[u] \in {"free", "push"} =>
        pc[u] \in {"free", "push"} /\ buf'[u] = buf[u]
  OBVIOUS
<1>6. ASSUME NEW q \in Refs, buffer'[q] # None
      PROVE  /\ buffer'[q] \in live'
             /\ \A o \in Pools : buffer'[q] \notin entries'[o]
             /\ \A u \in Threads : pc'[u] \in {"free", "push"} => buf'[u] # buffer'[q]
  <2>1. CASE q = r
    BY <1>2, <1>4, <1>5, <2>1 DEF Freeing
  <2>2. CASE q # r
    <3>1. buffer'[q] = buffer[q] /\ buffer[q] # None
      BY <1>2, <1>6, <2>2
    <3>2. /\ buffer[q] \in live
          /\ \A o \in Pools : buffer[q] \notin entries[o]
          /\ \A u \in Threads : pc[u] \in {"free", "push"} => buf[u] # buffer[q]
      BY <1>3, <3>1 DEF InvPlaces, NoUseAfterRelease, Freeing
    <3>3. QED
      BY <1>2, <1>5, <3>1, <3>2
  <2>3. QED
    BY <2>1, <2>2
<1>7. NoBlockLeaks'
  <2>1. ASSUME NEW e \in live, e # d
        PROVE  \/ \E q \in Refs : buffer'[q] = e
               \/ \E o \in pools : e \in entries'[o]
               \/ \E u \in Threads : pc'[u] \in {"free", "push"} /\ buf'[u] = e
    <3>1. CASE \E q \in Refs : buffer[q] = e
      <4>1. PICK q \in Refs : buffer[q] = e
        BY <3>1
      <4>2. e # None
        BY <1>3, PoolAssumption
      <4>3. QED
        BY <1>2, <4>1, <4>2
    <3>2. CASE \E o \in pools : e \in entries[o]
      BY <2>1, <3>2 DEF IInv, TypeOK, TypePools
    <3>3. CASE \E u \in Threads : Freeing(u) /\ buf[u] = e
      BY <3>3 DEF Freeing
    <3>4. QED
      BY <1>3, <3>1, <3>2, <3>3 DEF InvPlaces, NoBlockLeaks
  <2>2. QED
    BY <1>2, <2>1 DEF NoBlockLeaks, Freeing
<1>8. \A o \in Pools : \A e \in entries'[o] : o \in pools' /\ e \in live' /\ home'[e] = o
  BY <1>2, <1>3 DEF InvPlaces
<1>9. ASSUME NEW u \in Threads, pc'[u] \in {"free", "push"}
      PROVE  /\ buf'[u] \in live'
             /\ \A o \in Pools : buf'[u] \notin entries'[o]
             /\ \A w \in Threads \ {u} : pc'[w] \in {"free", "push"} => buf'[w] # buf'[u]
  BY <1>2, <1>3, <1>5, <1>9 DEF InvPlaces, Freeing
<1>10. QED
  BY <1>6, <1>7, <1>8, <1>9 DEF InvPlaces, NoUseAfterRelease, Freeing

\* A block that one thread gets is none that another works on.
LEMMA OtherCreates ==
  ASSUME IInv, NEW t \in Threads, NEW r \in Refs, NEW d \in Blocks, NEW p \in Pools \cup {None},
         NEW fl \in SUBSET {"READONLY", "REALLOCATABLE"}, Create(t, r, d, p, fl),
         d \notin live \/ \E o \in Pools : d \in entries[o],
         NEW u \in Threads, u # t,
         pc'[u] = pc[u], pbuf'[u] = pbuf[u], newbuf'[u] = newbuf[u], buf'[u] = buf[u],
         pool'[u] = pool[u]
  PROVE  LocalsOf(u)'
<1>1. Named(d) = {}
  BY Unreferenced
<1>2. /\ live' = live \cup {d} /\ d # None /\ buffer'[r] = d /\ holder[r] = None
      /\ \A e \in Blocks \ {d} : home'[e] = home[e]
      /\ \A q \in Refs \ {r} : buffer'[q] = buffer[q] /\ holder'[q] = holder[q]
      /\ \A q \in Refs : buffer[q] # d
  <2>1. live' = live \cup {d} /\ d # None /\ buffer'[r] = d /\ holder[r] = None
    <3>1. live' = live \cup {d} /\ d # None
      BY PoolAssumption DEF Create
    <3>2. buffer'[r] = d
      BY <1>1, CreateRefs
    <3>3. holder[r] = None
      BY <1>1, CreateRefs
    <3>4. QED
      BY <3>1, <3>2, <3>3
  <2>2. \A e \in Blocks \ {d} : home'[e] = home[e]
    BY <1>1, CreateRefs
  <2>3. \A q \in Refs \ {r} : buffer'[q] = buffer[q] /\ holder'[q] = holder[q]
    BY <1>1, CreateRefs
  <2>4. \A q \in Refs : buffer[q] # d
    BY <1>1 DEF Named
  <2>5. QED
    BY <2>1, <2>2, <2>3, <2>4
<1>3. u # None
  BY PoolAssumption
<1>4. \A q \in Refs : holder[q] = u => buffer'[q] = buffer[q] /\ holder'[q] = u
  BY <1>2, <1>3
<1>5. \A q \in Refs : buffer'[q] = buffer[q] \/ \A o \in Refs : buffer[o] # buffer'[q]
  BY <1>2
<1>6. pc[u] = "push" => home'[buf[u]] = home[buf[u]]
  <2>1. ASSUME pc[u] = "push" PROVE buf[u] \in live /\ buf[u] \in Blocks /\ buf[u] # d
    BY <2>1 DEF IInv, InvPlaces, Freeing, TypeOK, TypeBuffers
  <2>2. QED
    BY <1>2, <2>1
<1>7. pc[u] = "count" => home'[buf[u]] = home[buf[u]] /\ buf[u] \in live'
  <2>1. ASSUME pc[u] = "count" PROVE buf[u] \in live /\ buf[u] \in Blocks /\ buf[u] # d
    <3>1. LocalsOf(u)
      BY DEF IInv, InvLocals
    <3>2. buf[u] \in live
      BY <2>1, <3>1 DEF LocalsOf
    <3>3. \E q \in Refs : holder[q] = u /\ buffer[q] = buf[u]
      BY <2>1, <3>1 DEF LocalsOf
    <3>4. QED
      BY <1>2, <3>2, <3>3 DEF IInv, TypeOK, TypeBuffers
  <2>2. QED
    BY <1>2, <2>1
<1>8. QED
  BY <1>4, <1>5, <1>6, <1>7, OtherLocals

\* av_buffer_create() of a fresh block.
LEMMA AllocStep ==
  ASSUME IInv, NEW t \in Threads, Alloc(t)
  PROVE  IInv'
<1>1. PICK r \in Refs, d \in Blocks \ live, fl \in SUBSET {"READONLY", "REALLOCATABLE"} :
        Create(t, r, d, None, fl)
  BY DEF Alloc
<1>2. /\ pc[t] = "idle" /\ TypeOK /\ TypePools /\ TypeThreads
      /\ UNCHANGED <<pools, pool_refcount, entries, mutex, ppool, pc, pbuf, newbuf, buf, pool>>
  BY DEF IInv, TypeOK, Alloc, shared, locals
<1>3. Named(d) = {}
  BY Unreferenced
<1>4. /\ TypeBuffers' /\ TypeRefs' /\ InvRefs' /\ live' = live \cup {d} /\ d # None
      /\ home'[d] = None /\ \A e \in Blocks \ {d} : home'[e] = home[e]
      /\ holder[r] = None /\ buffer'[r] = d /\ holder'[r] = t
      /\ \A q \in Refs \ {r} : buffer'[q] = buffer[q] /\ holder'[q] = holder[q]
      /\ \A q \in Refs : buffer[q] # d
  BY <1>1, <1>3, CreateRefs
<1>5. TypeOK'
  BY <1>2, <1>4 DEF TypeOK, TypePools, TypeThreads
<1>6. \A o \in Pools : d \notin entries[o] /\ entries'[o] = entries[o] \ {d}
  BY <1>2 DEF IInv, InvPlaces
<1>7. InvPlaces'
  BY <1>1, <1>2, <1>6, CreatePlaces
<1>8. InvLocals'
  <2>1. LocalsOf(t)'
    BY <1>2 DEF IInv, InvLocals, LocalsOf
  <2>2. ASSUME NEW u \in Threads, u # t PROVE LocalsOf(u)'
    BY <1>1, <1>2, <1>4, <2>2, OtherCreates
  <2>3. QED
    BY <2>1, <2>2 DEF InvLocals
<1>9. InvMutex'
  BY <1>2 DEF IInv, InvMutex
<1>10. InvPools'
  BY <1>2, <1>4 DEF IInv, InvPools, Getting, TypeOK, TypeBuffers
<1>11. InvFreePool'
  BY <1>2, FreePoolFrame DEF IInv
<1>12. InvPoolCount'
  <2>1. ASSUME NEW p \in pools PROVE Out(p)' = Out(p)
    BY <1>2, <1>4, NotNone DEF Out, IInv, TypeOK, TypeBuffers
  <2>2. QED
    BY <1>2, <2>1 DEF IInv, InvPoolCount, Client, Dropping
<1>13. QED
  BY <1>4, <1>5, <1>7, <1>8, <1>9, <1>10, <1>11, <1>12 DEF IInv

\* The copy of av_buffer_make_writable() and av_buffer_realloc() is a fresh block.
LEMMA CopyStep ==
  ASSUME IInv, NEW t \in Threads, Copy(t)
  PROVE  IInv'
<1>1. PICK r \in Refs, d \in Blocks \ live, fl \in SUBSET {"READONLY", "REALLOCATABLE"} :
        Create(t, r, d, None, fl) /\ newbuf' = [newbuf EXCEPT ![t] = r]
  BY DEF Copy
<1>2. /\ pc[t] = "copy" /\ Goto(t, "replace") /\ TypeOK /\ TypePools /\ TypeThreads
      /\ UNCHANGED <<pools, pool_refcount, entries, mutex, ppool, pbuf, buf, pool>>
  BY DEF IInv, TypeOK, Copy, shared
<1>3. pc'[t] = "replace" /\ \A u \in Threads \ {t} : pc'[u] = pc[u]
  BY <1>2, Labels
<1>4. Named(d) = {}
  BY Unreferenced
<1>5. /\ TypeBuffers' /\ TypeRefs' /\ InvRefs' /\ live' = live \cup {d} /\ d # None
      /\ home'[d] = None /\ \A e \in Blocks \ {d} : home'[e] = home[e]
      /\ holder[r] = None /\ buffer'[r] = d /\ holder'[r] = t
      /\ \A q \in Refs \ {r} : buffer'[q] = buffer[q] /\ holder'[q] = holder[q]
      /\ \A q \in Refs : buffer[q] # d
  BY <1>1, <1>4, CreateRefs
<1>6. /\ newbuf' \in [Threads -> Refs \cup {None}] /\ newbuf'[t] = r
      /\ \A u \in Threads \ {t} : newbuf'[u] = newbuf[u]
  BY <1>1, <1>2 DEF TypeThreads
<1>7. TypeOK'
  <2>1. pc' \in [Threads -> {"idle", "write", "copy", "replace", "free", "get", "count", "push",
                             "drop", "free pool"}]
    BY <1>2 DEF TypeThreads, Goto
  <2>2. TypeThreads'
    BY <1>2, <1>6, <2>1 DEF TypeThreads
  <2>3. TypePools'
    BY <1>2 DEF TypePools
  <2>4. QED
    BY <1>5, <2>2, <2>3 DEF TypeOK
<1>8. \A o \in Pools : d \notin entries[o] /\ entries'[o] = entries[o] \ {d}
  BY <1>2 DEF IInv, InvPlaces
<1>9. InvPlaces'
  BY <1>1, <1>2, <1>3, <1>8, CreatePlaces
<1>10. InvLocals'
  <2>1. pbuf[t] \in Refs /\ holder[pbuf[t]] = t /\ pool[t] = None /\ t # None
    BY <1>2, NotNone, ZenonT(40) DEF IInv, InvLocals, LocalsOf
  <2>2. holder'[pbuf'[t]] = t /\ buffer'[newbuf'[t]] # buffer'[pbuf'[t]]
    BY <1>2, <1>5, <1>6, <2>1
  <2>3. LocalsOf(t)'
    BY <1>2, <1>3, <1>5, <1>6, <2>1, <2>2 DEF LocalsOf
  <2>4. ASSUME NEW u \in Threads, u # t PROVE LocalsOf(u)'
    BY <1>1, <1>2, <1>3, <1>6, <2>4, OtherCreates
  <2>5. QED
    BY <2>3, <2>4 DEF InvLocals
<1>11. InvMutex'
  BY <1>2, <1>3, MutexFrame DEF IInv
<1>12. InvPools'
  <2>1. pool'[t] # None => pool'[t] \in pools'
    BY <1>2 DEF IInv, InvPools
  <2>2. \A e \in live' : home'[e] # None => home'[e] \in pools'
    BY <1>2, <1>5 DEF IInv, InvPools, TypeOK, TypeBuffers
  <2>3. QED
    BY <1>2, <1>3, <2>1, <2>2, PoolsFrame DEF IInv
<1>13. InvFreePool'
  BY <1>2, <1>3, FreePoolFrame DEF IInv
<1>14. InvPoolCount'
  <2>1. ASSUME NEW p \in pools PROVE Out(p)' = Out(p)
    BY <1>2, <1>3, <1>5, NotNone DEF Out, TypeOK, TypeBuffers
  <2>2. ASSUME NEW p \in pools PROVE Dropping(p)' = Dropping(p)
    BY <1>2, <1>3 DEF Dropping
  <2>3. QED
    BY <1>2, <2>1, <2>2 DEF IInv, InvPoolCount, Client
<1>15. QED
  BY <1>5, <1>7, <1>9, <1>10, <1>11, <1>12, <1>13, <1>14 DEF IInv

\* GetNew and GetEntry differ in where the block comes from.
LEMMA GetStep ==
  ASSUME IInv, NEW t \in Threads, pc[t] = "get", Goto(t, "count"),
         NEW r \in Refs, NEW d \in Blocks, Create(t, r, d, pool[t], {}),
         d \notin live \/ d \in entries[pool[t]],
         buf' \in [Threads -> Blocks \cup {None}], buf'[t] = d,
         \A u \in Threads \ {t} : buf'[u] = buf[u],
         entries' = [entries EXCEPT ![pool[t]] = @ \ {d}],
         mutex' = [mutex EXCEPT ![pool[t]] = None],
         UNCHANGED <<pools, pool_refcount, ppool, pbuf, newbuf, pool>>
  PROVE  IInv'
<1> DEFINE p == pool[t]
<1>1. /\ TypeOK /\ TypeBuffers /\ TypeRefs /\ TypePools /\ TypeThreads
      /\ InvPlaces /\ InvMutex /\ InvPools
  BY DEF IInv, TypeOK
<1>2. p \in Pools /\ p \in pools /\ p # None /\ p = ppool
  <2>1. p = ppool /\ p # None
    BY DEF IInv, InvPools, InvLocals, LocalsOf, Getting
  <2>2. QED
    BY <1>1, <2>1 DEF InvPools, TypePools
<1>3. pc'[t] = "count" /\ \A u \in Threads \ {t} : pc'[u] = pc[u]
  BY <1>1, Labels
<1>4. d \notin live \/ \E o \in Pools : d \in entries[o]
  BY <1>2
<1>5. Named(d) = {}
  BY <1>4, Unreferenced
<1>6. /\ TypeBuffers' /\ TypeRefs' /\ InvRefs' /\ live' = live \cup {d} /\ d # None
      /\ home'[d] = p /\ \A e \in Blocks \ {d} : home'[e] = home[e]
      /\ holder[r] = None /\ buffer'[r] = d /\ holder'[r] = t
      /\ \A q \in Refs \ {r} : buffer'[q] = buffer[q] /\ holder'[q] = holder[q]
      /\ \A q \in Refs : buffer[q] # d
  <2>1. p \in Pools \cup {None} /\ {} \in SUBSET {"READONLY", "REALLOCATABLE"}
    BY <1>2
  <2>2. QED
    BY <1>5, <2>1, CreateRefs
<1>7. /\ entries' \in [Pools -> SUBSET Blocks] /\ entries'[p] = entries[p] \ {d}
      /\ \A o \in Pools \ {p} : entries'[o] = entries[o]
  BY <1>1, <1>2 DEF TypePools
<1>8. mutex' \in [Pools -> Threads \cup {None}]
  BY <1>1 DEF TypePools
<1>9. \A o \in Pools \ {p} : d \notin entries[o]
  BY <1>1, <1>2 DEF InvPlaces
<1>10. TypeOK'
  <2>1. pc' \in [Threads -> {"idle", "write", "copy", "replace", "free", "get", "count", "push",
                             "drop", "free pool"}]
    BY <1>1 DEF TypeThreads, Goto
  <2>2. TypeThreads'
    BY <1>1, <2>1 DEF TypeThreads
  <2>3. TypePools'
    BY <1>1, <1>7, <1>8 DEF TypePools
  <2>4. QED
    BY <1>6, <2>2, <2>3 DEF TypeOK
<1>11. InvPlaces'
  <2>1. \A o \in Pools : entries'[o] = entries[o] \ {d}
    BY <1>7, <1>9
  <2>2. p \in Pools \cup {None} /\ {} \in SUBSET {"READONLY", "REALLOCATABLE"}
    BY <1>2
  <2>3. QED
    BY <1>3, <1>4, <2>1, <2>2, CreatePlaces
<1>12. InvLocals'
  <2>1. LocalsOf(t)'
    BY <1>2, <1>3, <1>6 DEF LocalsOf
  <2>2. ASSUME NEW u \in Threads, u # t PROVE LocalsOf(u)'
    <3>1. p \in Pools \cup {None} /\ {} \in SUBSET {"READONLY", "REALLOCATABLE"}
      BY <1>2
    <3>2. QED
      BY <1>3, <1>4, <2>2, <3>1, OtherCreates
  <2>3. QED
    BY <2>1, <2>2 DEF InvLocals
<1>13. InvMutex'
  <2>1. \A u \in Threads : pc[u] \in {"get", "push"} => pool[u] \in Pools
    BY PoolOf
  <2>2. QED
    BY <1>1, <1>3, <1>7, <2>1, MutexReleased
<1>14. InvPools'
  <2>1. pool'[t] \in pools' /\ pool'[t] = ppool
    BY <1>2
  <2>2. \A e \in live' : home'[e] # None => home'[e] \in pools'
    BY <1>1, <1>2, <1>6 DEF InvPools, TypeBuffers
  <2>3. QED
    BY <1>1, <1>3, <2>1, <2>2, PoolsFrame
<1>15. InvFreePool'
  BY <1>3, FreePoolFrame DEF IInv
<1>16. InvPoolCount'
  <2>1. ASSUME NEW o \in pools PROVE Out(o)' = Out(o)
    <3>1. o \in Pools
      BY <1>1 DEF TypePools
    <3>2. d \notin Out(o)'
      BY <1>3 DEF Out
    <3>3. d \notin Out(o)
      BY <1>1, <1>2, <3>1 DEF Out, InvPlaces
    <3>4. ASSUME NEW e \in Blocks, e # d PROVE e \in Out(o)' <=> e \in Out(o)
      BY <1>3, <1>6, <1>7, <3>1, <3>4 DEF Out
    <3>5. Out(o)' \subseteq Blocks /\ Out(o) \subseteq Blocks
      BY <1>1, <1>6 DEF Out, TypeBuffers
    <3>6. QED
      BY <3>2, <3>3, <3>4, <3>5
  <2>2. ASSUME NEW o \in pools PROVE Dropping(o)' = Dropping(o)
    BY <1>3 DEF Dropping
  <2>3. QED
    BY <2>1, <2>2 DEF IInv, InvPoolCount, Client
<1>17. QED
  BY <1>6, <1>10, <1>11, <1>12, <1>13, <1>14, <1>15, <1>16 DEF IInv

\* av_buffer_pool_get() of an empty pool allocates a block for it.
LEMMA GetNewStep ==
  ASSUME IInv, NEW t \in Threads, GetNew(t)
  PROVE  IInv'
<1>1. PICK r \in Refs, d \in Blocks \ live :
        Create(t, r, d, pool[t], {}) /\ buf' = [buf EXCEPT ![t] = d]
  BY DEF GetNew
<1>2. /\ pc[t] = "get" /\ Goto(t, "count") /\ TypeThreads /\ TypePools
      /\ mutex' = [mutex EXCEPT ![pool[t]] = None]
      /\ UNCHANGED <<pools, pool_refcount, entries, ppool, pbuf, newbuf, pool>>
  BY DEF IInv, TypeOK, GetNew
<1>3. /\ buf' \in [Threads -> Blocks \cup {None}] /\ buf'[t] = d
      /\ \A u \in Threads \ {t} : buf'[u] = buf[u]
  BY <1>1, <1>2 DEF TypeThreads
<1>4. entries' = [entries EXCEPT ![pool[t]] = entries[pool[t]] \ {d}]
  <2>1. \A p \in Pools : d \notin entries[p]
    BY DEF IInv, InvPlaces
  <2>2. \A p \in Pools : entries[p] \ {d} = entries[p]
    BY <2>1
  <2>3. QED
    BY <1>2, <2>2 DEF TypePools
<1>5. QED
  BY <1>1, <1>2, <1>3, <1>4, GetStep

\* av_buffer_pool_get() unlinks the entry that it found under the mutex.
LEMMA GetEntryStep ==
  ASSUME IInv, NEW t \in Threads, GetEntry(t)
  PROVE  IInv'
<1>1. PICK r \in Refs : Create(t, r, buf[t], pool[t], {})
  BY DEF GetEntry
<1>2. /\ pc[t] = "get" /\ Goto(t, "count") /\ TypeThreads
      /\ entries' = [entries EXCEPT ![pool[t]] = entries[pool[t]] \ {buf[t]}]
      /\ mutex' = [mutex EXCEPT ![pool[t]] = None]
      /\ UNCHANGED <<pools, pool_refcount, ppool, pbuf, newbuf, buf, pool>>
  BY DEF IInv, TypeOK, GetEntry, locals
<1>3. buf[t] \in Blocks /\ buf[t] \in entries[pool[t]] /\ buf' \in [Threads -> Blocks \cup {None}]
  BY <1>2, ZenonT(40) DEF IInv, InvMutex, GetEntry, TypeThreads
<1>4. QED
  BY <1>1, <1>2, <1>3, GetStep

-------------------------------------------------------------------------------
(***************************************************************************)
(* Steps that give up a reference                                          *)
(***************************************************************************)

\* The common part of Unref and Replace: one reference to d, which t holds, is no
\* more; t goes on to free d exactly when it was the last.
LEMMA ReleaseStep ==
  ASSUME IInv, NEW t \in Threads, pc[t] \in {"idle", "replace"},
         NEW d \in Blocks,
         NEW x \in Refs, holder[x] = t, buffer[x] = d,
         TypeRefs', InvRefs',
         Named(d)' = Named(d) \ {x},
         \A e \in Blocks \ {d} : Named(e)' = {} <=> Named(e) = {},
         Release(t, d),
         pbuf' \in [Threads -> Refs \cup {None}], newbuf' \in [Threads -> Refs \cup {None}],
         \A u \in Threads \ {t} : pbuf'[u] = pbuf[u],
         \A u \in Threads \ {t} : newbuf'[u] = newbuf[u],
         \A q \in Refs : holder[q] # t => buffer'[q] = buffer[q] /\ holder'[q] = holder[q],
         \A q \in Refs : buffer'[q] # None => \E o \in Refs : buffer[o] = buffer'[q],
         \A q \in Refs : \/ buffer'[q] \in {buffer[q], None}
                         \/ \E o \in Refs : holder[o] = t /\ buffer[o] = buffer'[q],
         UNCHANGED <<live, home, flags, shared, ppool, pool>>
  PROVE  IInv'
<1>1. /\ TypeOK /\ TypeBuffers /\ TypeRefs /\ TypePools /\ TypeThreads /\ InvPlaces
      /\ UNCHANGED <<live, home, flags, pools, pool_refcount, entries, mutex, ppool, pool>>
  BY DEF IInv, TypeOK, shared
<1>2. d \in live /\ d # None /\ x \in Named(d) /\ (LastReference(d) <=> Named(d) = {x})
  <2>1. Holds(t, x) /\ x \in Named(d)
    BY DEF Holds, Named
  <2>2. d \in live /\ (refcount[d] = 1 <=> Named(d) = {x})
    BY <2>1, HeldReference, ZenonT(40)
  <2>3. QED
    BY <2>1, <2>2, PoolAssumption DEF LastReference
<1>3. /\ buf' \in [Threads -> Blocks \cup {None}]
      /\ pc' \in [Threads -> {"idle", "write", "copy", "replace", "free", "get", "count", "push",
                              "drop", "free pool"}]
  BY <1>1 DEF TypeThreads, Release, Goto
<1>4. \A u \in Threads \ {t} : pc'[u] = pc[u] /\ buf'[u] = buf[u] /\ pool'[u] = pool[u]
  BY <1>1 DEF TypeThreads, Release, Goto
<1>5. \/ Named(d) = {x} /\ pc'[t] = "free" /\ buf'[t] = d
      \/ Named(d) # {x} /\ pc'[t] = "idle"
  <2>1. /\ pc'[t] = IF LastReference(d) THEN "free" ELSE "idle"
        /\ buf'[t] = IF LastReference(d) THEN d ELSE None
    BY <1>1 DEF TypeThreads, Release, Goto
  <2>2. QED
    BY <1>2, <2>1
<1>6. TypeOK'
  <2>1. TypeThreads'
    BY <1>1, <1>3 DEF TypeThreads
  <2>2. TypeBuffers' /\ TypePools'
    BY <1>1 DEF TypeBuffers, TypePools
  <2>3. QED
    BY <2>1, <2>2 DEF TypeOK
<1>7. NoUseAfterRelease'
  <2>1. ASSUME NEW q \in Refs, buffer'[q] # None
        PROVE  /\ buffer'[q] \in live
               /\ \A p \in Pools : buffer'[q] \notin entries[p]
               /\ \A u \in Threads \ {t} : pc[u] \in {"free", "push"} => buf[u] # buffer'[q]
    <3>1. PICK o \in Refs : buffer[o] = buffer'[q] /\ buffer[o] # None
      BY <2>1
    <3>2. QED
      BY <1>1, <3>1 DEF InvPlaces, NoUseAfterRelease, Freeing
  <2>2. ASSUME NEW q \in Refs, pc'[t] \in {"free", "push"} PROVE buf'[t] # buffer'[q]
    <3>1. Named(d)' = {} /\ buf'[t] = d
      BY <1>5, <2>2
    <3>2. QED
      BY <3>1 DEF Named
  <2>3. QED
    BY <1>1, <1>4, <2>1, <2>2 DEF NoUseAfterRelease, Freeing
<1>8. NoBlockLeaks'
  <2>1. ASSUME NEW e \in live, e # d
        PROVE  \/ \E q \in Refs : buffer'[q] = e
               \/ \E p \in pools : e \in entries[p]
               \/ \E u \in Threads : pc'[u] \in {"free", "push"} /\ buf'[u] = e
    <3>1. CASE \E q \in Refs : buffer[q] = e
      <4>1. e \in Blocks /\ Named(e) # {}
        BY <1>1, <3>1 DEF Named, TypeBuffers
      <4>2. Named(e)' # {}
        BY <2>1, <4>1
      <4>3. QED
        BY <4>2 DEF Named
    <3>2. CASE \E p \in pools : e \in entries[p]
      BY <3>2
    <3>3. CASE \E u \in Threads : Freeing(u) /\ buf[u] = e
      BY <1>4, <3>3 DEF Freeing
    <3>4. QED
      BY <1>1, <3>1, <3>2, <3>3 DEF InvPlaces, NoBlockLeaks
  <2>2. \/ \E q \in Refs : buffer'[q] = d
        \/ \E u \in Threads : pc'[u] \in {"free", "push"} /\ buf'[u] = d
    <3>1. CASE Named(d) = {x}
      BY <1>5, <3>1
    <3>2. CASE Named(d) # {x}
      <4>1. PICK o \in Named(d) : o # x
        BY <1>2, <3>2
      <4>2. o \in Named(d)'
        BY <4>1
      <4>3. QED
        BY <4>2 DEF Named
    <3>3. QED
      BY <3>1, <3>2
  <2>3. QED
    BY <1>1, <2>1, <2>2 DEF NoBlockLeaks, Freeing
<1>9. InvPlaces'
  <2> buffer[x] = d /\ d # None
    BY <1>2
  <2>1. \A p \in Pools : d \notin entries[p]
    BY <1>1 DEF InvPlaces, NoUseAfterRelease
  <2>2. \A u \in Threads : Freeing(u) => buf[u] # d
    BY <1>1 DEF InvPlaces, NoUseAfterRelease
  <2>3. ASSUME NEW u \in Threads, pc'[u] \in {"free", "push"}
        PROVE  /\ buf'[u] \in live /\ \A p \in Pools : buf'[u] \notin entries[p]
               /\ u = t => buf'[u] = d
               /\ u # t => pc[u] \in {"free", "push"} /\ buf'[u] = buf[u]
    BY <1>1, <1>2, <1>4, <1>5, <2>1, <2>3 DEF InvPlaces, Freeing
  <2>4. ASSUME NEW u \in Threads, pc'[u] \in {"free", "push"},
               NEW w \in Threads, pc'[w] \in {"free", "push"}, w # u
        PROVE  buf'[w] # buf'[u]
    <3>1. CASE u # t /\ w # t
      BY <1>1, <2>3, <2>4, <3>1 DEF InvPlaces, Freeing
    <3>2. CASE u = t \/ w = t
      BY <2>2, <2>3, <2>4, <3>2 DEF Freeing
    <3>3. QED
      BY <3>1, <3>2
  <2>5. \A p \in Pools : \A e \in entries'[p] : p \in pools' /\ e \in live' /\ home'[e] = p
    BY <1>1 DEF InvPlaces
  <2>6. QED
    BY <1>1, <1>7, <1>8, <2>3, <2>4, <2>5 DEF InvPlaces, Freeing
<1>10. InvLocals'
  <2>1. LocalsOf(t)'
    <3>1. pool[t] = None
      BY DEF IInv, InvLocals, LocalsOf
    <3>2. QED
      BY <1>1, <1>5, <3>1 DEF LocalsOf
  <2>2. ASSUME NEW u \in Threads, u # t PROVE LocalsOf(u)'
    <3>1. \A q \in Refs : holder[q] = u => buffer'[q] = buffer[q] /\ holder'[q] = u
      BY <2>2
    <3>2. pc[u] = "count" => buf[u] \in live'
      BY <1>1 DEF IInv, InvLocals, LocalsOf
    <3>3. QED
      BY <1>1, <1>4, <2>2, <3>1, <3>2, OtherLocals
  <2>3. QED
    BY <2>1, <2>2 DEF InvLocals
<1>11. InvMutex'
  BY <1>1, <1>4, <1>5, MutexFrame DEF IInv
<1>12. InvPools'
  <2>1. pool'[t] # None => pool'[t] \in pools'
    BY <1>1 DEF IInv, InvPools
  <2>2. \A e \in live' : home'[e] # None => home'[e] \in pools'
    BY <1>1 DEF IInv, InvPools
  <2>3. QED
    BY <1>1, <1>4, <1>5, <2>1, <2>2, PoolsFrame DEF IInv
<1>13. InvFreePool'
  BY <1>1, <1>4, <1>5, FreePoolFrame DEF IInv
<1>14. InvPoolCount'
  BY <1>1, <1>4, <1>5, PoolCountFrame DEF IInv
<1>15. QED
  BY <1>6, <1>9, <1>10, <1>11, <1>12, <1>13, <1>14 DEF IInv

\* av_buffer_unref() gives up one reference, and the block with the last one.
LEMMA UnrefStep ==
  ASSUME IInv, NEW t \in Threads, Unref(t)
  PROVE  IInv'
<1>1. PICK r \in Refs :
        /\ Holds(t, r) /\ Release(t, buffer[r])
        /\ buffer' = [buffer EXCEPT ![r] = None] /\ holder' = [holder EXCEPT ![r] = None]
  BY DEF Unref
<1>2. /\ pc[t] = "idle" /\ TypeRefs /\ TypeThreads
      /\ UNCHANGED <<live, home, flags, shared, ppool, pbuf, newbuf, pool>>
  BY DEF IInv, TypeOK, Unref
<1>3. PICK d \in Blocks :
        /\ d # None /\ buffer[r] = d /\ refcount[d] \in Nat /\ refcount[d] >= 1
        /\ refcount' = [refcount EXCEPT ![d] = refcount[d] - 1]
  BY <1>1, HeldReference, PoolAssumption DEF Release
<1>4. TypeRefs'
  <2>1. refcount' \in [Blocks -> Nat]
    BY <1>2, <1>3 DEF TypeRefs
  <2>2. buffer' \in [Refs -> Blocks \cup {None}] /\ holder' \in [Refs -> Threads \cup {None}]
    BY <1>1, <1>2 DEF TypeRefs
  <2>3. QED
    BY <2>1, <2>2 DEF TypeRefs
<1>5. /\ buffer'[r] = None /\ holder'[r] = None /\ holder[r] = t
      /\ \A q \in Refs \ {r} : buffer'[q] = buffer[q] /\ holder'[q] = holder[q]
  BY <1>1, <1>2 DEF TypeRefs, Holds
<1>6. r \in Named(d) /\ Named(d)' = Named(d) \ {r}
  BY <1>3, <1>5 DEF Named
<1>7. ASSUME NEW e \in Blocks, e # d PROVE Named(e)' = Named(e)
  BY <1>3, <1>5, <1>7, PoolAssumption DEF Named
<1>8. InvRefs'
  <2>1. \A q \in Refs : buffer'[q] = None <=> holder'[q] = None
    BY <1>5 DEF IInv, InvRefs
  <2>2. refcount'[d] = Cardinality(Named(d)')
    <3>1. refcount'[d] = refcount[d] - 1
      BY <1>2, <1>3 DEF TypeRefs
    <3>2. QED
      BY <1>6, <3>1, CountOfNames, FS_RemoveElement, ZenonT(40)
  <2>3. ASSUME NEW e \in Blocks, e # d PROVE refcount'[e] = Cardinality(Named(e)')
    <3>1. refcount'[e] = refcount[e]
      BY <1>2, <1>3, <2>3 DEF TypeRefs
    <3>2. QED
      BY <1>7, <2>3, <3>1, CountOfNames
  <2>4. QED
    BY <2>1, <2>2, <2>3 DEF InvRefs
<1>9. /\ pbuf' \in [Threads -> Refs \cup {None}] /\ newbuf' \in [Threads -> Refs \cup {None}]
      /\ \A u \in Threads \ {t} : pbuf'[u] = pbuf[u] /\ newbuf'[u] = newbuf[u]
  BY <1>2 DEF TypeThreads
<1>10. \A q \in Refs : holder[q] # t => buffer'[q] = buffer[q] /\ holder'[q] = holder[q]
  BY <1>5
<1>11. \A q \in Refs : buffer'[q] # None => \E o \in Refs : buffer[o] = buffer'[q]
  BY <1>5
<1>12. \A q \in Refs : \/ buffer'[q] \in {buffer[q], None}
                       \/ \E o \in Refs : holder[o] = t /\ buffer[o] = buffer'[q]
  BY <1>5
<1>13. \A e \in Blocks \ {d} : Named(e)' = {} <=> Named(e) = {}
  BY <1>7
<1>14. Release(t, d) /\ pc[t] \in {"idle", "replace"} /\ holder[r] = t /\ buffer[r] = d
  BY <1>1, <1>2, <1>3, <1>5
<1>15. UNCHANGED <<live, home, flags, shared, ppool, pool>>
  BY <1>2
<1>16. QED
  BY <1>4, <1>6, <1>8, <1>9, <1>10, <1>11, <1>12, <1>13, <1>14, <1>15, ReleaseStep, ZenonT(40)

\* buffer_replace() gives up the reference to the old block for the copy.
LEMMA ReplaceStep ==
  ASSUME IInv, NEW t \in Threads, Replace(t)
  PROVE  IInv'
<1> DEFINE x == pbuf[t]
           n == newbuf[t]
<1>1. /\ pc[t] = "replace" /\ TypeRefs /\ TypeThreads
      /\ buffer' = [buffer EXCEPT ![x] = buffer[n], ![n] = None]
      /\ holder' = [holder EXCEPT ![n] = None]
      /\ Release(t, buffer[x])
      /\ pbuf' = [pbuf EXCEPT ![t] = None] /\ newbuf' = [newbuf EXCEPT ![t] = None]
      /\ UNCHANGED <<live, home, flags, shared, ppool, pool>>
  BY DEF IInv, TypeOK, Replace
<1>2. /\ x \in Refs /\ n \in Refs /\ holder[x] = t /\ holder[n] = t /\ x # n
      /\ buffer[n] # buffer[x]
  BY <1>1 DEF IInv, InvLocals, LocalsOf
<1>3. PICK d \in Blocks, e \in Blocks :
        /\ d # None /\ e # None /\ e # d /\ buffer[x] = d /\ buffer[n] = e
        /\ refcount[d] \in Nat /\ refcount[d] >= 1
        /\ refcount' = [refcount EXCEPT ![d] = refcount[d] - 1]
  BY <1>1, <1>2, HeldReference, PoolAssumption DEF Release, Holds
<1>4. TypeRefs'
  <2>1. refcount' \in [Blocks -> Nat]
    BY <1>1, <1>3 DEF TypeRefs
  <2>2. buffer' \in [Refs -> Blocks \cup {None}] /\ holder' \in [Refs -> Threads \cup {None}]
    BY <1>1, <1>3 DEF TypeRefs
  <2>3. QED
    BY <2>1, <2>2 DEF TypeRefs
<1>5. /\ buffer'[x] = e /\ buffer'[n] = None /\ holder'[x] = t /\ holder'[n] = None
      /\ \A q \in Refs \ {x, n} : buffer'[q] = buffer[q] /\ holder'[q] = holder[q]
  BY <1>1, <1>2, <1>3 DEF TypeRefs
<1>6. x \in Named(d) /\ Named(d)' = Named(d) \ {x}
  BY <1>2, <1>3, <1>5 DEF Named
<1>7. n \in Named(e) /\ x \notin Named(e) /\ Named(e)' = (Named(e) \ {n}) \cup {x}
  BY <1>2, <1>3, <1>5 DEF Named
<1>8. ASSUME NEW c \in Blocks, c # d, c # e PROVE Named(c)' = Named(c)
  BY <1>2, <1>3, <1>5, <1>8, PoolAssumption DEF Named
<1>9. InvRefs'
  <2>1. \A q \in Refs : buffer'[q] = None <=> holder'[q] = None
    BY <1>2, <1>3, <1>5, PoolAssumption DEF IInv, InvRefs
  <2>2. refcount'[d] = Cardinality(Named(d)')
    <3>1. refcount'[d] = refcount[d] - 1
      BY <1>1, <1>3 DEF TypeRefs
    <3>2. QED
      BY <1>6, <3>1, CountOfNames, FS_RemoveElement
  <2>3. refcount'[e] = Cardinality(Named(e)')
    <3>1. refcount'[e] = refcount[e]
      BY <1>1, <1>3 DEF TypeRefs
    <3>2. IsFiniteSet(Named(e)) /\ Cardinality(Named(e)) \in Nat
      BY CountOfNames
    <3>3. /\ IsFiniteSet(Named(e) \ {n})
          /\ Cardinality(Named(e) \ {n}) = Cardinality(Named(e)) - 1
      BY <1>7, <3>2, FS_RemoveElement
    <3>4. Cardinality(Named(e)') = Cardinality(Named(e) \ {n}) + 1
      BY <1>7, <3>3, FS_AddElement
    <3>5. QED
      BY <3>1, <3>2, <3>3, <3>4, CountOfNames
  <2>4. ASSUME NEW c \in Blocks, c # d, c # e PROVE refcount'[c] = Cardinality(Named(c)')
    <3>1. refcount'[c] = refcount[c]
      BY <1>1, <1>3, <2>4 DEF TypeRefs
    <3>2. QED
      BY <1>8, <2>4, <3>1, CountOfNames
  <2>5. QED
    BY <2>1, <2>2, <2>3, <2>4 DEF InvRefs
<1>10. /\ pbuf' \in [Threads -> Refs \cup {None}] /\ newbuf' \in [Threads -> Refs \cup {None}]
       /\ \A u \in Threads \ {t} : pbuf'[u] = pbuf[u] /\ newbuf'[u] = newbuf[u]
  BY <1>1 DEF TypeThreads
<1>11. \A q \in Refs : holder[q] # t => buffer'[q] = buffer[q] /\ holder'[q] = holder[q]
  BY <1>2, <1>5
<1>12. \A q \in Refs : buffer'[q] # None => \E o \in Refs : buffer[o] = buffer'[q]
  BY <1>2, <1>3, <1>5
<1>13. \A q \in Refs : \/ buffer'[q] \in {buffer[q], None}
                       \/ \E o \in Refs : holder[o] = t /\ buffer[o] = buffer'[q]
  BY <1>2, <1>3, <1>5
<1>14. \A c \in Blocks \ {d} : Named(c)' = {} <=> Named(c) = {}
  BY <1>7, <1>8
<1>15. /\ Release(t, d) /\ pc[t] \in {"idle", "replace"}
       /\ x \in Refs /\ holder[x] = t /\ buffer[x] = d
  BY <1>1, <1>2, <1>3
<1>16. UNCHANGED <<live, home, flags, shared, ppool, pool>>
  BY <1>1
<1> HIDE DEF x, n
<1>17. QED
  BY <1>4, <1>6, <1>9, <1>10, <1>11, <1>12, <1>13, <1>14, <1>15, <1>16, ReleaseStep


-------------------------------------------------------------------------------
(***************************************************************************)
(* Steps of a get and of a release that leave the counters alone           *)
(***************************************************************************)

\* The last reference frees a block that belongs to no pool.
LEMMA FreeBlockStep ==
  ASSUME IInv, NEW t \in Threads, FreeBlock(t)
  PROVE  IInv'
<1>1. /\ TypeOK /\ TypeBuffers /\ TypeRefs /\ TypePools /\ TypeThreads /\ InvPlaces
      /\ pc[t] = "free" /\ Goto(t, "idle")
      /\ UNCHANGED <<home, flags, refcount, buffer, holder, pools, pool_refcount, entries, mutex,
                     ppool, pbuf, newbuf, pool>>
  BY DEF IInv, TypeOK, FreeBlock, refs, shared
<1>2. PICK b \in live : b \in Blocks /\ b = buf[t]
  BY <1>1 DEF InvPlaces, Freeing, TypeBuffers
<1>3. /\ home[b] = None /\ live' = live \ {b} /\ buf' = [buf EXCEPT ![t] = None]
  BY <1>2 DEF FreeBlock
<1>4. /\ pc'[t] = "idle"
      /\ \A u \in Threads \ {t} : pc'[u] = pc[u] /\ buf'[u] = buf[u] /\ pool'[u] = pool[u]
  BY <1>1, <1>3, Labels DEF TypeThreads
<1>5. /\ \A q \in Refs : buffer[q] # b
      /\ \A p \in Pools : b \notin entries[p]
      /\ \A u \in Threads \ {t} : Freeing(u) => buf[u] # b
  <2>1. Freeing(t)
    BY <1>1 DEF Freeing
  <2>2. ASSUME NEW q \in Refs PROVE buffer[q] # b
    BY <1>1, <1>2, <2>1, PoolAssumption DEF InvPlaces, NoUseAfterRelease
  <2>3. QED
    BY <1>1, <1>2, <2>1, <2>2 DEF InvPlaces
<1>6. TypeOK'
  <2>1. /\ buf' \in [Threads -> Blocks \cup {None}]
        /\ pc' \in [Threads -> {"idle", "write", "copy", "replace", "free", "get", "count",
                                "push", "drop", "free pool"}]
    BY <1>1, <1>3 DEF TypeThreads, Goto
  <2>2. TypeBuffers' /\ TypeRefs' /\ TypePools'
    BY <1>1, <1>3 DEF TypeBuffers, TypeRefs, TypePools
  <2>3. QED
    BY <1>1, <2>1, <2>2 DEF TypeOK, TypeThreads
<1>7. InvRefs'
  BY <1>1 DEF IInv, InvRefs, Named
<1>8. InvPlaces'
  <2>1. NoUseAfterRelease'
    BY <1>1, <1>3, <1>4, <1>5 DEF InvPlaces, NoUseAfterRelease, Freeing
  <2>2. NoBlockLeaks'
    <3>1. ASSUME NEW d \in live, d # b
          PROVE  \/ \E q \in Refs : buffer'[q] = d
                 \/ \E p \in pools' : d \in entries'[p]
                 \/ \E u \in Threads : pc'[u] \in {"free", "push"} /\ buf'[u] = d
      BY <1>1, <1>2, <1>4, <3>1 DEF InvPlaces, NoBlockLeaks, Freeing
    <3>2. QED
      BY <1>3, <3>1 DEF NoBlockLeaks, Freeing
  <2>3. \A p \in Pools : \A d \in entries'[p] : p \in pools' /\ d \in live' /\ home'[d] = p
    BY <1>1, <1>3, <1>5 DEF InvPlaces
  <2>4. \A u \in Threads : pc'[u] \in {"free", "push"} =>
          /\ buf'[u] \in live'
          /\ \A p \in Pools : buf'[u] \notin entries'[p]
          /\ \A w \in Threads \ {u} : pc'[w] \in {"free", "push"} => buf'[w] # buf'[u]
    BY <1>1, <1>3, <1>4, <1>5 DEF InvPlaces, Freeing
  <2>5. QED
    BY <2>1, <2>2, <2>3, <2>4 DEF InvPlaces, Freeing
<1>9. InvLocals'
  <2>1. LocalsOf(t) /\ pool[t] = None
    BY <1>1 DEF IInv, InvLocals, LocalsOf
  <2>2. LocalsOf(t)'
    BY <1>1, <1>4, <2>1 DEF LocalsOf
  <2>3. ASSUME NEW u \in Threads, u # t PROVE LocalsOf(u)'
    <3>1. LocalsOf(u)
      BY DEF IInv, InvLocals
    <3>2. ASSUME pc[u] = "count" PROVE buf[u] \in live'
      <4>1. home[buf[u]] # None /\ buf[u] \in live
        BY <3>1, <3>2 DEF LocalsOf
      <4>2. QED
        BY <1>3, <4>1
    <3>3. QED
      BY <1>1, <1>4, <2>3, <3>2, OtherLocals
  <2>4. QED
    BY <2>2, <2>3 DEF InvLocals
<1>10. InvMutex'
  BY <1>1, <1>4, MutexFrame DEF IInv
<1>11. InvPools'
  <2>1. pool'[t] # None => pool'[t] \in pools'
    BY <1>1 DEF IInv, InvPools
  <2>2. \A d \in live' : home'[d] # None => home'[d] \in pools'
    BY <1>1, <1>3 DEF IInv, InvPools
  <2>3. QED
    BY <1>1, <1>4, <2>1, <2>2, PoolsFrame DEF IInv
<1>12. InvFreePool'
  BY <1>1, <1>4, FreePoolFrame DEF IInv
<1>13. InvPoolCount'
  <2>1. ASSUME NEW p \in pools
        PROVE  Out(p)' = Out(p) /\ Dropping(p)' = Dropping(p) /\ Client(p)' = Client(p)
    <3>1. p # None
      BY CountOfPool
    <3>2. Out(p)' = Out(p)
      BY <1>1, <1>3, <1>4, <3>1 DEF Out
    <3>3. Dropping(p)' = Dropping(p)
      BY <1>1, <1>4 DEF Dropping
    <3>4. Client(p)' = Client(p)
      BY <1>1 DEF Client
    <3>5. QED
      BY <3>2, <3>3, <3>4
  <2>2. QED
    BY <1>1, <2>1 DEF IInv, InvPoolCount
<1>14. QED
  BY <1>6, <1>7, <1>8, <1>9, <1>10, <1>11, <1>12, <1>13 DEF IInv

\* Taking the mutex of the client's pool, and leaving a get that failed.
LEMMA GetLocksStep ==
  ASSUME IInv, NEW t \in Threads, Get(t) \/ GetFails(t)
  PROVE  IInv'
<1>1. /\ TypeOK /\ TypeBuffers /\ TypeRefs /\ TypePools /\ TypeThreads
      /\ pc[t] \in {"idle", "get"}
      /\ UNCHANGED <<live, home, flags, refcount, buffer, holder, pools, pool_refcount, entries,
                     ppool, pbuf, newbuf>>
  BY DEF IInv, TypeOK, Get, GetFails, buffers, refs
<1>2. \A u \in Threads : pc[u] \in {"get", "push"} => pool[u] \in Pools
  BY PoolOf
<1>3. /\ pc'[t] \in {"idle", "get"}
      /\ \A u \in Threads \ {t} : pc'[u] = pc[u] /\ buf'[u] = buf[u] /\ pool'[u] = pool[u]
  BY <1>1, Labels DEF Get, GetFails, TypeThreads
<1>4. /\ pc'[t] = "get" => pool'[t] = ppool /\ ppool \in pools /\ pool'[t] # None
      /\ pc'[t] = "idle" => pool'[t] = None
      /\ pc' \in [Threads -> {"idle", "write", "copy", "replace", "free", "get", "count",
                              "push", "drop", "free pool"}]
      /\ buf' \in [Threads -> Blocks \cup {None}]
      /\ pool' \in [Threads -> Pools \cup {None}]
      /\ mutex' \in [Pools -> Threads \cup {None}]
      /\ InvMutex'
  <2>1. CASE Get(t)
    <3>1. PICK d \in entries[ppool] \cup {None} : buf' = [buf EXCEPT ![t] = d]
      BY <2>1 DEF Get
    <3>2. /\ ppool \in Pools /\ ppool # None /\ ppool \in pools /\ entries[ppool] \subseteq Blocks
          /\ mutex[ppool] = None /\ pc[t] = "idle"
          /\ Goto(t, "get") /\ mutex' = [mutex EXCEPT ![ppool] = t]
          /\ pool' = [pool EXCEPT ![t] = ppool]
      BY <1>1, <2>1 DEF Get, Unlocked, TypePools, IInv, InvPools
    <3>3. pc'[t] = "get" /\ pool'[t] = ppool /\ buf'[t] = d
      BY <1>1, <3>1, <3>2 DEF TypeThreads, Goto
    <3>4. /\ pc' \in [Threads -> {"idle", "write", "copy", "replace", "free", "get", "count",
                                  "push", "drop", "free pool"}]
          /\ buf' \in [Threads -> Blocks \cup {None}]
          /\ pool' \in [Threads -> Pools \cup {None}]
      BY <1>1, <3>1, <3>2 DEF TypeThreads, Goto
    <3>5. mutex' \in [Pools -> Threads \cup {None}]
      BY <1>1, <3>2 DEF TypePools
    <3>6. InvMutex /\ pc[t] \notin {"get", "push"} /\ pc'[t] \in {"get", "push"}
          /\ (pc'[t] = "get" => buf'[t] \in entries[ppool] \cup {None}) /\ entries' = entries
      BY <1>1, <3>1, <3>2, <3>3 DEF IInv
    <3>7. InvMutex'
      BY <1>1, <1>2, <1>3, <3>2, <3>3, <3>6, MutexTaken
    <3>8. QED
      BY <3>2, <3>3, <3>4, <3>5, <3>7
  <2>2. CASE GetFails(t)
    <3>1. /\ pc[t] = "get" /\ Goto(t, "idle") /\ mutex' = [mutex EXCEPT ![pool[t]] = None]
          /\ pool' = [pool EXCEPT ![t] = None] /\ buf' = [buf EXCEPT ![t] = None]
      BY <2>2 DEF GetFails
    <3>2. pc'[t] = "idle" /\ pool'[t] = None
      BY <1>1, <3>1 DEF TypeThreads, Goto
    <3>3. /\ pc' \in [Threads -> {"idle", "write", "copy", "replace", "free", "get", "count",
                                  "push", "drop", "free pool"}]
          /\ buf' \in [Threads -> Blocks \cup {None}]
          /\ pool' \in [Threads -> Pools \cup {None}]
      BY <1>1, <3>1 DEF TypeThreads, Goto
    <3>4. mutex' \in [Pools -> Threads \cup {None}]
      BY <1>1, <3>1 DEF TypePools
    <3>5. InvMutex /\ pc[t] \in {"get", "push"} /\ pc'[t] \notin {"get", "push"}
          /\ \A p \in Pools \ {pool[t]} : entries'[p] = entries[p]
      BY <1>1, <3>1, <3>2 DEF IInv
    <3>6. InvMutex'
      BY <1>1, <1>2, <1>3, <3>1, <3>5, MutexReleased
    <3>7. QED
      BY <3>2, <3>3, <3>4, <3>6
  <2>3. QED
    BY <2>1, <2>2
<1>5. TypeOK'
  <2>1. TypeBuffers' /\ TypeRefs'
    BY <1>1 DEF TypeBuffers, TypeRefs
  <2>2. TypePools' /\ TypeThreads'
    BY <1>1, <1>4 DEF TypePools, TypeThreads
  <2>3. QED
    BY <2>1, <2>2 DEF TypeOK
<1>6. InvRefs'
  BY <1>1 DEF IInv, InvRefs, Named
<1>7. InvPlaces'
  BY <1>1, <1>3, PlacesFrame DEF IInv
<1>8. InvLocals'
  <2>1. LocalsOf(t)'
    BY <1>3, <1>4 DEF LocalsOf
  <2>2. ASSUME NEW u \in Threads, u # t PROVE LocalsOf(u)'
    <3>1. pc[u] = "count" => buf[u] \in live'
      BY <1>1 DEF IInv, InvLocals, LocalsOf
    <3>2. QED
      BY <1>1, <1>3, <2>2, <3>1, OtherLocals
  <2>3. QED
    BY <2>1, <2>2 DEF InvLocals
<1>9. InvPools'
  <2>1. pool'[t] # None => pool'[t] \in pools'
    BY <1>1, <1>3, <1>4
  <2>2. \A d \in live' : home'[d] # None => home'[d] \in pools'
    BY <1>1 DEF IInv, InvPools
  <2>3. pc'[t] \in {"get", "count"} => pool'[t] = ppool
    BY <1>3, <1>4
  <2>4. QED
    BY <1>1, <1>3, <2>1, <2>2, <2>3, PoolsFrame DEF IInv
<1>10. InvFreePool'
  BY <1>1, <1>3, FreePoolFrame DEF IInv
<1>11. InvPoolCount'
  BY <1>1, <1>3, PoolCountFrame DEF IInv
<1>12. QED
  BY <1>4, <1>5, <1>6, <1>7, <1>8, <1>9, <1>10, <1>11 DEF IInv

\* pool_release_buffer() takes the mutex of the pool of the block.
LEMMA ReleaseBufferStep ==
  ASSUME IInv, NEW t \in Threads, ReleaseBuffer(t)
  PROVE  IInv'
<1>1. /\ TypeOK /\ TypeBuffers /\ TypeRefs /\ TypePools /\ TypeThreads /\ InvPlaces
      /\ pc[t] = "free" /\ Goto(t, "push")
      /\ UNCHANGED <<live, home, flags, refcount, buffer, holder, pools, pool_refcount, entries,
                     ppool, pbuf, newbuf, buf>>
  BY DEF IInv, TypeOK, ReleaseBuffer, buffers, refs
<1>2. buf[t] \in live
  BY <1>1 DEF InvPlaces, Freeing
<1>3. PICK p \in pools :
        /\ p \in Pools /\ p # None /\ home[buf[t]] = p /\ mutex[p] = None
        /\ mutex' = [mutex EXCEPT ![p] = t] /\ pool' = [pool EXCEPT ![t] = p]
  BY <1>1, <1>2 DEF ReleaseBuffer, Unlocked, IInv, InvPools, TypePools
<1>4. /\ pc'[t] = "push" /\ pool'[t] = p
      /\ \A u \in Threads \ {t} : pc'[u] = pc[u] /\ buf'[u] = buf[u] /\ pool'[u] = pool[u]
  BY <1>1, <1>3, Labels DEF TypeThreads
<1>5. TypeOK'
  <2>1. /\ pc' \in [Threads -> {"idle", "write", "copy", "replace", "free", "get", "count",
                                "push", "drop", "free pool"}]
        /\ pool' \in [Threads -> Pools \cup {None}]
    BY <1>1, <1>3 DEF TypeThreads, Goto
  <2>2. mutex' \in [Pools -> Threads \cup {None}]
    BY <1>1, <1>3 DEF TypePools
  <2>3. TypeBuffers' /\ TypeRefs'
    BY <1>1 DEF TypeBuffers, TypeRefs
  <2>4. TypePools' /\ TypeThreads'
    BY <1>1, <2>1, <2>2 DEF TypePools, TypeThreads
  <2>5. QED
    BY <2>3, <2>4 DEF TypeOK
<1>6. InvRefs'
  BY <1>1 DEF IInv, InvRefs, Named
<1>7. InvPlaces'
  <2>1. \A u \in Threads : pc'[u] \in {"free", "push"} <=> pc[u] \in {"free", "push"}
    BY <1>1, <1>4
  <2>2. NoUseAfterRelease'
    BY <1>1, <2>1 DEF InvPlaces, NoUseAfterRelease, Freeing
  <2>3. NoBlockLeaks'
    BY <1>1, <2>1 DEF InvPlaces, NoBlockLeaks, Freeing
  <2>4. QED
    BY <1>1, <2>1, <2>2, <2>3 DEF InvPlaces, Freeing
<1>8. InvLocals'
  <2>1. LocalsOf(t)'
    BY <1>1, <1>3, <1>4 DEF LocalsOf
  <2>2. ASSUME NEW u \in Threads, u # t PROVE LocalsOf(u)'
    <3>1. pc[u] = "count" => buf[u] \in live'
      BY <1>1 DEF IInv, InvLocals, LocalsOf
    <3>2. QED
      BY <1>1, <1>4, <2>2, <3>1, OtherLocals
  <2>3. QED
    BY <2>1, <2>2 DEF InvLocals
<1>9. InvMutex'
  <2>1. \A u \in Threads : pc[u] \in {"get", "push"} => pool[u] \in Pools
    BY PoolOf
  <2>2. InvMutex /\ pc[t] \notin {"get", "push"} /\ pc'[t] \in {"get", "push"}
        /\ (pc'[t] = "get" => buf'[t] \in entries[p] \cup {None}) /\ entries' = entries
    BY <1>1, <1>4 DEF IInv
  <2>3. QED
    BY <1>1, <1>3, <1>4, <2>1, <2>2, MutexTaken
<1>10. InvPools'
  <2>1. \A d \in live' : home'[d] # None => home'[d] \in pools'
    BY <1>1 DEF IInv, InvPools
  <2>2. pool'[t] # None => pool'[t] \in pools'
    BY <1>1, <1>4
  <2>3. QED
    BY <1>1, <1>4, <2>1, <2>2, PoolsFrame DEF IInv
<1>11. InvFreePool'
  BY <1>1, <1>4, FreePoolFrame DEF IInv
<1>12. InvPoolCount'
  BY <1>1, <1>4, PoolCountFrame DEF IInv
<1>13. QED
  BY <1>5, <1>6, <1>7, <1>8, <1>9, <1>10, <1>11, <1>12 DEF IInv

-------------------------------------------------------------------------------
(***************************************************************************)
(* Steps that change what a pool's counter counts                          *)
(***************************************************************************)

\* pool_release_buffer() returns the block: it is out no more, the release goes on.
LEMMA PushStep ==
  ASSUME IInv, NEW t \in Threads, Push(t)
  PROVE  IInv'
<1>1. /\ TypeOK /\ TypeBuffers /\ TypeRefs /\ TypePools /\ TypeThreads /\ InvPlaces
      /\ pc[t] = "push" /\ Goto(t, "drop")
      /\ UNCHANGED <<live, home, flags, refcount, buffer, holder, pools, pool_refcount,
                     ppool, pbuf, newbuf, pool>>
  BY DEF IInv, TypeOK, Push, buffers, refs
<1>2. PICK b \in live : b \in Blocks /\ b = buf[t]
  BY <1>1 DEF InvPlaces, Freeing, TypeBuffers
<1>3. PICK p \in pools : p \in Pools /\ p # None /\ p = pool[t]
  BY <1>1, PoolOf
<1>4. /\ home[b] = p /\ entries' = [entries EXCEPT ![p] = entries[p] \cup {b}]
      /\ mutex' = [mutex EXCEPT ![p] = None] /\ buf' = [buf EXCEPT ![t] = None]
  BY <1>1, <1>2, <1>3 DEF Push, IInv, InvLocals, LocalsOf
<1>5. /\ pc'[t] = "drop"
      /\ \A u \in Threads \ {t} : pc'[u] = pc[u] /\ buf'[u] = buf[u] /\ pool'[u] = pool[u]
  BY <1>1, <1>4, Labels DEF TypeThreads
<1>6. /\ entries'[p] = entries[p] \cup {b}
      /\ \A o \in Pools \ {p} : entries'[o] = entries[o]
  BY <1>1, <1>4 DEF TypePools
<1>7. /\ \A q \in Refs : buffer[q] # b
      /\ \A o \in Pools : b \notin entries[o]
      /\ \A u \in Threads \ {t} : Freeing(u) => buf[u] # b
  <2>1. Freeing(t)
    BY <1>1 DEF Freeing
  <2>2. ASSUME NEW q \in Refs PROVE buffer[q] # b
    BY <1>1, <1>2, <2>1, PoolAssumption DEF InvPlaces, NoUseAfterRelease
  <2>3. QED
    BY <1>1, <1>2, <2>1, <2>2 DEF InvPlaces
<1>8. TypeOK'
  <2>1. /\ buf' \in [Threads -> Blocks \cup {None}]
        /\ pc' \in [Threads -> {"idle", "write", "copy", "replace", "free", "get", "count",
                                "push", "drop", "free pool"}]
    BY <1>1, <1>4 DEF TypeThreads, Goto
  <2>2. /\ entries' \in [Pools -> SUBSET Blocks] /\ mutex' \in [Pools -> Threads \cup {None}]
    BY <1>1, <1>2, <1>3, <1>4 DEF TypePools
  <2>3. TypeBuffers' /\ TypeRefs'
    BY <1>1 DEF TypeBuffers, TypeRefs
  <2>4. TypePools' /\ TypeThreads'
    BY <1>1, <2>1, <2>2 DEF TypePools, TypeThreads
  <2>5. QED
    BY <2>3, <2>4 DEF TypeOK
<1>9. InvRefs'
  BY <1>1 DEF IInv, InvRefs, Named
<1>10. InvPlaces'
  <2>1. \A o \in Pools, d \in Blocks : d # b => (d \in entries'[o] <=> d \in entries[o])
    BY <1>6
  <2>2. NoUseAfterRelease'
    <3>1. ASSUME NEW q \in Refs, buffer'[q] # None
          PROVE  /\ buffer'[q] \in live' /\ \A o \in Pools : buffer'[q] \notin entries'[o]
                 /\ \A u \in Threads : pc'[u] \in {"free", "push"} => buf'[u] # buffer'[q]
      <4>1. buffer[q] \in live /\ buffer[q] \in Blocks /\ buffer[q] # b
        BY <1>1, <1>7, <3>1 DEF InvPlaces, NoUseAfterRelease, TypeBuffers
      <4>2. \A o \in Pools : buffer[q] \notin entries[o]
        BY <1>1, <3>1 DEF InvPlaces, NoUseAfterRelease
      <4>3. \A u \in Threads : pc'[u] \in {"free", "push"} => buf'[u] # buffer[q]
        BY <1>1, <1>5, <3>1 DEF InvPlaces, NoUseAfterRelease, Freeing
      <4>4. QED
        BY <1>1, <2>1, <4>1, <4>2, <4>3
    <3>2. QED
      BY <3>1 DEF NoUseAfterRelease, Freeing
  <2>3. NoBlockLeaks'
    <3>1. ASSUME NEW d \in live, d # b
          PROVE  \/ \E q \in Refs : buffer'[q] = d
                 \/ \E o \in pools' : d \in entries'[o]
                 \/ \E u \in Threads : pc'[u] \in {"free", "push"} /\ buf'[u] = d
      <4>1. CASE \E o \in pools : d \in entries[o]
        BY <1>1, <1>6, <4>1 DEF TypePools
      <4>2. CASE \E u \in Threads : Freeing(u) /\ buf[u] = d
        BY <1>2, <1>5, <3>1, <4>2 DEF Freeing
      <4>3. CASE \E q \in Refs : buffer[q] = d
        BY <1>1, <4>3
      <4>4. QED
        BY <1>1, <4>1, <4>2, <4>3 DEF InvPlaces, NoBlockLeaks
    <3>2. QED
      BY <1>1, <1>3, <1>6, <3>1 DEF NoBlockLeaks, Freeing
  <2>4. ASSUME NEW o \in Pools, NEW d \in entries'[o]
        PROVE  o \in pools' /\ d \in live' /\ home'[d] = o
    <3>1. CASE d = b
      BY <1>1, <1>3, <1>4, <1>6, <1>7, <2>4, <3>1
    <3>2. CASE d # b
      BY <1>1, <1>6, <2>4, <3>2 DEF InvPlaces
    <3>3. QED
      BY <3>1, <3>2
  <2>5. ASSUME NEW u \in Threads, pc'[u] \in {"free", "push"}
        PROVE  /\ buf'[u] \in live'
               /\ \A o \in Pools : buf'[u] \notin entries'[o]
               /\ \A w \in Threads \ {u} : pc'[w] \in {"free", "push"} => buf'[w] # buf'[u]
    <3>1. u # t /\ Freeing(u) /\ buf'[u] = buf[u] /\ buf[u] # b
      BY <1>5, <1>7, <2>5 DEF Freeing
    <3>2. buf[u] \in live /\ buf[u] \in Blocks /\ \A o \in Pools : buf[u] \notin entries[o]
      BY <1>1, <3>1 DEF InvPlaces, TypeBuffers
    <3>3. \A w \in Threads \ {u} : pc'[w] \in {"free", "push"} => buf'[w] # buf'[u]
      BY <1>1, <1>5, <3>1 DEF InvPlaces, Freeing
    <3>4. QED
      BY <1>1, <2>1, <3>1, <3>2, <3>3
  <2>6. QED
    BY <2>2, <2>3, <2>4, <2>5 DEF InvPlaces, Freeing
<1>11. InvLocals'
  <2>1. LocalsOf(t)'
    BY <1>1, <1>3, <1>5 DEF LocalsOf
  <2>2. ASSUME NEW u \in Threads, u # t PROVE LocalsOf(u)'
    <3>1. pc[u] = "count" => buf[u] \in live'
      BY <1>1 DEF IInv, InvLocals, LocalsOf
    <3>2. QED
      BY <1>1, <1>5, <2>2, <3>1, OtherLocals
  <2>3. QED
    BY <2>1, <2>2 DEF InvLocals
<1>12. InvMutex'
  <2>1. \A u \in Threads : pc[u] = "get" => pool[u] \in Pools
    BY PoolOf
  <2>2. \A u \in Threads : pc[u] = "push" => pool[u] \in Pools
    BY PoolOf
  <2>3. InvMutex /\ pc[t] \in {"get", "push"} /\ pc'[t] \notin {"get", "push"}
        /\ mutex' = [mutex EXCEPT ![pool[t]] = None]
        /\ \A o \in Pools \ {pool[t]} : entries'[o] = entries[o]
    BY <1>1, <1>3, <1>4, <1>5, <1>6 DEF IInv
  <2>4. QED
    BY <1>1, <1>5, <2>1, <2>2, <2>3, MutexReleased
<1>13. InvPools'
  <2>1. \A d \in live' : home'[d] # None => home'[d] \in pools'
    BY <1>1 DEF IInv, InvPools
  <2>2. pool'[t] # None => pool'[t] \in pools'
    BY <1>1, <1>3
  <2>3. QED
    BY <1>1, <1>5, <2>1, <2>2, PoolsFrame DEF IInv
<1>14. InvFreePool'
  BY <1>1, <1>5, FreePoolFrame DEF IInv
<1>15. InvPoolCount'
  <2>1. Out(p)' = Out(p) \ {b} /\ b \in Out(p)
    <3>1. ASSUME NEW u \in Threads, pc[u] = "count" PROVE buf[u] # b
      <4>1. \E q \in Refs : buffer[q] = buf[u]
        BY <3>1 DEF IInv, InvLocals, LocalsOf
      <4>2. QED
        BY <1>7, <4>1
    <3>2. b \in Out(p)
      BY <1>3, <1>4, <1>7, <3>1 DEF Out
    <3>3. \A u \in Threads : pc'[u] = "count" <=> pc[u] = "count"
      BY <1>1, <1>5
    <3>4. \A u \in Threads : pc[u] = "count" => buf'[u] = buf[u]
      BY <1>1, <1>5
    <3>5. QED
      BY <1>1, <1>6, <3>2, <3>3, <3>4 DEF Out
  <2>2. Dropping(p)' = Dropping(p) \cup {t} /\ t \notin Dropping(p)
    BY <1>1, <1>3, <1>5 DEF Dropping
  <2>3. /\ Cardinality(Out(p)') = Cardinality(Out(p)) - 1
        /\ Cardinality(Dropping(p)') = Cardinality(Dropping(p)) + 1
    <3>1. IsFiniteSet(Out(p)) /\ IsFiniteSet(Dropping(p))
      BY CountOfPool
    <3>2. Cardinality(Out(p)') = Cardinality(Out(p)) - 1
      BY <2>1, <3>1, FS_RemoveElement
    <3>3. Cardinality(Dropping(p)') = Cardinality(Dropping(p)) + 1
      BY <2>2, <3>1, FS_AddElement
    <3>4. QED
      BY <3>2, <3>3
  <2>4. \A o \in pools : Client(o)' = Client(o)
    BY <1>1 DEF Client
  <2>5. ASSUME NEW o \in pools, o # p
        PROVE  Out(o)' = Out(o) /\ Dropping(o)' = Dropping(o)
    <3>1. o \in Pools
      BY CountOfPool
    <3>2. Out(o)' = Out(o)
      BY <1>1, <1>5, <1>6, <2>5, <3>1 DEF Out
    <3>3. Dropping(o)' = Dropping(o)
      BY <1>1, <1>3, <1>5, <2>5 DEF Dropping
    <3>4. QED
      BY <3>2, <3>3
  <2>6. ASSUME NEW o \in pools
        PROVE  pool_refcount'[o] = Client(o)' + Cardinality(Out(o)') + Cardinality(Dropping(o)')
    <3>1. CASE o = p
      <4>1. Client(o) \in Nat
        BY DEF Client
      <4>2. QED
        BY <1>1, <2>3, <2>4, <3>1, <4>1, CountOfPool
    <3>2. CASE o # p
      BY <1>1, <2>4, <2>5, <3>2, CountOfPool
    <3>3. QED
      BY <3>1, <3>2
  <2>7. QED
    BY <1>1, <2>6 DEF InvPoolCount
<1>16. QED
  BY <1>8, <1>9, <1>10, <1>11, <1>12, <1>13, <1>14, <1>15 DEF IInv

\* av_buffer_pool_get() counts the block that it returns after the mutex is free.
LEMMA CountGetStep ==
  ASSUME IInv, NEW t \in Threads, CountGet(t)
  PROVE  IInv'
<1>1. /\ TypeOK /\ TypeBuffers /\ TypeRefs /\ TypePools /\ TypeThreads /\ InvPlaces
      /\ pc[t] = "count" /\ Goto(t, "idle")
      /\ UNCHANGED <<live, home, flags, refcount, buffer, holder, pools, entries, mutex,
                     ppool, pbuf, newbuf>>
  BY DEF IInv, TypeOK, CountGet, buffers, refs
<1>2. PICK p \in pools : p \in Pools /\ p # None /\ p = pool[t]
  BY <1>1, PoolOf
<1>3. PICK b \in live : b = buf[t] /\ home[b] = p
  BY <1>1, <1>2 DEF IInv, InvLocals, LocalsOf
<1>4. PICK r \in Refs : holder[r] = t /\ buffer[r] = b
  BY <1>1, <1>3 DEF IInv, InvLocals, LocalsOf
<1>5. /\ p = ppool /\ pool_refcount[p] \in Nat /\ pool_refcount[p] >= 1
      /\ pool_refcount' = [pool_refcount EXCEPT ![p] = pool_refcount[p] + 1]
      /\ buf' = [buf EXCEPT ![t] = None] /\ pool' = [pool EXCEPT ![t] = None]
  <2>1. p = ppool
    BY <1>1, <1>2 DEF IInv, InvPools, Getting
  <2>2. QED
    BY <1>2, <2>1, ClientIsCounted DEF CountGet
<1>6. /\ pc'[t] = "idle" /\ pool'[t] = None
      /\ \A u \in Threads \ {t} : pc'[u] = pc[u] /\ buf'[u] = buf[u] /\ pool'[u] = pool[u]
  BY <1>1, <1>5, Labels DEF TypeThreads
<1>7. /\ pool_refcount'[p] = pool_refcount[p] + 1
      /\ \A o \in Pools \ {p} : pool_refcount'[o] = pool_refcount[o]
  BY <1>1, <1>2, <1>5 DEF TypePools
<1>8. TypeOK'
  <2>1. /\ buf' \in [Threads -> Blocks \cup {None}] /\ pool' \in [Threads -> Pools \cup {None}]
        /\ pc' \in [Threads -> {"idle", "write", "copy", "replace", "free", "get", "count",
                                "push", "drop", "free pool"}]
    BY <1>1, <1>5 DEF TypeThreads, Goto
  <2>2. pool_refcount' \in [Pools -> Nat]
    BY <1>1, <1>5 DEF TypePools
  <2>3. TypeBuffers' /\ TypeRefs'
    BY <1>1 DEF TypeBuffers, TypeRefs
  <2>4. TypePools' /\ TypeThreads'
    BY <1>1, <2>1, <2>2 DEF TypePools, TypeThreads
  <2>5. QED
    BY <2>3, <2>4 DEF TypeOK
<1>9. InvRefs'
  BY <1>1 DEF IInv, InvRefs, Named
<1>10. InvPlaces'
  BY <1>1, <1>6, PlacesFrame DEF IInv
<1>11. InvLocals'
  <2>1. LocalsOf(t)'
    BY <1>6 DEF LocalsOf
  <2>2. ASSUME NEW u \in Threads, u # t PROVE LocalsOf(u)'
    <3>1. pc[u] = "count" => buf[u] \in live'
      BY <1>1 DEF IInv, InvLocals, LocalsOf
    <3>2. QED
      BY <1>1, <1>6, <2>2, <3>1, OtherLocals
  <2>3. QED
    BY <2>1, <2>2 DEF InvLocals
<1>12. InvMutex'
  BY <1>1, <1>6, MutexFrame DEF IInv
<1>13. InvPools'
  <2>1. \A d \in live' : home'[d] # None => home'[d] \in pools'
    BY <1>1 DEF IInv, InvPools
  <2>2. QED
    BY <1>1, <1>6, <2>1, PoolsFrame DEF IInv
<1>14. InvFreePool'
  <2>1. ASSUME NEW u \in Threads, pc'[u] = "free pool"
        PROVE  /\ ppool' # pool'[u]
               /\ pool_refcount'[pool'[u]] = 0
               /\ \A w \in Threads \ {u} : pc'[w] = "free pool" => pool'[w] # pool'[u]
    <3>1. u # t /\ pc[u] = "free pool" /\ pool'[u] = pool[u]
      BY <1>6, <2>1
    <3>2. pool[u] \in Pools /\ pool[u] # p /\ pool_refcount[pool[u]] = 0
      BY <1>5, <3>1, PoolOf DEF IInv, InvFreePool
    <3>3. ASSUME NEW w \in Threads \ {u}, pc'[w] = "free pool" PROVE pool'[w] # pool'[u]
      <4>1. pc[w] = "free pool" /\ pool'[w] = pool[w]
        BY <1>6, <3>3
      <4>2. QED
        BY <3>1, <4>1 DEF IInv, InvFreePool
    <3>4. QED
      BY <1>1, <1>5, <1>7, <3>1, <3>2, <3>3
  <2>2. ASSUME NEW o \in pools', pool_refcount'[o] = 0
        PROVE  \E u \in Threads : pc'[u] = "free pool" /\ pool'[u] = o
    <3>1. o \in pools /\ o \in Pools /\ o # p /\ pool_refcount[o] = 0
      BY <1>1, <1>5, <1>7, <2>2 DEF TypePools
    <3>2. PICK u \in Threads : pc[u] = "free pool" /\ pool[u] = o
      BY <3>1 DEF IInv, InvFreePool
    <3>3. QED
      BY <1>1, <1>6, <3>2
  <2>3. QED
    BY <2>1, <2>2 DEF InvFreePool
<1>15. InvPoolCount'
  <2>1. b \notin entries[p]
    BY <1>1, <1>2, <1>3, <1>4, NotNone DEF InvPlaces, NoUseAfterRelease
  <2>2. ASSUME NEW u \in Threads, u # t, pc[u] = "count" PROVE buf[u] # b
    BY <1>4, <2>2, ZenonT(40) DEF IInv, InvLocals, LocalsOf
  <2>3. Out(p)' = Out(p) \cup {b} /\ b \notin Out(p)
    <3>1. b \notin Out(p)
      BY <1>1, <1>3 DEF Out
    <3>2. \A u \in Threads : pc'[u] = "count" <=> u # t /\ pc[u] = "count"
      BY <1>6
    <3>3. QED
      BY <1>1, <1>3, <1>6, <2>1, <2>2, <3>1, <3>2 DEF Out
  <2>4. \A o \in pools : Dropping(o)' = Dropping(o) /\ Client(o)' = Client(o)
    BY <1>1, <1>6 DEF Dropping, Client
  <2>5. Cardinality(Out(p)') = Cardinality(Out(p)) + 1
    BY <2>3, CountOfPool, FS_AddElement
  <2>6. ASSUME NEW o \in pools, o # p PROVE Out(o)' = Out(o)
    BY <1>1, <1>3, <1>6, <2>6 DEF Out
  <2>7. ASSUME NEW o \in pools
        PROVE  pool_refcount'[o] = Client(o)' + Cardinality(Out(o)') + Cardinality(Dropping(o)')
    <3>1. CASE o = p
      <4>1. Client(o) \in Nat
        BY DEF Client
      <4>2. QED
        BY <1>7, <2>4, <2>5, <3>1, <4>1, CountOfPool
    <3>2. CASE o # p
      <4>1. o \in Pools
        BY CountOfPool
      <4>2. QED
        BY <1>7, <2>4, <2>6, <3>2, <4>1, CountOfPool
    <3>3. QED
      BY <3>1, <3>2
  <2>8. QED
    BY <1>1, <2>7 DEF InvPoolCount
<1>16. QED
  BY <1>8, <1>9, <1>10, <1>11, <1>12, <1>13, <1>14, <1>15 DEF IInv

-------------------------------------------------------------------------------
(***************************************************************************)
(* Pools come and go                                                       *)
(***************************************************************************)

\* av_buffer_pool_init(): a new pool has one count, its client's.
LEMMA PoolInitStep ==
  ASSUME IInv, NEW t \in Threads, PoolInit(t)
  PROVE  IInv'
<1>1. /\ TypeOK /\ TypeBuffers /\ TypeRefs /\ TypePools /\ TypeThreads /\ InvPlaces
      /\ pc[t] = "idle" /\ ppool = None
      /\ UNCHANGED <<live, home, flags, refcount, buffer, holder, pc, pbuf, newbuf, buf, pool>>
  BY DEF IInv, TypeOK, PoolInit, buffers, refs, locals
<1>2. PICK p \in Pools \ pools :
        /\ p # None /\ pools' = pools \cup {p} /\ ppool' = p
        /\ pool_refcount' = [pool_refcount EXCEPT ![p] = 1]
        /\ entries' = [entries EXCEPT ![p] = {}] /\ mutex' = [mutex EXCEPT ![p] = None]
  BY PoolAssumption DEF PoolInit, InitialRefcount
<1>3. entries' = entries
  <2>1. entries[p] = {}
    BY <1>1, <1>2 DEF InvPlaces
  <2>2. QED
    BY <1>1, <1>2, <2>1 DEF TypePools
<1>4. /\ pool_refcount'[p] = 1
      /\ \A o \in pools : o # p /\ pool_refcount'[o] = pool_refcount[o] /\ mutex'[o] = mutex[o]
  BY <1>1, <1>2 DEF TypePools
<1>5. TypeOK'
  <2>1. TypeBuffers' /\ TypeRefs' /\ TypeThreads'
    BY <1>1 DEF TypeBuffers, TypeRefs, TypeThreads
  <2>2. pool_refcount' \in [Pools -> Nat] /\ mutex' \in [Pools -> Threads \cup {None}]
    BY <1>1, <1>2 DEF TypePools
  <2>3. TypePools'
    BY <1>1, <1>2, <1>3, <2>2 DEF TypePools
  <2>4. QED
    BY <2>1, <2>3 DEF TypeOK
<1>6. InvRefs'
  BY <1>1 DEF IInv, InvRefs, Named
<1>7. InvPlaces'
  BY <1>1, <1>2, <1>3, PlacesFrame
<1>8. InvLocals'
  <2>1. ASSUME NEW u \in Threads PROVE LocalsOf(u)'
    <3>1. LocalsOf(u)
      BY DEF IInv, InvLocals
    <3>2. QED
      BY <1>1, <3>1 DEF LocalsOf, Named
  <2>2. QED
    BY <2>1 DEF InvLocals
<1>9. InvMutex'
  <2>1. ASSUME NEW u \in Threads, pc'[u] \in {"get", "push"} PROVE mutex'[pool'[u]] = u
    BY <1>1, <1>4, <2>1, PoolOf DEF IInv, InvMutex
  <2>2. ASSUME NEW u \in Threads, pc'[u] = "get" PROVE buf'[u] \in entries'[pool'[u]] \cup {None}
    BY <1>1, <1>3, <2>2 DEF IInv, InvMutex
  <2>3. QED
    BY <2>1, <2>2 DEF InvMutex
<1>10. InvPools'
  <2>1. ASSUME NEW u \in Threads PROVE ~Getting(u)
    BY <1>1, PoolOf DEF IInv, InvPools, Getting
  <2>2. QED
    BY <1>1, <1>2, <2>1 DEF IInv, InvPools, Getting
<1>11. InvFreePool'
  <2>1. ASSUME NEW u \in Threads, pc'[u] = "free pool"
        PROVE  /\ ppool' # pool'[u]
               /\ pool_refcount'[pool'[u]] = 0
               /\ \A w \in Threads \ {u} : pc'[w] = "free pool" => pool'[w] # pool'[u]
    BY <1>1, <1>2, <1>4, <2>1, PoolOf DEF IInv, InvFreePool
  <2>2. ASSUME NEW o \in pools', pool_refcount'[o] = 0
        PROVE  \E u \in Threads : pc'[u] = "free pool" /\ pool'[u] = o
    <3>1. o \in pools /\ pool_refcount[o] = 0
      BY <1>2, <1>4, <2>2
    <3>2. QED
      BY <1>1, <3>1 DEF IInv, InvFreePool
  <2>3. QED
    BY <2>1, <2>2 DEF InvFreePool
<1>12. InvPoolCount'
  <2>1. \A o \in Pools : Out(o)' = Out(o) /\ Dropping(o)' = Dropping(o)
    BY <1>1, <1>3 DEF Out, Dropping
  <2>2. Out(p) = {}
    BY <1>2 DEF Out, IInv, InvPools
  <2>3. Dropping(p) = {}
    BY <1>2, PoolOf DEF Dropping
  <2>4. ASSUME NEW o \in pools'
        PROVE  pool_refcount'[o] = Client(o)' + Cardinality(Out(o)') + Cardinality(Dropping(o)')
    <3>1. CASE o = p
      BY <1>2, <1>4, <2>1, <2>2, <2>3, <3>1, FS_EmptySet DEF Client
    <3>2. CASE o # p
      <4>1. o \in pools /\ o \in Pools /\ o # None
        BY <1>2, <2>4, <3>2, CountOfPool
      <4>2. Client(o) = 0 /\ Client(o)' = 0
        BY <1>1, <1>2, <3>2, <4>1 DEF Client
      <4>3. QED
        BY <1>4, <2>1, <4>1, <4>2, CountOfPool
    <3>3. QED
      BY <3>1, <3>2
  <2>5. QED
    BY <2>4 DEF InvPoolCount
<1>13. QED
  BY <1>5, <1>6, <1>7, <1>8, <1>9, <1>10, <1>11, <1>12 DEF IInv

\* The common part of PoolUninit and Drop: the client, or a release that is done,
\* gives up its count, and frees the pool exactly when it was the last one.
LEMMA DropPoolStep ==
  ASSUME IInv, NEW t \in Threads, NEW p, DropPool(t, p),
         \/ /\ pc[t] = "drop" /\ p = pool[t] /\ ppool' = ppool
         \/ /\ pc[t] = "idle" /\ p = ppool /\ ppool # None /\ ppool' = None
            /\ \A u \in Threads : ~Getting(u),
         UNCHANGED <<buffers, refs, pools, entries, mutex, pbuf, newbuf, buf>>
  PROVE  IInv'
<1>1. /\ TypeOK /\ TypeBuffers /\ TypeRefs /\ TypePools /\ TypeThreads /\ InvPlaces
      /\ UNCHANGED <<live, home, flags, refcount, buffer, holder, pools, entries, mutex, pbuf,
                     newbuf, buf>>
  BY DEF IInv, TypeOK, buffers, refs
<1>2. p \in pools /\ p \in Pools /\ p # None /\ pool_refcount[p] \in Nat /\ pool_refcount[p] >= 1
  BY DropIsCounted, ClientIsCounted, CountOfPool
<1>3. /\ pool_refcount' = [pool_refcount EXCEPT ![p] = pool_refcount[p] - 1]
      /\ pool_refcount'[p] = pool_refcount[p] - 1
      /\ \A o \in Pools \ {p} : pool_refcount'[o] = pool_refcount[o]
  BY <1>1, <1>2 DEF DropPool, TypePools
<1>4. /\ \/ pool_refcount[p] = 1 /\ pc'[t] = "free pool" /\ pool'[t] = p
         \/ pool_refcount[p] # 1 /\ pc'[t] = "idle" /\ pool'[t] = None
      /\ \A u \in Threads \ {t} : pc'[u] = pc[u] /\ buf'[u] = buf[u] /\ pool'[u] = pool[u]
      /\ pc' \in [Threads -> {"idle", "write", "copy", "replace", "free", "get", "count",
                              "push", "drop", "free pool"}]
      /\ pool' \in [Threads -> Pools \cup {None}]
  BY <1>1, <1>2 DEF DropPool, LastUse, TypeThreads, Goto
<1>5. pc[t] \in {"idle", "drop"} /\ pc'[t] \in {"idle", "free pool"}
  BY <1>4
<1>6. ppool' \in {ppool, None} /\ (pool_refcount[p] = 1 => ppool' # p)
  <2>1. CASE pc[t] = "drop" /\ p = pool[t] /\ ppool' = ppool
    <3>1. t \in Dropping(p)
      BY <2>1 DEF Dropping
    <3>2. pool_refcount[p] = 1 => Client(p) # 1
      BY <1>2, <3>1, CountOfPool
    <3>3. QED
      BY <2>1, <3>2 DEF Client
  <2>2. CASE ppool' = None
    BY <1>2, <2>2
  <2>3. QED
    BY <2>1, <2>2
<1>7. TypeOK'
  <2>1. TypeBuffers' /\ TypeRefs' /\ TypeThreads'
    BY <1>1, <1>4 DEF TypeBuffers, TypeRefs, TypeThreads
  <2>2. pool_refcount' \in [Pools -> Nat]
    BY <1>1, <1>2, <1>3 DEF TypePools
  <2>3. ppool' \in Pools \cup {None}
    BY <1>1 DEF TypePools
  <2>4. TypePools'
    BY <1>1, <2>2, <2>3 DEF TypePools
  <2>5. QED
    BY <2>1, <2>4 DEF TypeOK
<1>8. InvRefs'
  BY <1>1 DEF IInv, InvRefs, Named
<1>9. InvPlaces'
  BY <1>1, <1>4, <1>5, PlacesFrame DEF IInv
<1>10. InvLocals'
  <2>1. LocalsOf(t)'
    BY <1>2, <1>4 DEF LocalsOf
  <2>2. ASSUME NEW u \in Threads, u # t PROVE LocalsOf(u)'
    <3>1. pc[u] = "count" => buf[u] \in live'
      BY <1>1 DEF IInv, InvLocals, LocalsOf
    <3>2. QED
      BY <1>1, <1>4, <2>2, <3>1, OtherLocals
  <2>3. QED
    BY <2>1, <2>2 DEF InvLocals
<1>11. InvMutex'
  BY <1>1, <1>4, <1>5, MutexFrame DEF IInv
<1>12. InvPools'
  <2>1. ppool' \in pools' \cup {None}
    BY <1>1 DEF IInv, InvPools
  <2>2. ASSUME NEW u \in Threads, pool'[u] # None PROVE pool'[u] \in pools'
    BY <1>1, <1>2, <1>4, <2>2 DEF IInv, InvPools
  <2>3. ASSUME NEW u \in Threads, pc'[u] \in {"get", "count"} PROVE pool'[u] = ppool'
    BY <1>4, <1>5, <2>3 DEF IInv, InvPools, Getting
  <2>4. QED
    BY <1>1, <2>1, <2>2, <2>3 DEF IInv, InvPools, Getting
<1>13. InvFreePool'
  <2>1. ASSUME NEW u \in Threads \ {t}, pc'[u] = "free pool"
        PROVE  /\ pc[u] = "free pool" /\ pool'[u] = pool[u] /\ pool[u] \in Pools /\ pool[u] # p
               /\ pool_refcount'[pool[u]] = 0 /\ ppool' # pool[u]
    <3>1. pc[u] = "free pool" /\ pool'[u] = pool[u]
      BY <1>4, <2>1
    <3>2. pool[u] \in Pools /\ pool[u] # None /\ pool_refcount[pool[u]] = 0 /\ ppool # pool[u]
      BY <3>1, PoolOf DEF IInv, InvFreePool
    <3>3. pool[u] # p
      BY <1>2, <3>2
    <3>4. QED
      BY <1>3, <1>6, <3>1, <3>2, <3>3
  <2>2. ASSUME NEW u \in Threads, pc'[u] = "free pool"
        PROVE  /\ ppool' # pool'[u]
               /\ pool_refcount'[pool'[u]] = 0
               /\ \A w \in Threads \ {u} : pc'[w] = "free pool" => pool'[w] # pool'[u]
    <3>1. CASE u = t
      <4>1. pool'[u] = p /\ pool_refcount[p] = 1
        BY <1>4, <2>2, <3>1
      <4>2. \A w \in Threads \ {u} : pc'[w] = "free pool" => pool'[w] # pool'[u]
        BY <2>1, <3>1, <4>1
      <4>3. ppool' # p /\ pool_refcount'[p] = 0
        BY <1>3, <1>6, <4>1
      <4>4. QED
        BY <4>1, <4>2, <4>3
    <3>2. CASE u # t
      <4>1. ASSUME NEW w \in Threads \ {u}, pc'[w] = "free pool" PROVE pool'[w] # pool'[u]
        <5>1. CASE w = t
          BY <1>4, <2>1, <2>2, <3>2, <4>1, <5>1
        <5>2. CASE w # t
          <6>1. pc[w] = "free pool" /\ pool'[w] = pool[w]
            BY <2>1, <4>1, <5>2
          <6>2. pc[u] = "free pool" /\ pool'[u] = pool[u]
            BY <2>1, <2>2, <3>2
          <6>3. QED
            BY <6>1, <6>2, ZenonT(40) DEF IInv, InvFreePool
        <5>3. QED
          BY <5>1, <5>2
      <4>2. QED
        BY <2>1, <2>2, <3>2, <4>1
    <3>3. QED
      BY <3>1, <3>2
  <2>3. ASSUME NEW o \in pools', pool_refcount'[o] = 0
        PROVE  \E u \in Threads : pc'[u] = "free pool" /\ pool'[u] = o
    <3>1. CASE o = p
      <4>1. pool_refcount[p] = 1
        BY <1>2, <1>3, <2>3, <3>1
      <4>2. QED
        BY <1>4, <3>1, <4>1
    <3>2. CASE o # p
      <4>1. o \in pools /\ o \in Pools /\ pool_refcount[o] = 0
        BY <1>1, <1>3, <2>3, <3>2 DEF TypePools
      <4>2. PICK u \in Threads : pc[u] = "free pool" /\ pool[u] = o
        BY <4>1 DEF IInv, InvFreePool
      <4>3. QED
        BY <1>4, <1>5, <4>2
    <3>3. QED
      BY <3>1, <3>2
  <2>4. QED
    BY <2>2, <2>3 DEF InvFreePool
<1>14. InvPoolCount'
  <2>1. \A o \in pools : Out(o)' = Out(o)
    <3>1. \A u \in Threads : pc'[u] = "count" <=> pc[u] = "count"
      BY <1>4, <1>5
    <3>2. QED
      BY <1>1, <3>1 DEF Out
  <2>2. ASSUME NEW o \in pools, o # p
        PROVE  Client(o)' = Client(o) /\ Dropping(o)' = Dropping(o)
    <3>1. Dropping(o)' = Dropping(o)
      BY <1>4, <1>5, <2>2 DEF Dropping
    <3>2. o # None
      BY CountOfPool
    <3>3. QED
      BY <2>2, <3>1, <3>2 DEF Client
  <2>3. Client(p)' + Cardinality(Dropping(p)') = Client(p) + Cardinality(Dropping(p)) - 1
    <3>1. IsFiniteSet(Dropping(p)) /\ Cardinality(Dropping(p)) \in Nat
      BY <1>2, CountOfPool
    <3>2. CASE pc[t] = "drop" /\ p = pool[t] /\ ppool' = ppool
      <4>1. Dropping(p)' = Dropping(p) \ {t} /\ t \in Dropping(p)
        BY <1>4, <1>5, <3>2 DEF Dropping
      <4>2. Cardinality(Dropping(p)') = Cardinality(Dropping(p)) - 1
        BY <3>1, <4>1, FS_RemoveElement
      <4>3. Client(p)' = Client(p) /\ Client(p) \in Nat
        BY <3>2 DEF Client
      <4>4. QED
        BY <3>1, <4>2, <4>3
    <3>3. CASE pc[t] = "idle" /\ p = ppool /\ ppool' = None
      <4>1. Dropping(p)' = Dropping(p)
        BY <1>4, <1>5, <3>3 DEF Dropping
      <4>2. Client(p) = 1 /\ Client(p)' = 0
        BY <1>2, <3>3 DEF Client
      <4>3. QED
        BY <3>1, <4>1, <4>2
    <3>4. QED
      BY <3>2, <3>3
  <2>4. ASSUME NEW o \in pools
        PROVE  pool_refcount'[o] = Client(o)' + Cardinality(Out(o)') + Cardinality(Dropping(o)')
    <3>1. CASE o = p
      <4>1. Client(p) \in Nat /\ Client(p)' \in Nat
        BY DEF Client
      <4>2. Cardinality(Dropping(p)') \in Nat
        <5>1. Dropping(p)' \subseteq Threads
          BY DEF Dropping
        <5>2. QED
          BY <5>1, PoolAssumption, FS_Subset, FS_CardinalityType
      <4>3. /\ Cardinality(Out(p)) \in Nat /\ Cardinality(Dropping(p)) \in Nat
            /\ pool_refcount[p] = Client(p) + Cardinality(Out(p)) + Cardinality(Dropping(p))
        BY <1>2, CountOfPool
      <4>4. QED
        BY <1>3, <2>1, <2>3, <3>1, <4>1, <4>2, <4>3
    <3>2. CASE o # p
      <4>1. /\ o \in Pools
            /\ pool_refcount[o] = Client(o) + Cardinality(Out(o)) + Cardinality(Dropping(o))
        BY CountOfPool
      <4>2. QED
        BY <1>3, <2>1, <2>2, <3>2, <4>1
    <3>3. QED
      BY <3>1, <3>2
  <2>5. QED
    BY <1>1, <2>4 DEF InvPoolCount
<1>15. QED
  BY <1>7, <1>8, <1>9, <1>10, <1>11, <1>12, <1>13, <1>14 DEF IInv

\* av_buffer_pool_uninit() and the end of pool_release_buffer() drop a count.
LEMMA GiveUpPoolStep ==
  ASSUME IInv, NEW t \in Threads, PoolUninit(t) \/ Drop(t)
  PROVE  IInv'
<1>1. CASE PoolUninit(t)
  <2>1. /\ pc[t] = "idle" /\ ppool # None /\ ppool' = None /\ DropPool(t, ppool)
        /\ \A u \in Threads : ~Getting(u)
        /\ UNCHANGED <<buffers, refs, pools, entries, mutex, pbuf, newbuf, buf>>
    BY <1>1 DEF PoolUninit
  <2>2. QED
    BY <2>1, DropPoolStep
<1>2. CASE Drop(t)
  <2>1. /\ pc[t] = "drop" /\ ppool' = ppool /\ DropPool(t, pool[t])
        /\ UNCHANGED <<buffers, refs, pools, entries, mutex, pbuf, newbuf, buf>>
    BY <1>2 DEF Drop
  <2>2. QED
    BY <2>1, DropPoolStep
<1>3. QED
  BY <1>1, <1>2

\* Natural numbers that add up to zero.
LEMMA SumIsZero ==
  ASSUME NEW i \in Nat, NEW j \in Nat, NEW k \in Nat, i + j + k = 0
  PROVE  j = 0 /\ k = 0
OBVIOUS

\* Whoever is to free a pool is alone with it: its count is zero, so that nothing that
\* it counts is left, and the blocks that belong to it are those in its list.
LEMMA FreedPoolIsUnused ==
  ASSUME IInv, NEW t \in Threads, pc[t] = "free pool"
  PROVE  /\ ppool # pool[t]
         /\ \A u \in Threads \ {t} : pool[u] # pool[t]
         /\ \A d \in live : home[d] = pool[t] => d \in entries[pool[t]]
<1>1. PICK p \in pools : p \in Pools /\ p # None /\ p = pool[t]
  BY PoolOf
<1>2. ppool # p /\ Out(p) = {} /\ Dropping(p) = {}
  <2>1. ppool # p /\ pool_refcount[p] = 0
    BY <1>1 DEF IInv, InvFreePool
  <2>2. Client(p) \in Nat
    BY DEF Client
  <2>3. /\ Cardinality(Out(p)) \in Nat /\ Cardinality(Dropping(p)) \in Nat
        /\ pool_refcount[p] = Client(p) + Cardinality(Out(p)) + Cardinality(Dropping(p))
    BY CountOfPool
  <2>4. Cardinality(Out(p)) = 0 /\ Cardinality(Dropping(p)) = 0
    <3>1. Client(p) + Cardinality(Out(p)) + Cardinality(Dropping(p)) = 0
      BY <2>1, <2>3
    <3>2. QED
      BY <2>2, <2>3, <3>1, SumIsZero
  <2>5. QED
    BY <2>1, <2>4, CountOfPool
<1>3. ASSUME NEW u \in Threads, u # t, pool[u] = p PROVE FALSE
  <2>1. LocalsOf(u) /\ pc[u] \in {"get", "count", "push", "drop", "free pool"}
    BY <1>1, <1>3 DEF IInv, InvLocals, LocalsOf
  <2>2. CASE pc[u] \in {"get", "count"}
    BY <1>2, <1>3, <2>2 DEF IInv, InvPools, Getting
  <2>3. CASE pc[u] = "push"
    <3>1. buf[u] \in live /\ buf[u] \notin entries[p] /\ home[buf[u]] = p
      BY <1>1, <1>3, <2>1, <2>3 DEF IInv, InvPlaces, Freeing, LocalsOf
    <3>2. \A q \in Refs : buffer[q] # buf[u]
      BY <2>3, <3>1, NotNone DEF IInv, InvPlaces, NoUseAfterRelease, Freeing
    <3>3. ASSUME NEW w \in Threads, pc[w] = "count" PROVE buf[w] # buf[u]
      <4>1. \E q \in Refs : buffer[q] = buf[w]
        BY <3>3, ZenonT(40) DEF IInv, InvLocals, LocalsOf
      <4>2. QED
        BY <3>2, <4>1
    <3>4. buf[u] \in Out(p)
      BY <3>1, <3>3 DEF Out
    <3>5. QED
      BY <1>2, <3>4
  <2>4. CASE pc[u] = "drop"
    BY <1>2, <1>3, <2>4 DEF Dropping
  <2>5. CASE pc[u] = "free pool"
    BY <1>1, <1>3, <2>5, ZenonT(40) DEF IInv, InvFreePool
  <2>6. QED
    BY <2>1, <2>2, <2>3, <2>4, <2>5
<1>4. ASSUME NEW d \in live, home[d] = p PROVE d \in entries[p]
  <2>1. ASSUME NEW u \in Threads, pc[u] = "count" PROVE buf[u] # d
    <3>1. home[buf[u]] = pool[u]
      BY <2>1 DEF IInv, InvLocals, LocalsOf
    <3>2. u # t
      BY <2>1
    <3>3. QED
      BY <1>3, <1>4, <3>1, <3>2
  <2>2. d \notin Out(p)
    BY <1>2
  <2>3. QED
    BY <1>4, <2>1, <2>2 DEF Out
<1>5. QED
  BY <1>1, <1>2, <1>3, <1>4

\* buffer_pool_free() takes nothing that anybody still uses.
LEMMA FreePoolStep ==
  ASSUME IInv, NEW t \in Threads, FreePool(t)
  PROVE  IInv'
<1>1. /\ TypeOK /\ TypeBuffers /\ TypeRefs /\ TypePools /\ TypeThreads /\ InvPlaces
      /\ pc[t] = "free pool" /\ Goto(t, "idle")
      /\ UNCHANGED <<home, flags, refcount, buffer, holder, pool_refcount, mutex, ppool, pbuf,
                     newbuf, buf>>
  BY DEF IInv, TypeOK, FreePool, refs
<1>2. PICK p \in pools : p \in Pools /\ p # None /\ p = pool[t]
  BY <1>1, PoolOf
<1>3. /\ live' = live \ entries[p] /\ pools' = pools \ {p}
      /\ entries' = [entries EXCEPT ![p] = {}] /\ pool' = [pool EXCEPT ![t] = None]
  BY <1>2 DEF FreePool, FreeEntries
<1>4. /\ pc'[t] = "idle" /\ pool'[t] = None
      /\ \A u \in Threads \ {t} : pc'[u] = pc[u] /\ buf'[u] = buf[u] /\ pool'[u] = pool[u]
  BY <1>1, <1>3, Labels DEF TypeThreads
<1>5. entries'[p] = {} /\ \A o \in Pools \ {p} : entries'[o] = entries[o]
  BY <1>1, <1>2, <1>3 DEF TypePools
<1>6. ppool # p
  BY <1>1, <1>2, FreedPoolIsUnused
<1>7. ASSUME NEW u \in Threads, u # t, pool[u] = p PROVE FALSE
  BY <1>1, <1>2, <1>7, FreedPoolIsUnused
<1>8. ASSUME NEW d \in live, home[d] = p PROVE d \in entries[p]
  BY <1>1, <1>2, <1>8, FreedPoolIsUnused
<1>9. ASSUME NEW o \in Pools, o # p, NEW d \in entries[o] PROVE d \notin entries[p]
  <2>1. home[d] = o
    BY <1>1 DEF InvPlaces
  <2>2. d \in entries[p] => home[d] = p
    BY <1>1, <1>2 DEF InvPlaces
  <2>3. QED
    BY <1>9, <2>1, <2>2
<1>10. TypeOK'
  <2>1. /\ pool' \in [Threads -> Pools \cup {None}]
        /\ pc' \in [Threads -> {"idle", "write", "copy", "replace", "free", "get", "count",
                                "push", "drop", "free pool"}]
    BY <1>1, <1>3 DEF TypeThreads, Goto
  <2>2. entries' \in [Pools -> SUBSET Blocks]
    BY <1>1, <1>3 DEF TypePools
  <2>3. TypeBuffers' /\ TypeRefs'
    BY <1>1, <1>3 DEF TypeBuffers, TypeRefs
  <2>4. TypePools' /\ TypeThreads'
    BY <1>1, <1>3, <2>1, <2>2 DEF TypePools, TypeThreads
  <2>5. QED
    BY <2>3, <2>4 DEF TypeOK
<1>11. InvRefs'
  BY <1>1 DEF IInv, InvRefs, Named
<1>12. InvPlaces'
  <2>1. \A u \in Threads : pc'[u] \in {"free", "push"} <=> pc[u] \in {"free", "push"}
    BY <1>1, <1>4
  <2>2. \A o \in Pools, d \in Blocks : d \in entries'[o] => d \in entries[o] /\ o # p
    BY <1>5
  <2>3. ASSUME NEW q \in Refs, buffer'[q] # None
        PROVE  /\ buffer'[q] \in live' /\ \A o \in Pools : buffer'[q] \notin entries'[o]
               /\ \A u \in Threads : pc'[u] \in {"free", "push"} => buf'[u] # buffer'[q]
    <3>1. /\ buffer[q] \in live /\ buffer[q] \in Blocks
          /\ \A o \in Pools : buffer[q] \notin entries[o]
      BY <1>1, <2>3 DEF InvPlaces, NoUseAfterRelease, TypeBuffers
    <3>2. \A u \in Threads : pc[u] \in {"free", "push"} => buf[u] # buffer[q]
      BY <1>1, <2>3 DEF InvPlaces, NoUseAfterRelease, Freeing
    <3>3. QED
      BY <1>1, <1>2, <1>3, <2>1, <2>2, <3>1, <3>2
  <2>4. ASSUME NEW d \in live'
        PROVE  \/ \E q \in Refs : buffer'[q] = d
               \/ \E o \in pools' : d \in entries'[o]
               \/ \E u \in Threads : pc'[u] \in {"free", "push"} /\ buf'[u] = d
    <3>1. d \in live /\ d \notin entries[p]
      BY <1>3
    <3>2. CASE \E o \in pools : d \in entries[o]
      <4>1. PICK o \in pools : d \in entries[o]
        BY <3>2
      <4>2. o # p /\ o \in Pools
        BY <3>1, <4>1, CountOfPool
      <4>3. QED
        BY <1>3, <1>5, <4>1, <4>2
    <3>3. CASE \E u \in Threads : Freeing(u) /\ buf[u] = d
      BY <1>1, <2>1, <3>3 DEF Freeing
    <3>4. QED
      BY <1>1, <3>1, <3>2, <3>3 DEF InvPlaces, NoBlockLeaks
  <2>5. ASSUME NEW o \in Pools, NEW d \in entries'[o]
        PROVE  o \in pools' /\ d \in live' /\ home'[d] = o
    <3>1. o # p /\ d \in entries[o]
      BY <1>5
    <3>2. o \in pools /\ d \in live /\ home[d] = o
      BY <1>1, <3>1 DEF InvPlaces
    <3>3. QED
      BY <1>1, <1>3, <1>9, <3>1, <3>2
  <2>6. ASSUME NEW u \in Threads, pc'[u] \in {"free", "push"}
        PROVE  /\ buf'[u] \in live'
               /\ \A o \in Pools : buf'[u] \notin entries'[o]
               /\ \A w \in Threads \ {u} : pc'[w] \in {"free", "push"} => buf'[w] # buf'[u]
    <3>1. /\ buf[u] \in live /\ buf[u] \in Blocks
          /\ \A o \in Pools : buf[u] \notin entries[o]
          /\ \A w \in Threads \ {u} : pc[w] \in {"free", "push"} => buf[w] # buf[u]
      BY <1>1, <2>1, <2>6 DEF InvPlaces, Freeing, TypeBuffers
    <3>2. QED
      BY <1>1, <1>2, <1>3, <2>1, <2>2, <3>1
  <2>7. QED
    BY <2>3, <2>4, <2>5, <2>6 DEF InvPlaces, NoUseAfterRelease, NoBlockLeaks, Freeing
<1>13. InvLocals'
  <2>1. LocalsOf(t)'
    BY <1>4 DEF LocalsOf
  <2>2. ASSUME NEW u \in Threads, u # t PROVE LocalsOf(u)'
    <3>1. ASSUME pc[u] = "count" PROVE buf[u] \in live'
      <4>1. buf[u] \in live /\ \E q \in Refs : buffer[q] = buf[u]
        BY <3>1 DEF IInv, InvLocals, LocalsOf
      <4>2. buf[u] \notin entries[p]
        BY <1>1, <1>2, <4>1, NotNone DEF InvPlaces, NoUseAfterRelease
      <4>3. QED
        BY <1>3, <4>1, <4>2
    <3>2. QED
      BY <1>1, <1>4, <2>2, <3>1, OtherLocals
  <2>3. QED
    BY <2>1, <2>2 DEF InvLocals
<1>14. InvMutex'
  <2>1. ASSUME NEW u \in Threads, pc'[u] \in {"get", "push"}
        PROVE  /\ u # t /\ pc[u] = pc'[u] /\ pool'[u] = pool[u] /\ buf'[u] = buf[u]
               /\ pool[u] \in Pools /\ pool[u] # p
    BY <1>4, <1>7, <2>1, PoolOf
  <2>2. ASSUME NEW u \in Threads, pc'[u] \in {"get", "push"} PROVE mutex'[pool'[u]] = u
    BY <1>1, <2>1, <2>2 DEF IInv, InvMutex
  <2>3. ASSUME NEW u \in Threads, pc'[u] = "get" PROVE buf'[u] \in entries'[pool'[u]] \cup {None}
    BY <1>5, <2>1, <2>3 DEF IInv, InvMutex
  <2>4. QED
    BY <2>2, <2>3 DEF InvMutex
<1>15. InvPools'
  <2>1. ppool' \in pools' \cup {None}
    BY <1>1, <1>3, <1>6 DEF IInv, InvPools
  <2>2. ASSUME NEW u \in Threads, pool'[u] # None PROVE pool'[u] \in pools'
    BY <1>3, <1>4, <1>7, <2>2 DEF IInv, InvPools
  <2>3. ASSUME NEW u \in Threads, pc'[u] \in {"get", "count"} PROVE pool'[u] = ppool'
    BY <1>1, <1>4, <2>3 DEF IInv, InvPools, Getting
  <2>4. \A d \in live' : home'[d] # None => home'[d] \in pools'
    BY <1>1, <1>3, <1>8 DEF IInv, InvPools
  <2>5. QED
    BY <2>1, <2>2, <2>3, <2>4 DEF InvPools, Getting
<1>16. InvFreePool'
  <2>1. ASSUME NEW u \in Threads, pc'[u] = "free pool"
        PROVE  u # t /\ pc[u] = "free pool" /\ pool'[u] = pool[u]
    BY <1>4, <2>1
  <2>2. ASSUME NEW u \in Threads, pc'[u] = "free pool"
        PROVE  /\ ppool' # pool'[u]
               /\ pool_refcount'[pool'[u]] = 0
               /\ \A w \in Threads \ {u} : pc'[w] = "free pool" => pool'[w] # pool'[u]
    <3>1. ppool # pool[u] /\ pool_refcount[pool[u]] = 0
      BY <2>1, <2>2 DEF IInv, InvFreePool
    <3>2. ASSUME NEW w \in Threads \ {u}, pc'[w] = "free pool" PROVE pool'[w] # pool'[u]
      BY <2>1, <2>2, <3>2 DEF IInv, InvFreePool
    <3>3. QED
      BY <1>1, <2>1, <2>2, <3>1, <3>2
  <2>3. ASSUME NEW o \in pools', pool_refcount'[o] = 0
        PROVE  \E u \in Threads : pc'[u] = "free pool" /\ pool'[u] = o
    <3>1. o \in pools /\ o # p /\ pool_refcount[o] = 0
      BY <1>1, <1>3, <2>3
    <3>2. PICK u \in Threads : pc[u] = "free pool" /\ pool[u] = o
      BY <3>1 DEF IInv, InvFreePool
    <3>3. u # t
      BY <1>2, <3>1, <3>2
    <3>4. QED
      BY <1>4, <3>2, <3>3
  <2>4. QED
    BY <2>2, <2>3 DEF InvFreePool
<1>17. InvPoolCount'
  <2>1. ASSUME NEW o \in pools, o # p
        PROVE  /\ Out(o)' = Out(o) /\ Dropping(o)' = Dropping(o) /\ Client(o)' = Client(o)
               /\ pool_refcount'[o] = pool_refcount[o]
    <3>1. o \in Pools
      BY CountOfPool
    <3>2. \A d \in live : home[d] = o => d \in live'
      BY <1>1, <1>2, <1>3, <2>1 DEF InvPlaces
    <3>3. \A u \in Threads : pc'[u] = "count" <=> pc[u] = "count"
      BY <1>1, <1>4
    <3>4. Out(o)' = Out(o)
      BY <1>1, <1>3, <1>5, <2>1, <3>1, <3>2, <3>3 DEF Out
    <3>5. Dropping(o)' = Dropping(o)
      BY <1>1, <1>4 DEF Dropping
    <3>6. QED
      BY <1>1, <3>4, <3>5 DEF Client
  <2>2. QED
    BY <1>3, <2>1 DEF IInv, InvPoolCount
<1>18. QED
  BY <1>10, <1>11, <1>12, <1>13, <1>14, <1>15, <1>16, <1>17 DEF IInv

-------------------------------------------------------------------------------
(***************************************************************************)
(* The theorems                                                            *)
(***************************************************************************)

\* Before anything is allocated.
LEMMA InitIInv == Init => IInv
<1> SUFFICES ASSUME Init PROVE IInv
  OBVIOUS
<1>1. \A r \in Refs : buffer[r] = None /\ holder[r] = None
  BY DEF Init
<1>2. \A t \in Threads : pc[t] = "idle" /\ pool[t] = None
  BY DEF Init
<1>3. live = {} /\ pools = {} /\ ppool = None
      /\ \A p \in Pools : entries[p] = {}
  BY DEF Init
<1>4. TypeOK
  BY DEF Init, TypeOK, TypeBuffers, TypeRefs, TypePools, TypeThreads
<1>5. InvRefs
  <2>1. ASSUME NEW d \in Blocks PROVE refcount[d] = Cardinality(Named(d))
    <3>1. Named(d) = {} /\ refcount[d] = 0
      BY <1>1, PoolAssumption DEF Named, Init
    <3>2. QED
      BY <3>1, FS_EmptySet
  <2>2. QED
    BY <1>1, <2>1 DEF InvRefs
<1>6. InvPlaces
  BY <1>1, <1>2, <1>3 DEF InvPlaces, NoUseAfterRelease, NoBlockLeaks, Freeing
<1>7. InvLocals
  BY <1>2 DEF InvLocals, LocalsOf
<1>8. InvMutex /\ InvPools /\ InvFreePool /\ InvPoolCount
  BY <1>2, <1>3 DEF InvMutex, InvPools, InvFreePool, InvPoolCount, Getting
<1>9. QED
  BY <1>4, <1>5, <1>6, <1>7, <1>8 DEF IInv

\* A step of something else than this component.
LEMMA StutterIInv ==
  ASSUME IInv, UNCHANGED vars
  PROVE  IInv'
<1>1. UNCHANGED <<live, home, flags, refcount, buffer, holder, pools, pool_refcount, entries,
                  mutex, ppool, pc, pbuf, newbuf, buf, pool>>
  BY DEF vars
<1>2. TypeOK'
  BY <1>1 DEF IInv, TypeOK, TypeBuffers, TypeRefs, TypePools, TypeThreads
<1>3. InvRefs'
  BY <1>1 DEF IInv, InvRefs, Named
<1>4. InvPlaces'
  BY <1>1 DEF IInv, InvPlaces, NoUseAfterRelease, NoBlockLeaks, Freeing
<1>5. InvLocals'
  <2>1. ASSUME NEW u \in Threads PROVE LocalsOf(u)'
    <3>1. LocalsOf(u)
      BY DEF IInv, InvLocals
    <3>2. QED
      BY <1>1, <3>1 DEF LocalsOf, Named
  <2>2. QED
    BY <2>1 DEF InvLocals
<1>6. InvMutex'
  BY <1>1 DEF IInv, InvMutex
<1>7. InvPools'
  BY <1>1 DEF IInv, InvPools, Getting
<1>8. InvFreePool'
  BY <1>1 DEF IInv, InvFreePool
<1>9. InvPoolCount'
  BY <1>1, ZenonT(40) DEF IInv, InvPoolCount, Client, Out, Dropping
<1>10. QED
  BY <1>2, <1>3, <1>4, <1>5, <1>6, <1>7, <1>8, <1>9 DEF IInv

\* IInv holds in every reachable state, however many threads, references, blocks and
\* pools there are: it says that a block's counter is the number of references to it,
\* and a pool's the client, the blocks that are out and the releases not finished.
THEOREM Invariance == Spec => []IInv
<1>1. IInv /\ [Next]_vars => IInv'
  <2> SUFFICES ASSUME IInv, [Next]_vars PROVE IInv'
    OBVIOUS
  <2>1. CASE UNCHANGED vars
    BY <2>1, StutterIInv
  <2>2. ASSUME NEW t \in Threads, BufferStep(t) PROVE IInv'
    BY <2>2, AllocStep, RefStep, HandOverStep, UnrefStep, StartWriteStep, LetGoStep,
       StartCopyStep, CopyStep, ReplaceStep, FreeBlockStep DEF BufferStep
  <2>3. ASSUME NEW t \in Threads, PoolStep(t) PROVE IInv'
    BY <2>3, PoolInitStep, GiveUpPoolStep, GetLocksStep, GetEntryStep, GetNewStep, CountGetStep,
       ReleaseBufferStep, PushStep, FreePoolStep DEF PoolStep
  <2>4. QED
    BY <2>1, <2>2, <2>3 DEF Next
<1>2. QED
  BY InitIInv, <1>1, PTL DEF Spec

\* The model's variables keep their types.
THEOREM TypeCorrect == Spec => []TypeOK
<1>1. IInv => TypeOK
  BY DEF IInv
<1>2. QED
  BY Invariance, <1>1, PTL

\* av_buffer_unref() and buffer_replace() free a block only when nobody refers to it
\* any more, and a block handed out again by a pool has no old reference.
THEOREM BuffersAreSafe == Spec => []NoUseAfterRelease
<1>1. IInv => NoUseAfterRelease
  BY DEF IInv, InvPlaces
<1>2. QED
  BY Invariance, <1>1, PTL

\* What av_buffer_is_writable() promised holds until the writing is done.
THEOREM WritesAreExclusive == Spec => []ExclusiveWrite
<1>1. IInv => ExclusiveWrite
  <2> SUFFICES ASSUME IInv, NEW t \in Threads, pc[t] = "write",
                      NEW r \in Refs, buffer[r] = buffer[pbuf[t]]
               PROVE  r = pbuf[t]
    BY DEF ExclusiveWrite
  <2>1. Named(buffer[pbuf[t]]) = {pbuf[t]}
    BY DEF IInv, InvLocals, LocalsOf
  <2>2. QED
    BY <2>1 DEF Named
<1>2. QED
  BY Invariance, <1>1, PTL

\* buffer_pool_free() never takes a pool away from the client, from a buffer of it or
\* from a thread inside av_buffer_pool_get() or pool_release_buffer().
THEOREM PoolsAreSafe == Spec => []PoolOutlivesItsUse
<1>1. IInv => PoolOutlivesItsUse
  <2> SUFFICES ASSUME IInv PROVE PoolOutlivesItsUse
    OBVIOUS
  <2>1. ASSUME NEW r \in Refs, buffer[r] # None
        PROVE  buffer[r] \in live /\ \A p \in Pools : buffer[r] \notin entries[p]
    BY <2>1 DEF IInv, InvPlaces, NoUseAfterRelease
  <2>2. \A r \in Refs : buffer[r] # None /\ home[buffer[r]] # None => home[buffer[r]] \in pools
    BY <2>1 DEF IInv, InvPools
  <2>3. ASSUME NEW t \in Threads, pc[t] = "free pool"
        PROVE  /\ ppool # pool[t]
               /\ \A u \in Threads \ {t} : pool[u] # pool[t]
               /\ \A r \in Refs : buffer[r] # None => home[buffer[r]] # pool[t]
    <3>1. pool[t] \in Pools
      BY <2>3, PoolOf
    <3>2. QED
      BY <2>1, <2>3, <3>1, FreedPoolIsUnused
  <2>4. ppool \in pools \cup {None} /\ \A t \in Threads : pool[t] # None => pool[t] \in pools
    BY DEF IInv, InvPools
  <2>5. QED
    BY <2>2, <2>3, <2>4 DEF PoolOutlivesItsUse
<1>2. QED
  BY Invariance, <1>1, PTL

\* A pool that its client gave up is freed by whoever drops the last count: no order
\* of av_buffer_pool_uninit() and the releases leaves it behind.
THEOREM PoolsAreFreed == Spec => []PoolIsFreedInTheEnd
<1>1. IInv => PoolIsFreedInTheEnd
  <2> SUFFICES ASSUME IInv, NEW p \in pools, p # ppool
               PROVE  \/ \E r \in Refs : buffer[r] # None /\ home[buffer[r]] = p
                      \/ \E t \in Threads : pool[t] = p \/ (pc[t] = "free" /\ home[buf[t]] = p)
    BY DEF PoolIsFreedInTheEnd
  <2>1. Client(p) = 0
    BY DEF Client
  <2>2. CASE pool_refcount[p] = 0
    BY <2>2 DEF IInv, InvFreePool
  <2>3. CASE Dropping(p) # {}
    BY <2>3 DEF Dropping
  <2>4. CASE Out(p) # {}
    <3>1. PICK d \in live : home[d] = p /\ d \notin entries[p]
      BY <2>4 DEF Out
    <3>2. d # None
      BY NotNone DEF IInv
    <3>3. ~ \E o \in pools : d \in entries[o]
      BY <3>1, CountOfPool DEF IInv, InvPlaces
    <3>4. CASE \E r \in Refs : buffer[r] = d
      BY <3>1, <3>2, <3>4
    <3>5. CASE \E t \in Threads : Freeing(t) /\ buf[t] = d
      <4>1. PICK t \in Threads : pc[t] \in {"free", "push"} /\ buf[t] = d
        BY <3>5 DEF Freeing
      <4>2. pc[t] = "push" => pool[t] = p
        BY <3>1, <4>1 DEF IInv, InvLocals, LocalsOf
      <4>3. QED
        BY <3>1, <4>1, <4>2
    <3>6. QED
      BY <3>3, <3>4, <3>5 DEF IInv, InvPlaces, NoBlockLeaks
  <2>5. QED
    <3>1. /\ pool_refcount[p] = Cardinality(Out(p)) + Cardinality(Dropping(p))
          /\ Cardinality(Out(p)) \in Nat /\ Cardinality(Dropping(p)) \in Nat
      BY <2>1, CountOfPool
    <3>2. Out(p) = {} /\ Dropping(p) = {} => pool_refcount[p] = 0
      BY <3>1, FS_EmptySet
    <3>3. QED
      BY <2>2, <2>3, <2>4, <3>2
<1>2. QED
  BY Invariance, <1>1, PTL

\* Every block that is allocated is referenced, in a pool, or about to be freed.
THEOREM NothingLeaks == Spec => []NoBlockLeaks
<1>1. IInv => NoBlockLeaks
  BY DEF IInv, InvPlaces
<1>2. QED
  BY Invariance, <1>1, PTL
===============================================================================
