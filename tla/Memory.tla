------------------------------- MODULE Memory -------------------------------
(* Guest memory: the pool of frames (vcpu/phys.rs), the page tables            *)
(* (vcpu/pagetable.rs), the address spaces built on them (vcpu/mem.rs), the    *)
(* cache of shared file pages (kernel/pagecache.rs), the calls that use them,  *)
(* and the translations a hardware vcpu keeps between two flushes.             *)
(*                                                                             *)
(* `k' is the whole machine; an operation maps it to the machine afterwards,   *)
(* with the call's success in k.ok.  A page holds one value; a page table is a *)
(* root, one table for the control block, and a table for every Span pages:    *)
(* the levels in between behave like the last one.                             *)
EXTENDS Integers, FiniteSets, FiniteSetsExt, Sequences, SequencesExt

CONSTANTS Frames, Pages, Span, Spaces, Tasks, FilePages, Reserve, MemlockLimit, Cases

ASSUME ReserveAssumption == Reserve \in Nat /\ Span \in Nat \ {0}

VARIABLES kase, k, want

vars == <<kase, k, want>>

NoLeaf == [f |-> 0, w |-> FALSE]
Group(p) == (p - 1) \div Span
Groups == {Group(p) : p \in Pages}

-----------------------------------------------------------------------------
(* The pages an address space has locked (vcpu/pagelocks.rs): a map from the  *)
(* first page of a range to the page after its last, written here as the set  *)
(* of pairs <<start, end>>.  Ranges never overlap and never touch.            *)

Covered(r) == UNION {q[1] .. (q[2] - 1) : q \in r}

(* Every range holds a page, and between two ranges there is an unlocked page. *)
WellFormed(r) ==
    /\ r \subseteq Nat \X Nat
    /\ \A q \in r : q[1] < q[2]
    /\ \A p, q \in r : p # q => p[2] < q[1] \/ q[2] < p[1]

(* `range(..=x).next_back()`, as a set of at most one range. *)
LastFrom(r, x) == {q \in r : q[1] =< x /\ \A p \in r : p[1] =< x => p[1] =< q[1]}

LockedWithin(r, start, end) ==
    MapThenSumSet(LAMBDA q : IF Min({q[2], end}) > start THEN Min({q[2], end}) - start ELSE 0, LastFrom(r, start))
    + MapThenSumSet(LAMBDA q : Min({q[2], end}) - q[1], {q \in r : start < q[1] /\ q[1] < end})

(* The ranges an insertion swallows: the one that reaches its first page from *)
(* before, and those that start inside it or just after it.                   *)
Reaching(r, start) == {q \in LastFrom(r, start) : q[2] >= start}

LowEnd(r, start) == IF Reaching(r, start) = {} THEN start ELSE Min({q[1] : q \in Reaching(r, start)})

Touching(r, start, end) == Reaching(r, start) \union {q \in r : LowEnd(r, start) =< q[1] /\ q[1] =< Max({end} \union {p[2] : p \in Reaching(r, start)})}

InsertRange(r, start, end) ==
    IF start >= end THEN r
    ELSE (r \ Touching(r, start, end))
         \union {<<LowEnd(r, start), Max({end} \union {q[2] : q \in Touching(r, start, end)})>>}

(* A removal keeps what a range has before and after it. *)
Hit(r, start, end) == {q \in LastFrom(r, start - 1) : q[2] > start} \union {q \in r : start =< q[1] /\ q[1] < end}

RemoveRange(r, start, end) ==
    IF start >= end THEN r
    ELSE (r \ Hit(r, start, end))
         \union {<<q[1], start>> : q \in {h \in Hit(r, start, end) : h[1] < start}}
         \union {<<end, q[2]>> : q \in {h \in Hit(r, start, end) : h[2] > end}}

-----------------------------------------------------------------------------
(* The frame allocator.  A frame is named by a number; the free list hands out *)
(* its lowest frame, since frames differ only in their contents.               *)

Alloc(m, useReserve) ==
    IF m.free = {} \/ (~useReserve /\ Cardinality(m.free) =< Reserve) THEN [m EXCEPT !.got = 0]
    ELSE LET f == Min(m.free)
         IN [m EXCEPT !.got = f, !.free = @ \ {f}, !.ref[f] = 1, !.data[f] = 0]

Incref(m, f) == [m EXCEPT !.ref[f] = @ + 1]

Decref(m, f) ==
    IF m.ref[f] = 0 THEN m
    ELSE [m EXCEPT !.ref[f] = @ - 1, !.free = IF m.ref[f] = 1 THEN @ \union {f} ELSE @]

Release(m, fs) == FoldSet(LAMBDA f, a : Decref(a, f), m, fs)

-----------------------------------------------------------------------------
(* Page tables. *)

Fresh(root, ctl, kstack) ==
    [root |-> root, ctl |-> ctl, kstack |-> kstack, pt |-> [g \in Groups |-> 0],
     leaf |-> [p \in Pages |-> NoLeaf], mapped |-> {}, prot |-> [p \in Pages |-> {}],
     shared |-> {}, filed |-> {}, policy |-> [p \in Pages |-> "keep"],
     locks |-> {}, future |-> FALSE, dirty |-> FALSE]

Retired == Fresh(0, 0, 0)

Translate(m, s, p) == m.sp[s].leaf[p].f

(* `AddrSpace::map': a missing table is allocated first; m.old is the frame    *)
(* the leaf had.                                                               *)
SetLeaf(m, s, p, f, prot) ==
    [m EXCEPT !.ok = TRUE, !.old = m.sp[s].leaf[p].f, !.sp[s].leaf[p] = [f |-> f, w |-> "w" \in prot]]

WithTable(m, s, p, f, prot) ==
    IF m.got = 0 THEN [m EXCEPT !.ok = FALSE]
    ELSE SetLeaf([m EXCEPT !.sp[s].pt[Group(p)] = m.got], s, p, f, prot)

TableMap(m, s, p, f, prot) ==
    IF m.sp[s].root = 0 THEN [m EXCEPT !.ok = FALSE]
    ELSE IF m.sp[s].pt[Group(p)] # 0 THEN SetLeaf(m, s, p, f, prot)
    ELSE WithTable(Alloc(m, FALSE), s, p, f, prot)

TableProtect(m, s, p, prot) ==
    IF Translate(m, s, p) = 0 THEN [m EXCEPT !.changed = FALSE]
    ELSE [m EXCEPT !.changed = TRUE, !.sp[s].leaf[p].w = "w" \in prot]

(* `AddrSpace::unmap' gives an emptied table back.                             *)
GroupEmpty(m, s, p) == \A x \in Pages \ {p} : Group(x) = Group(p) => m.sp[s].leaf[x].f = 0

DropTable(m, s, p) ==
    IF GroupEmpty(m, s, p) THEN Decref([m EXCEPT !.sp[s].pt[Group(p)] = 0], m.sp[s].pt[Group(p)]) ELSE m

TableUnmap(m, s, p) ==
    IF Translate(m, s, p) = 0 THEN [m EXCEPT !.old = 0]
    ELSE DropTable([m EXCEPT !.old = Translate(m, s, p), !.sp[s].leaf[p] = NoLeaf], s, p)

Tables(q) == ({q.root, q.ctl} \union {q.pt[g] : g \in Groups}) \ {0}

(* Dropping an address space drops one reference for every leaf. *)
DropLeaves(m, q) == FoldSet(LAMBDA p, a : IF q.leaf[p].f = 0 THEN a ELSE Decref(a, q.leaf[p].f), m, Pages)

Destroy(m, q) == DropLeaves(Release(m, Tables(q) \union ({q.kstack} \ {0})), q)

(* `fork_cow': clone the tables, share every frame, and leave no writable leaf *)
(* on either side.  A clone that runs out of frames gives back what it took,   *)
(* so it is tried only when the pool can give all of it.                       *)
ReadOnly(q) == [q EXCEPT !.leaf = [p \in Pages |-> [q.leaf[p] EXCEPT !.w = FALSE]]]

ShareLeaves(m, q) ==
    FoldSet(LAMBDA p, a : IF q.leaf[p].f = 0 THEN a ELSE Incref(a, q.leaf[p].f), Incref(m, q.kstack), Pages)

GivenRoot(m, c) == [m EXCEPT !.sp[c].root = m.got]
GivenCtl(m, c) == [m EXCEPT !.sp[c].ctl = m.got]
GivenTable(m, c, g) == [m EXCEPT !.sp[c].pt[g] = m.got]

CloneTables(m, s, c) ==
    FoldSet(LAMBDA g, a : IF m.sp[s].pt[g] = 0 THEN a ELSE GivenTable(Alloc(a, TRUE), c, g),
            GivenCtl(Alloc(GivenRoot(Alloc(m, TRUE), c), TRUE), c), Groups)

ForkCow(m, s, c) ==
    IF Cardinality(m.free) - Reserve < Cardinality(Tables(m.sp[s])) THEN [m EXCEPT !.ok = FALSE]
    ELSE CloneTables(ShareLeaves([m EXCEPT !.ok = TRUE, !.sp[s] = ReadOnly(@), !.sp[c] = ReadOnly(m.sp[s])],
                                 m.sp[s]), s, c)

-----------------------------------------------------------------------------
(* Address spaces (GuestMemory).  A run of pages is worked through in order;   *)
(* a step that fails leaves the pages before it changed.                       *)

Run(lo, hi) == [i \in 1 .. (hi - lo + 1) |-> lo + i - 1]
Prot(m, s, p) == m.sp[s].prot[p]
FreeOld(m) == IF m.old = 0 THEN m ELSE Decref(m, m.old)
Dirtied(m, s) == IF m.old = 0 THEN m ELSE [m EXCEPT !.sp[s].dirty = TRUE]
DropBacking(m, s, p) == IF p \in m.sp[s].mapped THEN TableUnmap(m, s, p) ELSE [m EXCEPT !.old = 0]

MapPage(m, s, p, prot) ==
    [m EXCEPT !.sp[s].mapped = @ \union {p}, !.sp[s].prot[p] = prot, !.sp[s].filed = @ \ {p},
              !.sp[s].shared = @ \ {p}, !.sp[s].policy[p] = "keep"]

(* `map' drops what backed the pages and allocates nothing: a page gets its    *)
(* frame when it is first touched.                                             *)
Map(m, s, lo, hi, prot) ==
    [FoldLeft(LAMBDA a, p : MapPage(FreeOld(DropBacking(a, s, p)), s, p, prot), m, Run(lo, hi))
       EXCEPT !.ok = TRUE, !.sp[s].locks = RemoveRange(@, lo, hi + 1)]

SetForkPolicy(m, s, lo, hi, policy) ==
    IF ~(lo .. hi \subseteq m.sp[s].mapped) THEN [m EXCEPT !.ok = FALSE]
    ELSE [m EXCEPT !.ok = TRUE, !.sp[s].policy = [p \in Pages |-> IF p \in lo .. hi THEN policy ELSE @[p]]]

BackKept(m, s, p) == IF m.got = 0 THEN [m EXCEPT !.ok = FALSE] ELSE TableMap(m, s, p, m.got, Prot(m, s, p))

KeepOrFree(m, f) == IF m.ok THEN m ELSE Decref(m, f)
Back(m, s, p) == IF m.got = 0 THEN [m EXCEPT !.ok = FALSE] ELSE KeepOrFree(TableMap(m, s, p, m.got, Prot(m, s, p)), m.got)

EnsureBacked(m, s, p) ==
    IF Translate(m, s, p) # 0 THEN [m EXCEPT !.ok = TRUE] ELSE Back(Alloc(m, FALSE), s, p)

MapSharedAnon(m, s, lo, hi, prot) ==
    FoldLeft(LAMBDA a, p : IF a.ok THEN EnsureBacked([a EXCEPT !.sp[s].shared = @ \union {p}], s, p) ELSE a,
             Map(m, s, lo, hi, prot), Run(lo, hi))

(* `map_frames' maps frames somebody else owns: the page cache's, or a shared  *)
(* memory segment's.                                                           *)
TakeFrame(m, s, p, f, prot) ==
    IF ~m.ok THEN Decref(m, f)
    ELSE [FreeOld(m) EXCEPT !.sp[s].mapped = @ \union {p}, !.sp[s].prot[p] = prot, !.sp[s].filed = @ \ {p},
                            !.sp[s].shared = @ \union {p}]

MapFrame(m, s, p, f, prot) ==
    TakeFrame(TableMap(Incref(Dirtied(FreeOld(DropBacking(m, s, p)), s), f), s, p, f, prot), s, p, f, prot)

MapFrames(m, s, lo, fs, prot) ==
    FoldLeft(LAMBDA a, i : IF a.ok THEN MapFrame(a, s, lo + i - 1, fs[i], prot) ELSE a,
             [m EXCEPT !.ok = TRUE], Run(1, Len(fs)))

DemandFault(m, s, p) ==
    IF p \notin m.sp[s].mapped \/ Translate(m, s, p) # 0 \/ Prot(m, s, p) = {} THEN [m EXCEPT !.ok = FALSE]
    ELSE EnsureBacked(m, s, p)

LeafProtPlain(m, s, p) == Prot(m, s, p)

(* A shared frame is never made writable by a change of protection. *)
LeafProt(m, s, p) ==
    IF p \notin m.sp[s].shared /\ Translate(m, s, p) # 0 /\ m.ref[Translate(m, s, p)] > 1
    THEN Prot(m, s, p) \ {"w"} ELSE Prot(m, s, p)

DirtyIfNever(m, s) == m

DirtyIf(m, s) == IF m.changed THEN [m EXCEPT !.sp[s].dirty = TRUE] ELSE m

ProtectPage(m, s, p) == DirtyIf(TableProtect(m, s, p, LeafProt(m, s, p)), s)

Protect(m, s, lo, hi, prot) ==
    FoldLeft(LAMBDA a, p : IF ~a.ok THEN a
                           ELSE IF p \notin a.sp[s].mapped THEN [a EXCEPT !.ok = FALSE]
                           ELSE ProtectPage([a EXCEPT !.sp[s].prot[p] = prot], s, p),
             [m EXCEPT !.ok = TRUE], Run(lo, hi))

UnmapPage(m, s, p) ==
    [m EXCEPT !.sp[s].mapped = @ \ {p}, !.sp[s].prot[p] = {}, !.sp[s].filed = @ \ {p},
              !.sp[s].shared = @ \ {p}, !.sp[s].policy[p] = "keep"]

Unmap(m, s, lo, hi) ==
    [FoldLeft(LAMBDA a, p : UnmapPage(Dirtied(FreeOld(DropBacking(a, s, p)), s), s, p), m, Run(lo, hi))
       EXCEPT !.ok = TRUE, !.sp[s].locks = RemoveRange(@, lo, hi + 1)]

(* `make_writable': a frame somebody else also holds is copied first. *)
Privatize(m, s, p, old) ==
    IF m.got = 0 THEN [m EXCEPT !.ok = FALSE, !.changed = FALSE]
    ELSE [Decref(TableMap([m EXCEPT !.data[m.got] = m.data[old]], s, p, m.got, Prot(m, s, p)), old) EXCEPT !.changed = TRUE]

MakeWritable(m, s, p) ==
    IF Translate(m, s, p) = 0 THEN [m EXCEPT !.ok = TRUE, !.changed = FALSE]
    ELSE IF p \notin m.sp[s].shared /\ m.ref[Translate(m, s, p)] > 1
         THEN Privatize(Alloc(m, FALSE), s, p, Translate(m, s, p))
    ELSE [TableProtect(m, s, p, Prot(m, s, p)) EXCEPT !.ok = TRUE]

(* `copy_in': every page is backed and made writable, then the bytes go in.    *)
Noted(m, was) == [m EXCEPT !.changed = @ \/ was]
Ready(m, s, p) == IF m.ok THEN MakeWritable(m, s, p) ELSE m

Stored(m, s, lo, hi, v) ==
    IF ~m.ok THEN m
    ELSE [DirtyIf(m, s) EXCEPT !.data = [f \in Frames |-> IF \E p \in lo .. hi : Translate(m, s, p) = f THEN v ELSE @[f]]]

CopyIn(m, s, lo, hi, v) ==
    Stored(FoldLeft(LAMBDA a, p : IF a.ok THEN Noted(Ready(EnsureBacked(a, s, p), s, p), a.changed) ELSE a,
                    [m EXCEPT !.ok = TRUE, !.changed = FALSE], Run(lo, hi)), s, lo, hi, v)

Allowed(m, s, lo, hi, what) == \A p \in lo .. hi : p \in m.sp[s].mapped /\ what \in Prot(m, s, p)

Write(m, s, lo, hi, v) == IF Allowed(m, s, lo, hi, "w") THEN CopyIn(m, s, lo, hi, v) ELSE [m EXCEPT !.ok = FALSE]

WriteInit(m, s, lo, hi, v) ==
    IF lo .. hi \subseteq m.sp[s].mapped THEN CopyIn(m, s, lo, hi, v) ELSE [m EXCEPT !.ok = FALSE]

CowFault(m, s, p, write) ==
    IF ~write \/ p \notin m.sp[s].mapped \/ "w" \notin Prot(m, s, p) THEN [m EXCEPT !.ok = FALSE]
    ELSE MakeWritable(m, s, p)

Content(m, s, p) == IF Translate(m, s, p) = 0 THEN 0 ELSE m.data[Translate(m, s, p)]

-----------------------------------------------------------------------------
(* fork, execve and exit.  They may use the reserve, and panic without it.     *)

Panic(m) == [m EXCEPT !.panic = TRUE]

SwapKstack(m, s) ==
    IF m.got = 0 THEN Panic(m)
    ELSE FreeOld([m EXCEPT !.old = m.sp[s].kstack, !.sp[s].kstack = m.got])

InstallKstack(m, s) == SwapKstack(Alloc(m, TRUE), s)

(* Shared pages stay writable on both sides of a fork; pages with a fork       *)
(* policy leave the child.                                                     *)
Republish(m, s) ==
    [m EXCEPT !.sp[s].leaf = [p \in Pages |->
        IF p \in m.sp[s].shared /\ p \in m.sp[s].mapped /\ @[p].f # 0
        THEN [@[p] EXCEPT !.w = "w" \in m.sp[s].prot[p]] ELSE @[p]]]

DropPolicied(m, c, ps) == FoldSet(LAMBDA p, a : FreeOld(TableUnmap(a, c, p)), m, ps)

Child(m, c, ps) ==
    [m EXCEPT !.sp[c].mapped = @ \ {p \in ps : m.sp[c].policy[p] = "dont"}, !.sp[c].shared = @ \ ps,
              !.sp[c].policy = [p \in Pages |-> IF @[p] = "wipe" THEN "wipe" ELSE "keep"],
              !.sp[c].locks = {}, !.sp[c].future = FALSE, !.sp[c].dirty = FALSE]

Policied(q) == {p \in Pages : q.policy[p] # "keep"}

Forked(m, s, c, ps) ==
    IF ~m.ok THEN m
    ELSE Child(DropPolicied(Republish(Republish(InstallKstack(InstallKstack(m, s), c), s), c), c, ps), c, ps)

TryFork(m, s, c) == Forked(ForkCow(m, s, c), s, c, Policied(m.sp[s]))

Retire(m, s) ==
    [Destroy(m, m.sp[s]) EXCEPT !.sp[s] = [Retired EXCEPT !.locks = m.sp[s].locks, !.dirty = TRUE]]

Rooted(m, s) == IF m.got = 0 THEN Panic(m) ELSE [m EXCEPT !.sp[s] = Fresh(m.got, 0, 0)]
Controlled(m, s) == IF m.got = 0 THEN Panic(m) ELSE [m EXCEPT !.sp[s].ctl = m.got]

ResetSpace(m, s) ==
    [Destroy(InstallKstack(Controlled(Alloc(Rooted(Alloc(m, TRUE), s), TRUE), s), s), m.sp[s])
       EXCEPT !.sp[s].dirty = m.sp[s].dirty]

-----------------------------------------------------------------------------
(* The page cache: `cache' names the frame of a cached file page, `disk' the   *)
(* contents the file system has.                                               *)

SeenByReader(m, i) == IF m.cache[i] = 0 THEN m.disk[i] ELSE m.data[m.cache[i]]

CachePage(m, i) ==
    IF m.got = 0 THEN [m EXCEPT !.ok = FALSE] ELSE [m EXCEPT !.cache[i] = m.got]

CachePages(m, lo, hi) ==
    FoldLeft(LAMBDA a, i : IF ~a.ok \/ a.cache[i] # 0 THEN a ELSE CachePage(Alloc(a, FALSE), i),
             [m EXCEPT !.ok = TRUE], Run(lo, hi))

Filled(m, fresh) ==
    [m EXCEPT !.data = [f \in Frames |-> IF \E i \in fresh : m.cache[i] = f
                                         THEN m.disk[CHOOSE i \in fresh : m.cache[i] = f] ELSE @[f]]]

MapCached(m, s, lo, first, n, prot, fresh) ==
    IF ~m.ok THEN m
    ELSE MapFrames(Filled(m, fresh), s, lo, [i \in 1 .. n |-> m.cache[first + i - 1]], prot)

PcMapShared(m, s, lo, first, n, prot) ==
    MapCached(CachePages(m, first, first + n - 1), s, lo, first, n, prot,
              {i \in first .. (first + n - 1) : m.cache[i] = 0})

(* Pages no address space maps leave the cache. *)
PcGc(m) ==
    LET dead == {i \in FilePages : m.cache[i] # 0 /\ m.ref[m.cache[i]] =< 1}
    IN [Release(m, {m.cache[i] : i \in dead}) EXCEPT !.cache = [i \in FilePages |-> IF i \in dead THEN 0 ELSE @[i]]]

VfsWrite(m, i, v) ==
    [m EXCEPT !.ok = TRUE, !.disk[i] = v, !.data = [f \in Frames |-> IF f = m.cache[i] THEN v ELSE @[f]]]

(* `flush_shared_maps' writes a task's writable shared mappings back to the    *)
(* file and forgets those the call covers.                                     *)
Overlaps(x, lo, hi) == x.lo =< hi /\ lo =< x.hi

FlushMaps(m, t, lo, hi) ==
    [m EXCEPT !.disk = [i \in FilePages |->
        LET from == {x \in m.maps[t] : Overlaps(x, lo, hi) /\ i \in x.first .. (x.first + x.hi - x.lo)
                                       /\ Allowed(m, m.mm[t], x.lo, x.hi, "r")}
        IN IF from = {} THEN @[i] ELSE LET x == CHOOSE x \in from : TRUE IN Content(m, m.mm[t], x.lo + i - x.first)]]

FlushAll(m, t) == FlushMaps(m, t, Min(Pages), Max(Pages))
Forget(m, t, lo, hi) == [m EXCEPT !.maps[t] = {x \in @ : ~Overlaps(x, lo, hi)}]
-----------------------------------------------------------------------------
(* The calls.  `t' is the calling task, `c' the call and its arguments.        *)

Fail(m) == [m EXCEPT !.ok = FALSE]
LockedPages(q) == MapThenSumSet(LAMBDA r : r[2] - r[1], q.locks)

Settled(m, s, c, locking) ==
    IF m.ok /\ locking THEN [m EXCEPT !.sp[s].locks = InsertRange(@, c.lo, c.hi + 1)] ELSE m

Recorded(m, t, c) ==
    IF m.ok /\ "w" \in c.prot THEN [m EXCEPT !.maps[t] = @ \union {[lo |-> c.lo, hi |-> c.hi, first |-> c.first]}] ELSE m

(* A private file mapping is filled with the file as a reader sees it. *)
FillPrivate(m, s, c) ==
    FoldLeft(LAMBDA a, p : IF a.ok THEN WriteInit(a, s, p, p, SeenByReader(a, c.first + p - c.lo)) ELSE a,
             Map(m, s, c.lo, c.hi, c.prot), Run(c.lo, c.hi))

MmapUnlocked(m, t, s, c) ==
    IF c.what = "sharedfile" THEN Recorded(PcMapShared(m, s, c.lo, c.first, c.hi - c.lo + 1, c.prot), t, c)
    ELSE IF c.what = "file" THEN FillPrivate(m, s, c)
    ELSE IF c.what = "shared" /\ "w" \in c.prot THEN MapSharedAnon(m, s, c.lo, c.hi, c.prot)
    ELSE Map(m, s, c.lo, c.hi, c.prot)

SysMmap(m, t, s, c) ==
    IF (c.locked \/ m.sp[s].future) /\ LockedPages(m.sp[s]) + c.hi - c.lo + 1 > MemlockLimit THEN Fail(m)
    ELSE Settled(MmapUnlocked(m, t, s, c), s, c, c.locked \/ m.sp[s].future)

SysMunmap(m, t, s, c) == PcGc(Unmap(Forget(FlushMaps(m, t, c.lo, c.hi), t, c.lo, c.hi), s, c.lo, c.hi))

SysMsync(m, t, c) == [FlushMaps(m, t, c.lo, c.hi) EXCEPT !.ok = TRUE]

SysMlock(m, s, c) ==
    IF \/ ~(c.lo .. c.hi \subseteq m.sp[s].mapped)
       \/ LockedPages(m.sp[s]) + (c.hi - c.lo + 1) - LockedWithin(m.sp[s].locks, c.lo, c.hi + 1) > MemlockLimit
    THEN Fail(m)
    ELSE [m EXCEPT !.ok = TRUE, !.sp[s].locks = InsertRange(@, c.lo, c.hi + 1)]

SysMunlock(m, s, c) ==
    IF ~(c.lo .. c.hi \subseteq m.sp[s].mapped) THEN Fail(m)
    ELSE [m EXCEPT !.ok = TRUE, !.sp[s].locks = RemoveRange(@, c.lo, c.hi + 1)]

(* `lock_all' inserts the mapped pages run by run. *)
LockAll(m, s, current, future) ==
    [m EXCEPT !.ok = TRUE, !.sp[s].future = future,
              !.sp[s].locks = FoldLeft(LAMBDA r, p : IF current /\ p \in m.sp[s].mapped THEN InsertRange(r, p, p + 1) ELSE r,
                                       @, Run(Min(Pages), Max(Pages)))]

SysMlockall(m, s, c) ==
    IF c.current /\ Cardinality(m.sp[s].mapped) > MemlockLimit THEN Fail(m) ELSE LockAll(m, s, c.current, c.future)

SysMunlockall(m, s) == [m EXCEPT !.ok = TRUE, !.sp[s].locks = {}, !.sp[s].future = FALSE]

(* madvise: DONTNEED zeroes private pages, REMOVE shared ones too. *)
Zeroes(m, s, p, c) == p \notin m.sp[s].filed /\ (p \notin m.sp[s].shared \/ Translate(m, s, p) = 0 \/ c.what = "remove")
Kept(m, was) == [m EXCEPT !.ok = @ /\ was]

SysMadvise(m, s, c) ==
    IF ~(c.lo .. c.hi \subseteq m.sp[s].mapped) THEN Fail(m)
    ELSE IF c.what \in {"dont", "wipe", "keep"} THEN SetForkPolicy(m, s, c.lo, c.hi, c.what)
    ELSE FoldLeft(LAMBDA a, p : IF Zeroes(a, s, p, c) THEN Kept(Write(a, s, p, p, 0), a.ok) ELSE a,
                  [m EXCEPT !.ok = TRUE], Run(c.lo, c.hi))

(* mremap to a new place: shared pages take their frames along, private ones   *)
(* are copied.                                                                 *)
SharedRun(m, s, lo, hi) == \A p \in lo .. hi : p \in m.sp[s].mapped /\ p \in m.sp[s].shared /\ Translate(m, s, p) # 0

CopyPages(m, s, c, hi) ==
    IF ~Allowed(m, s, c.lo, hi, "r") THEN m
    ELSE FoldLeft(LAMBDA a, p : WriteInit(a, s, c.to + p - c.lo, c.to + p - c.lo, Content(a, s, p)), m, Run(c.lo, hi))

Widened(m, s, c, hi, prot) ==
    IF m.ok /\ c.n > hi - c.lo + 1 THEN MapSharedAnon(m, s, c.to + hi - c.lo + 1, c.to + c.n - 1, prot) ELSE m

Moved(m, t, s, c, prot) ==
    IF ~m.ok THEN m
    ELSE [IF c.dontunmap THEN Map(m, s, c.lo, c.hi, prot) ELSE Unmap(m, s, c.lo, c.hi)
            EXCEPT !.maps[t] = {IF x.lo = c.lo THEN [x EXCEPT !.lo = c.to, !.hi = c.to + Min({x.hi - x.lo, c.n - 1})] ELSE x : x \in @}]

(* `hi' is the last page that moves. *)
MremapMove(m, t, s, c, hi, prot) ==
    Moved(IF SharedRun(m, s, c.lo, hi)
          THEN Widened(MapFrames(m, s, c.to, [i \in 1 .. (hi - c.lo + 1) |-> Translate(m, s, c.lo + i - 1)], prot), s, c, hi, prot)
          ELSE CopyPages(Map(m, s, c.to, c.to + c.n - 1, prot), s, c, hi), t, s, c, prot)

Extra(c) == (c.hi + 1) .. (c.lo + c.n - 1)
Way(m, s, c) ==
    CASE ~(c.lo .. c.hi \subseteq m.sp[s].mapped) -> "refused"
      [] c.fixed -> IF c.to =< c.hi /\ c.lo =< c.to + c.n - 1 THEN "refused" ELSE "moved"
      [] c.n =< c.hi - c.lo + 1 /\ ~c.dontunmap -> "shrunk"
      [] ~c.dontunmap /\ Extra(c) \subseteq Pages \ m.sp[s].mapped -> "grown"
      [] OTHER -> "moved"

SysMremap(m, t, s, c) ==
    CASE Way(m, s, c) = "refused" -> Fail(m)
      [] Way(m, s, c) = "shrunk" -> Unmap(m, s, c.lo + c.n, c.hi)
      [] Way(m, s, c) = "grown" -> Map(m, s, c.hi + 1, c.lo + c.n - 1, Prot(m, s, c.lo))
      [] Way(m, s, c) = "moved" -> MremapMove(m, t, s, c, Min({c.hi, c.lo + c.n - 1}), Prot(m, s, c.lo))

(* fork gives the child the parent's mappings to write back, and flushes the   *)
(* translations of the vcpu that forks.                                        *)
Born(m, t, u, c) ==
    IF ~m.ok THEN m
    ELSE [m EXCEPT !.mm[u] = c, !.maps[u] = m.maps[t], !.tlb[t] = [p \in Pages |-> NoLeaf], !.tlb[u] = [p \in Pages |-> NoLeaf]]

SysFork(m, t, u, s, c) == Born(TryFork(m, s, c), t, u, c)

SysThread(m, t, u, s) ==
    [m EXCEPT !.ok = TRUE, !.mm[u] = s, !.maps[u] = m.maps[t], !.tlb[t] = [p \in Pages |-> NoLeaf], !.tlb[u] = [p \in Pages |-> NoLeaf]]

(* execve: write back, rebuild the space, load the image's page. *)
Loaded(m, s, c) == [WriteInit(Map(m, s, c.lo, c.hi, c.prot), s, c.lo, c.hi, c.v) EXCEPT !.sp[s].filed = c.lo .. c.hi]
NewTables(m, t, s, was) == IF m.sp[s].root = was THEN m ELSE [m EXCEPT !.tlb[t] = [p \in Pages |-> NoLeaf]]

SysExecve(m, t, s, c) ==
    NewTables(Loaded(PcGc(ResetSpace([FlushAll(m, t) EXCEPT !.maps[t] = {}], s)), s, c), t, s, m.sp[s].root)

Gone(m, t) == [m EXCEPT !.ok = TRUE, !.mm[t] = 0, !.maps[t] = {}, !.tlb[t] = [p \in Pages |-> NoLeaf]]

SysExit(m, t, s) ==
    Gone(IF \E u \in Tasks \ {t} : m.mm[u] = s THEN FlushAll(m, t) ELSE PcGc(Retire(FlushAll(m, t), s)), t)
-----------------------------------------------------------------------------
(* A call ends by flushing the caller's vcpu if its page tables were edited.   *)

EndCall(m, t) ==
    IF m.mm[t] = 0 \/ ~m.sp[m.mm[t]].dirty THEN m
    ELSE [m EXCEPT !.sp[m.mm[t]].dirty = FALSE, !.tlb[t] = [p \in Pages |-> NoLeaf]]

FreeTasks(m) == {u \in Tasks : m.mm[u] = 0}
FreeSpaces(m) == {s \in Spaces : m.sp[s].root = 0 /\ \A u \in Tasks : m.mm[u] # s}

(* A placed mapping lands on pages the arena knows to be free. *)
Possible(m, t, c) ==
    /\ m.mm[t] # 0
    /\ c.call = "mmap" /\ ~c.fixed => m.sp[m.mm[t]].mapped \intersect (c.lo .. c.hi) = {}
    /\ c.call = "mremap" /\ ~c.fixed => m.sp[m.mm[t]].mapped \intersect (c.to .. (c.to + c.n - 1)) = {}
    /\ c.call \in {"fork", "thread"} => FreeTasks(m) # {}
    /\ c.call = "fork" => FreeSpaces(m) # {}
    /\ c.call = "execve" => \A u \in Tasks \ {t} : m.mm[u] # m.mm[t]

Perform(m, t, s, c) ==
    CASE c.call = "mmap" -> SysMmap(m, t, s, c)
      [] c.call = "munmap" -> SysMunmap(m, t, s, c)
      [] c.call = "msync" -> SysMsync(m, t, c)
      [] c.call = "mprotect" -> Protect(m, s, c.lo, c.hi, c.prot)
      [] c.call = "mlock" -> SysMlock(m, s, c)
      [] c.call = "munlock" -> SysMunlock(m, s, c)
      [] c.call = "mlockall" -> SysMlockall(m, s, c)
      [] c.call = "munlockall" -> SysMunlockall(m, s)
      [] c.call = "madvise" -> SysMadvise(m, s, c)
      [] c.call = "mremap" -> SysMremap(m, t, s, c)
      [] c.call = "read" -> Write(m, s, c.lo, c.hi, c.v)
      [] c.call = "write" -> VfsWrite(m, c.first, c.v)
      [] c.call = "fork" -> SysFork(m, t, Min(FreeTasks(m)), s, Min(FreeSpaces(m)))
      [] c.call = "thread" -> SysThread(m, t, Min(FreeTasks(m)), s)
      [] c.call = "execve" -> SysExecve(m, t, s, c)
      [] c.call = "exit" -> SysExit(m, t, s)

(* A guest access through the translation the vcpu has, or the tables.         *)
Entry(m, t, p) == IF m.tlb[t][p].f # 0 THEN m.tlb[t][p] ELSE m.sp[m.mm[t]].leaf[p]
Flushed(m, t) == [m EXCEPT !.tlb[t] = [p \in Pages |-> NoLeaf]]

Unresolved(m, t, before) == IF m.ok THEN Flushed(m, t) ELSE SysExit(before, t, before.mm[t])
TryCow(m, t, p, write, before) ==
    IF m.ok THEN Flushed(m, t) ELSE Unresolved(CowFault(before, before.mm[t], p, write), t, before)

(* `service(Exit::MemFault)': back the page, or make it private, or die.       *)
MemFault(m, t, p, write) == TryCow(DemandFault(m, m.mm[t], p), t, p, write, m)

Tried(m, t, p, before) == IF m.ok THEN m ELSE MemFault(before, t, p, TRUE)

Store(m, t, p, v) ==
    IF ~Cases[kase].hw THEN Tried(Write(m, m.mm[t], p, p, v), t, p, m)
    ELSE IF Entry(m, t, p).w THEN [m EXCEPT !.tlb[t][p] = Entry(m, t, p), !.data[Entry(m, t, p).f] = v]
    ELSE MemFault(m, t, p, TRUE)

Load(m, t, p) ==
    IF ~Cases[kase].hw THEN IF Allowed(m, m.mm[t], p, p, "r") THEN m ELSE MemFault(m, t, p, FALSE)
    ELSE IF Entry(m, t, p).f # 0 THEN [m EXCEPT !.tlb[t][p] = Entry(m, t, p)]
    ELSE MemFault(m, t, p, FALSE)

(* History: the translations a vcpu has of leaves that were edited under it,   *)
(* by a call of another thread or by the `map' of a page that was there        *)
(* (neither flushes it), and whether one was stored through.                   *)
Over(c) ==
    CASE c.call = "mmap" /\ c.what # "sharedfile" -> c.lo .. c.hi
      [] c.call = "mremap" -> (c.to .. (c.to + c.n - 1)) \union (IF c.dontunmap THEN c.lo .. c.hi ELSE {})
      [] OTHER -> {}
Behind(m, m1, t, over) ==
    LET s == m.mm[t]
        edited == {p \in Pages : m.sp[s].leaf[p] # m1.sp[s].leaf[p]}
    IN [m1 EXCEPT !.behind = [u \in Tasks |-> {p \in Pages : /\ m1.tlb[u][p].f # 0
                                                              /\ \/ p \in m.behind[u]
                                                                 \/ m.mm[u] = s /\ p \in (IF u = t THEN over ELSE Pages) \intersect edited}]]
Outdated(m, t, p) == m.tlb[t][p].f # 0 /\ m.tlb[t][p] # m.sp[m.mm[t]].leaf[p]

(* Whether the store itself happens in this step. *)
Lands(m, t, p) ==
    IF Cases[kase].hw THEN Entry(m, t, p).w ELSE Write(m, m.mm[t], p, p, 0).ok
-----------------------------------------------------------------------------
(* What the calls promise: every page a process has mapped holds a value, and  *)
(* pages that share an object (`kin') always hold the same one.  A page whose  *)
(* mapping failed half way holds Unspecified.                                  *)

Unspecified == -1
At(s, ps) == {<<s, p>> : p \in ps}
Places == UNION {At(s, Pages) : s \in Spaces} \union At(0, FilePages)
Class(w, l) == CHOOSE c \in w.kin : l \in c

Put(w, ls, v) ==
    [w EXCEPT !.val = [l \in Places |-> IF \E x \in ls : l \in Class(w, x) /\ @[x] # Unspecified THEN v ELSE @[l]]]

Alone(w, ls, v) ==
    [w EXCEPT !.val = [l \in Places |-> IF l \in ls THEN v ELSE @[l]],
              !.kin = ({c \ ls : c \in @} \ {{}}) \union {{l} : l \in ls}]

Join(w, l, with) ==
    [w EXCEPT !.val[l] = w.val[with],
              !.kin = (({c \ {l} : c \in @} \ {{}}) \ {Class(w, with) \ {l}}) \union {Class(w, with) \union {l}}]

Inherit(w, q, s, c) ==
    FoldSet(LAMBDA p, a : IF p \notin q.mapped \/ q.policy[p] = "dont" THEN a
                          ELSE IF q.policy[p] = "wipe" THEN Alone(a, {<<c, p>>}, 0)
                          ELSE IF p \in q.shared THEN Join(a, <<c, p>>, <<s, p>>)
                          ELSE Alone(a, {<<c, p>>}, w.val[<<s, p>>]),
            Alone(w, At(c, Pages), 0), Pages)

Follow(w, s, c, how) ==
    FoldSet(LAMBDA p, a : IF how = "join" THEN Join(a, <<s, c.to + p - c.lo>>, <<s, p>>)
                          ELSE Alone(a, {<<s, c.to + p - c.lo>>}, IF how = "copy" THEN w.val[<<s, p>>] ELSE 0),
            Alone(w, At(s, c.to .. (c.to + c.n - 1)), 0), c.lo .. Min({c.hi, c.lo + c.n - 1}))

Resized(w, m, s, c, way, hi) ==
    CASE way = "shrunk" -> Alone(w, At(s, (c.lo + c.n) .. c.hi), 0)
      [] way = "grown" -> Alone(w, At(s, Extra(c)), 0)
      [] way = "moved" -> Alone(Follow(w, s, c, IF SharedRun(m, s, c.lo, hi) THEN "join" ELSE IF Allowed(m, s, c.lo, hi, "r") THEN "copy" ELSE "zero"),
                                At(s, c.lo .. c.hi), 0)

Placed(w, s, c) ==
    IF c.what = "sharedfile"
    THEN FoldSet(LAMBDA p, a : Join(a, <<s, p>>, <<0, c.first + p - c.lo>>), w, c.lo .. c.hi)
    ELSE IF c.what = "file"
    THEN FoldSet(LAMBDA p, a : Alone(a, {<<s, p>>}, w.val[<<0, c.first + p - c.lo>>]), w, c.lo .. c.hi)
    ELSE Alone(w, At(s, c.lo .. c.hi), 0)

Expect(w, m, m1, t, s, c) ==
    CASE c.call = "mmap" -> IF m1.ok THEN Placed(w, s, c)
                            ELSE IF m1.sp = m.sp THEN w ELSE Alone(w, At(s, c.lo .. c.hi), Unspecified)
      [] c.call = "munmap" -> Alone(w, At(s, c.lo .. c.hi), 0)
      [] c.call = "madvise" /\ c.what \in {"dontneed", "remove"} ->
           IF ~m1.ok THEN Alone(w, At(s, {p \in c.lo .. c.hi : Zeroes(m, s, p, c)}), Unspecified)
           ELSE Put(w, At(s, {p \in c.lo .. c.hi : Zeroes(m, s, p, c)}), 0)
      [] c.call = "mremap" -> IF ~m1.ok THEN IF m1.sp = m.sp THEN w ELSE Alone(w, Places, Unspecified)
                              ELSE Resized(w, m, s, c, Way(m, s, c), Min({c.hi, c.lo + c.n - 1}))
      [] c.call = "read" -> IF m1.ok THEN Put(w, At(s, c.lo .. c.hi), c.v) ELSE w
      [] c.call = "write" -> Put(w, {<<0, c.first>>}, c.v)
      [] c.call = "fork" -> IF m1.ok THEN Inherit(w, m.sp[s], s, Min(FreeSpaces(m))) ELSE w
      [] c.call = "execve" -> Alone(Alone(w, At(s, Pages), 0), At(s, c.lo .. c.hi), IF m1.ok THEN c.v ELSE Unspecified)
      [] c.call = "exit" -> IF m1.sp[s].root = 0 THEN Alone(w, At(s, Pages), 0) ELSE w
      [] OTHER -> w

Cleared(w, m, m1, s) == IF m1.sp[s].root = 0 THEN Alone(w, At(s, Pages), 0) ELSE w

(* Calls after which nobody writes a file page back: its mapping was made      *)
(* read-only, may not be read, was cut or mapped over, or belongs to several   *)
(* threads, of which each keeps its own list.                                  *)
Sharers(m, s) == {u \in Tasks : m.mm[u] = s}
FileRun(x) == x.first .. (x.first + x.hi - x.lo)
Listed(m, s, lo, hi) == {x \in UNION {m.maps[u] : u \in Sharers(m, s)} : Overlaps(x, lo, hi)}
Loosens(m, s, c) ==
    LET alone == Cardinality(Sharers(m, s)) = 1
    IN CASE c.call = "mmap" -> UNION {FileRun(x) : x \in Listed(m, s, c.lo, c.hi)}
                               \union (IF c.what = "sharedfile" /\ ~("w" \in c.prot /\ alone) THEN FileRun(c) ELSE {})
         [] c.call = "munmap" -> UNION {FileRun(x) : x \in {y \in Listed(m, s, c.lo, c.hi) : ~(alone /\ c.lo =< y.lo /\ y.hi =< c.hi)}}
         [] c.call = "mremap" -> UNION {FileRun(x) : x \in {y \in Listed(m, s, c.lo, c.hi) : ~(alone /\ y.lo = c.lo /\ y.hi = c.hi /\ c.n > y.hi - y.lo)}
                                                             \union Listed(m, s, c.to, c.to + c.n - 1)}
         [] c.call = "mprotect" /\ "r" \notin c.prot -> UNION {FileRun(x) : x \in Listed(m, s, c.lo, c.hi)}
         [] c.call = "thread" -> UNION {FileRun(x) : x \in Listed(m, s, Min(Pages), Max(Pages))}
         [] OTHER -> {}

(* Such a page loses its stores when it leaves the cache; and a shared mapping *)
(* that runs out of memory leaves pages in the cache that were never filled.   *)
Lost(w, m, m1) ==
    Alone(w, At(0, {i \in w.loose : m.cache[i] # 0 /\ m1.cache[i] = 0}), Unspecified)
Unfilled(m, m1, c) ==
    IF c.call = "mmap" /\ ~m1.ok /\ c.what = "sharedfile" /\ \E i \in FileRun(c) : m1.cache[i] = 0
    THEN {i \in FileRun(c) : m.cache[i] # m1.cache[i]} ELSE {}
-----------------------------------------------------------------------------
Clean(m) == [m EXCEPT !.got = 0, !.old = 0, !.ok = TRUE, !.changed = FALSE]

(* A case bounds the calls made after boot, and the frames the pool has. *)
Booted(c) ==
    LET blank == [left |-> c.left, ref |-> [f \in Frames |-> 0], free |-> {f \in Frames : f =< c.frames}, data |-> [f \in Frames |-> 0],
                  sp |-> [s \in Spaces |-> Retired], mm |-> [t \in Tasks |-> IF t = 1 THEN 1 ELSE 0],
                  tlb |-> [t \in Tasks |-> [p \in Pages |-> NoLeaf]], behind |-> [t \in Tasks |-> {}], astray |-> FALSE, maps |-> [t \in Tasks |-> {}],
                  cache |-> [i \in FilePages |-> 0], disk |-> [i \in FilePages |-> 1],
                  got |-> 0, old |-> 0, ok |-> TRUE, changed |-> FALSE, panic |-> FALSE]
    IN Clean(ResetSpace(blank, 1))

Init ==
    /\ kase \in DOMAIN Cases
    /\ k = Booted(Cases[kase])
    /\ want = [val |-> [l \in Places |-> IF l[1] = 0 THEN 1 ELSE 0], kin |-> {{l} : l \in Places}, loose |-> {}]

SysCall(t) ==
    /\ k.left > 0
    /\ \E c \in Cases[kase].calls :
        /\ Possible(k, t, c)
        /\ \E m \in {Perform(k, t, k.mm[t], c)} :
              /\ k' = [Clean(Behind(k, EndCall(m, t), t, Over(c))) EXCEPT !.left = @ - 1]
              /\ want' = [Alone(Lost(Expect(want, k, m, t, k.mm[t], c), k, m), At(0, Unfilled(k, m, c)), Unspecified)
                            EXCEPT !.loose = @ \union Loosens(k, k.mm[t], c)]

GuestStore(t) ==
    \E p \in Cases[kase].stores, v \in Cases[kase].vals :
        /\ k.mm[t] # 0
        /\ \E m \in {Store(k, t, p, v)} :
              /\ k' = Clean([Behind(k, m, t, {}) EXCEPT !.astray = @ \/ Outdated(k, t, p)])
              /\ want' = Lost(IF Lands(k, t, p) THEN Put(want, {<<k.mm[t], p>>}, v) ELSE Cleared(want, k, m, k.mm[t]), k, m)

GuestLoad(t) ==
    \E p \in Cases[kase].loads :
        /\ k.mm[t] # 0
        /\ \E m \in {Load(k, t, p)} : k' = Clean(Behind(k, m, t, {})) /\ want' = Lost(Cleared(want, k, m, k.mm[t]), k, m)

Next == ~k.panic /\ UNCHANGED kase /\ \E t \in Tasks : SysCall(t) \/ GuestStore(t) \/ GuestLoad(t)

Spec == Init /\ [][Next]_vars
-----------------------------------------------------------------------------
Live == {s \in Spaces : k.sp[s].root # 0}

Holders(f) ==
    Cardinality({s \in Live : k.sp[s].root = f}) + Cardinality({s \in Live : k.sp[s].ctl = f})
    + Cardinality({s \in Live : k.sp[s].kstack = f}) + Cardinality({x \in Live \X Groups : k.sp[x[1]].pt[x[2]] = f})
    + Cardinality({x \in Live \X Pages : k.sp[x[1]].leaf[x[2]].f = f}) + Cardinality({i \in FilePages : k.cache[i] = f})

(* A frame is counted once for every table, leaf and cache entry that names    *)
(* it, and is free exactly when nothing does: `alloc', `incref' and `decref'   *)
(* balance on every path, the failing ones included.                           *)
FramesExact == \A f \in Frames : k.ref[f] = Holders(f) /\ (f \in k.free <=> f =< Cases[kase].frames /\ Holders(f) = 0)

(* Every mapped page reads as what its process last stored in it or in a page  *)
(* that shares its object, whatever was forked, copied on write, remapped,     *)
(* discarded or freed in between; and a reader of the file sees the stores of  *)
(* its shared mappings.  This holds until a vcpu stores through a translation  *)
(* it is behind on (see TranslationsCurrent), and once a file page is out of   *)
(* the cache only if no call let go of its write-back: flush_shared_maps       *)
(* forgets a mapping that munmap cuts, a mapping made read-only is never       *)
(* listed, MAP_FIXED and mremap over one flush nothing, each thread has its    *)
(* own list.  A pc_map_shared that fails half way leaves its pages unfilled.   *)
SeesOwnMemory == ~k.astray =>
    /\ \A s \in Live : \A p \in k.sp[s].mapped :
          want.val[<<s, p>>] # Unspecified => Content(k, s, p) = want.val[<<s, p>>]
    /\ \A i \in FilePages : want.val[<<0, i>>] # Unspecified => SeenByReader(k, i) = want.val[<<0, i>>]

(* A translation a vcpu may still use names the frame the page tables name,    *)
(* and writes only where they let it: every edit of a present leaf by the      *)
(* thread's own calls and faults is followed by a flush before the guest runs  *)
(* again (`tlb_dirty').  Two edits are not: GuestMemory::map clears the leaves *)
(* of pages it maps over and leaves tlb_dirty alone, and take_tlb_dirty tells  *)
(* only the vcpu of the thread that called.                                    *)
TranslationsCurrent ==
    \A t \in Tasks : k.mm[t] # 0 =>
        \A p \in Pages \ k.behind[t] : k.tlb[t][p].f # 0 =>
            /\ k.sp[k.mm[t]].leaf[p].f = k.tlb[t][p].f
            /\ k.tlb[t][p].w => k.sp[k.mm[t]].leaf[p].w

(* The locked ranges stay apart, lie on mapped pages, and never exceed what    *)
(* RLIMIT_MEMLOCK allowed when they were locked.                               *)
LocksExact ==
    \A s \in Live : /\ WellFormed(k.sp[s].locks)
                    /\ Covered(k.sp[s].locks) \subseteq k.sp[s].mapped
                    /\ LockedPages(k.sp[s]) =< MemlockLimit

(* The reserve covers what fork and execve take from it, so neither dies of an *)
(* exhausted pool half way (`expect("kstack: frame pool exhausted")').         *)
ReserveSuffices == ~k.panic

(* Frames, locks and the reserve are accounted for.                            *)
MemoryAccounted == FramesExact /\ LocksExact /\ ReserveSuffices
=============================================================================
