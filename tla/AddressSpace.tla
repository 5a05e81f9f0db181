---------------------------- MODULE AddressSpace ----------------------------
(***************************************************************************)
(* One guest address space: the pages mapped in it, its mmap arena, the    *)
(* program break and the SysV segments attached to it.  The system calls   *)
(* that place, move and remove mappings (mmap, munmap, mremap, brk, shmat, *)
(* shmdt, execve) and the stack-growth fault run under the space's memory  *)
(* lock and the kernel's shared lock, so each is one step.  The threads of *)
(* the space share everything here except the break: ProcInfo::brk is      *)
(* copied into every task when it is cloned.                               *)
(*                                                                         *)
(* Layout, in pages: the heap is HeapStart..Floor-1, the arena Floor..     *)
(* Top-1, the guard gap Top..StackLimit-1, the stack StackLimit..High-1.   *)
(* A break is counted in units, PageUnits to the page.                     *)
(***************************************************************************)
EXTENDS Arena, FiniteSets

CONSTANTS Threads,    \* the tasks that share the space
          HeapStart,  \* first page of the heap
          StackLimit, \* lowest page the stack may grow to
          High,       \* one past the highest page
          PageUnits,  \* units of the break per page
          MaxLen,     \* bound: pages per call
          MaxAttaches \* bound: segments attached at a time

ASSUME LayoutAssumption ==
    /\ {HeapStart, StackLimit, High, PageUnits, MaxLen, MaxAttaches} \subseteq Nat
    /\ HeapStart <= Floor /\ Top <= StackLimit /\ StackLimit < High
    /\ PageUnits > 0

VARIABLES arena,    \* Shared::mmap_areas[mm]
          mapped,   \* GuestMemory::mapped
          brk,      \* ProcInfo::brk of each thread, in units
          heap,     \* the mapped pages that brk put there
          attaches, \* ShmSeg::attaches: the (base, length) pairs of this space
          placed    \* the pages the last call mapped where the kernel chose

vars == <<arena, mapped, brk, heap, attaches, placed>>

Space == 0..(High - 1)
Lens == 1..MaxLen
Ranges == {r \in Space \X Lens : r[1] + r[2] <= High}

TypeOK ==
    /\ arena \in ArenaType
    /\ mapped \subseteq Space
    /\ brk \in [Threads -> Nat]
    /\ heap \subseteq mapped
    /\ attaches \subseteq Nat \X Nat
    /\ placed \subseteq Space

Init ==
    /\ arena = NewArena
    /\ mapped = {High - 1}
    /\ brk = [t \in Threads |-> HeapStart * PageUnits]
    /\ heap = {}
    /\ attaches = {}
    /\ placed = {}

-----------------------------------------------------------------------------
Called == placed' = {}

Map(pages) == mapped' = mapped \cup pages

Unmap(pages) == mapped' = mapped \ pages /\ heap' = heap \ pages

\* mmap with no address: the arena picks the place.  With no room the call
\* fails and changes nothing.  A mapping of shared frames (a file's or a
\* segment's) that runs out of page tables fails after the arena has given
\* the range away, with the first got of its pages mapped.
MmapAnywhere(len, got) ==
    LET r == Alloc(arena, len)
    IN /\ r.base # NoAddr
       /\ arena' = r.arena
       /\ Map(Pages(r.base, got))
       /\ placed' = Pages(r.base, got)
       /\ UNCHANGED <<brk, heap, attaches>>

\* mmap with MAP_FIXED: replaces whatever is there; with MAP_FIXED_NOREPLACE
\* (replace = FALSE) any page already mapped refuses the call.
MmapFixed(base, len, got, replace) ==
    /\ replace \/ Pages(base, len) \cap mapped = {}
    /\ arena' = Claim(arena, base, len)
    /\ Map(Pages(base, got))
    /\ heap' = heap \ Pages(base, got)
    /\ Called
    /\ UNCHANGED <<brk, attaches>>

\* munmap also detaches every segment it touches.
Munmap(base, len) ==
    /\ Unmap(Pages(base, len))
    /\ attaches' = {a \in attaches : Pages(a[1], a[2]) \cap Pages(base, len) = {}}
    /\ arena' = FreeRange(arena, base, len)
    /\ Called
    /\ UNCHANGED brk

\* The source of every mremap must be mapped in full.
MremapShrink(base, old, new) ==
    /\ Pages(base, old) \subseteq mapped
    /\ new <= old
    /\ Unmap(Pages(base + new, old - new))
    /\ arena' = FreeRange(arena, base + new, old - new)
    /\ Called
    /\ UNCHANGED <<brk, attaches>>

\* Growing in place, into freed pages of the arena that nothing has mapped.
MremapGrow(base, old, new) ==
    /\ Pages(base, old) \subseteq mapped
    /\ new > old
    /\ IsFree(arena, base + old, new - old)
    /\ Pages(base + old, new - old) \cap mapped = {}
    /\ Map(Pages(base + old, new - old))
    /\ arena' = Claim(arena, base + old, new - old)
    /\ Called
    /\ UNCHANGED <<brk, heap, attaches>>

\* Mutant of MremapMove: the source is given back before the destination is
\* chosen, which may then lie over it.
MremapMoveFreesFirst(base, old, new, keep) ==
    LET r == Alloc(IF keep THEN arena ELSE FreeRange(arena, base, old), new)
    IN /\ Pages(base, old) \subseteq mapped
       /\ IF keep THEN new = old ELSE new > old
       /\ r.base # NoAddr
       /\ placed' = Pages(r.base, new)
       /\ mapped' = (mapped \ (IF keep THEN {} ELSE Pages(base, old)))
                        \cup Pages(r.base, new)
       /\ heap' = heap \ Pages(base, old)
       /\ arena' = r.arena
       /\ UNCHANGED <<brk, attaches>>

\* MREMAP_MAYMOVE when growing in place is not possible, or when the source
\* is to stay mapped (keep, MREMAP_DONTUNMAP, which does not resize).
MremapMove(base, old, new, keep) ==
    LET r == Alloc(arena, new)
    IN /\ Pages(base, old) \subseteq mapped
       /\ IF keep THEN new = old
          ELSE /\ new > old
               /\ ~(/\ IsFree(arena, base + old, new - old)
                    /\ Pages(base + old, new - old) \cap mapped = {})
       /\ r.base # NoAddr
       /\ placed' = Pages(r.base, new)
       /\ mapped' = (mapped \cup Pages(r.base, new))
                        \ (IF keep THEN {} ELSE Pages(base, old))
       /\ heap' = heap \ Pages(base, old)
       /\ arena' = IF keep THEN r.arena ELSE FreeRange(r.arena, base, old)
       /\ UNCHANGED <<brk, attaches>>

MremapFixed(base, old, to, new, keep) ==
    /\ Pages(base, old) \subseteq mapped
    /\ keep => new = old
    /\ Pages(to, new) \cap Pages(base, old) = {}
    /\ mapped' = (mapped \cup Pages(to, new)) \ (IF keep THEN {} ELSE Pages(base, old))
    /\ heap' = heap \ (Pages(base, old) \cup Pages(to, new))
    /\ LET claimed == Claim(arena, to, new)
       IN arena' = IF keep THEN claimed ELSE FreeRange(claimed, base, old)
    /\ Called
    /\ UNCHANGED <<brk, attaches>>

-----------------------------------------------------------------------------
PageUp(u) == (u + PageUnits - 1) \div PageUnits

\* Mutant of HeapStep: the page a mid-page break sits on is mapped again.
HeapStepRoundedDown(from, addr) == (from \div PageUnits)..(PageUp(addr) - 1)

\* The whole pages a thread's break gains or loses by moving to addr.
HeapStep(from, addr) == PageUp(from)..(PageUp(addr) - 1)

\* brk by thread t.  Growing maps the pages between the thread's own break
\* and addr, up to the limit of the heap; shrinking unmaps them.
Brk(t, addr) ==
    /\ addr >= HeapStart * PageUnits
    /\ \/ /\ addr > brk[t]
          /\ PageUp(addr) <= Floor
          /\ Map(HeapStep(brk[t], addr))
          /\ heap' = heap \cup HeapStep(brk[t], addr)
       \/ /\ addr <= brk[t]
          /\ Unmap(HeapStep(addr, brk[t]))
    /\ brk' = [brk EXCEPT ![t] = addr]
    /\ Called
    /\ UNCHANGED <<arena, attaches>>

\* shmat; one that fails part-way is not attached, and leaves what an mmap
\* that fails part-way leaves.
ShmatAnywhere(len) ==
    LET r == Alloc(arena, len)
    IN /\ Cardinality(attaches) < MaxAttaches
       /\ r.base # NoAddr
       /\ arena' = r.arena
       /\ Map(Pages(r.base, len))
       /\ placed' = Pages(r.base, len)
       /\ attaches' = attaches \cup {<<r.base, len>>}
       /\ UNCHANGED <<brk, heap>>

ShmatFixed(base, len, remap) ==
    /\ Cardinality(attaches) < MaxAttaches
    /\ remap \/ Pages(base, len) \cap mapped = {}
    /\ arena' = Claim(arena, base, len)
    /\ Map(Pages(base, len))
    /\ heap' = heap \ Pages(base, len)
    /\ attaches' = attaches \cup {<<base, len>>}
    /\ Called
    /\ UNCHANGED brk

Shmdt(a) ==
    /\ a \in attaches
    /\ Unmap(Pages(a[1], a[2]))
    /\ arena' = FreeRange(arena, a[1], a[2])
    /\ attaches' = attaches \ {a}
    /\ Called
    /\ UNCHANGED brk

\* A fault in the unmapped part of the stack maps from there up to the first
\* mapped page.
GrowStack(page) ==
    /\ page \in StackLimit..(High - 1)
    /\ page \notin mapped
    /\ LET end == CHOOSE e \in page..High :
                      /\ e = High \/ e \in mapped
                      /\ page..(e - 1) \cap mapped = {}
       IN Map(page..(end - 1))
    /\ Called
    /\ UNCHANGED <<arena, brk, heap, attaches>>

\* execve by thread t.  Past the point of no return the old pages are gone
\* whatever happens; when the program's interpreter cannot be read or the
\* image does not load the call still fails.
Exec(t, loads) ==
    /\ attaches' = {}
    /\ heap' = {}
    /\ placed' = {}
    /\ IF loads
       THEN /\ mapped' = {High - 1}
            /\ arena' = NewArena
            /\ brk' = [brk EXCEPT ![t] = HeapStart * PageUnits]
       ELSE mapped' = {} /\ UNCHANGED <<arena, brk>>

Next ==
    \/ \E len \in Lens : \/ \E got \in 0..len : MmapAnywhere(len, got)
                         \/ ShmatAnywhere(len)
    \/ \E r \in Ranges, b \in BOOLEAN :
          \/ \E got \in 0..r[2] : MmapFixed(r[1], r[2], got, b)
          \/ ShmatFixed(r[1], r[2], b)
    \/ \E r \in Ranges : Munmap(r[1], r[2])
    \/ \E r \in Ranges, new \in Lens :
          \/ MremapShrink(r[1], r[2], new)
          \/ MremapGrow(r[1], r[2], new)
          \/ \E keep \in BOOLEAN :
                \/ MremapMove(r[1], r[2], new, keep)
                \/ \E to \in 0..(High - new) : MremapFixed(r[1], r[2], to, new, keep)
    \/ \E t \in Threads, addr \in 0..((Floor + 1) * PageUnits) : Brk(t, addr)
    \/ \E a \in attaches : Shmdt(a)
    \/ \E page \in Space : GrowStack(page)
    \/ \E t \in Threads, loads \in BOOLEAN : Exec(t, loads)

Spec == Init /\ [][Next]_vars

-----------------------------------------------------------------------------
\* The arena never counts a mapped page as available: were one available, a
\* later mmap would be placed on it and zero-fill it under its owner (the
\* hazard the comment on Arena::claim describes).
AvailableUnmapped == Available(arena) \cap mapped = {}

\* A call that lets the kernel choose the place never lands on a page that
\* is already mapped.
PlacedOnFreshPages == [][placed' \cap mapped = {}]_vars

\* Growing the break maps only pages "NOT already backing the heap" (comment
\* in sys_brk): mapping zero-fills, so a page already in use would be wiped.
\* The condition: no other thread of the space has a higher break.  Every
\* task has a break of its own, copied at clone and never brought up to date,
\* and a thread whose break is behind another's maps pages of the live heap
\* again.
BreakMapsFreshPages ==
    [][\A t \in Threads :
          /\ brk'[t] > brk[t]
          /\ \A u \in Threads : brk[u] <= brk[t]
          => HeapStep(brk[t], brk'[t]) \cap heap = {}]_vars
=============================================================================
