------------------------------ MODULE MCMemory ------------------------------
(* Small memories for TLC. *)
EXTENDS Memory

Rw == {"r", "w"}
Mmap(lo, hi, what, prot) ==
    [call |-> "mmap", lo |-> lo, hi |-> hi, what |-> what, prot |-> prot, first |-> 1, locked |-> FALSE, fixed |-> FALSE]
Fixed(c) == [c EXCEPT !.fixed = TRUE]
Span1(call, lo, hi) == [call |-> call, lo |-> lo, hi |-> hi]
Advise(lo, hi, what) == [call |-> "madvise", lo |-> lo, hi |-> hi, what |-> what]
Mprotect(lo, hi, prot) == [call |-> "mprotect", lo |-> lo, hi |-> hi, prot |-> prot]
Mremap(lo, hi, n, to, keep) == [call |-> "mremap", lo |-> lo, hi |-> hi, n |-> n, to |-> to, dontunmap |-> keep, fixed |-> FALSE]
Lockall(current, future) == [call |-> "mlockall", current |-> current, future |-> future]
Read(lo, hi, v) == [call |-> "read", lo |-> lo, hi |-> hi, v |-> v]
FileWrite(i, v) == [call |-> "write", first |-> i, v |-> v]
Exec == [call |-> "execve", lo |-> 1, hi |-> 1, prot |-> {"r"}, v |-> 1]
Just(call) == [call |-> call]

(* Copy on write through two forks, on a vcpu that keeps translations. *)
CowCase ==
    [hw |-> TRUE, frames |-> 16, left |-> 4, vals |-> {1, 2}, stores |-> {1}, loads |-> {1},
     calls |-> {Mmap(1, 2, "anon", Rw), Mmap(3, 3, "shared", Rw), Span1("munmap", 1, 1), Mprotect(1, 3, {"r"}),
                Mprotect(1, 3, Rw), Just("fork"), Just("exit")}]

(* The same with a pool that runs dry, and calls that write guest memory. *)
DryCase ==
    [hw |-> TRUE, frames |-> 13, left |-> 5, vals |-> {1}, stores |-> {1}, loads |-> {2},
     calls |-> {Mmap(1, 3, "anon", Rw), Mmap(1, 3, "shared", Rw), Mmap(1, 2, "sharedfile", Rw), Read(1, 3, 2), Exec, Just("fork"), Just("exit")}]

(* Mappings of a file, shared and private, with readers and writers of it. *)
FileCase ==
    [hw |-> TRUE, frames |-> 16, left |-> 4, vals |-> {2}, stores |-> {1, 2}, loads |-> {3},
     calls |-> {Mmap(1, 1, "sharedfile", Rw), [Mmap(2, 2, "sharedfile", Rw) EXCEPT !.first = 2], Mmap(3, 3, "file", Rw),
                Span1("munmap", 1, 2), Span1("msync", 1, 2), FileWrite(1, 2), Exec, Just("fork"), Just("exit")}]

(* A shared mapping of two pages that is cut, mapped over, moved, protected,   *)
(* used by two threads.                                                        *)
CutCase ==
    [hw |-> FALSE, frames |-> 16, left |-> 4, vals |-> {2}, stores |-> {1}, loads |-> {},
     calls |-> {Mmap(1, 2, "sharedfile", Rw), Mmap(1, 2, "sharedfile", {"r"}), Mprotect(1, 1, Rw), Mprotect(1, 1, {}), Span1("munmap", 1, 1),
                Span1("munmap", 1, 2), Fixed(Mmap(2, 2, "anon", Rw)), Fixed(Mremap(1, 2, 1, 3, FALSE)), Mremap(1, 2, 1, 3, FALSE),
                Just("thread"), Just("fork"), Just("exit")}]

(* Edits of a page that two vcpus have translations of. *)
ThreadCase ==
    [hw |-> TRUE, frames |-> 16, left |-> 4, vals |-> {1}, stores |-> {1}, loads |-> {1},
     calls |-> {Mmap(1, 1, "anon", Rw), Fixed(Mmap(1, 1, "anon", Rw)), Fixed(Mmap(1, 1, "shared", Rw)), Mremap(1, 1, 1, 3, TRUE),
                Span1("munmap", 1, 1), Mprotect(1, 1, {"r"}), Mprotect(1, 1, Rw), Just("thread"), Just("fork"), Just("exit")}]

(* Advice and moves, on the interpreter. *)
AdviceCase ==
    [hw |-> FALSE, frames |-> 16, left |-> 4, vals |-> {2}, stores |-> {1}, loads |-> {},
     calls |-> {Fixed(Mmap(1, 1, "anon", Rw)), Fixed(Mmap(1, 2, "shared", Rw)), Advise(1, 1, "dontneed"), Advise(1, 1, "remove"),
                Advise(1, 2, "dont"), Advise(1, 1, "wipe"), Mremap(1, 1, 1, 3, FALSE), Mremap(1, 1, 2, 2, FALSE), Mremap(1, 2, 1, 3, FALSE), Fixed(Mremap(1, 1, 2, 2, FALSE)), Mremap(1, 1, 1, 3, TRUE), Just("fork")}]

(* Locks, with threads of one address space. *)
LockCase ==
    [hw |-> FALSE, frames |-> 16, left |-> 5, vals |-> {}, stores |-> {}, loads |-> {},
     calls |-> {Mmap(1, 3, "anon", Rw), [Mmap(2, 2, "anon", Rw) EXCEPT !.locked = TRUE, !.fixed = TRUE], Span1("munmap", 2, 2),
                Span1("mlock", 1, 1), Span1("mlock", 2, 3), Span1("mlock", 3, 3), Span1("munlock", 1, 2), Lockall(TRUE, FALSE),
                Lockall(FALSE, TRUE), Just("munlockall"), Just("thread"), Just("fork"), Exec, Just("exit")}]

AllCases == [cow |-> CowCase, dry |-> DryCase, file |-> FileCase, advice |-> AdviceCase, lock |-> LockCase, cut |-> CutCase, thread |-> ThreadCase]
MemCases == LET cases == AllCases IN cases
=============================================================================
