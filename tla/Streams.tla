------------------------------ MODULE Streams ------------------------------
(***************************************************************************)
(* The kernel's byte streams other than sockets: pipes, the calls that     *)
(* move bytes between a pipe and something else (splice, tee, vmsplice),   *)
(* and pseudo-terminals with their line discipline.                        *)
(*   k.pipes   sequence of [buf, cap, readers, writers, rnb, wnb]          *)
(*   k.ptys    sequence of terminals (NewPty)                              *)
(*   k.ofds    sequence of [file, pos, append], the open files             *)
(*   k.files   file -> its bytes                                           *)
(* Descriptors: [kind "pipe_r"/"pipe_w", pipe], [kind "pty_m"/"pty_s",     *)
(* pty], [kind "file", ofd, r, w].  A byte is a string: "nl", "cr", the    *)
(* name of a special character, or an ordinary one.                        *)
(***************************************************************************)
EXTENDS Sockets

CONSTANTS PipeCapacity,   \* PIPE_DEFAULT_CAPACITY
          PipeBufCap,     \* PIPE_BUF_CAP, the most one splice moves into a pipe
          AtomicWrite,    \* PIPE_ATOMIC_WRITE
          MaxQueued       \* pty::MAX_QUEUED

\* ------------------------------------------------------------------ pipes
SysPipe2(k, t, nb, writable) ==
    LET i == Len(k.pipes) + 1
        r == [k EXCEPT !.pipes = Append(@, [buf |-> << >>, cap |-> PipeCapacity, readers |-> 1,
                                            writers |-> 1, rnb |-> nb, wnb |-> nb])]
        rd == Install(r, t, [kind |-> "pipe_r", pipe |-> i])
        wr == Install(rd, t, [kind |-> "pipe_w", pipe |-> i])
    IN  IF writable THEN Return(wr, <<rd.val, wr.val>>) ELSE Answer(wr, "EFAULT")

\* read_pipe takes the bytes out before it copies them.
ReadPipe(k, i, count, writable) ==
    LET p == k.pipes[i]
        n == Min({count, Len(p.buf)})
        r == [k EXCEPT !.pipes[i].buf = SubSeq(@, n + 1, Len(@))]
    IN  IF p.buf = << >> THEN
            IF p.writers = 0 THEN Return(k, << >>) ELSE WouldBlock(k, p.rnb)
        ELSE IF writable THEN Return(r, SubSeq(p.buf, 1, n)) ELSE Answer(r, "EFAULT")

PipeRoom(p) == Max({0, p.cap - Len(p.buf)})
\* pipe_write_from: as much as fits, carrying on from io_progress
PipeWriteFromStart(k, t, i, data) ==
    LET p == k.pipes[i]
        n == Min({Len(data), PipeRoom(p)})
        r == [k EXCEPT !.pipes[i].buf = @ \o SubSeq(data, 1, n)]
    IN  IF n = Len(data) THEN Return(r, n) ELSE Answer(r, "block")
PipeWriteFrom(k, t, i, data) ==
    LET p == k.pipes[i]
        done0 == k.procs[t].progress
        left == Max({0, Len(data) - done0})
        n == IF left <= AtomicWrite /\ PipeRoom(p) < left THEN 0 ELSE Min({left, PipeRoom(p)})
        done == done0 + n
        idle == [k EXCEPT !.procs[t].progress = 0]
        moved == [idle EXCEPT !.pipes[i].buf = @ \o SubSeq(data, done0 + 1, done)]
    IN  IF p.readers = 0 THEN
            IF done0 > 0 THEN Return(idle, done0) ELSE Answer(RaiseSigpipe(idle, t), "EPIPE")
        ELSE IF done >= Len(data) THEN Return(moved, Len(data))
        ELSE IF p.wnb THEN IF done > 0 THEN Return(moved, done) ELSE Answer(moved, "EAGAIN")
        ELSE Answer([moved EXCEPT !.procs[t].progress = done], "block")

\* ------------------------------------------------------------------ files
FileBytes(k, f) == k.files[k.ofds[f.ofd].file]
WriteAt(s, pos, data) ==
    [i \in 1..Max({Len(s), pos + Len(data)}) |->
        IF i > pos /\ i <= pos + Len(data) THEN data[i - pos] ELSE IF i <= Len(s) THEN s[i] ELSE "0"]
ReadAt(s, pos, n) == SubSeq(s, pos + 1, Min({Len(s), pos + n}))
\* advance_off: `at` is the caller's own offset, Never when the file's is used
Advance(k, f, at, pos) == IF at = Never THEN [k EXCEPT !.ofds[f.ofd].pos = pos] ELSE k
PosOf(k, f, at) == IF at = Never THEN k.ofds[f.ofd].pos ELSE at
WriteFileFd(k, f, data) ==
    LET o == k.ofds[f.ofd]
        pos == IF o.append THEN Len(k.files[o.file]) ELSE o.pos
    IN  IF ~f.w THEN Answer(k, "EBADF")
        ELSE Return(Advance([k EXCEPT !.files[o.file] = WriteAt(@, pos, data)], f, Never, pos + Len(data)),
                    Len(data))
ReadFileFd(k, f, count) ==
    LET data == ReadAt(FileBytes(k, f), k.ofds[f.ofd].pos, count)
    IN  IF ~f.r THEN Answer(k, "EBADF")
        ELSE Return(Advance(k, f, Never, k.ofds[f.ofd].pos + Len(data)), data)

\* ----------------------------------------------------- splice, tee, vmsplice
\* pipe_src_state: "ready", or what a splice from an empty pipe answers
SourceState(k, i, nb) ==
    LET p == k.pipes[i]
    IN  IF p.buf # << >> THEN "ready"
        ELSE IF p.writers = 0 THEN "eof"
        ELSE IF nb \/ p.rnb THEN "EAGAIN" ELSE "block"
SourceAnswer(k, i, nb) ==
    IF SourceState(k, i, nb) = "eof" THEN Return(k, 0) ELSE Answer(k, SourceState(k, i, nb))
PipeFull(k, nb) == Answer(k, IF nb THEN "EAGAIN" ELSE "block")
\* The bytes a move from pipe i to pipe j takes, and what tee copies.
MoveLen(k, i, j, len) == Min({len, Len(k.pipes[i].buf), PipeRoom(k.pipes[j])})
Between(k, t, i, j, len, nb, keep) ==
    LET n == MoveLen(k, i, j, len)
        data == SubSeq(k.pipes[i].buf, 1, n)
        r == [k EXCEPT !.pipes[j].buf = @ \o data]
    IN  IF i = j THEN Answer(k, "EINVAL")
        ELSE IF len = 0 THEN Return(k, 0)
        ELSE IF SourceState(k, i, nb) # "ready" THEN SourceAnswer(k, i, nb)
        ELSE IF k.pipes[j].readers = 0 THEN Answer(RaiseSigpipe(k, t), "EPIPE")
        ELSE IF n = 0 THEN PipeFull(k, k.pipes[j].wnb \/ nb)
        ELSE Return(IF keep THEN r ELSE [r EXCEPT !.pipes[i].buf = SubSeq(@, n + 1, Len(@))], n)
FromPipe(k, t, i, out, at, len, nb) ==
    LET data == SubSeq(k.pipes[i].buf, 1, Min({len, Len(k.pipes[i].buf)}))
        Drain(r, n) == [r EXCEPT !.pipes[i].buf = SubSeq(@, n + 1, Len(@))]
        pos == PosOf(k, out, at)
        Taken(r) == IF r.out = "ok" THEN Drain(r, r.val) ELSE r
    IN  IF out.kind \notin {"file", "socket", "stdout", "stderr", "tty"} THEN Answer(k, "EINVAL")
        ELSE IF out.kind = "file" /\ ~out.w THEN Answer(k, "EBADF")
        ELSE IF out.kind = "file" /\ k.ofds[out.ofd].append THEN Answer(k, "EINVAL")
        ELSE IF SourceState(k, i, nb) # "ready" THEN SourceAnswer(k, i, nb)
        ELSE CASE out.kind = "file" ->
                    Return(Advance([Drain(k, Len(data)) EXCEPT
                                      !.files[k.ofds[out.ofd].file] = WriteAt(@, pos, data)],
                                   out, at, pos + Len(data)), Len(data))
               [] out.kind = "socket" -> Taken(WriteSocket(k, t, out.sock, out.end, data, FALSE, FALSE))
               [] OTHER -> Return([Drain(k, Len(data)) EXCEPT !.console = @ \o data], Len(data))
IntoPipe(k, t, n_in, src, at, j, len, nb) ==
    LET p == k.pipes[j]
        cap == Min({len, PipeBufCap, Max({PipeRoom(p), 1})})
        pos == PosOf(k, src, at)
        data == ReadAt(FileBytes(k, src), pos, cap)
        Feed(r, d) == Return([r EXCEPT !.pipes[j].buf = @ \o d], Len(d))
        Given(r) == IF r.out = "ok" THEN Feed(r, r.val) ELSE r
    IN  IF p.readers > 0 /\ PipeRoom(p) = 0 THEN PipeFull(k, p.wnb \/ nb)
        ELSE IF src.kind \notin {"file", "socket"} THEN Answer(k, "EINVAL")
        ELSE IF src.kind = "file" /\ ~src.r THEN Answer(k, "EBADF")
        ELSE IF p.readers = 0 THEN Answer(RaiseSigpipe(k, t), "EPIPE")
        ELSE IF src.kind = "file" THEN Feed(Advance(k, src, at, pos + Len(data)), data)
        ELSE Given(RecvFdBytes(k, t, n_in, cap, IF nb THEN {"dontwait"} ELSE {}))
\* at_in, at_out: the callers' offsets, Never for a null pointer
SysSplice(k, t, n_in, at_in, n_out, at_out, len, nb) ==
    LET tab == Table(k, t)
        fin == tab[n_in]
        fout == tab[n_out]
        from == fin.kind = "pipe_r"
        to == fout.kind = "pipe_w"
    IN  IF {n_in, n_out} \ DOMAIN tab # {} THEN Answer(k, "EBADF")
        ELSE IF fin.kind = "pipe_w" \/ fout.kind = "pipe_r" THEN Answer(k, "EBADF")
        ELSE IF ~from /\ ~to THEN Answer(k, "EINVAL")
        ELSE IF (from /\ at_in # Never) \/ (to /\ at_out # Never) THEN Answer(k, "ESPIPE")
        ELSE IF len = 0 THEN Return(k, 0)
        ELSE IF from /\ to THEN Between(k, t, fin.pipe, fout.pipe, len, nb, FALSE)
        ELSE IF from THEN FromPipe(k, t, fin.pipe, fout, at_out, len, nb)
        ELSE IntoPipe(k, t, n_in, fin, at_in, fout.pipe, len, nb)
SysTee(k, t, n_in, n_out, len, nb) ==
    LET tab == Table(k, t)
    IN  IF {n_in, n_out} \ DOMAIN tab # {} THEN Answer(k, "EBADF")
        ELSE IF tab[n_in].kind # "pipe_r" \/ tab[n_out].kind # "pipe_w" THEN Answer(k, "EINVAL")
        ELSE Between(k, t, tab[n_in].pipe, tab[n_out].pipe, len, nb, TRUE)

\* -------------------------------------------------------------- terminals
DefaultFlags == {"icrnl", "opost", "onlcr", "icanon", "echo", "echoe", "echok", "echoke", "echoctl", "isig"}
Specials == {"intr", "quit", "susp", "erase", "kill", "eof"}
NewPty == [flags |-> DefaultFlags, cc |-> Specials, vmin |-> 1, vtime |-> 0, locked |-> TRUE,
           input |-> << >>, canon |-> << >>, output |-> << >>, master |-> TRUE, slaves |-> 0,
           mnb |-> FALSE, snb |-> FALSE, fg |-> 0]
Visible == [cr |-> "M", intr |-> "C", quit |-> "\\", susp |-> "Z", erase |-> "?", kill |-> "U", eof |-> "D"]
IsCtrl(b) == b \in DOMAIN Visible
OutByte(p, b) ==
    LET post == "opost" \in p.flags
    IN  [p EXCEPT !.output = @ \o
            IF post /\ b = "nl" /\ "onlcr" \in p.flags THEN <<"cr", "nl">>
            ELSE IF post /\ b = "cr" /\ "ocrnl" \in p.flags THEN <<"nl">> ELSE <<b>>]
OutBytes(p, s) == FoldLeft(OutByte, p, s)
EchoByte(p, b) ==
    IF "echoctl" \in p.flags /\ IsCtrl(b) THEN OutBytes(p, <<"^", Visible[b]>>) ELSE OutByte(p, b)
EchoWidth(p, b) == IF "echoctl" \in p.flags /\ IsCtrl(b) THEN 2 ELSE 1
BackOver(p, cols) == OutBytes(p, [i \in 1..(3 * cols) |-> IF i % 3 = 2 THEN "sp" ELSE "bs"])
Erase(p) ==
    LET r == [p EXCEPT !.canon = Front(@)]
    IN  IF p.canon = << >> THEN p
        ELSE IF {"echo", "echoe"} \subseteq p.flags THEN BackOver(r, EchoWidth(p, Last(p.canon))) ELSE r
Kill(p) ==
    LET cols == FoldLeft(LAMBDA n, b : n + EchoWidth(p, b), 0, p.canon)
        r == [p EXCEPT !.canon = << >>]
    IN  IF "echo" \notin p.flags THEN r
        ELSE IF {"echoke", "echoe"} \subseteq p.flags THEN BackOver(r, cols)
        ELSE IF "echok" \in p.flags THEN OutByte(r, "nl") ELSE r
FlushLine(p) == [p EXCEPT !.input = @ \o p.canon, !.canon = << >>]
\* One byte of terminal input, after the CR/NL translation; sigs collects the
\* signals its special characters raise.
InputByte(p, b) ==
    LET Is(c) == b = c /\ c \in p.cc
        Echoed(q) == IF "echo" \in p.flags THEN EchoByte(q, b) ELSE q
        kept == [Echoed(p) EXCEPT !.canon = Append(@, b)]
    IN  IF "isig" \in p.flags /\ (Is("intr") \/ Is("quit") \/ Is("susp"))
        THEN [Echoed(p) EXCEPT !.canon = << >>,
                !.sigs = Append(@, CASE b = "intr" -> "SIGINT" [] b = "quit" -> "SIGQUIT" [] OTHER -> "SIGTSTP")]
        ELSE IF "icanon" \notin p.flags THEN [Echoed(p) EXCEPT !.input = Append(@, b)]
        ELSE IF Is("erase") THEN Erase(p)
        ELSE IF Is("kill") THEN Kill(p)
        ELSE IF Is("eof") THEN FlushLine(p)
        ELSE IF b = "nl" THEN FlushLine(kept) ELSE kept
Translate(p, raw) ==
    IF raw = "cr" /\ "icrnl" \in p.flags THEN "nl"
    ELSE IF raw = "nl" /\ "inlcr" \in p.flags THEN "cr" ELSE raw
MasterWrite(p, data) ==
    LET queued == Max({Len(p.input) + Len(p.canon), Len(p.output)})
        taken == SubSeq(data, 1, Min({Len(data), Max({0, MaxQueued - queued}) \div 2}))
    IN  FoldLeft(LAMBDA q, raw : IF raw = "cr" /\ "igncr" \in p.flags THEN q ELSE InputByte(q, Translate(p, raw)),
                 Put(p, "sigs", << >>), taken)
SlaveRoom(p) == Max({0, MaxQueued - Len(p.output)}) \div 2
\* What a slave's input and a master's output hold, taken from the front.
TakeInput(k, i, n) ==
    LET q == k.ptys[i].input
    IN  Return([k EXCEPT !.ptys[i].input = SubSeq(@, n + 1, Len(@))], SubSeq(q, 1, Min({n, Len(q)})))
MasterReady(p) ==
    {"out"} \cup (IF p.output # << >> THEN {"in"} ELSE {}) \cup (IF p.slaves = 0 THEN {"in", "hup"} ELSE {})
SlaveReady(p) ==
    {"out"} \cup (IF p.input # << >> THEN {"in"} ELSE {}) \cup (IF p.master THEN {} ELSE {"in", "hup"})

\* open of /dev/ptmx, /dev/pts/N and /dev/tty
AllocPty(k) ==
    LET free == {i \in DOMAIN k.ptys : ~k.ptys[i].master /\ k.ptys[i].slaves = 0}
    IN  IF free = {} THEN Return([k EXCEPT !.ptys = Append(@, NewPty)], Len(k.ptys) + 1)
        ELSE Return([k EXCEPT !.ptys[Min(free)] = NewPty], Min(free))
OpenSlave(k, t, i) ==
    Install([k EXCEPT !.ptys[i].slaves = @ + 1,
                      !.ptys[i].fg = IF @ = 0 THEN k.procs[t].pgid ELSE @],
            t, [kind |-> "pty_s", pty |-> i])
OpenPtmx(k, t) == LET r == AllocPty(k) IN Install(r, t, [kind |-> "pty_m", pty |-> r.val])
OpenPts(k, t, i) ==
    IF i \in DOMAIN k.ptys /\ k.ptys[i].master /\ ~k.ptys[i].locked THEN OpenSlave(k, t, i)
    ELSE Answer(k, "ENXIO")
OpenTty(k, t, console) ==
    LET mine == {n \in 0..2 : IsFd(k, t, n, "pty_s")}
    IN  IF mine # {} THEN OpenSlave(k, t, Table(k, t)[Min(mine)].pty)
        ELSE IF console THEN Install(k, t, [kind |-> "tty"]) ELSE Answer(k, "ENXIO")
ClosePty(k, f) ==
    CASE f.kind = "pty_m" -> [k EXCEPT !.ptys[f.pty].master = FALSE]
      [] f.kind = "pty_s" -> [k EXCEPT !.ptys[f.pty].slaves = Max({0, @ - 1})]
      [] OTHER -> k

SignalPgrp(k, pgrp, sig) ==
    FoldSet(LAMBDA t, r : IF k.procs[t].pgid = pgrp THEN Raise(r, t, sig) ELSE r, k, Alive(k))
WritePtyFd(k, f, data) ==
    LET p == k.ptys[f.pty]
        w == MasterWrite(p, data)
        r == [k EXCEPT !.ptys[f.pty] = Drop(w, {"sigs"})]
        fits == SubSeq(data, 1, Min({Len(data), SlaveRoom(p)}))
    IN  IF f.kind = "pty_m"
        THEN Return(IF p.fg = 0 THEN r ELSE FoldLeft(LAMBDA s, g : SignalPgrp(s, p.fg, g), r, w.sigs), Len(data))
        ELSE IF SlaveRoom(p) = 0 THEN WouldBlock(k, p.snb)
        ELSE Return([k EXCEPT !.ptys[f.pty] = OutBytes(p, fits)], Len(fits))
\* read_pty_slave_noncanon: VMIN and VTIME
ReadNoncanon(k, t, f, count, writable) ==
    LET p == k.ptys[f.pty]
        avail == Len(p.input)
        ready == IF p.vmin = 0 THEN avail > 0 ELSE avail >= p.vmin
        timed == p.vtime > 0 /\ (p.vmin = 0 \/ avail > 0)
        seeded == Seed(k, t, k.now + p.vtime)
        take == TakeInput(Unseed(k, t), f.pty, count)
    IN  IF avail = 0 /\ ~p.master THEN Return(Unseed(k, t), << >>)
        ELSE IF ready THEN Copied(take, writable)
        ELSE IF p.snb THEN IF p.vmin = 0 THEN Return(k, << >>) ELSE Answer(k, "EAGAIN")
        ELSE IF ~timed THEN IF p.vmin = 0 THEN Return(Unseed(k, t), << >>) ELSE Answer(k, "block")
        ELSE IF Expired(seeded, t) THEN Copied(take, writable)
        ELSE Answer(seeded, "block")
ReadPtyFd(k, t, f, count, writable) ==
    LET p == k.ptys[f.pty]
        n == Min({count, Len(p.output)})
    IN  IF f.kind = "pty_s" /\ "icanon" \notin p.flags THEN ReadNoncanon(k, t, f, count, writable)
        ELSE IF f.kind = "pty_s" THEN
            IF p.input # << >> THEN Copied(TakeInput(k, f.pty, count), writable)
            ELSE IF p.master THEN WouldBlock(k, p.snb) ELSE Return(k, << >>)
        ELSE IF p.output # << >> THEN
            Copied(Return([k EXCEPT !.ptys[f.pty].output = SubSeq(@, n + 1, Len(@))],
                          SubSeq(p.output, 1, n)), writable)
        ELSE IF p.slaves > 0 THEN WouldBlock(k, p.mnb) ELSE Return(k, << >>)
\* pty_ioctl: `v` is what the argument points at
PtyIoctl(k, f, req, v) ==
    LET i == f.pty
        p == k.ptys[i]
        master == f.kind = "pty_m"
    IN  CASE req = "TCGETS" -> Return(k, p.flags)
          [] req = "TCSETS" -> Return([k EXCEPT !.ptys[i].flags = v.flags, !.ptys[i].vmin = v.vmin,
                                                !.ptys[i].vtime = v.vtime, !.ptys[i].cc = v.cc], 0)
          [] req = "TIOCGPTN" /\ master -> Return(k, i)
          [] req = "TIOCSPTLCK" /\ master -> Return([k EXCEPT !.ptys[i].locked = v], 0)
          [] req = "TIOCGPGRP" -> Return(k, p.fg)
          [] req = "TIOCSPGRP" -> Return([k EXCEPT !.ptys[i].fg = v], 0)
          [] req = "FIONREAD" -> Return(k, Len(IF master THEN p.output ELSE p.input))
          [] req = "FIONBIO" -> Return(IF master THEN [k EXCEPT !.ptys[i].mnb = v]
                                                 ELSE [k EXCEPT !.ptys[i].snb = v], 0)
          [] req = "TCFLSH" /\ v \in 0..2 ->
                Return([k EXCEPT !.ptys[i].input = IF v = 1 THEN @ ELSE << >>,
                                 !.ptys[i].canon = IF v = 1 THEN @ ELSE << >>,
                                 !.ptys[i].output = IF v = 0 THEN @ ELSE << >>], 0)
          [] req = "TCFLSH" -> Answer(k, "EINVAL")
          [] req \in {"TCSBRK", "TCXONC", "TIOCOUTQ"} -> Return(k, 0)
          [] OTHER -> Answer(k, "ENOTTY")

\* --------------------------------------------- what every stream can be asked
\* read_shared_fd on the interactive console, whose input the embedder pumps
ReadConsole(k, f, count, writable) ==
    LET n == Min({count, Len(k.stdin.buf)})
    IN  IF f.kind \notin {"stdin", "tty"} THEN Answer(k, "EBADF")
        ELSE IF k.stdin.buf = << >> THEN IF k.stdin.closed THEN Return(k, << >>) ELSE Answer(k, "block")
        ELSE Copied(Return([k EXCEPT !.stdin.buf = SubSeq(@, n + 1, Len(@))], SubSeq(k.stdin.buf, 1, n)), writable)
=============================================================================
