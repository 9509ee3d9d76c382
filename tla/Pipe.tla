-------------------------------- MODULE Pipe --------------------------------
(***************************************************************************)
(* The file table, file descriptors and pipes: file.c, pipe.c, the         *)
(* descriptor calls of sysfile.c, and what fork() and exit() do with open  *)
(* files.                                                                  *)
(*                                                                         *)
(* A section under ftable.lock or under the lock of a pipe is one step,    *)
(* except that a process holds the lock of the pipe between its test of    *)
(* p->killed and sleep(): kill() takes no pipe lock and may come between.  *)
(* Descriptors belong to one process and are changed together with the     *)
(* section before or after.  The bytes of a pipe are numbered in the order *)
(* in which they are written.                                              *)
(***************************************************************************)
EXTENDS Naturals, FiniteSets, FiniteSetsExt

CONSTANTS
    NPROC, NFILE, NOFILE,   \* processes, open files, descriptors of a process
    NPAGE,                  \* pages that kalloc() has for pipes
    PIPESIZE,               \* bytes in the buffer of a pipe
    UINT,                   \* nread and nwrite wrap around at UINT
    WriteSizes, ReadSizes,  \* arguments n of write() and read()
    Killable                \* processes that are killed

ASSUME PipeAssumption ==
    /\ {NPROC, NFILE, NOFILE, NPAGE, PIPESIZE} \subseteq Nat \ {0}
    /\ UINT \in Nat /\ UINT % PIPESIZE = 0 /\ UINT > PIPESIZE
    /\ WriteSizes \union ReadSizes \subseteq Nat \ {0}

Procs == 1..NPROC
Files == 1..NFILE
Fds   == 0..NOFILE - 1
Pages == 1..NPAGE

VARIABLES
    file,    \* ftable.file
    ofile,   \* ofile[p][fd]: the open file of a descriptor, 0 if none
    pipe,    \* the pipe in every page
    iref,    \* references of open files to inodes
    killed,  \* processes with p->killed set
    th       \* the system call that every process is in

vars == <<file, ofile, pipe, iref, killed, th>>

NoFile  == [ref |-> 0, type |-> "none", writable |-> FALSE, pipe |-> 0]
NoPipe  == [alloc |-> FALSE, readopen |-> FALSE, writeopen |-> FALSE,
            nread |-> 0, nwrite |-> 0, lock |-> 0,
            data |-> [i \in 0..PIPESIZE - 1 |-> 0]]

\* pc: "free" (no process), "user", "zombie", or a place in a call.
\* f: the files in the hands of the call, in local variables such as rf and wf
\* of sys_pipe(), 0 if none.  closing: the call gives them to fileclose().
\* ff: fileclose()'s copy of the last reference.  pipe, n: the arguments of
\* piperead() or pipewrite().
Slots == 1..2
NoFiles == [i \in Slots |-> 0]
Thread(pc) == [pc |-> pc, f |-> NoFiles, closing |-> FALSE, ff |-> NoFile,
               pipe |-> 0, n |-> 0]

Init ==
    /\ file = [f \in Files |-> NoFile]
    /\ ofile = [p \in Procs |-> [fd \in Fds |-> 0]]
    /\ pipe = [g \in Pages |-> NoPipe]
    /\ iref = 0
    /\ killed = {}
    /\ th = [p \in Procs |-> Thread(IF p = 1 THEN "user" ELSE "free")]

At(p, pc) == th[p].pc = pc /\ ~th[p].closing /\ th[p].ff = NoFile

\* A system call of p may start: a killed process exits instead (trap.c).
Call(p) == At(p, "user") /\ p \notin killed

FreeFile == {f \in Files : file[f].ref = 0}

FreePage == {g \in Pages : ~pipe[g].alloc}

FreeFd(p) == {fd \in Fds : ofile[p][fd] = 0}

\* argfd(): the descriptor is an open one.
argfd(p, fd) == ofile[p][fd] # 0

-----------------------------------------------------------------------------
(* pipe() and open() *)

\* filealloc(): the first file without a reference.
filealloc == Min(FreeFile)

\* The first filealloc() of pipealloc().
sys_pipe(p) ==
    /\ Call(p) /\ FreeFile # {}
    /\ file' = [file EXCEPT ![filealloc].ref = 1]
    /\ th' = [th EXCEPT ![p] = [@ EXCEPT !.pc = "pipe1", !.f[1] = filealloc]]
    /\ UNCHANGED <<ofile, pipe, iref, killed>>

\* The second one; on failure the first file is closed again.
pipealloc_f1(p) ==
    /\ At(p, "pipe1")
    /\ \/ /\ FreeFile # {}
          /\ file' = [file EXCEPT ![filealloc].ref = 1]
          /\ th' = [th EXCEPT ![p] = [@ EXCEPT !.pc = "pipe2", !.f[2] = filealloc]]
       \/ /\ FreeFile = {}
          /\ th' = [th EXCEPT ![p] = [@ EXCEPT !.pc = "user", !.closing = TRUE]]
          /\ UNCHANGED file
    /\ UNCHANGED <<ofile, pipe, iref, killed>>

\* kalloc() and the rest of pipealloc(), and the two fdalloc()s of sys_pipe().
pipealloc_kalloc(p) ==
    LET g   == Min(FreePage)
        f0  == th[p].f[1]
        f1  == th[p].f[2]
        fd0 == Min(FreeFd(p))
        fd1 == Min(FreeFd(p) \ {fd0})
        new == [file EXCEPT
                   ![f0] = [@ EXCEPT !.type = "pipe", !.writable = FALSE, !.pipe = g],
                   ![f1] = [@ EXCEPT !.type = "pipe", !.writable = TRUE, !.pipe = g]]
        opened == [NoPipe EXCEPT !.alloc = TRUE, !.readopen = TRUE, !.writeopen = TRUE]
        fail == [th EXCEPT ![p] = [@ EXCEPT !.pc = "user", !.closing = TRUE]]
    IN  /\ At(p, "pipe2")
        /\ \/ /\ FreePage = {} /\ th' = fail
              /\ UNCHANGED <<file, pipe, ofile>>
           \/ /\ FreePage # {}
              /\ file' = new
              /\ pipe' = [pipe EXCEPT ![g] = opened]
              /\ \/ /\ Cardinality(FreeFd(p)) < 2 /\ th' = fail
                    /\ UNCHANGED ofile
                 \/ /\ Cardinality(FreeFd(p)) >= 2
                    /\ ofile' = [ofile EXCEPT ![p][fd0] = f0, ![p][fd1] = f1]
                    /\ th' = [th EXCEPT ![p] = Thread("user")]
        /\ UNCHANGED <<iref, killed>>

\* sys_open() has an inode in hand: filealloc(), fdalloc() and the file.  The
\* file takes over the reference to the inode, or iunlockput() drops it.
sys_open(p) ==
    /\ Call(p) /\ FreeFile # {}
    /\ \/ /\ FreeFd(p) = {}
          /\ file' = [file EXCEPT ![filealloc].ref = 1]
          /\ th' = [th EXCEPT ![p] = [@ EXCEPT !.f[1] = filealloc, !.closing = TRUE]]
          /\ UNCHANGED <<ofile, iref>>
       \/ /\ FreeFd(p) # {}
          /\ file' = [file EXCEPT ![filealloc] = [@ EXCEPT !.ref = 1, !.type = "inode"]]
          /\ ofile' = [ofile EXCEPT ![p][Min(FreeFd(p))] = filealloc]
          /\ iref' = iref + 1
          /\ UNCHANGED th
    /\ UNCHANGED <<pipe, killed>>

-----------------------------------------------------------------------------
(* dup(), close(), fork(), exit() *)

sys_dup(p, fd) ==
    /\ Call(p) /\ argfd(p, fd) /\ FreeFd(p) # {}
    /\ ofile' = [ofile EXCEPT ![p][Min(FreeFd(p))] = ofile[p][fd]]
    /\ file' = [file EXCEPT ![ofile[p][fd]].ref = @ + 1]
    /\ UNCHANGED <<pipe, iref, killed, th>>

sys_close(p, fd) ==
    /\ Call(p) /\ argfd(p, fd)
    /\ ofile' = [ofile EXCEPT ![p][fd] = 0]
    /\ th' = [th EXCEPT ![p] = [@ EXCEPT !.f[1] = ofile[p][fd], !.closing = TRUE]]
    /\ UNCHANGED <<file, pipe, iref, killed>>

\* The next file in the hands of a call that closes them.
Closes(p, i) == /\ th[p].closing /\ th[p].ff = NoFile
                /\ th[p].f[i] # 0 /\ (i = 2 => th[p].f[1] = 0)

\* The call is done with it; ff is what is left to do for a last reference.
Closed(p, i, ff) ==
    [th EXCEPT ![p] = [@ EXCEPT !.f[i] = 0, !.closing = (i = 1 /\ th[p].f[2] # 0),
                               !.ff = ff]]

fileclose_keepType(p) ==
    \E i \in Slots :
        LET f == th[p].f[i]
            ff == IF file[f].type = "none" THEN NoFile ELSE file[f]
        IN  /\ Closes(p, i)
            /\ file' = [file EXCEPT ![f].ref = @ - 1]
            /\ th' = Closed(p, i, IF file[f].ref > 1 THEN NoFile ELSE ff)
            /\ UNCHANGED <<ofile, pipe, iref, killed>>

\* fileclose() under ftable.lock.  The other fields of a file without a type are
\* not read before they are set again.
fileclose(p) ==
    \E i \in Slots :
        LET f == th[p].f[i]
            ff == IF file[f].type = "none" THEN NoFile ELSE file[f]
        IN  /\ Closes(p, i)
            /\ \/ /\ file[f].ref > 1
                  /\ file' = [file EXCEPT ![f].ref = @ - 1]
                  /\ th' = Closed(p, i, NoFile)
               \/ /\ file[f].ref = 1
                  /\ file' = [file EXCEPT ![f] = NoFile]
                  /\ th' = Closed(p, i, ff)
            /\ UNCHANGED <<ofile, pipe, iref, killed>>

\* Processes that sleep on &p->nread or &p->nwrite of pipe g are woken up.
wakeup(g, chans, t) ==
    [p \in Procs |-> IF t[p].pc \in chans /\ t[p].pipe = g
                     THEN [t[p] EXCEPT !.pc = IF @ = "nread" THEN "read" ELSE "write"]
                     ELSE t[p]]

\* The rest of fileclose() after the last reference: pipeclose() or iput().
pipeclose_noWakeup(p) ==
    LET g == th[p].ff.pipe
        w == th[p].ff.writable
        after == [pipe[g] EXCEPT !.readopen = @ /\ w, !.writeopen = @ /\ ~w]
    IN  /\ th[p].ff.type = "pipe" /\ pipe[g].lock = 0
        /\ pipe' = [pipe EXCEPT ![g] = IF after.readopen \/ after.writeopen
                                       THEN after ELSE NoPipe]
        /\ th' = [th EXCEPT ![p].ff = NoFile]
        /\ UNCHANGED <<file, ofile, iref, killed>>

pipeclose(p) ==
    LET g == th[p].ff.pipe
        w == th[p].ff.writable
        after == [pipe[g] EXCEPT !.readopen = @ /\ w, !.writeopen = @ /\ ~w]
    IN  /\ th[p].ff.type = "pipe" /\ pipe[g].lock = 0
        /\ pipe' = [pipe EXCEPT ![g] = IF after.readopen \/ after.writeopen
                                       THEN after ELSE NoPipe]
        /\ th' = wakeup(g, {IF w THEN "nread" ELSE "nwrite"}, [th EXCEPT ![p].ff = NoFile])
        /\ UNCHANGED <<file, ofile, iref, killed>>

fileclose_iput(p) ==
    /\ th[p].ff.type = "inode"
    /\ iref' = iref - 1
    /\ th' = [th EXCEPT ![p].ff = NoFile]
    /\ UNCHANGED <<file, ofile, pipe, killed>>

\* The filedup()s of fork(): the parent's own references keep the files open.
fork(p, q) ==
    /\ Call(p) /\ th[q].pc = "free"
    /\ ofile' = [ofile EXCEPT ![q] = ofile[p]]
    /\ file' = [f \in Files |->
                   [file[f] EXCEPT !.ref = @ + Cardinality({fd \in Fds : ofile[p][fd] = f})]]
    /\ th' = [th EXCEPT ![q].pc = "user"]
    /\ UNCHANGED <<pipe, iref, killed>>

\* exit(), where killed processes come too.
exit(p) ==
    /\ At(p, "user")
    /\ th' = [th EXCEPT ![p].pc = "exit"]
    /\ UNCHANGED <<file, ofile, pipe, iref, killed>>

\* exit() closes the descriptors in turn, then the process is a zombie.
exit_close(p) ==
    LET open == Fds \ FreeFd(p)
        fd == Min(open)
    IN  /\ At(p, "exit")
        /\ \/ /\ open # {}
              /\ ofile' = [ofile EXCEPT ![p][fd] = 0]
              /\ th' = [th EXCEPT ![p] = [@ EXCEPT !.f[1] = ofile[p][fd], !.closing = TRUE]]
           \/ /\ open = {}
              /\ th' = [th EXCEPT ![p].pc = "zombie"]
              /\ UNCHANGED ofile
        /\ UNCHANGED <<file, pipe, iref, killed>>

\* kill(): a process that sleeps on a pipe becomes runnable.
kill(p) ==
    /\ th[p].pc \notin {"free", "zombie"} /\ p \in Killable \ killed
    /\ killed' = killed \union {p}
    /\ th' = [th EXCEPT ![p].pc = CASE @ = "nread" -> "read"
                                    [] @ = "nwrite" -> "write"
                                    [] OTHER -> @]
    /\ UNCHANGED <<file, ofile, pipe, iref>>

-----------------------------------------------------------------------------
(* read() and write() on a pipe *)

Count(g) == (pipe[g].nwrite + UINT - pipe[g].nread) % UINT

\* sys_read() and sys_write() up to the lock of the pipe.
sys_read(p, fd, n) ==
    LET f == file[ofile[p][fd]]
    IN  /\ Call(p) /\ argfd(p, fd)
        /\ f.type = "pipe" /\ ~f.writable
        /\ th' = [th EXCEPT ![p] = [@ EXCEPT !.pc = "read", !.pipe = f.pipe, !.n = n]]
        /\ UNCHANGED <<file, ofile, pipe, iref, killed>>

sys_write(p, fd, n) ==
    LET f == file[ofile[p][fd]]
    IN  /\ Call(p) /\ argfd(p, fd)
        /\ f.type = "pipe" /\ f.writable
        /\ th' = [th EXCEPT ![p] = [@ EXCEPT !.pc = "write", !.pipe = f.pipe, !.n = n]]
        /\ UNCHANGED <<file, ofile, pipe, iref, killed>>

\* The bytes that fit, by the test of a full pipe: nwrite == nread + PIPESIZE.
Room_slack(g) == PIPESIZE + 1 - Count(g)

Room(g) == PIPESIZE - Count(g)

\* data[nwrite++ % PIPESIZE] = addr[i], k times: a byte is its number (% UINT).
copyin(g, k) ==
    [i \in 0..PIPESIZE - 1 |->
        LET new == {j \in 0..k - 1 : (pipe[g].nwrite + j) % PIPESIZE = i}
        IN  IF new = {} THEN pipe[g].data[i] ELSE (pipe[g].nwrite + Max(new)) % UINT]

\* addr[i] = data[nread++ % PIPESIZE], for all the bytes there are.
copyout(g) == [i \in 1..Count(g) |-> pipe[g].data[(pipe[g].nread + i - 1) % PIPESIZE]]

\* pipewrite(), from acquire() or a wakeup: copy what fits.  If there is more,
\* give up (no reader, or killed) or go to sleep, after a wakeup of readers.
pipewrite(p) ==
    LET g == th[p].pipe
        k == Min({th[p].n, Room(g)})
        more == th[p].n > k
        quit == more /\ (~pipe[g].readopen \/ p \in killed)
    IN  /\ At(p, "write") /\ pipe[g].lock = 0
        /\ pipe' = [pipe EXCEPT ![g] = [@ EXCEPT
                        !.nwrite = (pipe[g].nwrite + k) % UINT, !.data = copyin(g, k),
                        !.lock = IF more /\ ~quit THEN p ELSE 0]]
        /\ th' = [(IF quit THEN th ELSE wakeup(g, {"nread"}, th)) EXCEPT ![p] =
                     IF more /\ ~quit
                     THEN [th[p] EXCEPT !.pc = "write_sleep", !.n = @ - k]
                     ELSE Thread("user")]
        /\ UNCHANGED <<file, ofile, iref, killed>>

piperead_noWakeup(p) ==
    LET g == th[p].pipe
        empty == Count(g) = 0 /\ pipe[g].writeopen
        quit == empty /\ p \in killed
        k == Min({th[p].n, Count(g)})
    IN  /\ At(p, "read") /\ pipe[g].lock = 0
        /\ pipe' = [pipe EXCEPT ![g].lock = IF empty /\ ~quit THEN p ELSE 0,
                                ![g].nread = (@ + k) % UINT]
        /\ th' = [th EXCEPT ![p] =
                     IF empty /\ ~quit THEN [th[p] EXCEPT !.pc = "read_sleep"]
                     ELSE Thread("user")]
        /\ UNCHANGED <<file, ofile, iref, killed>>

\* piperead(), from acquire() or a wakeup: sleep on an empty pipe with a
\* writer unless killed; else copy what is there and wake up writers.
piperead(p) ==
    LET g == th[p].pipe
        empty == Count(g) = 0 /\ pipe[g].writeopen
        quit == empty /\ p \in killed
        k == Min({th[p].n, Count(g)})
    IN  /\ At(p, "read") /\ pipe[g].lock = 0
        /\ pipe' = [pipe EXCEPT ![g].lock = IF empty /\ ~quit THEN p ELSE 0,
                                ![g].nread = (@ + k) % UINT]
        /\ th' = [(IF empty THEN th ELSE wakeup(g, {"nwrite"}, th)) EXCEPT ![p] =
                     IF empty /\ ~quit THEN [th[p] EXCEPT !.pc = "read_sleep"]
                     ELSE Thread("user")]
        /\ UNCHANGED <<file, ofile, iref, killed>>

\* sleep() releases the lock of the pipe.
pipesleep(p) ==
    /\ th[p].pc \in {"read_sleep", "write_sleep"}
    /\ pipe' = [pipe EXCEPT ![th[p].pipe].lock = 0]
    /\ th' = [th EXCEPT ![p].pc = IF @ = "read_sleep" THEN "nread" ELSE "nwrite"]
    /\ UNCHANGED <<file, ofile, iref, killed>>

\* The steps of a call that has begun.
Continue(p) ==
    \/ pipealloc_f1(p) \/ pipealloc_kalloc(p)
    \/ fileclose(p) \/ pipeclose(p) \/ fileclose_iput(p) \/ exit_close(p)
    \/ piperead(p) \/ pipewrite(p) \/ pipesleep(p)

Start(p) ==
    \/ sys_pipe(p) \/ sys_open(p)
    \/ \E fd \in Fds : \/ sys_dup(p, fd) \/ sys_close(p, fd)
                       \/ \E n \in ReadSizes : sys_read(p, fd, n)
                       \/ \E n \in WriteSizes : sys_write(p, fd, n)
    \/ \E q \in Procs : fork(p, q)

Next == \E p \in Procs : Start(p) \/ Continue(p) \/ exit(p) \/ kill(p)

(* A call that has begun goes on when it can, and a killed process exits.    *)
Fairness == \A p \in Procs : /\ WF_vars(Continue(p))
                             /\ WF_vars(p \in killed /\ exit(p))

Spec == Init /\ [][Next]_vars /\ Fairness

-----------------------------------------------------------------------------
(* Properties *)

FileType == [ref : Nat, type : {"none", "pipe", "inode"},
             writable : BOOLEAN, pipe : 0..NPAGE]

PipeType == [alloc : BOOLEAN, readopen : BOOLEAN, writeopen : BOOLEAN,
             nread : 0..UINT - 1, nwrite : 0..UINT - 1, lock : 0..NPROC,
             data : [0..PIPESIZE - 1 -> 0..UINT - 1]]

Reading == {"read", "read_sleep", "nread"}
Writing == {"write", "write_sleep", "nwrite"}

ThreadType == [pc : {"free", "user", "zombie", "exit", "pipe1", "pipe2"}
                        \union Reading \union Writing,
               f : [Slots -> 0..NFILE], closing : BOOLEAN, ff : FileType,
               pipe : 0..NPAGE, n : Nat]

\* Types of the file table, the pipes and the calls.
TypeOK ==
    /\ file \in [Files -> FileType]
    /\ ofile \in [Procs -> [Fds -> 0..NFILE]]
    /\ pipe \in [Pages -> PipeType]
    /\ iref \in Nat /\ killed \subseteq Procs
    /\ th \in [Procs -> ThreadType]

\* The places of a table of processes that hold file f.
Places(table, slots, f) == {x \in Procs \X slots : table[x[1]][x[2]] = f}

Hands == [p \in Procs |-> th[p].f]

\* f->ref of file.c counts exactly the descriptors, and the references in the
\* hands of a call, that lead to the file.
RefsExact ==
    \A f \in Files : file[f].ref = Cardinality(Places(ofile, Fds, f))
                                    + Cardinality(Places(Hands, Slots, f))

\* A file, or fileclose()'s copy of one, is end w of pipe g.
IsEnd(r, g, w) == r.type = "pipe" /\ r.pipe = g /\ r.writable = w

\* An open end of pipe g, also while the last fileclose() of it is under way.
End(g, w) == \/ \E f \in Files : IsEnd(file[f], g, w)
             \/ \E p \in Procs : IsEnd(th[p].ff, g, w)

\* readopen and writeopen of a pipe tell whether an open file leads to that
\* end; the page is freed with the second end, neither before nor never.
PipePageOwned ==
    \A g \in Pages : /\ pipe[g].readopen = End(g, FALSE)
                     /\ pipe[g].writeopen = End(g, TRUE)
                     /\ pipe[g].alloc = (End(g, FALSE) \/ End(g, TRUE))

\* Each end of a pipe is one file, or the copy of one fileclose().
EndsUnique ==
    \A g \in Pages, w \in BOOLEAN :
        /\ \A f, h \in Files : IsEnd(file[f], g, w) /\ IsEnd(file[h], g, w) => f = h
        /\ \A p, q \in Procs : IsEnd(th[p].ff, g, w) /\ IsEnd(th[q].ff, g, w) => p = q
        /\ \A f \in Files, p \in Procs : ~(IsEnd(file[f], g, w) /\ IsEnd(th[p].ff, g, w))

\* A free file has no type or pipe of an earlier use; a pipe file has a page;
\* descriptors lead to files that are set up.
FilesSound ==
    /\ \A f \in Files : /\ file[f].ref = 0 => file[f] = NoFile
                        /\ file[f].type = "pipe" => file[f].pipe # 0
    /\ \A p \in Procs, fd \in Fds :
           ofile[p][fd] # 0 => file[ofile[p][fd]].type # "none"

\* What a process has in hand fits the place in its call: files that
\* pipealloc() has not set up yet, files to close, a copy in fileclose().
HandSound(p) ==
    LET t == th[p]
    IN  /\ t.closing => t.pc \in {"user", "exit"} /\ (t.f[1] # 0 \/ t.f[2] # 0)
        /\ ~t.closing => /\ t.f[1] # 0 <=> t.pc \in {"pipe1", "pipe2"}
                         /\ t.f[2] # 0 <=> t.pc = "pipe2"
                         /\ \A i \in Slots : t.f[i] # 0 =>
                               file[t.f[i]].ref = 1 /\ file[t.f[i]].type = "none"
        /\ t.ff # NoFile => t.pc \in {"user", "exit"} /\ t.ff.type # "none"
        /\ t.ff.type = "pipe" => t.ff.pipe # 0
        /\ t.pc \in {"free", "zombie"} => \A fd \in Fds : ofile[p][fd] = 0

HandsSound == \A p \in Procs : HandSound(p)

\* A process inside piperead() or pipewrite() has a descriptor of that end, so
\* that the page is not freed under it, and holds the lock of the pipe exactly
\* between its test and sleep().
InsideSound ==
    \A p \in Procs :
        /\ (th[p].pipe # 0) = (th[p].pc \in Reading \union Writing)
        /\ th[p].pipe # 0 => \E fd \in Fds :
               ofile[p][fd] # 0
               /\ IsEnd(file[ofile[p][fd]], th[p].pipe, th[p].pc \in Writing)
        /\ \A g \in Pages : (pipe[g].lock = p) = (/\ th[p].pc \in {"read_sleep", "write_sleep"}
                                                 /\ th[p].pipe = g)

\* The references to inodes are those of the open files: a file that
\* filealloc() hands out again does not keep the type of its earlier use.
InodeRefsExact ==
    iref = Cardinality({f \in Files : file[f].type = "inode"})
           + Cardinality({p \in Procs : th[p].ff.type = "inode"})

\* A pipe holds at most PIPESIZE bytes, and what piperead() copies are the
\* bytes number nread, nread + 1, ... of the pipe: none is lost, overwritten
\* or read twice, also when nread and nwrite have wrapped around.
Fifo == \A g \in Pages :
            /\ Count(g) <= PIPESIZE
            /\ copyout(g) = [i \in 1..Count(g) |-> (pipe[g].nread + i - 1) % UINT]

\* No lost wakeup: a writer sleeps only on a full pipe, a reader only on an
\* empty one.  A writer that is killed may return from pipewrite() without
\* waking readers, so readers are excepted once a process was killed.
SleepJustified ==
    \A p \in Procs :
        /\ th[p].pc \in {"write_sleep", "nwrite"} => Count(th[p].pipe) = PIPESIZE
        /\ th[p].pc = "read_sleep" => Count(th[p].pipe) = 0
        /\ th[p].pc = "nread" /\ killed = {} => Count(th[p].pipe) = 0

\* A reader of a pipe without writers gets out of read(), and a writer to a pipe
\* without readers out of write().
PipeEndReleases ==
    \A p \in Procs :
        (\/ th[p].pc \in Reading /\ ~pipe[th[p].pipe].writeopen
         \/ th[p].pc \in Writing /\ ~pipe[th[p].pipe].readopen)
            ~> th[p].pc = "user"

\* The file table and what it owns, between any two steps of file.c and pipe.c:
\* types, exact reference counts of files and inodes, pipe pages that are
\* allocated exactly while an end is open, and calls that have what they use.
FilesInv ==
    /\ TypeOK /\ RefsExact /\ InodeRefsExact /\ PipePageOwned
    /\ EndsUnique /\ FilesSound /\ HandsSound /\ InsideSound
=============================================================================
