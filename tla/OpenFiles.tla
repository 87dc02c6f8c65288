----------------------------- MODULE OpenFiles -----------------------------
(* The open files of Project4/4b (file.c, the descriptors of sysfile.c, and    *)
(* the parts of fork, clone and exit that hand them on).  ftable.lock covers   *)
(* each change of a count; an inode stays locked over a whole read or write,   *)
(* whose blocks are a step each.  Pipes are here for their two ends: the calls *)
(* on them are Pipe's.  The inode a reference leaves is FileSystem's.          *)
EXTENDS Naturals, Sequences, FiniteSets, FiniteSetsExt, SequencesExt

CONSTANTS
    Proc, First, Nobody,
    NFILE, NOFILE,
    Inum, Root, NoInum,  \* Root is a directory, the others are files
    PipePage,            \* the pages that pipes are allocated in
    Modes,               \* subsets of {"r", "w"}: what open is asked for
    Counts,              \* the bytes, here blocks, of a read or a write
    MaxSize,             \* MAXFILE * BSIZE
    Programs             \* sets of calls

ASSUME FilesAssumption ==
    /\ NFILE \in Nat \ {0} /\ NOFILE \in Nat \ {0} /\ MaxSize \in Nat
    /\ Counts \subseteq Nat \ {0} /\ First \in Proc /\ Nobody \notin Proc
    /\ Root \in Inum /\ NoInum \notin Inum
    /\ IsFiniteSet(Proc) /\ Inum \cap PipePage = {} /\ Modes \subseteq SUBSET {"r", "w"}

File == 1 .. NFILE
NoFile == 0
Fd == 0 .. NOFILE - 1

VARIABLES
    ref,        \* of each struct file
    file,       \* ... and its other fields; obj is the inode or the pipe
    ofile,      \* the descriptors of each process
    cwd,
    alive,      \* the processes that exist
    iref, ilock, \* the references to the inodes, and who has them locked
    data,       \* the contents of the inodes
    ends,       \* the open ends of the pipe in a page, {} when it is free
    step, call, \* the place of each process in its call, and what it keeps there
    died,       \* a panic
    calls       \* bound: the calls the programs of this behaviour make

counts == <<ref, file, iref, ends>>
tables == <<ofile, cwd, alive>>
files == <<counts, tables, ilock, data, step, call, died, calls>>

NoneFile == [type |-> "NONE", obj |-> NoInum, mode |-> {}, off |-> 0]
NoCall == [name |-> "none", f |-> NoFile, ip |-> NoInum, n |-> 0, buf |-> <<>>,
           mode |-> {}, todo |-> <<>>, ff |-> NoneFile, np |-> Nobody]

FilesInit ==
    /\ ref = [f \in File |-> 0] /\ file = [f \in File |-> NoneFile]
    /\ ofile = [p \in Proc |-> [d \in Fd |-> NoFile]]
    /\ cwd = [p \in Proc |-> IF p = First THEN Root ELSE NoInum]
    /\ alive = {First} /\ iref = [i \in Inum |-> IF i = Root THEN 1 ELSE 0]
    /\ ilock = [i \in Inum |-> Nobody] /\ data = [i \in Inum |-> <<>>]
    /\ ends = [g \in PipePage |-> {}] /\ step = [p \in Proc |-> "user"]
    /\ call = [p \in Proc |-> NoCall] /\ died = FALSE
    /\ calls \in Programs

In(p, place) == p \in alive /\ step[p] = place /\ ~died
May(p, name) == In(p, "user") /\ name \in calls
Goes(p, place) == step' = [step EXCEPT ![p] = place]
Keeps(p, c) == call' = [call EXCEPT ![p] = c]
Starts(p, place, c) == Goes(p, place) /\ Keeps(p, c)
Returns(p) == Starts(p, "user", NoCall)
Descs(p) == {d \in Fd : ofile[p][d] # NoFile}
FreeFiles == {f \in File : ref[f] = 0}
-----------------------------------------------------------------------------
(* fileclose, and the two steps of a path's inode                              *)

(* Slip: the last close leaves the type.                                       *)
LastLeaves(f) == file[f]

(* What the last close makes of the file: no field of it is read until it is   *)
(* set again, but for the type.                                                *)
LastClosed(f) == NoneFile

(* The count goes down under ftable.lock.  The last close copies the file to   *)
(* ff and lets go of it only afterwards, in the next step.                     *)
CloseCount(p, f, c) ==
    IF ref[f] < 1 THEN died' = TRUE /\ UNCHANGED <<ref, file, step, call>> ELSE
    /\ ref' = [ref EXCEPT ![f] = @ - 1]
    /\ IF ref[f] > 1
       THEN Starts(p, "close", c) /\ UNCHANGED file
       ELSE /\ Starts(p, "drop", [c EXCEPT !.ff = file[f]])
            /\ file' = [file EXCEPT ![f] = LastClosed(f)]
    /\ UNCHANGED died

\* ... to pipeclose or to iput
Drop(p) ==
    /\ In(p, "drop")
    /\ LET ff == call[p].ff IN
       /\ ends' = IF ff.type = "PIPE" THEN [ends EXCEPT ![ff.obj] = @ \ ff.mode] ELSE ends
       /\ iref' = IF ff.type = "INODE" THEN [iref EXCEPT ![ff.obj] = @ - 1] ELSE iref
    /\ Starts(p, "close", [call[p] EXCEPT !.ff = NoneFile])
    /\ UNCHANGED <<ref, file, tables, ilock, data, died>>

(* The call that closes has another file to close ...                          *)
CloseNext(p) ==
    /\ In(p, "close") /\ call[p].todo # <<>>
    /\ CloseCount(p, Head(call[p].todo), [call[p] EXCEPT !.todo = Tail(@)])
    /\ UNCHANGED <<iref, ends, tables, ilock, data>>

(* ... or ends: an open that failed lets go of its inode with iunlockput.      *)
CloseDone(p) ==
    /\ In(p, "close") /\ call[p].todo = <<>> /\ call[p].name # "exit"
    /\ IF call[p].name = "open"
       THEN /\ ilock' = [ilock EXCEPT ![call[p].ip] = Nobody]
            /\ iref' = [iref EXCEPT ![call[p].ip] = @ - 1]
       ELSE UNCHANGED <<ilock, iref>>
    /\ Returns(p)
    /\ UNCHANGED <<ref, file, ends, tables, data, died>>

Ilock(p) ==
    /\ In(p, "ilock") /\ ilock[call[p].ip] = Nobody
    /\ ilock' = [ilock EXCEPT ![call[p].ip] = p]
    /\ Goes(p, call[p].name)
    /\ UNCHANGED <<counts, tables, data, call, died>>
-----------------------------------------------------------------------------
(* open and chdir                                                              *)

(* namei or create has found the inode: a reference, and then its lock.  open  *)
(* refuses to write a directory, and chdir to enter a file, with iunlockput,   *)
(* which leaves nothing behind.                                                *)
Namei(p) ==
    /\ \E i \in Inum, name \in {"open", "chdir"} :
         /\ May(p, name) /\ (name = "chdir" => i = Root)
         /\ \E m \in IF i = Root THEN {{"r"}} ELSE Modes :
              Starts(p, "ilock", [NoCall EXCEPT !.name = name, !.ip = i, !.mode = m])
         /\ iref' = [iref EXCEPT ![i] = @ + 1]
    /\ UNCHANGED <<ref, file, ends, tables, ilock, data, died>>

(* filealloc and fdalloc: the first free file, the first free descriptor.      *)
OpenAlloc(p) ==
    /\ In(p, "open")
    /\ IF FreeFiles = {} THEN Goes(p, "close") /\ UNCHANGED <<ref, ofile, call>> ELSE
       LET f == Min(FreeFiles) IN
       /\ ref' = [ref EXCEPT ![f] = 1]
       /\ IF Descs(p) = Fd
          THEN UNCHANGED ofile /\ Starts(p, "close", [call[p] EXCEPT !.todo = <<f>>])
          ELSE /\ ofile' = [ofile EXCEPT ![p][Min(Fd \ Descs(p))] = f]
               /\ Starts(p, "opened", [call[p] EXCEPT !.f = f])
    /\ UNCHANGED <<file, iref, ends, cwd, alive, ilock, data, died>>

(* The fields are set after iunlock: only this process has the file yet.       *)
Opened(p) ==
    /\ In(p, "opened")
    /\ ilock' = [ilock EXCEPT ![call[p].ip] = Nobody]
    /\ file' = [file EXCEPT ![call[p].f] =
                  [type |-> "INODE", obj |-> call[p].ip, mode |-> call[p].mode, off |-> 0]]
    /\ Returns(p)
    /\ UNCHANGED <<ref, iref, ends, tables, data, died>>

Chdir(p) ==
    /\ In(p, "chdir")
    /\ ilock' = [ilock EXCEPT ![call[p].ip] = Nobody]
    /\ iref' = [iref EXCEPT ![cwd[p]] = @ - 1]
    /\ cwd' = [cwd EXCEPT ![p] = call[p].ip]
    /\ Returns(p)
    /\ UNCHANGED <<ref, file, ends, ofile, alive, data, died>>
-----------------------------------------------------------------------------
(* dup, close and pipe                                                         *)

(* sys_dup puts the file in a descriptor, and counts it afterwards.            *)
Dup(p) ==
    /\ May(p, "dup") /\ Descs(p) # Fd
    /\ \E d \in Descs(p) :
         /\ ofile' = [ofile EXCEPT ![p][Min(Fd \ Descs(p))] = ofile[p][d]]
         /\ Starts(p, "dup", [NoCall EXCEPT !.f = ofile[p][d]])
    /\ UNCHANGED <<counts, cwd, alive, ilock, data, died>>

Filedup(f) ==
    IF ref[f] < 1 THEN died' = TRUE /\ UNCHANGED ref
    ELSE ref' = [ref EXCEPT ![f] = @ + 1] /\ UNCHANGED died

DupCount(p) ==
    /\ In(p, "dup") /\ Filedup(call[p].f) /\ Returns(p)
    /\ UNCHANGED <<file, iref, ends, tables, ilock, data>>

Close(p) ==
    /\ May(p, "close")
    /\ \E d \in Descs(p) :
         /\ ofile' = [ofile EXCEPT ![p][d] = NoFile]
         /\ CloseCount(p, ofile[p][d], [NoCall EXCEPT !.name = "close"])
    /\ UNCHANGED <<iref, ends, cwd, alive, ilock, data>>

Pipe(p) ==
    /\ May(p, "pipe") /\ Starts(p, "pipe", [NoCall EXCEPT !.name = "pipe"])
    /\ UNCHANGED <<counts, tables, ilock, data, died>>

(* pipealloc takes two files, in turn.                                         *)
PipeFile(p) ==
    /\ In(p, "pipe") /\ Len(call[p].todo) < 2
    /\ IF FreeFiles = {} THEN Goes(p, "close") /\ UNCHANGED <<ref, call>> ELSE
       /\ ref' = [ref EXCEPT ![Min(FreeFiles)] = 1]
       /\ Keeps(p, [call[p] EXCEPT !.todo = Append(@, Min(FreeFiles))]) /\ UNCHANGED step
    /\ UNCHANGED <<file, iref, ends, tables, ilock, data, died>>

PipeNoPage(p) ==
    /\ In(p, "pipe") /\ Len(call[p].todo) = 2 /\ Goes(p, "close")
    /\ UNCHANGED <<counts, tables, ilock, data, call, died>>

(* ... and a page.  Without two descriptors sys_pipe closes both ends again.   *)
PipeMake(p) ==
    /\ In(p, "pipe") /\ Len(call[p].todo) = 2
    /\ LET rf == call[p].todo[1]
           wf == call[p].todo[2]
           free == Fd \ Descs(p)
       IN /\ \E g \in PipePage :
               /\ ends[g] = {} /\ ends' = [ends EXCEPT ![g] = {"r", "w"}]
               /\ file' = [f \in File |->
                    CASE f = rf -> [type |-> "PIPE", obj |-> g, mode |-> {"r"}, off |-> 0]
                      [] f = wf -> [type |-> "PIPE", obj |-> g, mode |-> {"w"}, off |-> 0]
                      [] OTHER -> file[f]]
          /\ IF Cardinality(free) < 2 THEN Goes(p, "close") /\ UNCHANGED <<ofile, call>>
             ELSE /\ ofile' = [ofile EXCEPT ![p][Min(free)] = rf,
                                            ![p][Min(free \ {Min(free)})] = wf]
                  /\ Returns(p)
    /\ UNCHANGED <<ref, iref, cwd, alive, ilock, data, died>>
-----------------------------------------------------------------------------
(* fork, clone and exit                                                        *)

(* Both copy the descriptors into a process that nobody runs yet.              *)
Unborn == Proc \ (alive \cup {call[p].np : p \in alive})
Fork(p) ==
    /\ In(p, "user")
    /\ \E q \in Unborn : Starts(p, "fork", [NoCall EXCEPT !.np = q])
    /\ UNCHANGED <<counts, tables, ilock, data, died>>

Uncopied(p) == {d \in Descs(p) : ofile[call[p].np][d] = NoFile}
ForkDup(p) ==
    /\ In(p, "fork") /\ Uncopied(p) # {}
    /\ LET d == Min(Uncopied(p)) IN
       /\ Filedup(ofile[p][d])
       /\ ofile' = [ofile EXCEPT ![call[p].np][d] = ofile[p][d]]
    /\ UNCHANGED <<file, iref, ends, cwd, alive, ilock, data, step, call>>

\* idup, and the new process is RUNNABLE
ForkDone(p) ==
    /\ In(p, "fork") /\ Uncopied(p) = {}
    /\ iref' = [iref EXCEPT ![cwd[p]] = @ + 1]
    /\ cwd' = [cwd EXCEPT ![call[p].np] = cwd[p]]
    /\ alive' = alive \cup {call[p].np}
    /\ Returns(p)
    /\ UNCHANGED <<ref, file, ends, ofile, ilock, data, died>>

\* bound: the first process stays, as init does
ExitCall(p) ==
    /\ In(p, "user") /\ p # First
    /\ Starts(p, "close", [NoCall EXCEPT !.name = "exit"])
    /\ UNCHANGED <<counts, tables, ilock, data, died>>

ExitClose(p) ==
    /\ In(p, "close") /\ call[p].name = "exit" /\ Descs(p) # {}
    /\ CloseCount(p, ofile[p][Min(Descs(p))], call[p])
    /\ ofile' = [ofile EXCEPT ![p][Min(Descs(p))] = NoFile]
    /\ UNCHANGED <<iref, ends, cwd, alive, ilock, data>>

ExitDone(p) ==
    /\ In(p, "close") /\ call[p].name = "exit" /\ Descs(p) = {}
    /\ iref' = [iref EXCEPT ![cwd[p]] = @ - 1]
    /\ cwd' = [cwd EXCEPT ![p] = NoInum] /\ alive' = alive \ {p}
    /\ Returns(p)
    /\ UNCHANGED <<ref, file, ends, ofile, ilock, data, died>>
-----------------------------------------------------------------------------
(* read and write of an inode: fileread, readi; filewrite, writei              *)

Transfer(p) ==
    /\ \E d \in Descs(p), name \in {"read", "write"}, n \in Counts :
         LET f == ofile[p][d] IN
         /\ May(p, name)
         /\ (IF name = "read" THEN "r" ELSE "w") \in file[f].mode
         /\ file[f].type # "PIPE"
         /\ IF file[f].type = "NONE" THEN died' = TRUE /\ UNCHANGED <<step, call>> ELSE
            /\ Starts(p, "ilock", [NoCall EXCEPT !.name = name, !.f = f, !.n = n, !.ip = file[f].obj])
            /\ UNCHANGED died
    /\ UNCHANGED <<counts, tables, ilock, data>>

Off(p) == file[call[p].f].off
\* how far the call gets: readi stops at the size, writei at MAXFILE * BSIZE
Goal(p) ==
    Min({call[p].n, (IF call[p].name = "read" THEN Len(data[call[p].ip]) ELSE MaxSize) - Off(p)})
Next1(p) == Off(p) + Len(call[p].buf) + 1

ReadBlock(p) ==
    /\ In(p, "read") /\ Len(call[p].buf) < Goal(p)
    /\ Keeps(p, [call[p] EXCEPT !.buf = Append(@, data[call[p].ip][Next1(p)])])
    /\ UNCHANGED <<counts, tables, ilock, data, step, died>>

Put(c, k, p) == IF k > Len(c) THEN Append(c, p) ELSE [c EXCEPT ![k] = p]

(* Slip: a write lets go of the inode between its blocks.                      *)
WriteBlockUnlocks(p) ==
    /\ In(p, "write") /\ Len(call[p].buf) < Goal(p)
    /\ data' = [data EXCEPT ![call[p].ip] = Put(@, Next1(p), p)]
    /\ Starts(p, "ilock", [call[p] EXCEPT !.buf = Append(@, p)])
    /\ ilock' = [ilock EXCEPT ![call[p].ip] = Nobody]
    /\ UNCHANGED <<counts, tables, died>>

(* A byte is known by the process that wrote it.                               *)
WriteBlock(p) ==
    /\ In(p, "write") /\ Len(call[p].buf) < Goal(p)
    /\ data' = [data EXCEPT ![call[p].ip] = Put(@, Next1(p), p)]
    /\ Keeps(p, [call[p] EXCEPT !.buf = Append(@, p)])
    /\ UNCHANGED <<counts, tables, ilock, step, died>>

(* The offset moves before the inode is unlocked.                              *)
Transferred(p) ==
    /\ (In(p, "read") \/ In(p, "write")) /\ Len(call[p].buf) = Goal(p)
    /\ file' = [file EXCEPT ![call[p].f].off = @ + Len(call[p].buf)]
    /\ ilock' = [ilock EXCEPT ![call[p].ip] = Nobody]
    /\ Starts(p, "answer", [NoCall EXCEPT !.buf = IF call[p].name = "read" THEN call[p].buf ELSE <<>>])
    /\ UNCHANGED <<ref, iref, ends, tables, data, died>>

Answer(p) ==
    /\ In(p, "answer") /\ Returns(p)
    /\ UNCHANGED <<counts, tables, ilock, data, died>>
-----------------------------------------------------------------------------
FileStep(p) ==
    \/ Namei(p) \/ Ilock(p) \/ OpenAlloc(p) \/ Opened(p) \/ Chdir(p)
    \/ Dup(p) \/ DupCount(p) \/ Close(p) \/ Drop(p) \/ CloseNext(p) \/ CloseDone(p)
    \/ Pipe(p) \/ PipeFile(p) \/ PipeNoPage(p) \/ PipeMake(p)
    \/ Fork(p) \/ ForkDup(p) \/ ForkDone(p) \/ ExitCall(p) \/ ExitClose(p) \/ ExitDone(p)
    \/ Transfer(p) \/ ReadBlock(p) \/ WriteBlock(p) \/ Transferred(p) \/ Answer(p)

FilesNext == (\E p \in Proc : FileStep(p)) /\ UNCHANGED calls
FilesSpec == FilesInit /\ [][FilesNext]_files
-----------------------------------------------------------------------------
Showing(f) == {e \in Proc \X Fd : ofile[e[1]][e[2]] = f}
Dups(f) == {p \in alive : step[p] = "dup" /\ call[p].f = f}
Closings(f) == {p \in alive : f \in ToSet(call[p].todo)}
Opens(type, o) == {f \in File : ref[f] > 0 /\ file[f].type = type /\ file[f].obj = o}
Dropping(type, o) == {p \in alive : call[p].ff.type = type /\ call[p].ff.obj = o}
Dwellers(i) == {p \in alive : cwd[p] = i}
Finders(i) == {p \in alive : call[p].name \in {"open", "chdir"} /\ call[p].ip = i}

(* The counts are exact, whichever call failed half way and whoever closes at  *)
(* the same time: of a file the descriptors that show it, with the calls that  *)
(* have it in hand (dup, which counts late, is short of one); of an inode the  *)
(* open files, the current directories and the calls on their way; of a pipe   *)
(* the ends somebody can still use.  No count is found below 1.                *)
FilesSound ==
    /\ ~died
    /\ \A f \in File :
         /\ ref[f] + Cardinality(Dups(f)) = Cardinality(Showing(f)) + Cardinality(Closings(f))
         /\ ref[f] = 0 => file[f].type = "NONE"
    /\ \A i \in Inum :
         iref[i] = Cardinality(Opens("INODE", i)) + Cardinality(Dwellers(i))
                   + Cardinality(Finders(i)) + Cardinality(Dropping("INODE", i))
    /\ \A g \in PipePage :
         ends[g] = UNION ({file[f].mode : f \in Opens("PIPE", g)}
                          \cup {call[p].ff.mode : p \in Dropping("PIPE", g)})

(* The processes that share an open file through dup and fork share its        *)
(* offset, and each read and write takes effect at once, where the one before  *)
(* has left off: a write when it gets the lock, a read when it returns.        *)
Writing == {p \in alive : step[p] = "write"}
Written(i) ==
    IF \E p \in Writing : call[p].ip = i
    THEN LET p == CHOOSE p \in Writing : call[p].ip = i
             off == Off(p) + Len(call[p].buf)
         IN [k \in 1 .. Max({Len(data[i]), Off(p) + Goal(p)}) |->
               IF k \in off + 1 .. Off(p) + Goal(p) THEN p ELSE data[i][k]]
    ELSE data[i]
Writers(f) == {p \in Writing : call[p].f = f}
Offset(f) == IF Writers(f) = {} THEN file[f].off ELSE file[f].off + Goal(CHOOSE p \in Writers(f) : TRUE)
IsOpen(f) == file[f].type = "INODE"
Shared == INSTANCE SharedOffset WITH
    opened <- [f \in File |-> IF IsOpen(f) THEN file[f].obj ELSE NoInum],
    offset <- [f \in File |-> IF IsOpen(f) THEN Offset(f) ELSE 0],
    contents <- [i \in Inum |-> Written(i)],
    answer <- [p \in Proc |-> IF step[p] = "answer" THEN call[p].buf ELSE <<>>]
ImplementsShared == Shared!Spec
=============================================================================
