------------------------------ MODULE Spinlock ------------------------------
(* The spin locks of K4 (spinlock.c) with the interrupt state they keep per    *)
(* CPU, under what the kernel does with two of them: a device's lock that its  *)
(* interrupt handler and the processes that wait for it take (input.lock,      *)
(* idelock, tickslock), and ptable.lock, which sleep, wakeup, yield and the    *)
(* scheduler take, and which is held across swtch.  Every other module takes a *)
(* critical section as one step: this one says why it may.                     *)
(*                                                                             *)
(* A thread of control is a process in the kernel or the scheduler of a CPU;   *)
(* what it has still to do is a sequence of steps, and an interrupt puts its   *)
(* handler in front of it.                                                     *)
EXTENDS Integers, Sequences, FiniteSets

CONSTANTS CPU, Process, None

ASSUME NoneAssumption == None \notin Process \cup CPU /\ Process \cap CPU = {}

Locks == {"device", "ptable"}

VARIABLES
    locked, holder,     \* lk->locked, lk->cpu
    fl,                 \* a CPU's interrupt flag
    ncli, intena,       \* cpu->ncli, cpu->intena
    on,                 \* cpu->proc: None while the scheduler runs
    state,              \* p->state
    saved,              \* the local intena of a process's sched()
    code,               \* what a thread of control has still to do
    ready,              \* what the processes wait for has happened
    panicked

spins == <<locked, holder, fl, ncli, intena, on, state, saved, code, ready, panicked>>
locks == <<locked, holder>>
flags == <<fl, ncli, intena>>
procs == <<on, state, saved>>

Thread == Process \cup CPU
Running(c) == IF on[c] = None THEN c ELSE on[c]

Do(op) == <<<<op, "none">>>>
Acquire(l) == <<<<"pushcli", l>>, <<"xchg", l>>, <<"own", l>>>>
Release(l) == <<<<"disown", l>>, <<"clear", l>>, <<"popcli", l>>>>

(* Slip: sleep lets go of the caller's lock before it has ptable.lock.         *)
SleepReleasesFirst == Release("device") \o Acquire("ptable") \o Do("sleep") \o Do("sched")
           \o Do("resume") \o Release("ptable") \o Acquire("device") \o Do("test")

(* sleep(chan, &device lock), up to the test of the loop around it.            *)
Sleep == Acquire("ptable") \o Release("device") \o Do("sleep") \o Do("sched")
           \o Do("resume") \o Release("ptable") \o Acquire("device") \o Do("test")
Wakeup == Acquire("ptable") \o Do("wakeup1") \o Release("ptable")
Yield == Acquire("ptable") \o Do("yield") \o Do("sched") \o Do("resume") \o Release("ptable")
Scheduler == Do("sti") \o Acquire("ptable") \o Do("pick")
Handler == Acquire("device") \o Do("event") \o Wakeup \o Release("device")

SpinInit ==
    /\ locked = [l \in Locks |-> 0] /\ holder = [l \in Locks |-> None]
    /\ fl = [c \in CPU |-> TRUE]
    /\ ncli = [c \in CPU |-> 0] /\ intena = [c \in CPU |-> FALSE]
    /\ on = [c \in CPU |-> None]
    /\ state = [p \in Process |-> "RUNNABLE"]
    /\ saved = [p \in Process |-> FALSE]
    /\ code = [t \in Thread |-> IF t \in CPU THEN Scheduler
                                ELSE Release("ptable") \o Do("ret")]   \* forkret
    /\ ready = FALSE /\ panicked = FALSE

(* The next step of what runs on c is op; l is the lock it is about.           *)
Does(c, op) == ~panicked /\ code[Running(c)] # <<>> /\ Head(code[Running(c)])[1] = op
Lock(c) == Head(code[Running(c)])[2]
Rest(c) == Tail(code[Running(c)])
Goto(c, s) == code' = [code EXCEPT ![Running(c)] = s]
Panic == panicked' = TRUE /\ UNCHANGED <<locks, flags, procs, code, ready>>
Holding(c, l) == locked[l] = 1 /\ holder[l] = c
-----------------------------------------------------------------------------
(* acquire: pushcli and the test of holding, ...                               *)
Intena(c) == IF ncli[c] = 0 THEN [intena EXCEPT ![c] = fl[c]] ELSE intena
Pushcli(c) ==
    /\ Does(c, "pushcli")
    /\ IF Holding(c, Lock(c)) THEN Panic ELSE
       /\ fl' = [fl EXCEPT ![c] = FALSE]
       /\ ncli' = [ncli EXCEPT ![c] = @ + 1]
       /\ intena' = Intena(c)
       /\ Goto(c, Rest(c))
       /\ UNCHANGED <<locks, procs, ready, panicked>>

(* Slip: the lock is taken for free when no CPU is noted in it.                *)
FreeUnlessOwned(l) == holder[l] = None

Free(l) == locked[l] = 0

(* ... the exchange that finds the lock free, ...                              *)
Xchg(c) ==
    /\ Does(c, "xchg")
    /\ Free(Lock(c))
    /\ locked' = [locked EXCEPT ![Lock(c)] = 1]
    /\ Goto(c, Rest(c))
    /\ UNCHANGED <<holder, flags, procs, ready, panicked>>

(* ... and the store of the CPU.                                               *)
Own(c) ==
    /\ Does(c, "own")
    /\ holder' = [holder EXCEPT ![Lock(c)] = c]
    /\ Goto(c, Rest(c))
    /\ UNCHANGED <<locked, flags, procs, ready, panicked>>

(* release: the test of holding and lk->cpu = 0, ...                           *)
Disown(c) ==
    /\ Does(c, "disown")
    /\ IF ~Holding(c, Lock(c)) THEN Panic ELSE
       /\ holder' = [holder EXCEPT ![Lock(c)] = None]
       /\ Goto(c, Rest(c))
       /\ UNCHANGED <<locked, flags, procs, ready, panicked>>

(* ... the exchange, ...                                                       *)
Clear(c) ==
    /\ Does(c, "clear")
    /\ locked' = [locked EXCEPT ![Lock(c)] = 0]
    /\ Goto(c, Rest(c))
    /\ UNCHANGED <<holder, flags, procs, ready, panicked>>

(* ... and popcli.                                                             *)
Enables(c) == ncli[c] = 1 /\ intena[c]
Popcli(c) ==
    /\ Does(c, "popcli")
    /\ IF fl[c] \/ ncli[c] = 0 THEN Panic ELSE
       /\ ncli' = [ncli EXCEPT ![c] = @ - 1]
       /\ fl' = [fl EXCEPT ![c] = Enables(c)]
       /\ Goto(c, Rest(c))
       /\ UNCHANGED <<locks, intena, procs, ready, panicked>>
-----------------------------------------------------------------------------
(* A process calls: acquire the device's lock and test, as consoleread does.   *)
Syscall(c) ==
    /\ ~panicked /\ on[c] # None /\ code[on[c]] = <<>>
    /\ Goto(c, Acquire("device") \o Do("test"))
    /\ UNCHANGED <<locks, flags, procs, ready, panicked>>

(* while(nothing there) sleep; take it and return to user mode.                *)
Test(c) ==
    /\ Does(c, "test")
    /\ IF ready
       THEN ready' = FALSE /\ Goto(c, Release("device") \o Do("ret"))
       ELSE Goto(c, Sleep) /\ UNCHANGED ready
    /\ UNCHANGED <<locks, flags, procs, panicked>>

(* The return to user mode, or of a handler ("iret") to what it interrupted:   *)
(* both had interrupts on.                                                     *)
Iret(c) ==
    /\ Does(c, "ret") \/ Does(c, "iret")
    /\ fl' = [fl EXCEPT ![c] = TRUE]
    /\ Goto(c, Rest(c))
    /\ UNCHANGED <<locks, ncli, intena, procs, ready, panicked>>

(* sleep and yield: p->state under ptable.lock.                                *)
SetState(c) ==
    /\ Does(c, "sleep") \/ Does(c, "yield")
    /\ state' = [state EXCEPT ![on[c]] = IF Does(c, "sleep") THEN "SLEEPING" ELSE "RUNNABLE"]
    /\ Goto(c, Rest(c))
    /\ UNCHANGED <<locks, flags, on, saved, ready, panicked>>

(* sched: its tests, and the swtch to the scheduler, which goes on after its   *)
(* own swtch with proc = 0.                                                    *)
SchedPanics(c) ==
    ~Holding(c, "ptable") \/ ncli[c] # 1 \/ state[on[c]] = "RUNNING" \/ fl[c]
Sched(c) ==
    /\ Does(c, "sched")
    /\ IF SchedPanics(c) THEN Panic ELSE
       /\ saved' = [saved EXCEPT ![on[c]] = intena[c]]
       /\ on' = [on EXCEPT ![c] = None]
       /\ Goto(c, Rest(c))
       /\ UNCHANGED <<locks, flags, state, ready, panicked>>

(* sched behind its swtch, maybe on another CPU: cpu->intena = intena.         *)
Resume(c) ==
    /\ Does(c, "resume")
    /\ intena' = [intena EXCEPT ![c] = saved[on[c]]]
    /\ Goto(c, Rest(c))
    /\ UNCHANGED <<locks, fl, ncli, procs, ready, panicked>>

(* The scheduler: sti at the top of its loop, ...                              *)
Sti(c) ==
    /\ Does(c, "sti")
    /\ fl' = [fl EXCEPT ![c] = TRUE]
    /\ Goto(c, Rest(c))
    /\ UNCHANGED <<locks, ncli, intena, procs, ready, panicked>>

(* ... the dispatch of a process its scan finds, ...                           *)
Dispatch(c, p) ==
    /\ Does(c, "pick") /\ on[c] = None /\ state[p] = "RUNNABLE"
    /\ state' = [state EXCEPT ![p] = "RUNNING"]
    /\ on' = [on EXCEPT ![c] = p]
    /\ UNCHANGED <<locks, flags, saved, code, ready, panicked>>

(* ... and the end of a scan.                                                  *)
ScanEnds(c) ==
    /\ Does(c, "pick")
    /\ Goto(c, Release("ptable") \o Scheduler)
    /\ UNCHANGED <<locks, flags, procs, ready, panicked>>

(* The handler notes what happened and wakes whoever waits (wakeup1).          *)
Event(c) ==
    /\ Does(c, "event")
    /\ ready' = TRUE
    /\ Goto(c, Rest(c))
    /\ UNCHANGED <<locks, flags, procs, panicked>>

Wakeup1(c) ==
    /\ Does(c, "wakeup1")
    /\ state' = [p \in Process |-> IF state[p] = "SLEEPING" THEN "RUNNABLE" ELSE state[p]]
    /\ Goto(c, Rest(c))
    /\ UNCHANGED <<locks, flags, on, saved, ready, panicked>>
-----------------------------------------------------------------------------
(* An interrupt is taken where the flag is on; the gate turns it off (trap).   *)
Interrupt(c, handler) ==
    /\ ~panicked /\ fl[c]
    /\ fl' = [fl EXCEPT ![c] = FALSE]
    /\ Goto(c, handler \o Do("iret") \o code[Running(c)])
    /\ UNCHANGED <<locks, ncli, intena, procs, ready, panicked>>
DeviceInterrupt(c) == Interrupt(c, Handler)
TimerInterrupt(c) == on[c] # None /\ state[on[c]] = "RUNNING" /\ Interrupt(c, Yield)

Step(c) ==
    \/ Pushcli(c) \/ Own(c) \/ Disown(c) \/ Clear(c) \/ Popcli(c)
    \/ Test(c) \/ Iret(c) \/ SetState(c) \/ Sched(c) \/ Resume(c) \/ Sti(c)
    \/ ScanEnds(c) \/ Event(c) \/ Wakeup1(c)
SpinNext ==
    \E c \in CPU :
        \/ Step(c) \/ Xchg(c) \/ Syscall(c) \/ DeviceInterrupt(c) \/ TimerInterrupt(c)
        \/ \E p \in Process : Dispatch(c, p)

SpinSpec == SpinInit /\ [][SpinNext]_spins
-----------------------------------------------------------------------------
SpinTypeOK ==
    /\ locked \in [Locks -> {0, 1}] /\ holder \in [Locks -> CPU \cup {None}]
    /\ fl \in [CPU -> BOOLEAN] /\ intena \in [CPU -> BOOLEAN]
    /\ ncli \in [CPU -> 0 .. 2]
    /\ on \in [CPU -> Process \cup {None}]
    /\ state \in [Process -> {"RUNNABLE", "RUNNING", "SLEEPING"}]
    /\ saved \in [Process -> BOOLEAN]
    /\ ready \in BOOLEAN /\ panicked \in BOOLEAN

(* No assertion of spinlock.c or sched() fails: nobody acquires a lock its CPU *)
(* holds, releases one it does not, or switches with another lock held or      *)
(* interrupts on.                                                              *)
NoPanic == ~panicked

(* A CPU between the exchange of acquire and that of release: so are a process *)
(* at its test, the scheduler in its scan, and both sides of a swtch.          *)
Inside(c, l) ==
    LET s == code[Running(c)] IN
    \E i \in 1 .. Len(s) :
        /\ s[i] \in {<<"clear", l>>, <<IF l = "ptable" THEN "pick" ELSE "test", "none">>}
        /\ \A j \in 1 .. i : s[j] # <<"xchg", l>>

(* A lock is taken exactly while one CPU is inside it, and that CPU takes no   *)
(* interrupt, so that no handler spins on what it interrupted.                 *)
LocksHeld ==
    \A l \in Locks :
        /\ locked[l] = 1 <=> \E c \in CPU : Inside(c, l)
        /\ \A c \in CPU : Inside(c, l) =>
              ~fl[c] /\ ncli[c] > 0 /\ \A d \in CPU \ {c} : ~Inside(d, l)

(* The thread of control t has a step op still to do.                          *)
Has(t, op) == op \in {code[t][i][1] : i \in 1 .. Len(code[t])}

(* A handler runs with interrupts off to its iret, and a process in a system   *)
(* call or in user mode has them on whenever it is outside the locks, whatever *)
(* CPU it slept on and whichever process had its CPU meanwhile.                *)
Handling(c) == Has(Running(c), "iret")
InterruptsRestored ==
    \A c \in CPU :
        /\ Handling(c) => ~fl[c]
        /\ on[c] # None /\ ncli[c] = 0 /\ ~Handling(c) /\ ~Does(c, "ret") => fl[c]

(* All of the locks' promises: no panic of spinlock.c or proc.c is met, one    *)
(* thread holds a lock, with interrupts off, and they come back as they were.  *)
LocksSound == SpinTypeOK /\ NoPanic /\ LocksHeld /\ InterruptsRestored

(* No process sleeps through what it waits for: if it has happened, a handler  *)
(* has still to wake the sleepers, or a process that is awake will take it.    *)
NoLostWakeup ==
    ready /\ (\E p \in Process : state[p] = "SLEEPING") =>
        \/ \E t \in Thread : Has(t, "wakeup1") /\ ~Has(t, "event")
        \/ \E q \in Process : state[q] # "SLEEPING" /\ Has(q, "test")
=============================================================================
