------------------------------ MODULE Scheduler ------------------------------
(***************************************************************************)
(* The single CPU of the kernel and everything that decides what it runs:  *)
(* the round-robin list (process/scheduler.c), the context switch, the     *)
(* trampolines of new processes, the timer and keyboard interrupts with    *)
(* the PIC's in-service bit, and the system calls that block, yield, exit  *)
(* or consume keys.                                                        *)
(*                                                                         *)
(* A process is its position in the circular list: 0 is idle and           *)
(* scheduler_add appends 1, 2, ...; nothing ever leaves the list.          *)
(* Interrupts are taken only where the code runs with IF=1 (thread code,   *)
(* and the boot flow after `sti'), so a kernel entry is one step up to its *)
(* context switch or return.  The code that a context switch lands in (the *)
(* rest of timer_handler, of a system call, a trampoline) is the next      *)
(* step; `pc' names it.                                                    *)
(***************************************************************************)
EXTENDS Integers

CONSTANTS
    N,          \* length of the list once every process is added, idle included
    User,       \* positions holding a user process (it has a page table)
    Calls,      \* what user programs do: a set of names from AllCalls
    MaxSleep,   \* longest sys_sleep argument
    KbCap,      \* characters kb_buf can hold (KB_BUFFER_SIZE - 1 = 63 in the code)
    BootIrq     \* may an interrupt arrive between `sti' and the first switch?

AllCalls == {"sleep", "yield", "exit", "read", "getkey", "other", "fault"}

ASSUME ConfigAssumption ==
    /\ N \in Nat \ {0}
    /\ User \subseteq 1 .. N-1
    /\ Calls \subseteq AllCalls
    /\ MaxSleep \in Nat
    /\ KbCap \in Nat
    /\ BootIrq \in BOOLEAN

VARIABLES
    n,            \* processes in the list so far
    state,        \* process_t.state
    wait_reason,  \* process_t.wait_reason
    left,         \* wake_tick - ticks, never below 0
    current,      \* the scheduler's `current'
    pc,           \* what the CPU executes (see PcValues)
    saved,        \* where process_t.context.rsp leads
    frame,        \* is the stack frame it leads to still there?
    isr0,         \* PIC: the timer interrupt is in service, no EOI yet
    tss,          \* whose kernel_stack is in TSS.rsp0 (0: none yet)
    cr3,          \* whose page table is loaded (0: the boot page table)
    regs,         \* whose callee-saved registers the CPU holds
    chars         \* characters waiting in kb_buf

vars == <<n, state, wait_reason, left, current, pc, saved, frame, isr0,
          tss, cr3, regs, chars>>

Procs == 0 .. N-1

(* Where a context switch can land, always with IF=0: the trampoline of a  *)
(* new process, timer_handler after scheduler_tick (interrupted thread     *)
(* code, or the boot flow at one of two places), sys_sleep/sys_yield,      *)
(* the loop of sys_read, the hlt loop of sys_exit.                         *)
SyscallConts == {"call", "read", "exit"}
BootConts == {"boot0", "boot1"}
Conts == {"new", "irq"} \cup BootConts \cup SyscallConts

(* "init": kernel_main before `sti'; "b0": at the entry of scheduler_start; *)
(* "b1": in it, `current' already moved; "thread": current's own code;      *)
(* "hung": hlt with IF=0 after a page fault; "wild": the CPU has returned   *)
(* through a stack frame that was overwritten, what follows is undefined.   *)
PcValues == {"init", "b0", "b1", "thread", "hung", "wild"} \cup Conts

TypeOK ==
    /\ n \in 1 .. N
    /\ state \in [Procs -> {"READY", "RUNNING", "BLOCKED", "DEAD"}]
    /\ wait_reason \in [Procs -> {"NONE", "SLEEP", "KEY"}]
    /\ left \in [Procs -> Nat]
    /\ current \in 0 .. n-1
    /\ pc \in PcValues
    /\ saved \in [Procs -> Conts]
    /\ frame \in [Procs -> {"live", "spent", "lost"}]
    /\ isr0 \in BOOLEAN
    /\ tss \in User \cup {0}
    /\ cr3 \in User \cup {0}
    /\ regs \in Procs
    /\ chars \in 0 .. KbCap

-----------------------------------------------------------------------------
(* context_switch, and what it finds on the stack it switches to.          *)

(* syscall_entry puts every process's frame at the top of the one shared   *)
(* syscall_stack, so it overwrites the frame of whoever is suspended there. *)
syscall_entry ==
    [p \in Procs |-> IF p # current /\ saved[p] \in SyscallConts
                     THEN "lost" ELSE frame[p]]

(* An interrupt frame, or a call, on the boot stack overwrites a frame of  *)
(* the boot flow that was already resumed once.                            *)
BootStackPush ==
    [p \in Procs |-> IF saved[p] \in BootConts /\ frame[p] = "spent"
                     THEN "lost" ELSE frame[p]]

irq_stub == IF pc \in {"b0", "b1"} THEN BootStackPush ELSE frame

(* Mutant: rsp0 is set up once and never moved.                            *)
tss_set_once(p) == tss' = IF p \in User /\ tss = 0 THEN p ELSE tss

tss_set_kernel_stack(p) == tss' = IF p \in User THEN p ELSE tss

(* Mutant: the outgoing rsp is not stored.                                 *)
switch_without_save(sv, fr, next) ==
    /\ saved' = saved
    /\ frame' = [frame EXCEPT ![next] = IF @ = "lost" THEN @ ELSE "spent"]
    /\ cr3' = IF next \in User THEN next ELSE cr3
    /\ pc' = IF frame[next] = "lost" THEN "wild" ELSE saved[next]

(* sv, fr: saved and frame once the outgoing rsp has been stored.          *)
context_switch(sv, fr, next) ==
    /\ saved' = sv
    /\ frame' = [fr EXCEPT ![next] = IF @ = "lost" THEN @ ELSE "spent"]
    /\ cr3' = IF next \in User THEN next ELSE cr3
    /\ pc' = IF fr[next] = "lost" THEN "wild" ELSE sv[next]

-----------------------------------------------------------------------------
(* scheduler.c                                                             *)

(* Mutant: the scan forgets dead processes.                                *)
RunnableUnlessBlocked(s) == s # "BLOCKED"

Runnable(s) == s \notin {"DEAD", "BLOCKED"}

(* Mutant: the wake-up scan stops one process early.                       *)
DueButLast(st, wr, lf, p) ==
    p \in 1 .. n-2 /\ st[p] = "BLOCKED" /\ wr[p] = "SLEEP" /\ lf[p] = 0

Due(st, wr, lf, p) ==
    p \in 1 .. n-1 /\ st[p] = "BLOCKED" /\ wr[p] = "SLEEP" /\ lf[p] = 0

Woken(st, wr, lf) == [p \in Procs |-> IF Due(st, wr, lf, p) THEN "READY" ELSE st[p]]

(* The circular list: the node i links away from idle, for i < 2n.         *)
Pos(i) == IF i < n THEN i ELSE i - n

(* Steps from current to the first runnable process after it; n leads back *)
(* to current itself.                                                      *)
Hops(st) == {k \in 1 .. n : k = n \/ Runnable(st[Pos(current + k)])}

(* Mutant: the search starts at the head of the list instead of current.   *)
FirstProc(st) ==
    LET K == {k \in 1 .. n : k = n \/ Runnable(st[Pos(k)])}
    IN  Pos(CHOOSE k \in K : \A j \in K : k <= j)

NextProc(st) == Pos(current + (CHOOSE k \in Hops(st) : \A j \in Hops(st) : k <= j))

(* Mutant: the outgoing process stays RUNNING.                             *)
SwitchKeepsRunning(st, next) == [st EXCEPT ![next] = "RUNNING"]

SwitchStates(st, next) ==
    [st EXCEPT ![current] = IF @ = "RUNNING" THEN "READY" ELSE @, ![next] = "RUNNING"]

(* st, wr, lf: the process table as the caller left it; k: the code the    *)
(* caller continues with when scheduler_tick returns to it; fr: frames.    *)
scheduler_tick(st, wr, lf, k, fr) ==
    LET woken == Woken(st, wr, lf)
        next  == NextProc(woken)
    IN  /\ wait_reason' = [p \in Procs |-> IF Due(st, wr, lf, p) THEN "NONE" ELSE wr[p]]
        /\ left' = lf
        /\ \/ /\ next = current
              /\ state' = woken
              /\ pc' = k
              /\ frame' = fr
              /\ UNCHANGED <<current, saved, tss, cr3>>
           \/ /\ next # current
              /\ state' = SwitchStates(woken, next)
              /\ current' = next
              /\ tss_set_kernel_stack(next)
              /\ context_switch([saved EXCEPT ![current] = k],
                                [fr EXCEPT ![current] = "live"], next)

(* Mutant: the reason of the wait is not looked at.                        *)
AnyWaiters == {p \in 1 .. n-1 : state[p] = "BLOCKED"}

KeyWaiters == {p \in 1 .. n-1 : state[p] = "BLOCKED" /\ wait_reason[p] = "KEY"}

(* Mutant: only the process after idle is looked at.                       *)
wake_head_only ==
    IF 1 \notin KeyWaiters THEN UNCHANGED <<state, wait_reason>>
    ELSE /\ state' = [state EXCEPT ![1] = "READY"]
         /\ wait_reason' = [wait_reason EXCEPT ![1] = "NONE"]

(* Only the first waiter in list order is woken.                           *)
scheduler_wake_key_waiter ==
    IF KeyWaiters = {} THEN UNCHANGED <<state, wait_reason>>
    ELSE LET p == CHOOSE q \in KeyWaiters : \A r \in KeyWaiters : q <= r
         IN  /\ state' = [state EXCEPT ![p] = "READY"]
             /\ wait_reason' = [wait_reason EXCEPT ![p] = "NONE"]

(* scheduler_init has run; no process is added yet.                        *)
Init ==
    /\ n = 1
    /\ state = [p \in Procs |-> IF p = 0 THEN "RUNNING" ELSE "READY"]
    /\ wait_reason = [p \in Procs |-> "NONE"]
    /\ left = [p \in Procs |-> 0]
    /\ current = 0
    /\ pc = "init"
    /\ saved = [p \in Procs |-> "new"]
    /\ frame = [p \in Procs |-> "live"]
    /\ isr0 = FALSE
    /\ tss = 0 /\ cr3 = 0 /\ regs = 0
    /\ chars = 0

scheduler_add ==
    /\ pc = "init" /\ n < N
    /\ n' = n + 1
    /\ state' = [state EXCEPT ![n] = "READY"]
    /\ UNCHANGED <<wait_reason, left, current, pc, saved, frame, isr0, tss, cr3,
                   regs, chars>>

(* kernel_main: `sti', then the call of scheduler_start.                   *)
kernel_main_sti ==
    /\ pc = "init"
    /\ pc' = "b0"
    /\ UNCHANGED <<n, state, wait_reason, left, current, saved, frame, isr0, tss,
                   cr3, regs, chars>>

(* scheduler_start up to `current = next': next is marked RUNNING whatever *)
(* its state was, and idle keeps the state it had.                         *)
scheduler_start_pick ==
    /\ pc = "b0"
    /\ current' = Pos(current + 1)
    /\ state' = [state EXCEPT ![current'] = "RUNNING"]
    /\ pc' = "b1"
    /\ UNCHANGED <<n, wait_reason, left, saved, frame, isr0, tss, cr3, regs, chars>>

(* The rest of it.  The outgoing rsp goes into boot_context, which nothing *)
(* ever resumes.                                                           *)
scheduler_start_switch ==
    /\ pc = "b1"
    /\ tss_set_kernel_stack(current)
    /\ context_switch(saved, IF current \in User THEN BootStackPush ELSE frame, current)
    /\ UNCHANGED <<n, state, wait_reason, left, current, isr0, regs, chars>>

-----------------------------------------------------------------------------
(* Interrupts.  The 8259A delivers neither line while IRQ0 is in service.  *)

InterruptsOn == ~isr0 /\ (pc = "thread" \/ (BootIrq /\ pc \in {"b0", "b1"}))

InterruptedAt == IF pc = "thread" THEN "irq" ELSE IF pc = "b0" THEN "boot0" ELSE "boot1"

(* Mutant: the tick is not counted.                                        *)
NotTicked == left

Ticked == [p \in Procs |-> IF left[p] > 0 THEN left[p] - 1 ELSE 0]

(* ticks++; scheduler_tick(); the EOI comes after the switch, in "irq".    *)
timer_handler ==
    /\ InterruptsOn
    /\ isr0' = TRUE
    /\ scheduler_tick(state, wait_reason, Ticked, InterruptedAt, irq_stub)
    /\ UNCHANGED <<n, regs, chars>>

(* A make code with a character: queued unless kb_buf is full, and the     *)
(* first waiter woken either way.  The handler's own EOI ends it.          *)
keyboard_handler ==
    /\ InterruptsOn
    /\ chars' = IF chars < KbCap THEN chars + 1 ELSE chars
    /\ scheduler_wake_key_waiter
    /\ frame' = irq_stub
    /\ UNCHANGED <<n, left, current, pc, saved, isr0, tss, cr3, regs>>

(* Mutant: the EOI is never sent.                                          *)
eoi_forgotten == UNCHANGED isr0

pic_send_eoi == isr0' = FALSE

(* The rest of timer_handler and of the stub: back to the interrupted code. *)
irq_common_stub ==
    /\ pc \in {"irq"} \cup BootConts
    /\ pic_send_eoi
    /\ pc' = CASE pc = "boot0" -> "b0" [] pc = "boot1" -> "b1" [] OTHER -> "thread"
    /\ regs' = current
    /\ UNCHANGED <<n, state, wait_reason, left, current, saved, frame, tss, cr3, chars>>

(* First run: EOI, then sti and the entry function, or iretq to ring 3.    *)
process_trampoline_fn ==
    /\ pc = "new"
    /\ pic_send_eoi
    /\ pc' = "thread"
    /\ regs' = current
    /\ UNCHANGED <<n, state, wait_reason, left, current, saved, frame, tss, cr3, chars>>

-----------------------------------------------------------------------------
(* System calls.  IF=0 from syscall_entry to sysretq.                      *)

keyboard_getchar == IF chars > 0 THEN chars - 1 ELSE chars

InUser(call) == pc = "thread" /\ current \in User /\ call \in Calls

sys_sleep ==
    /\ InUser("sleep")
    /\ \E t \in 0 .. MaxSleep :
         scheduler_tick([state EXCEPT ![current] = "BLOCKED"],
                        [wait_reason EXCEPT ![current] = "SLEEP"],
                        [left EXCEPT ![current] = t], "call", syscall_entry)
    /\ UNCHANGED <<n, isr0, regs, chars>>

sys_yield ==
    /\ InUser("yield")
    /\ scheduler_tick(state, wait_reason, left, "call", syscall_entry)
    /\ UNCHANGED <<n, isr0, regs, chars>>

sys_exit ==
    /\ InUser("exit")
    /\ scheduler_tick([state EXCEPT ![current] = "DEAD"], wait_reason, left, "exit",
                      syscall_entry)
    /\ UNCHANGED <<n, isr0, regs, chars>>

sys_read ==
    /\ InUser("read")
    /\ pc' = "read"
    /\ frame' = syscall_entry
    /\ UNCHANGED <<n, state, wait_reason, left, current, saved, isr0, tss, cr3, regs, chars>>

(* The inner loop of sys_read: no character, so block and switch away.     *)
sys_read_wait ==
    /\ pc = "read" /\ chars = 0
    /\ scheduler_tick([state EXCEPT ![current] = "BLOCKED"],
                      [wait_reason EXCEPT ![current] = "KEY"], left, "read", frame)
    /\ UNCHANGED <<n, isr0, regs, chars>>

(* Take a character, then go round again or return.  buf, i and len live   *)
(* in callee-saved registers: after a switch they are another process's,   *)
(* so where the store goes and when the loop ends is undefined.            *)
sys_read_char ==
    /\ pc = "read" /\ chars > 0
    /\ chars' = keyboard_getchar
    /\ \/ pc' = "read" /\ UNCHANGED regs
       \/ pc' = "thread" /\ regs' = current
       \/ regs # current /\ pc' = "wild" /\ UNCHANGED regs
    /\ UNCHANGED <<n, state, wait_reason, left, current, saved, frame, isr0, tss, cr3>>

(* sys_sleep or sys_yield returns; no EOI on this path.                    *)
sysret ==
    /\ pc = "call"
    /\ pc' = "thread"
    /\ regs' = current
    /\ UNCHANGED <<n, state, wait_reason, left, current, saved, frame, isr0, tss, cr3, chars>>

sys_getkey ==
    /\ InUser("getkey")
    /\ chars' = keyboard_getchar
    /\ frame' = syscall_entry
    /\ UNCHANGED <<n, state, wait_reason, left, current, pc, saved, isr0, tss, cr3, regs>>

(* Every call that neither switches nor touches this state.                *)
syscall_dispatch ==
    /\ InUser("other")
    /\ frame' = syscall_entry
    /\ UNCHANGED <<n, state, wait_reason, left, current, pc, saved, isr0, tss, cr3,
                   regs, chars>>

(* A page fault in ring 3 ends in a hlt loop with interrupts disabled.     *)
page_fault_handler ==
    /\ InUser("fault")
    /\ pc' = "hung"
    /\ UNCHANGED <<n, state, wait_reason, left, current, saved, frame, isr0, tss, cr3,
                   regs, chars>>

-----------------------------------------------------------------------------

Interrupt == timer_handler \/ keyboard_handler

Syscall == sys_sleep \/ sys_yield \/ sys_exit \/ sys_read \/ sys_getkey
           \/ syscall_dispatch \/ page_fault_handler

KernelStep == kernel_main_sti \/ scheduler_start_pick \/ scheduler_start_switch
              \/ irq_common_stub \/ process_trampoline_fn \/ sysret \/ sys_read_wait \/ sys_read_char

Next == scheduler_add \/ Interrupt \/ Syscall \/ KernelStep

Spec == Init /\ [][Next]_vars

(* Every kernel step in progress completes; a latched timer interrupt is   *)
(* delivered once it can be (IRR0 stays set until it is acknowledged).     *)
FairSpec == Spec /\ WF_vars(KernelStep) /\ SF_vars(timer_handler)

(* In addition, a user program that keeps the CPU makes some system call   *)
(* that reaches the scheduler, sooner or later.                            *)
CooperativeSpec == FairSpec /\ WF_vars(sys_sleep \/ sys_yield \/ sys_exit)

-----------------------------------------------------------------------------
(* Properties.                                                             *)

(* The process the CPU executes is marked RUNNING, and nobody else is but  *)
(* possibly idle, which scheduler_start leaves as it was.  So a process    *)
(* that blocked or exited has always left the CPU: sys_sleep never returns *)
(* early, and sys_exit never reaches its hlt loop.                         *)
OneRunning ==
    /\ state[current] = "RUNNING"
    /\ \A p \in Procs : state[p] = "RUNNING" => p \in {current, 0}

(* Scheduling ends a wait only when it is over: a sleeper stops being      *)
(* BLOCKED only in a step that leaves its time at zero, a key waiter only  *)
(* in keyboard_handler.                                                    *)
WakesOnlyWhenDue ==
    [][\A p \in Procs :
         (state[p] = "BLOCKED" /\ state'[p] # "BLOCKED") =>
            IF wait_reason[p] = "SLEEP" THEN left'[p] = 0 ELSE keyboard_handler]_vars

(* scheduler_tick wakes every sleeper whose time has come: none is left    *)
(* BLOCKED with its wake_tick reached, wherever it is in the list.         *)
SleepersNotOverdue ==
    \A p \in Procs : state[p] = "BLOCKED" /\ wait_reason[p] = "SLEEP" => left[p] > 0

(* A user process in ring 3 has its own page table in CR3, and its own     *)
(* kernel stack in TSS.rsp0 for the next interrupt to use, whatever ran    *)
(* in between.                                                             *)
UserRunsOnItsOwn ==
    pc = "thread" /\ current \in User => tss = current /\ cr3 = current

(* No lost wakeup in sys_read: while a process is blocked for a key and    *)
(* characters are waiting, some reader already woken is on its way to them. *)
Readers == {p \in 1 .. n-1 : IF p = current THEN pc = "read"
                             ELSE state[p] = "READY" /\ saved[p] = "read"}
NoLostKeyWakeup ==
    pc # "wild" /\ KeyWaiters # {} /\ chars > 0 => Readers # {}

(* The timer stays unacknowledged in thread code only for a user process   *)
(* that came back through a system call; idle, kernel processes and new    *)
(* processes always run with the timer re-armed.                           *)
TimerHeldOnlyAfterSyscall ==
    isr0 /\ pc = "thread" => current \in User /\ saved[current] \in {"call", "read"}

(* Control never leaves the program: no return through an overwritten      *)
(* frame, and no fall into the hlt loop that ends sys_exit.                *)
ControlIntact == pc \notin {"wild", "exit"}

(* context_switch returns to where that process last called it, or to its  *)
(* trampoline on its first run: no saved context is resumed twice.         *)
LandsOnLatestContext ==
    [][(pc' \in Conts \cup {"wild"} /\ (current' # current \/ pc = "b1"))
         => frame[current'] = "live"]_vars

(* A process that can run gets the CPU.                                    *)
ReadyRuns ==
    \A p \in Procs : (p < n /\ state[p] = "READY") ~> (current = p)

(* A sleeping process wakes up.                                            *)
SleeperWakes ==
    \A p \in Procs : (state[p] = "BLOCKED" /\ wait_reason[p] = "SLEEP") ~> (state[p] # "BLOCKED")

(* The scheduler implements the task system: processes are its tasks and   *)
(* `current' is its owner.                                                 *)
StatusOf(s) == CASE s = "BLOCKED" -> "blocked" [] s = "DEAD" -> "dead" [] OTHER -> "ready"

Tasks == INSTANCE TaskSystem WITH
    Task <- Procs, Idle <- 0, tasks <- 0 .. n-1,
    status <- [p \in Procs |-> StatusOf(state[p])], owner <- current

ImplementsTaskSystem == Tasks!TSpec

-----------------------------------------------------------------------------
(* What the repository says of this code and the code does not do.         *)

(* README.md: the timer interrupt preempts the current process: whatever   *)
(* a process does, one that is ready gets the CPU.                         *)
TimerPreempts == ReadyRuns

=============================================================================
