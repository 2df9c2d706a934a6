------------------------------- MODULE Machine -------------------------------
(***************************************************************************)
(* The CPU's tables and its ways in and out of the kernel: kernel_main's   *)
(* order of initialisation, the GDT and the STAR register (cpu/gdt.c), the *)
(* IDT and its stubs (cpu/idt.c, cpu/isr.asm), the interrupt lines         *)
(* (Pic), the first entry into ring 3, and system calls from the           *)
(* registers of the caller to the service and back                         *)
(* (syscall_entry.asm, Syscalls).  Two threads share the CPU, idle in ring *)
(* 0 and a program in ring 3; who is ready, the ticks during the boot flow *)
(* and the wait of sys_read are Scheduler's matter.                        *)
(*                                                                         *)
(* A register holds a token <<kind, value>>: what matters of a value is    *)
(* whose it is.                                                            *)
(***************************************************************************)
EXTENDS Pic, Syscalls, Sequences

CONSTANTS
    Faults,        \* exceptions the program may raise
    NativeCalls,   \* calls a program started with the custom ABI makes
    LinuxCalls     \* calls a program started with the Linux ABI makes

(* Without control-flow enforcement or encrypted guests, which the kernel  *)
(* never turns on, the CPU does not raise 21 and 29, the two exceptions    *)
(* whose error code the stubs do not expect.                               *)
ASSUME MachineAssumption ==
    /\ Faults \subseteq (0 .. 31) \ {21, 29}
    /\ NativeCalls \subseteq NativeABI /\ LinuxCalls \subseteq LinuxABI

VARIABLES
    step,       \* calls of kernel_main made
    gdt,        \* what the segment descriptors are, by index
    star,       \* selectors in the STAR register
    gates,      \* vectors with a gate
    handlers,   \* isr_handlers
    pc,         \* code that runs: main, idle, user; a kernel entry; a stop
    vec,        \* vector being served
    reg, own,   \* registers, and what the interrupted code expects in them
    stack,      \* the kernel stack of the entry in progress
    use_linux_abi, parked,   \* the program's ABI, and the thread that does not run
    call,       \* the system call in progress
    served      \* what it was dispatched to

tables == <<gdt, star, gates, handlers>>
cpu == <<pc, vec, reg, own, stack>>
proc == <<use_linux_abi, parked>>
trap == <<call, served>>
vars == <<step, tables, cpu, proc, trap, pic>>

Gprs == <<"rax", "rbx", "rcx", "rdx", "rsi", "rdi", "rbp", "r8", "r9", "r10",
          "r11", "r12", "r13", "r14", "r15">>
CalleeSaved == {"rbx", "rbp", "r12", "r13", "r14", "r15"}
Gpr == {Gprs[i] : i \in 1 .. 15}
CallerSaved == Gpr \ CalleeSaved
Regs == Gpr \cup {"rip", "rflags", "rsp", "cs", "ss"}

Sel(n) == <<"sel", n>>
Flag(if) == <<"IF", if>>
InterruptsOn == reg["rflags"] = Flag(1)

(* Registers of code that runs at place p in ring 0.                       *)
KernelRegs(p, cs, ss, if) ==
    [r \in Regs |-> CASE r = "rip" -> <<"rip", p>> [] r = "cs" -> Sel(cs) [] r = "ss" -> Sel(ss)
                      [] r = "rflags" -> Flag(if) [] OTHER -> <<p, r>>]

(* C code may leave anything in the caller-saved registers.                *)
Clobbered(rg) == [r \in Regs |-> IF r \in CallerSaved THEN <<"kernel", r>> ELSE rg[r]]

(* boot.asm enters kernel_main with its own GDT, a null SS, interrupts off.*)
Init ==
    /\ step = 1
    /\ gdt = <<"null", "code0">>
    /\ star = <<0, 0>>
    /\ gates = {} /\ handlers = [v \in {} |-> ""]
    /\ pc = "main" /\ vec = 0 /\ stack = <<>>
    /\ reg = KernelRegs("main", 8, 0, 0) /\ own = reg
    /\ use_linux_abi = FALSE /\ parked = [pc |-> "none", stack |-> <<>>, own |-> own]
    /\ call = Call(-1, <<>>, <<>>) /\ served = <<>>
    /\ PicInit

-----------------------------------------------------------------------------
(* kernel_main.                                                            *)

(* Mutant: interrupts are enabled before the scheduler exists.             *)
OrderEarlySti ==
    <<"serial_init", "vga_init", "gdt_init", "idt_init", "pic_init", "keyboard_init",
      "pmm_init", "vmm_init", "heap_init", "timer_init", "sti", "scheduler_init", "syscall_init",
      "fb_init", "ramdisk_init", "tests", "sse", "process_create", "process_create_elf",
      "scheduler_start">>

Order ==
    <<"serial_init", "vga_init", "gdt_init", "idt_init", "pic_init", "keyboard_init",
      "pmm_init", "vmm_init", "heap_init", "timer_init", "scheduler_init", "syscall_init",
      "fb_init", "ramdisk_init", "tests", "sse", "process_create", "process_create_elf",
      "sti", "scheduler_start">>

Done(name) == \E i \in 1 .. step - 1 : Order[i] = name

Main(name) ==
    /\ pc = "main" /\ step <= Len(Order) /\ Order[step] = name
    /\ step' = step + 1
    /\ UNCHANGED trap

(* Mutant: STAR as the comment above syscall_init has it.                  *)
syscall_init_comment == star' = <<24, 8>>

(* STAR: sysret's base selector and syscall's.                             *)
syscall_init == star' = <<16, 8>>

(* Reloads the segment registers from the new table.                       *)
gdt_flush == reg' = [reg EXCEPT !["cs"] = Sel(8), !["ss"] = Sel(16)]

gdt_init ==
    /\ Main("gdt_init")
    /\ gdt' = <<"null", "code0", "data0", "data3", "code3", "tss", "tss">>
    /\ gdt_flush
    /\ own' = reg'
    /\ syscall_init
    /\ UNCHANGED <<gates, handlers, pc, vec, stack, proc, pic>>

idt_register_handler(v, h) ==
    handlers' = [w \in DOMAIN handlers \cup {v} |-> IF w = v THEN h ELSE handlers[w]]

idt_init ==
    /\ Main("idt_init")
    /\ gates' = 0 .. 47
    /\ handlers' = [v \in {6, 14} |-> IF v = 6 THEN "ud_handler" ELSE "page_fault_handler"]
    /\ UNCHANGED <<gdt, star, cpu, proc, pic>>

init_pic ==
    /\ Main("pic_init")
    /\ pic_init
    /\ UNCHANGED <<tables, cpu, proc>>

keyboard_init ==
    /\ Main("keyboard_init")
    /\ idt_register_handler(33, "keyboard_handler")
    /\ pic_unmask(1)
    /\ UNCHANGED <<gdt, star, gates, cpu, proc>>

timer_init ==
    /\ Main("timer_init")
    /\ idt_register_handler(32, "timer_handler")
    /\ pic_unmask(0)
    /\ UNCHANGED <<gdt, star, gates, cpu, proc>>

init_syscall ==
    /\ Main("syscall_init")
    /\ syscall_init
    /\ UNCHANGED <<gdt, gates, handlers, cpu, proc, pic>>

(* `sti', at the end; in a build with RUN_TESTS also after the tests.      *)
sti ==
    /\ Main("sti") \/ Main("tests")
    /\ reg' = [reg EXCEPT !["rflags"] = Flag(1)] /\ own' = reg'
    /\ UNCHANGED <<tables, pc, vec, stack, proc, pic>>

(* What has no effect on this module's state.                              *)
init_other ==
    /\ \E name \in {Order[i] : i \in 1 .. Len(Order)}
                   \ {"gdt_init", "idt_init", "pic_init", "keyboard_init", "timer_init",
                      "syscall_init", "process_create_elf", "sti", "scheduler_start"} : Main(name)
    /\ UNCHANGED <<tables, cpu, proc, pic>>

(* A program that could be loaded waits for its first run.                 *)
process_create_elf ==
    /\ Main("process_create_elf")
    /\ use_linux_abi' \in BOOLEAN
    /\ parked' \in {parked, [parked EXCEPT !.pc = "new"]}
    /\ UNCHANGED <<tables, cpu, pic>>

(* The first switch lands in process_trampoline_fn of a kernel thread.     *)
scheduler_start ==
    /\ Main("scheduler_start")
    /\ pc' = "idle"
    /\ reg' = KernelRegs("idle", 8, 16, 1) /\ own' = reg'
    /\ pic_send_eoi(0)
    /\ UNCHANGED <<tables, vec, stack, proc>>

-----------------------------------------------------------------------------
(* Interrupts and exceptions.                                              *)

Pushed(names) == [i \in DOMAIN names |-> reg[names[i]]]

(* The exceptions for which the CPU pushes an error code, and the stubs    *)
(* that rely on it.  The other stubs push a zero in its place.             *)
CpuErrorCode == {8, 10, 11, 12, 13, 14, 17, 21, 29, 30}

ISR_ERR == {8, 10, 11, 12, 13, 14, 17, 30}

stub(v) == IF v \in ISR_ERR THEN <<<<"int_no", v>>>> ELSE <<<<"zero", 0>>, <<"int_no", v>>>>

(* The CPU's frame, the stub's words and the common stub's pushes.         *)
isr_common_stub(v) ==
    Pushed(<<"ss", "rsp", "rflags", "cs", "rip">>)
    \o (IF v \in CpuErrorCode THEN <<<<"err_code", v>>>> ELSE <<>>)
    \o stub(v) \o Pushed(Gprs)

(* External: the CPU enters ring 0 through gate v, interrupts off.  A gate *)
(* that is not there ends in a triple fault.                               *)
Enter(v) ==
    /\ IF v \in gates
       THEN /\ pc' = IF v < 32 THEN "isr" ELSE "irq"
            /\ stack' = stack \o isr_common_stub(v)
            /\ reg' = [reg EXCEPT !["cs"] = Sel(8), !["ss"] = IF pc = "user" THEN Sel(0) ELSE @,
                                  !["rflags"] = Flag(0), !["rip"] = <<"kernel", "rip">>,
                                  !["rsp"] = <<"kernel", "rsp">>, !["rdi"] = <<"kernel", "regs">>]
       ELSE pc' = "shutdown" /\ UNCHANGED <<stack, reg>>
    /\ vec' = v
    /\ UNCHANGED <<step, tables, own, proc, trap>>

Runs == pc \in {"main", "idle", "user"}

interrupt(l) ==
    /\ Runs /\ InterruptsOn /\ Presented(l)
    /\ Acknowledge(l)
    /\ Enter(vector(l))

exception(v) ==
    /\ pc = "user" /\ v \in Faults
    /\ Enter(v)
    /\ UNCHANGED pic

(* The words of the stack from the top, as the handlers read them.         *)
registers_t ==
    <<"r15", "r14", "r13", "r12", "r11", "r10", "r9", "r8", "rbp", "rdi", "rsi", "rdx", "rcx",
      "rbx", "rax", "int_no", "err_code", "rip", "cs", "rflags", "rsp", "ss">>

Field(name) ==
    stack[Len(stack) + 1 - CHOOSE i \in DOMAIN registers_t : registers_t[i] = name]

isr_handler == LET n == Field("int_no")
               IN  IF n[1] = "int_no" /\ n[2] \in DOMAIN handlers THEN handlers[n[2]] ELSE "NULL"

(* Both report and stop for good, interrupts off.                          *)
page_fault_handler == isr_handler = "page_fault_handler" /\ pc' = "halted"
ud_handler == isr_handler = "ud_handler" /\ pc' = "halted"

(* Without a handler the stub returns to the instruction that faulted.     *)
isr_common_handler ==
    /\ pc = "isr"
    /\ \/ page_fault_handler \/ ud_handler
       \/ isr_handler = "NULL" /\ pc' = "iret"
    /\ reg' = Clobbered(reg)
    /\ UNCHANGED <<step, tables, vec, own, stack, proc, trap, pic>>

(* context_switch saves the stack pointer and nothing else: the            *)
(* callee-saved registers stay those of the thread that leaves.            *)
context_switch(k) ==
    /\ parked' = [pc |-> k, stack |-> stack, own |-> own]
    /\ pc' = parked.pc /\ stack' = parked.stack /\ own' = parked.own
    /\ reg' = Clobbered(reg)

InProgram == own["rip"] = <<"rip", "user">>

(* scheduler_tick in timer_handler: idle is always ready, the program only *)
(* sometimes.                                                              *)
timer_handler ==
    \/ ~InProgram /\ pc' = "eoi" /\ reg' = Clobbered(reg) /\ UNCHANGED <<own, stack, parked>>
    \/ parked.pc \in {"new", "eoi", "sysret"} /\ own["rip"] # <<"rip", "main">> /\ context_switch("eoi")

(* The rest of timer_handler.                                              *)
timer_handler_eoi ==
    /\ pc = "eoi"
    /\ pic_send_eoi(0)
    /\ pc' = "iret" /\ reg' = Clobbered(reg)
    /\ UNCHANGED <<step, tables, vec, own, stack, proc, trap>>

(* A tick, a key, or a line nobody handles: that one gets no EOI.          *)
irq_common_handler ==
    /\ pc = "irq"
    /\ \/ isr_handler = "timer_handler" /\ timer_handler /\ UNCHANGED pic
       \/ /\ \/ isr_handler = "keyboard_handler" /\ pic_send_eoi(1)
             \/ isr_handler = "NULL" /\ UNCHANGED pic
          /\ pc' = "iret" /\ reg' = Clobbered(reg)
          /\ UNCHANGED <<own, stack, parked>>
    /\ UNCHANGED <<step, tables, vec, use_linux_abi, trap>>

(* The common stub's pops, add rsp 16 and iretq.                           *)
Popped ==
    <<"r15", "r14", "r13", "r12", "r11", "r10", "r9", "r8", "rbp", "rdi", "rsi", "rdx", "rcx",
      "rbx", "rax", "int_no", "err_code", "rip", "cs", "rflags", "rsp", "ss">>

(* Returning to something that is not an address of code.                  *)
Resume(rip) == IF rip[1] = "rip" THEN rip[2] ELSE "wild"

iretq ==
    /\ pc = "iret"
    /\ reg' = [r \in Regs |->
                 stack[Len(stack) + 1 - CHOOSE i \in DOMAIN Popped : Popped[i] = r]]
    /\ stack' = SubSeq(stack, 1, Len(stack) - Len(Popped))
    /\ pc' = Resume(reg'["rip"])
    /\ UNCHANGED <<step, tables, vec, own, proc, trap, pic>>

(* The program's first run.  A zeroed register is its own from then on.    *)
process_user_trampoline_fn ==
    /\ pc = "new"
    /\ pic_send_eoi(0)
    /\ pc' = "user"
    /\ reg' = [r \in Regs |-> CASE r = "rip" -> <<"rip", "user">> [] r = "cs" -> Sel(35)
                                [] r = "ss" -> Sel(27) [] r = "rflags" -> Flag(1)
                                [] OTHER -> <<"user", r>>]
    /\ own' = reg'
    /\ UNCHANGED <<step, tables, vec, stack, proc, trap>>

-----------------------------------------------------------------------------
(* System calls.                                                           *)

(* External: the wrapper loads the registers, and the instruction enters   *)
(* the kernel on the program's stack with the selectors of STAR.           *)
syscall(c) ==
    /\ pc = "user"
    /\ LET args == <<"rdi", "rsi", "rdx">>
           loaded == [r \in Regs |->
               IF r = "rax" THEN <<"num", c.num>>
               ELSE IF \E i \in DOMAIN c.args : args[i] = r
                    THEN <<"arg", c.args[CHOOSE i \in DOMAIN c.args : args[i] = r]>>
                    ELSE reg[r]]
       IN  reg' = [loaded EXCEPT !["rcx"] = reg["rip"], !["r11"] = reg["rflags"],
                                 !["rflags"] = Flag(0), !["rip"] = <<"rip", "entry">>,
                                 !["cs"] = Sel(star[2]), !["ss"] = Sel(star[2] + 8)]
    /\ pc' = "entry" /\ call' = c
    /\ UNCHANGED <<step, tables, vec, own, stack, proc, served, pic>>

(* The pushes, the moves into the C calling convention, and the call.      *)
syscall_entry ==
    /\ pc = "entry"
    /\ stack' = stack \o Pushed(<<"rcx", "r11", "rbp", "rbx", "r12", "r13", "r14", "r15", "rsp">>)
    /\ LET rdi == reg["rax"]
           rsi == reg["rdi"]
           rdx == reg["rsi"]
           rcx == reg["rdx"]
       IN  served' = syscall_dispatch(use_linux_abi, rdi[2], rsi[2], rdx[2], rcx[2])
    /\ reg' = [Clobbered(reg) EXCEPT !["rsp"] = <<"kernel", "rsp">>, !["rax"] = <<"kernel", "result">>]
    /\ pc' = "service"
    /\ UNCHANGED <<step, tables, vec, own, proc, call, pic>>

Switching == {"sys_sleep", "sys_yield", "sys_exit"}

(* The services that give up the CPU switch to idle, whose context is in   *)
(* timer_handler; sys_exit is never switched back to.                      *)
give_up_cpu ==
    /\ pc = "service" /\ served[1] \in Switching
    /\ context_switch(IF served[1] = "sys_exit" THEN "dead" ELSE "sysret")
    /\ UNCHANGED <<step, tables, vec, use_linux_abi, trap, pic>>

return_result ==
    /\ pc = "service" /\ served[1] \notin Switching
    /\ pc' = "sysret"
    /\ UNCHANGED <<step, tables, vec, reg, own, stack, proc, trap, pic>>

(* Mutant: rbx and rbp are popped in the order they were pushed.           *)
SyscallPopsSwapped == <<"rsp", "r15", "r14", "r13", "r12", "rbp", "rbx", "r11", "rcx">>

SyscallPops == <<"rsp", "r15", "r14", "r13", "r12", "rbx", "rbp", "r11", "rcx">>

(* The pops and sysretq: the caller may count on the callee-saved          *)
(* registers, its stack, flags and place.                                  *)
sysretq ==
    /\ pc = "sysret"
    /\ LET val(r) == stack[Len(stack) + 1 - CHOOSE i \in DOMAIN SyscallPops : SyscallPops[i] = r]
       IN  reg' = [r \in Regs |-> CASE r \in {SyscallPops[i] : i \in DOMAIN SyscallPops} -> val(r)
                                    [] r = "rip" -> val("rcx") [] r = "rflags" -> val("r11")
                                    [] r = "cs" -> Sel(star[1] + 16 + 3)
                                    [] r = "ss" -> Sel(star[1] + 8 + 3)
                                    [] OTHER -> reg[r]]
    /\ stack' = SubSeq(stack, 1, Len(stack) - Len(SyscallPops))
    /\ own' = [r \in Regs |-> IF r \in CallerSaved THEN reg'[r] ELSE own[r]]
    /\ pc' = Resume(reg'["rip"])
    /\ call' = Call(-1, <<>>, <<>>) /\ served' = <<>>
    /\ UNCHANGED <<step, tables, vec, proc, pic>>

-----------------------------------------------------------------------------
Kernel ==
    \/ gdt_init \/ idt_init \/ init_pic \/ keyboard_init \/ timer_init \/ init_syscall
    \/ process_create_elf \/ sti \/ init_other \/ scheduler_start
    \/ isr_common_handler \/ irq_common_handler \/ timer_handler_eoi \/ iretq
    \/ process_user_trampoline_fn \/ syscall_entry \/ give_up_cpu \/ return_result \/ sysretq

Device(l) == Request(l) /\ UNCHANGED <<step, tables, cpu, proc, trap>>

Program ==
    \/ \E v \in Faults : exception(v)
    \/ \E c \in IF use_linux_abi THEN LinuxCalls ELSE NativeCalls : syscall(c)

Next ==
    \/ Kernel
    \/ \E l \in Wired : Device(l) \/ interrupt(l)
    \/ Program

Spec == Init /\ [][Next]_vars

-----------------------------------------------------------------------------
(* Properties.                                                             *)

Descriptor(sel) == IF sel \div 8 < Len(gdt) THEN gdt[sel \div 8 + 1] ELSE "none"

(* The selectors that gdt_flush, the gates, STAR and the hand-made frames  *)
(* load each name the descriptor of the kind and ring of the code that     *)
(* runs: ring 3 code and data in a program, whether it was entered by      *)
(* iretq or by sysretq, and ring 0 code (the stack segment may be null) in *)
(* the kernel.                                                             *)
SelectorsMatch ==
    pc \notin {"shutdown", "wild"} =>
      LET cs == reg["cs"][2]
          ss == reg["ss"][2]
      IN  IF pc = "user" THEN /\ Descriptor(cs) = "code3" /\ cs % 8 = 3
                              /\ Descriptor(ss) = "data3" /\ ss % 8 = 3
          ELSE /\ Descriptor(cs) = "code0" /\ cs % 8 = 0
               /\ Descriptor(ss) \in {"data0", "null"} /\ ss % 8 = 0

(* Whatever interrupts, exceptions that return, system calls and switches  *)
(* came in between, a thread finds its registers, flags, stack pointer and *)
(* place as it left them, but for the caller-saved registers after a       *)
(* system call, although context_switch saves none of them; and its kernel *)
(* stack is empty again.                                                   *)
CallerKept == pc # "wild" /\ (Runs => reg = own /\ stack = <<>>)

(* No interrupt arrives before there is a gate, a handler's subsystem and  *)
(* the controllers' own vectors for it, so none is taken for an exception  *)
(* and no handler runs before scheduler_init, in either build; and the     *)
(* handlers read the number of the vector where the stubs pushed it.       *)
InterruptsFindHandlers ==
    /\ pc # "shutdown"
    /\ pc = "isr" => vec \in Faults /\ Field("int_no") = <<"int_no", vec>>
    /\ pc = "irq" => /\ vec \in 32 .. 47 /\ Field("int_no") = <<"int_no", vec>>
                     /\ isr_handler # "NULL" => Done("scheduler_init")

(* Outside the kernel the keyboard's line is never in service, and the     *)
(* timer's only in a program, whatever lines without a handler were never  *)
(* acknowledged and however many ends of interrupt the switches send too   *)
(* many or too few: a non-specific EOI never takes another line for them.  *)
LinesReleased == Runs => isr \cap {0, 1} \subseteq IF pc = "user" THEN {0} ELSE {}

(* A call made through user_lib.c or the C library reaches, through the    *)
(* shuffle of syscall_entry and the switch for the program's ABI, the      *)
(* service it is for, with its arguments in order.                         *)
ServiceAsAsked == served # <<>> => served = call.asks

=============================================================================
