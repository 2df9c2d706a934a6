-------------------------- MODULE MachineBootProofs --------------------------
(***************************************************************************)
(* What the proofs about Machine rest on: the inductive invariant, what    *)
(* the frames of the interrupt and system call paths hold, which service   *)
(* the two switches of syscall.c pick, the steps of kernel_main up to      *)
(* scheduler_start, and the requests of the devices.                       *)
(***************************************************************************)
EXTENDS Machine, TLAPS

(* What isr_common_stub and syscall_entry push of the registers o.         *)
From(o, names) == [i \in DOMAIN names |-> o[names[i]]]

Frame(o, v) ==
    From(o, <<"ss", "rsp", "rflags", "cs", "rip">>)
    \o (IF v \in CpuErrorCode THEN <<<<"err_code", v>>>> ELSE <<>>)
    \o stub(v) \o From(o, Gprs)

SyscallPushes == <<"rip", "rflags", "rbp", "rbx", "r12", "r13", "r14", "r15", "rsp">>
SysFrame(o) == From(o, SyscallPushes)

Vectors == (0 .. 47) \ (CpuErrorCode \ ISR_ERR)

HasFrame(st, o) == \E v \in Vectors : st = Frame(o, v)

(* What a thread of kernel code, and the program, expect in the registers. *)
IsRegs(o) == o = [r \in Regs |-> o[r]]

KernelOwn(o, p) ==
    /\ IsRegs(o)
    /\ o["rip"] = <<"rip", p>> /\ o["cs"] = Sel(8) /\ o["ss"] \in {Sel(0), Sel(16)}

UserOwn(o) ==
    /\ IsRegs(o)
    /\ o["rip"] = <<"rip", "user">> /\ o["rflags"] = Flag(1)
    /\ o["cs"] = Sel(35) /\ o["ss"] = Sel(27)

-----------------------------------------------------------------------------
(* The inductive invariant.                                                *)

FullGdt == <<"null", "code0", "data0", "data3", "code3", "tss", "tss">>

HandlerOf(v) ==
    IF v = 6 THEN "ud_handler" ELSE IF v = 14 THEN "page_fault_handler"
    ELSE IF v = 32 THEN "timer_handler" ELSE "keyboard_handler"

(* How far kernel_main has come decides what the tables hold.              *)
Booted ==
    /\ step \in 1 .. 21
    /\ gdt = IF step > 3 THEN FullGdt ELSE <<"null", "code0">>
    /\ star = IF step > 3 THEN <<16, 8>> ELSE <<0, 0>>
    /\ gates = IF step > 4 THEN 0 .. 47 ELSE {}
    /\ icw2 = IF step > 5 THEN <<32, 40>> ELSE <<8, 112>>
    /\ DOMAIN handlers = (IF step > 4 THEN {6, 14} ELSE {}) \cup (IF step > 6 THEN {33} ELSE {})
                         \cup (IF step > 10 THEN {32} ELSE {})
    /\ \A v \in DOMAIN handlers : handlers[v] = HandlerOf(v)

(* Whose turn it is; a new program has no registers yet.                   *)
Turn == IF pc = "new" THEN "user" ELSE own["rip"][2]

InTrap == {"irq", "eoi", "iret"}

(* The thread that has the CPU.                                            *)
Running ==
    /\ \/ /\ step <= 20 /\ KernelOwn(own, "main") /\ pc \in {"main"} \cup InTrap
          /\ own["rflags"] = Flag(1) => step > 15
       \/ step = 21 /\ KernelOwn(own, "idle") /\ pc \in {"idle"} \cup InTrap
       \/ /\ step = 21 /\ UserOwn(own)
          /\ pc \in {"user", "isr", "entry", "service", "sysret", "halted"} \cup InTrap
       \/ step = 21 /\ KernelOwn(own, "main") /\ pc = "new"
    /\ Runs => reg = own
    /\ ~Runs => IsRegs(reg) /\ reg["cs"] = Sel(8) /\ reg["ss"] \in {Sel(0), Sel(16)}
    /\ pc \in {"main", "idle", "user", "entry", "new"} => stack = <<>>
    /\ pc \in {"isr", "irq"} => vec \in Vectors /\ stack = Frame(own, vec)
    /\ pc \in {"eoi", "iret"} => HasFrame(stack, own)
    /\ pc = "isr" => vec \in Faults
    /\ pc = "irq" => vec \in 32 .. 47
    /\ pc # "main" => step > 15
    /\ step <= 3 => own["ss"] = Sel(0)
    /\ pc \in {"service", "sysret"} => stack = SysFrame(own)

(* The thread that has not.                                                *)
Waiting ==
    /\ parked = [pc |-> parked.pc, stack |-> parked.stack, own |-> parked.own]
    /\ IF Turn = "user"
       THEN /\ parked.pc = "eoi" /\ KernelOwn(parked.own, "idle")
            /\ HasFrame(parked.stack, parked.own)
       ELSE \/ parked.pc \in {"none", "new"} /\ parked.stack = <<>> /\ KernelOwn(parked.own, "main")
            \/ /\ step = 21 /\ UserOwn(parked.own)
               /\ \/ parked.pc = "eoi" /\ HasFrame(parked.stack, parked.own)
                  \/ parked.pc \in {"sysret", "dead"} /\ parked.stack = SysFrame(parked.own)

(* The line being served is in service, and no other of the two is.        *)
Lines ==
    /\ isr \subseteq 0 .. 15 /\ irr \subseteq Wired
    /\ pc # "irq" => 1 \notin isr
    /\ pc = "irq" => (0 \in isr <=> vec = 32) /\ (1 \in isr <=> vec = 33)
    /\ pc \in {"main", "idle", "iret"} /\ Turn # "user" => 0 \notin isr

(* The registers of a caller between the instruction and syscall_entry.    *)
Entered ==
    /\ call \in IF use_linux_abi THEN LinuxABI ELSE NativeABI
    /\ reg["rcx"] = own["rip"] /\ reg["r11"] = own["rflags"] /\ reg["rsp"] = own["rsp"]
    /\ \A r \in CalleeSaved : reg[r] = own[r]
    /\ reg["rax"] = <<"num", call.num>>
    /\ \A i \in DOMAIN call.args : reg[<<"rdi", "rsi", "rdx">>[i]] = <<"arg", call.args[i]>>

(* A call is being served only while the program is inside the kernel.     *)
Serving ==
    /\ use_linux_abi \in BOOLEAN
    /\ pc = "entry" => Entered
    /\ served # <<>> =>
         /\ served = call.asks
         /\ IF Turn = "user" THEN pc \in {"service", "sysret"} ELSE parked.pc \in {"sysret", "dead"}

IInv == Booted /\ Running /\ Waiting /\ Lines /\ Serving

-----------------------------------------------------------------------------
(* The frames.                                                             *)

(* Where the elements of four sequences are in their concatenation.        *)
LEMMA FourParts ==
    ASSUME NEW S, NEW a \in Seq(S), NEW b \in Seq(S), NEW c \in Seq(S), NEW d \in Seq(S),
           NEW f, f = a \o b \o c \o d
    PROVE  /\ f \in Seq(S) /\ Len(f) = Len(a) + Len(b) + Len(c) + Len(d)
           /\ \A k \in 1 .. Len(a) : f[k] = a[k]
           /\ \A k \in 1 .. Len(b) : f[k + Len(a)] = b[k]
           /\ \A k \in 1 .. Len(c) : f[k + Len(a) + Len(b)] = c[k]
           /\ \A k \in 1 .. Len(d) : f[k + Len(a) + Len(b) + Len(c)] = d[k]
  OBVIOUS

(* The frame of an interrupt or exception is one registers_t, whatever the *)
(* vector: isr_common_stub makes up for a missing error code.              *)
LEMMA FrameFacts ==
    ASSUME NEW o, NEW v \in Vectors
    PROVE  /\ Len(Frame(o, v)) = 22 /\ <<>> \o Frame(o, v) = Frame(o, v)
           /\ \A k \in 1 .. 5 : Frame(o, v)[k] = o[<<"ss", "rsp", "rflags", "cs", "rip">>[k]]
           /\ Frame(o, v)[7] = <<"int_no", v>>
           /\ \A k \in 1 .. 15 : Frame(o, v)[k + 7] = o[Gprs[k]]
<1> DEFINE Five == <<"ss", "rsp", "rflags", "cs", "rip">>
           A == From(o, Five)
           B == IF v \in CpuErrorCode THEN <<<<"err_code", v>>>> ELSE <<>>
           C == stub(v)
           D == From(o, Gprs)
           S == {o[r] : r \in Regs} \cup {<<"err_code", v>>, <<"zero", 0>>, <<"int_no", v>>}
<1>1. A \in Seq(S) /\ Len(A) = 5 /\ \A k \in 1 .. 5 : A[k] = o[Five[k]]
  <2>1. \A k \in 1 .. 5 : Five[k] \in Regs
    BY DEF Regs
  <2>2. QED
    BY <2>1 DEF From
<1>2. D \in Seq(S) /\ Len(D) = 15 /\ \A k \in 1 .. 15 : D[k] = o[Gprs[k]]
  <2>1. DOMAIN Gprs = 1 .. 15
    BY DEF Gprs
  <2>2. \A k \in 1 .. 15 : Gprs[k] \in Regs
    BY DEF Regs, Gpr
  <2>3. QED
    BY <2>1, <2>2 DEF From
<1>3. /\ B \in Seq(S) /\ C \in Seq(S) /\ Len(B) + Len(C) = 2
      /\ Len(C) > 0 /\ C[Len(C)] = <<"int_no", v>>
  <2>1. CASE v \in CpuErrorCode
    <3>1. v \in ISR_ERR
      BY <2>1 DEF Vectors
    <3>2. C = <<<<"int_no", v>>>> /\ B = <<<<"err_code", v>>>>
      BY <2>1, <3>1 DEF stub
    <3>3. QED
      BY <3>2
  <2>2. CASE v \notin CpuErrorCode
    <3>1. v \notin ISR_ERR
      BY <2>2 DEF CpuErrorCode, ISR_ERR
    <3>2. C = <<<<"zero", 0>>, <<"int_no", v>>>> /\ B = <<>>
      BY <2>2, <3>1 DEF stub
    <3>3. QED
      BY <3>2
  <2>3. QED
    BY <2>1, <2>2
<1>4. Frame(o, v) = A \o B \o C \o D
  BY DEF Frame
<1> DEFINE f == Frame(o, v)
<1>5. /\ f \in Seq(S) /\ Len(f) = Len(A) + Len(B) + Len(C) + Len(D)
      /\ \A k \in 1 .. Len(A) : f[k] = A[k]
      /\ \A k \in 1 .. Len(C) : f[k + Len(A) + Len(B)] = C[k]
      /\ \A k \in 1 .. Len(D) : f[k + Len(A) + Len(B) + Len(C)] = D[k]
  <2>1. A \in Seq(S) /\ B \in Seq(S) /\ C \in Seq(S) /\ D \in Seq(S)
    BY <1>1, <1>2, <1>3
  <2>2. f = A \o B \o C \o D
    BY <1>4
  <2> HIDE DEF A, B, C, D, S, f
  <2>3. QED
    BY <2>1, <2>2, FourParts, SMTT(60)
<1>6. Len(A) = 5 /\ Len(B) \in Nat /\ Len(C) \in Nat /\ Len(B) + Len(C) = 2 /\ Len(C) > 0 /\ Len(D) = 15
  BY <1>1, <1>2, <1>3, SMTT(60)
<1>7. /\ Len(f) = 22 /\ (\A k \in 1 .. 5 : f[k] = A[k]) /\ f[7] = C[Len(C)]
      /\ \A k \in 1 .. 15 : f[k + 7] = D[k]
  <2> HIDE DEF A, B, C, D, S, f
  <2>1. Len(f) = 22 /\ \A k \in 1 .. 5 : f[k] = A[k]
    BY <1>5, <1>6
  <2>2. f[7] = C[Len(C)]
    <3>1. Len(C) \in 1 .. Len(C) /\ Len(C) + Len(A) + Len(B) = 7
      BY <1>6
    <3>2. QED
      BY <1>5, <3>1, Zenon
  <2>3. \A k \in 1 .. 15 : f[k + 7] = D[k]
    <3>1. \A k \in 1 .. 15 : k + Len(A) + Len(B) + Len(C) = k + 7 /\ k \in 1 .. Len(D)
      BY <1>6
    <3>2. QED
      BY <1>5, <3>1, Zenon
  <2>4. QED
    BY <2>1, <2>2, <2>3, SMTT(60)
<1>8. <<>> \o f = f
  <2> HIDE DEF S, f
  <2>1. QED
    BY <1>5
<1>9. QED
  BY <1>1, <1>2, <1>3, <1>7, <1>8, ZenonT(60)

(* The words that the common stub and iretq take from the stack, in order. *)
LEMMA PoppedFacts ==
    /\ Len(Popped) = 22 /\ DOMAIN Popped = 1 .. 22
    /\ \A k \in 1 .. 15 : Popped[k] = Gprs[16 - k]
    /\ \A k \in 1 .. 7 :
         Popped[k + 15] = <<"int_no", "err_code", "rip", "cs", "rflags", "rsp", "ss">>[k]
<1>1. Len(Popped) = 22 /\ DOMAIN Popped = 1 .. 22
  BY SMTT(60) DEF Popped
<1>2. \A k \in 1 .. 15 : Popped[k] = Gprs[16 - k]
  BY SMTT(60) DEF Popped, Gprs
<1>3. \A k \in 1 .. 7 :
         Popped[k + 15] = <<"int_no", "err_code", "rip", "cs", "rflags", "rsp", "ss">>[k]
  BY SMTT(60) DEF Popped
<1>4. QED
  BY <1>1, <1>2, <1>3, Zenon

(* The pops of isr_common_stub and iretq take every register from where it *)
(* was pushed.                                                             *)
LEMMA PopFacts ==
    ASSUME NEW o, NEW v \in Vectors, NEW r \in Regs
    PROVE  LET f == Frame(o, v)
           IN  f[Len(f) + 1 - CHOOSE i \in DOMAIN Popped : Popped[i] = r] = o[r]
<1> DEFINE f == Frame(o, v)
           Tail7 == <<"int_no", "err_code", "rip", "cs", "rflags", "rsp", "ss">>
           Five == <<"ss", "rsp", "rflags", "cs", "rip">>
           i == CHOOSE i \in DOMAIN Popped : Popped[i] = r
<1>1. /\ DOMAIN Popped = 1 .. 22
      /\ \A k \in 1 .. 15 : Popped[k] = Gprs[16 - k]
      /\ \A k \in 1 .. 7 : Popped[k + 15] = Tail7[k]
  BY PoppedFacts
<1>2. i \in 1 .. 22 /\ Popped[i] = r
  <2>1. \E k \in 1 .. 22 : Popped[k] = r
    <3>1. CASE r \in Gpr
      <4>1. PICK k \in 1 .. 15 : r = Gprs[k]
        BY <3>1 DEF Gpr
      <4>2. Popped[16 - k] = r
        BY <1>1, <4>1
      <4>3. QED
        BY <4>2
    <3>2. CASE r \in {"rip", "rflags", "rsp", "cs", "ss"}
      <4>1. \E k \in 1 .. 7 : Tail7[k] = r
        BY <3>2
      <4> HIDE DEF Tail7
      <4>2. QED
        BY <1>1, <4>1
    <3>3. QED
      BY <3>1, <3>2 DEF Regs
  <2>2. QED
    BY <1>1, <2>1
<1>3. f[23 - i] = o[r]
  <2> HIDE DEF i, f
  <2>1. CASE i \in 1 .. 15
    <3>1. 16 - i \in 1 .. 15 /\ r = Gprs[16 - i] /\ (16 - i) + 7 = 23 - i
      BY <1>1, <1>2, <2>1, SMTT(60)
    <3>2. f[(16 - i) + 7] = o[Gprs[16 - i]]
      BY <3>1, FrameFacts DEF f
    <3>3. QED
      BY <3>1, <3>2, SMTT(60)
  <2>2. CASE i \in 16 .. 17
    <3>1. Tail7[i - 15] = r
      BY <1>1, <1>2, <2>2, SMTT(60)
    <3>2. r \in {"int_no", "err_code"}
      BY <2>2, <3>1
    <3>3. QED
      BY <3>2 DEF Regs, Gpr, Gprs
  <2>3. CASE i \in 18 .. 22
    <3>1. Tail7[i - 15] = r
      BY <1>1, <1>2, <2>3, SMTT(60)
    <3>2. Five[23 - i] = r
      BY <2>3, <3>1
    <3>3. 23 - i \in 1 .. 5
      BY <2>3
    <3>4. QED
      BY <3>2, <3>3, FrameFacts, SMTT(60) DEF f
  <2>4. QED
    BY <1>2, <2>1, <2>2, <2>3, SMTT(60)
<1>4. Len(f) + 1 - i = 23 - i
  <2>1. Len(f) = 22
    BY FrameFacts
  <2> HIDE DEF i, f
  <2>2. QED
    BY <1>2, <2>1
<1>5. QED
  BY <1>3, <1>4

(* The handlers find the vector in the word that the stub pushed for it.   *)
LEMMA FieldFacts ==
    ASSUME NEW o, NEW v \in Vectors, stack = Frame(o, v)
    PROVE  Field("int_no") = <<"int_no", v>>
<1> DEFINE i == CHOOSE i \in DOMAIN registers_t : registers_t[i] = "int_no"
<1>1. i = 16
  BY DEF registers_t
<1> HIDE DEF i
<1>2. Len(stack) + 1 - i = 7
  BY <1>1, FrameFacts
<1>3. Field("int_no") = stack[Len(stack) + 1 - i]
  BY DEF Field, i
<1>4. stack[7] = <<"int_no", v>>
  BY FrameFacts
<1>5. QED
  BY <1>2, <1>3, <1>4, ZenonT(60)

(* The pops before sysretq take from the stack what syscall_entry pushed.  *)
SysVal(st, r) == st[Len(st) + 1 - CHOOSE i \in DOMAIN SyscallPops : SyscallPops[i] = r]

(* syscall_entry pushes nine words, and the value popped for a register is *)
(* the caller's; rcx and r11 give back rip and rflags.                     *)
LEMMA SysFrameFacts ==
    ASSUME NEW o
    PROVE  /\ Len(SysFrame(o)) = 9
           /\ \A r \in CalleeSaved \cup {"rsp"} : SysVal(SysFrame(o), r) = o[r]
           /\ SysVal(SysFrame(o), "rcx") = o["rip"] /\ SysVal(SysFrame(o), "r11") = o["rflags"]
<1> DEFINE f == SysFrame(o)
           At(r) == CHOOSE i \in DOMAIN SyscallPops : SyscallPops[i] = r
<1>1. DOMAIN SyscallPushes = 1 .. 9
  BY DEF SyscallPushes
<1>2. Len(f) = 9 /\ \A k \in 1 .. 9 : f[k] = o[SyscallPushes[k]]
  BY <1>1 DEF SysFrame, From
<1>3. /\ At("rsp") = 1 /\ At("r15") = 2 /\ At("r14") = 3 /\ At("r13") = 4 /\ At("r12") = 5
      /\ At("rbx") = 6 /\ At("rbp") = 7 /\ At("r11") = 8 /\ At("rcx") = 9
  BY DEF SyscallPops
<1>4. \A r : SysVal(f, r) = f[Len(f) + 1 - At(r)]
  BY DEF SysVal
<1> HIDE DEF f, At
<1>5. \A r : At(r) \in 1 .. 9 => SysVal(f, r) = o[SyscallPushes[10 - At(r)]]
  BY <1>2, <1>4, SMTT(60)
<1>6. QED
  BY <1>2, <1>3, <1>5, SMTT(60) DEF SyscallPushes, CalleeSaved, f

-----------------------------------------------------------------------------
(* The two switches of syscall.c.                                          *)

(* x, y and z are what the caller put into the argument registers.         *)
Arguments(c, x, y, z) ==
    /\ 1 \in DOMAIN c.args => x = c.args[1]
    /\ 2 \in DOMAIN c.args => y = c.args[2]
    /\ 3 \in DOMAIN c.args => z = c.args[3]

(* Every wrapper of user_lib.c that programs with the custom ABI use       *)
(* reaches its service, with its arguments in order.                       *)
LEMMA NativeServed ==
    ASSUME NEW c \in NativeABI, NEW x, NEW y, NEW z, Arguments(c, x, y, z)
    PROVE  custom_dispatch(c.num, x, y, z) = c.asks
<1>1. PICK n \in DOMAIN UserLib \ {"u_set_fs_base", "u_get_raw_key"} : c = UserLib[n]
  BY DEF NativeABI, CallsOf
<1> USE <1>1
<1>2. CASE n = "u_write"
  <2>1. c.num = 0 /\ c.asks = <<"sys_write", x, y>>
    BY <1>2 DEF UserLib, Call, Arguments
  <2>2. QED
    BY <2>1 DEF custom_dispatch
<1>3. CASE n = "u_exit"
  <2>1. c.num = 1 /\ c.asks = <<"sys_exit">>
    BY <1>3 DEF UserLib, Call, Arguments
  <2>2. QED
    BY <2>1, SMTT(60) DEF custom_dispatch
<1>4. CASE n = "u_yield"
  <2>1. c.num = 2 /\ c.asks = <<"sys_yield">>
    BY <1>4 DEF UserLib, Call, Arguments
  <2>2. QED
    BY <2>1 DEF custom_dispatch
<1>5. CASE n = "u_sleep"
  <2>1. c.num = 4 /\ c.asks = <<"sys_sleep", x>>
    BY <1>5 DEF UserLib, Call, Arguments
  <2>2. QED
    BY <2>1 DEF custom_dispatch
<1>6. CASE n = "u_read"
  <2>1. c.num = 5 /\ c.asks = <<"sys_read", x, y>>
    BY <1>6 DEF UserLib, Call, Arguments
  <2>2. QED
    BY <2>1 DEF custom_dispatch
<1>7. CASE n = "u_map_fb"
  <2>1. c.num = 6 /\ c.asks = <<"sys_map_fb">>
    BY <1>7 DEF UserLib, Call, Arguments
  <2>2. QED
    BY <2>1 DEF custom_dispatch
<1>8. CASE n = "u_open"
  <2>1. c.num = 8 /\ c.asks = <<"sys_open", x>>
    BY <1>8 DEF UserLib, Call, Arguments
  <2>2. QED
    BY <2>1 DEF custom_dispatch
<1>9. CASE n = "u_fread"
  <2>1. c.num = 9 /\ c.asks = <<"sys_fread", x, y, z>>
    BY <1>9 DEF UserLib, Call, Arguments
  <2>2. QED
    BY <2>1 DEF custom_dispatch
<1>10. CASE n = "u_fseek"
  <2>1. c.num = 10 /\ c.asks = <<"sys_fseek", x, y, z>>
    BY <1>10 DEF UserLib, Call, Arguments
  <2>2. QED
    BY <2>1 DEF custom_dispatch
<1>11. CASE n = "u_fclose"
  <2>1. c.num = 11 /\ c.asks = <<"sys_fclose", x>>
    BY <1>11 DEF UserLib, Call, Arguments
  <2>2. QED
    BY <2>1 DEF custom_dispatch
<1>12. CASE n = "u_fsize"
  <2>1. c.num = 12 /\ c.asks = <<"sys_fsize", x>>
    BY <1>12 DEF UserLib, Call, Arguments
  <2>2. QED
    BY <2>1, SMTT(60) DEF custom_dispatch
<1>13. CASE n = "u_sbrk"
  <2>1. c.num = 13 /\ c.asks = <<"sys_sbrk", x>>
    BY <1>13 DEF UserLib, Call, Arguments
  <2>2. QED
    BY <2>1, SMTT(60) DEF custom_dispatch
<1>14. CASE n = "u_gettime"
  <2>1. c.num = 14 /\ c.asks = <<"sys_gettime">>
    BY <1>14 DEF UserLib, Call, Arguments
  <2>2. QED
    BY <2>1 DEF custom_dispatch
<1>15. CASE n = "u_setpalette"
  <2>1. c.num = 15 /\ c.asks = <<"sys_setpalette", x>>
    BY <1>15 DEF UserLib, Call, Arguments
  <2>2. QED
    BY <2>1 DEF custom_dispatch
<1>16. CASE n = "u_getkey"
  <2>1. c.num = 177 /\ c.asks = <<"sys_getkey">>
    BY <1>16 DEF UserLib, Call, Arguments
  <2>2. QED
    BY <2>1 DEF custom_dispatch
<1>17. QED
  BY <1>2, <1>3, <1>4, <1>5, <1>6, <1>7, <1>8, <1>9, <1>10, <1>11, <1>12, <1>13, <1>14, <1>15, <1>16, SMTT(60) DEF UserLib

(* So does every call of the C library, and the wrappers DOOM calls too.   *)
LEMMA LinuxServed ==
    ASSUME NEW c \in LinuxABI, NEW x, NEW y, NEW z, Arguments(c, x, y, z)
    PROVE  linux_syscall_dispatch(c.num, x, y, z) = c.asks
<1>1. CASE c \in CallsOf(Libc, DOMAIN Libc)
  <2>1. PICK n \in DOMAIN Libc : c = Libc[n]
    BY <1>1 DEF CallsOf
  <2> USE <2>1
  <2>2. CASE n = "read"
    <3>1. c = Call(0, <<"fd", "buf", "len">>, <<"sys_fread", "fd", "buf", "len">>)
      BY <2>2 DEF Libc
    <3>2. c.num = 0 /\ c.asks = <<"sys_fread", x, y, z>>
      BY <3>1 DEF Call, Arguments
    <3>3. QED
      BY <3>2 DEF linux_syscall_dispatch
  <2>3. CASE n = "write"
    <3>1. c.num = 1 /\ c.asks = <<"sys_write", y, z>>
      BY <2>3 DEF Libc, Call, Arguments
    <3>2. QED
      BY <3>1 DEF linux_syscall_dispatch
  <2>4. CASE n = "open"
    <3>1. c.num = 2 /\ c.asks = <<"sys_open", x>>
      BY <2>4 DEF Libc, Call, Arguments
    <3>2. QED
      BY <3>1 DEF linux_syscall_dispatch
  <2>5. CASE n = "close"
    <3>1. c.num = 3 /\ c.asks = <<"sys_fclose", x>>
      BY <2>5 DEF Libc, Call, Arguments
    <3>2. QED
      BY <3>1 DEF linux_syscall_dispatch
  <2>6. CASE n = "lseek"
    <3>1. c.num = 8 /\ c.asks = <<"sys_fseek", x, y, z>>
      BY <2>6 DEF Libc, Call, Arguments
    <3>2. QED
      BY <3>1 DEF linux_syscall_dispatch
  <2>7. CASE n = "mmap"
    <3>1. c.num = 9 /\ c.asks = <<"mmap", y>>
      BY <2>7 DEF Libc, Call, Arguments
    <3>2. QED
      BY <3>1 DEF linux_syscall_dispatch
  <2>8. CASE n = "mprotect"
    <3>1. c.num = 10 /\ c.asks = <<"0">>
      BY <2>8 DEF Libc, Call, Arguments
    <3>2. QED
      BY <3>1 DEF linux_syscall_dispatch
  <2>9. CASE n = "brk"
    <3>1. c.num = 12 /\ c.asks = <<"brk", x>>
      BY <2>9 DEF Libc, Call, Arguments
    <3>2. QED
      BY <3>1 DEF linux_syscall_dispatch
  <2>10. CASE n = "readv"
    <3>1. c.num = 19 /\ c.asks = <<"readv", x, y, z>>
      BY <2>10 DEF Libc, Call, Arguments
    <3>2. QED
      BY <3>1 DEF linux_syscall_dispatch
  <2>11. CASE n = "writev"
    <3>1. c.num = 20 /\ c.asks = <<"writev", y, z>>
      BY <2>11 DEF Libc, Call, Arguments
    <3>2. QED
      BY <3>1 DEF linux_syscall_dispatch
  <2>12. CASE n = "exit"
    <3>1. c.num = 60 /\ c.asks = <<"sys_exit">>
      BY <2>12 DEF Libc, Call, Arguments
    <3>2. QED
      BY <3>1 DEF linux_syscall_dispatch
  <2>13. CASE n = "arch_prctl"
    <3>1. c.num = 158 /\ c.asks = <<"sys_set_fs_base", y>> /\ x = "ARCH_SET_FS"
      BY <2>13 DEF Libc, Call, Arguments
    <3>2. QED
      BY <3>1 DEF linux_syscall_dispatch
  <2>14. CASE n = "exit_group"
    <3>1. c.num = 231 /\ c.asks = <<"sys_exit">>
      BY <2>14 DEF Libc, Call, Arguments
    <3>2. QED
      BY <3>1 DEF linux_syscall_dispatch
  <2>15. CASE n = "openat"
    <3>1. c.num = 257 /\ c.asks = <<"sys_open", y>>
      BY <2>15 DEF Libc, Call, Arguments
    <3>2. QED
      BY <3>1 DEF linux_syscall_dispatch
  <2>16. QED
    BY <2>2, <2>3, <2>4, <2>5, <2>6, <2>7, <2>8, <2>9, <2>10, <2>11, <2>12, <2>13, <2>14, <2>15, SMTT(60) DEF Libc
<1>2. CASE c \in CallsOf(UserLib, {"u_map_fb", "u_sleep", "u_set_fs_base", "u_gettime", "u_setpalette", "u_get_raw_key", "u_sbrk"})
  <2>1. PICK n \in {"u_map_fb", "u_sleep", "u_set_fs_base", "u_gettime", "u_setpalette", "u_get_raw_key", "u_sbrk"} : c = UserLib[n]
    BY <1>2 DEF CallsOf
  <2> USE <2>1
  <2>2. CASE n = "u_map_fb"
    <3>1. c.num = 6 /\ c.asks = <<"sys_map_fb">>
      BY <2>2 DEF UserLib, Call, Arguments
    <3>2. QED
      BY <3>1 DEF linux_syscall_dispatch
  <2>3. CASE n = "u_sleep"
    <3>1. c.num = 4 /\ c.asks = <<"sys_sleep", x>>
      BY <2>3 DEF UserLib, Call, Arguments
    <3>2. QED
      BY <3>1 DEF linux_syscall_dispatch
  <2>4. CASE n = "u_set_fs_base"
    <3>1. c.num = 158 /\ c.asks = <<"sys_set_fs_base", y>> /\ x = "ARCH_SET_FS"
      BY <2>4 DEF UserLib, Call, Arguments
    <3>2. QED
      BY <3>1 DEF linux_syscall_dispatch
  <2>5. CASE n = "u_gettime"
    <3>1. c.num = 14 /\ c.asks = <<"sys_gettime">>
      BY <2>5 DEF UserLib, Call, Arguments
    <3>2. QED
      BY <3>1 DEF linux_syscall_dispatch
  <2>6. CASE n = "u_setpalette"
    <3>1. c.num = 15 /\ c.asks = <<"sys_setpalette", x>>
      BY <2>6 DEF UserLib, Call, Arguments
    <3>2. QED
      BY <3>1 DEF linux_syscall_dispatch
  <2>7. CASE n = "u_get_raw_key"
    <3>1. c.num = 18 /\ c.asks = <<"sys_get_raw_key", x>>
      BY <2>7 DEF UserLib, Call, Arguments
    <3>2. QED
      BY <3>1 DEF linux_syscall_dispatch
  <2>8. CASE n = "u_sbrk"
    <3>1. c.num = 13 /\ c.asks = <<"sys_sbrk", x>>
      BY <2>8 DEF UserLib, Call, Arguments
    <3>2. QED
      BY <3>1 DEF linux_syscall_dispatch
  <2>9. QED
    BY <2>2, <2>3, <2>4, <2>5, <2>6, <2>7, <2>8, SMTT(60)
<1>3. QED
  BY <1>1, <1>2, SMTT(60) DEF LinuxABI

(* No call has more arguments than the registers that carry them.          *)
LEMMA ArgumentCount ==
    ASSUME NEW c \in LinuxABI \cup NativeABI
    PROVE  DOMAIN c.args \subseteq 1 .. 3
<1>1. \A n \in DOMAIN UserLib : DOMAIN UserLib[n].args \subseteq 1 .. 3
  BY DEF UserLib, Call
<1>2. \A n \in DOMAIN Libc : DOMAIN Libc[n].args \subseteq 1 .. 3
  BY DEF Libc, Call
<1>3. {"u_map_fb", "u_sleep", "u_set_fs_base", "u_gettime", "u_setpalette", "u_get_raw_key", "u_sbrk"}
        \subseteq DOMAIN UserLib
  BY DEF UserLib
<1>4. c \in {UserLib[n] : n \in DOMAIN UserLib} \cup {Libc[n] : n \in DOMAIN Libc}
  BY <1>3 DEF LinuxABI, NativeABI, CallsOf
<1>5. QED
  BY <1>1, <1>2, <1>4, SMTT(60)

-----------------------------------------------------------------------------
(* kernel_main.                                                            *)

(* Each call has its place in the order.                                   *)
LEMMA OrderFacts ==
    /\ Len(Order) = 20
    /\ \A k \in 1 .. 20 :
         /\ Order[k] = "gdt_init" <=> k = 3
         /\ Order[k] = "idt_init" <=> k = 4
         /\ Order[k] = "pic_init" <=> k = 5
         /\ Order[k] = "keyboard_init" <=> k = 6
         /\ Order[k] = "timer_init" <=> k = 10
         /\ Order[k] = "scheduler_init" <=> k = 11
         /\ Order[k] = "syscall_init" <=> k = 12
         /\ Order[k] = "tests" <=> k = 15
         /\ Order[k] = "process_create_elf" <=> k = 18
         /\ Order[k] = "sti" <=> k = 19
         /\ Order[k] = "scheduler_start" <=> k = 20
  BY DEF Order

(* What holds while kernel_main runs.                                      *)
LEMMA BootFacts ==
    ASSUME IInv, pc = "main"
    PROVE  /\ step \in 1 .. 20 /\ Turn = "main"
           /\ KernelOwn(own, "main") /\ reg = own /\ stack = <<>>
           /\ (own["rflags"] = Flag(1) => step > 15) /\ (step <= 3 => own["ss"] = Sel(0))
           /\ parked.pc \in {"none", "new"} /\ parked.stack = <<>> /\ KernelOwn(parked.own, "main")
           /\ 0 \notin isr /\ 1 \notin isr /\ served = <<>>
<1>1. /\ step \in 1 .. 20 /\ KernelOwn(own, "main") /\ reg = own /\ stack = <<>>
      /\ (own["rflags"] = Flag(1) => step > 15) /\ (step <= 3 => own["ss"] = Sel(0))
  <2>1. step \in 1 .. 21 /\ reg = own /\ stack = <<>>
    BY DEF IInv, Booted, Running, Runs
  <2>2. /\ step <= 20 /\ KernelOwn(own, "main")
        /\ (own["rflags"] = Flag(1) => step > 15) /\ (step <= 3 => own["ss"] = Sel(0))
    BY DEF IInv, Running, InTrap
  <2>3. QED
    BY <2>1, <2>2
<1>2. Turn = "main"
  BY <1>1 DEF Turn, KernelOwn
<1>3. 0 \notin isr /\ 1 \notin isr
  BY <1>2 DEF IInv, Lines
<1>4. parked.pc \in {"none", "new"} /\ parked.stack = <<>> /\ KernelOwn(parked.own, "main")
  BY <1>1, <1>2 DEF IInv, Waiting
<1>5. served = <<>>
  BY <1>2, <1>4 DEF IInv, Serving
<1>6. QED
  BY <1>1, <1>2, <1>3, <1>4, <1>5, SMTT(60)

(* A call of kernel_main that leaves the program's place alone keeps all    *)
(* but the tables, which are looked at call by call.                       *)
LEMMA BootStep ==
    ASSUME IInv, pc = "main", pc' = "main", step' = step + 1, step' <= 20,
           KernelOwn(own', "main"), reg' = own', own'["rflags"] = Flag(1) => step' > 15,
           step' <= 3 => own'["ss"] = Sel(0),
           stack' = stack, parked' = [pc |-> parked'.pc, stack |-> parked'.stack, own |-> parked'.own],
           parked'.pc \in {"none", "new"}, parked'.stack = <<>>, KernelOwn(parked'.own, "main"),
           use_linux_abi' \in BOOLEAN, UNCHANGED trap,
           isr' \subseteq isr, irr' \subseteq irr
    PROVE  Running' /\ Waiting' /\ Lines' /\ Serving'
<1>1. Turn' = "main"
  BY DEF Turn, KernelOwn
<1>2. Running'
  BY BootFacts DEF Running, Runs, InTrap
<1>3. Waiting'
  BY <1>1 DEF Waiting
<1>4. Lines'
  BY BootFacts DEF IInv, Lines
<1>5. Serving'
  BY BootFacts DEF Serving, trap
<1>6. QED
  BY <1>2, <1>3, <1>4, <1>5, SMTT(60)

(* The register file a kernel flow starts with.                            *)
LEMMA KernelRegsFacts ==
    ASSUME NEW p, NEW cs, NEW ss, NEW if
    PROVE  LET k == KernelRegs(p, cs, ss, if)
           IN  /\ IsRegs(k) /\ k["rip"] = <<"rip", p>> /\ k["cs"] = Sel(cs) /\ k["ss"] = Sel(ss)
               /\ k["rflags"] = Flag(if)
<1> DEFINE k == KernelRegs(p, cs, ss, if)
<1>1. {"rip", "cs", "ss", "rflags"} \subseteq Regs
  BY DEF Regs
<1>2. IsRegs(k)
  BY DEF IsRegs, KernelRegs
<1>3. QED
  BY <1>1, <1>2 DEF KernelRegs

(* The invariant holds when kernel_main is entered.                        *)
LEMMA InitIInv == Init => IInv
<1> SUFFICES ASSUME Init PROVE IInv
  OBVIOUS
<1>1. KernelOwn(own, "main") /\ own["rflags"] = Flag(0) /\ own["ss"] = Sel(0)
  BY KernelRegsFacts DEF Init, KernelOwn
<1>2. Flag(0) # Flag(1)
  BY DEF Flag
<1>3. Turn = "main"
  BY <1>1 DEF Init, Turn, KernelOwn
<1>4. Booted
  BY DEF Init, Booted, PicInit
<1>5. Running
  BY <1>1, <1>2 DEF Init, Running, Runs
<1>6. Waiting
  BY <1>1, <1>3 DEF Init, Waiting
<1>7. Lines
  BY DEF Init, Lines, PicInit
<1>8. Serving
  <2>1. use_linux_abi \in BOOLEAN
    BY Zenon DEF Init
  <2>2. served = <<>> /\ pc # "entry"
    BY DEF Init
  <2>3. QED
    BY <2>1, <2>2 DEF Serving
<1>9. QED
  BY <1>4, <1>5, <1>6, <1>7, <1>8, SMTT(60) DEF IInv

(* Every step of kernel_main before scheduler_start keeps the invariant.   *)
LEMMA BootActions ==
    ASSUME IInv,
           \/ gdt_init \/ idt_init \/ init_pic \/ keyboard_init \/ timer_init \/ init_syscall
           \/ process_create_elf \/ sti \/ init_other
    PROVE  IInv'
<1>1. pc = "main" /\ step' = step + 1 /\ UNCHANGED trap /\ pc' = pc /\ stack' = stack
  BY DEF gdt_init, idt_init, init_pic, keyboard_init, timer_init, init_syscall,
         process_create_elf, sti, init_other, Main, cpu
<1>2. step \in 1 .. 20
  BY <1>1, BootFacts
<1> DEFINE Rest ==
        /\ KernelOwn(own', "main") /\ reg' = own' /\ (own'["rflags"] = Flag(1) => step' > 15)
        /\ (step' <= 3 => own'["ss"] = Sel(0))
        /\ parked' = [pc |-> parked'.pc, stack |-> parked'.stack, own |-> parked'.own]
        /\ parked'.pc \in {"none", "new"} /\ parked'.stack = <<>> /\ KernelOwn(parked'.own, "main")
        /\ use_linux_abi' \in BOOLEAN
        /\ isr' \subseteq isr /\ irr' \subseteq irr
<1>3. Booted' /\ Rest /\ step' <= 20 => IInv'
  BY <1>1, BootStep DEF IInv
<1>4. UNCHANGED <<reg, own, proc, isr, irr>> => Rest
  BY <1>1, <1>2, BootFacts, SMTT(60) DEF IInv, Serving, Waiting, proc
<1> HIDE DEF Rest
<1>5. CASE gdt_init
  <2>1. step = 3
    BY <1>1, <1>2, <1>5, OrderFacts, SMTT(60) DEF gdt_init, Main
  <2>2. Booted'
    BY <1>1, <1>5, <2>1, SMTT(60) DEF gdt_init, IInv, Booted, syscall_init, pic, FullGdt
  <2>3. KernelOwn(own', "main") /\ own'["rflags"] = own["rflags"]
    <3>1. IsRegs(own) /\ "cs" \in Regs /\ "ss" \in Regs /\ "rip" \in Regs /\ "rflags" \in Regs
      BY <1>1, BootFacts DEF KernelOwn, Regs
    <3> DEFINE o == [own EXCEPT !["cs"] = Sel(8)]
    <3>2. own' = [own EXCEPT !["cs"] = Sel(8), !["ss"] = Sel(16)]
      BY <1>1, <1>5, BootFacts, SMTT(60) DEF gdt_init, gdt_flush
    <3>3. own' = [o EXCEPT !["ss"] = Sel(16)]
      BY <3>2
    <3>6. o = [own EXCEPT !["cs"] = Sel(8)]
      OBVIOUS
    <3> HIDE DEF o
    <3>7. IsRegs(o) /\ o["cs"] = Sel(8) /\ \A r \in Regs : r # "cs" => o[r] = own[r]
      BY <3>1, <3>6 DEF IsRegs
    <3>8. IsRegs(own') /\ own'["ss"] = Sel(16) /\ \A r \in Regs : r # "ss" => own'[r] = o[r]
      BY <3>1, <3>3, <3>7, SMTT(60) DEF IsRegs
    <3>4. /\ IsRegs(own') /\ own'["cs"] = Sel(8) /\ own'["ss"] = Sel(16)
          /\ own'["rip"] = own["rip"] /\ own'["rflags"] = own["rflags"]
      BY <3>1, <3>7, <3>8, SMTT(60)
    <3>5. QED
      BY <1>1, <3>4, BootFacts, SMTT(60) DEF KernelOwn
  <2>4. Rest
    BY <1>1, <1>5, <2>1, <2>3, BootFacts, SMTT(60) DEF gdt_init, Rest, IInv, Serving, Waiting, proc, pic
  <2>5. QED
    BY <1>1, <1>3, <2>1, <2>2, <2>4, SMTT(60)
<1>6. CASE idt_init
  <2>1. step = 4
    BY <1>1, <1>2, <1>6, OrderFacts, SMTT(60) DEF idt_init, Main
  <2>2. Booted'
    BY <1>1, <1>6, <2>1, SMTT(60) DEF idt_init, IInv, Booted, pic, HandlerOf
  <2>3. QED
    BY <1>1, <1>3, <1>4, <1>6, <2>1, <2>2, SMTT(60) DEF idt_init, cpu, pic
<1>7. CASE init_pic
  <2>1. step = 5
    BY <1>1, <1>2, <1>7, OrderFacts, SMTT(60) DEF init_pic, Main
  <2>2. Booted'
    BY <1>1, <1>7, <2>1, SMTT(60) DEF init_pic, IInv, Booted, pic_init, tables
  <2>3. Rest
    BY <1>1, <1>2, <1>7, BootFacts, SMTT(60) DEF init_pic, pic_init, cpu, proc, Rest, IInv, Serving, Waiting
  <2>4. QED
    BY <1>1, <1>3, <2>1, <2>2, <2>3, SMTT(60)
<1>8. CASE keyboard_init
  <2>1. step = 6
    BY <1>1, <1>2, <1>8, OrderFacts, SMTT(60) DEF keyboard_init, Main
  <2>2. Booted'
    BY <1>1, <1>8, <2>1 DEF keyboard_init, IInv, Booted, pic_unmask, idt_register_handler, HandlerOf
  <2>3. QED
    BY <1>1, <1>3, <1>4, <1>8, <2>1, <2>2, SMTT(60) DEF keyboard_init, cpu, pic_unmask
<1>9. CASE timer_init
  <2>1. step = 10
    BY <1>1, <1>2, <1>9, OrderFacts, SMTT(60) DEF timer_init, Main
  <2>2. Booted'
    BY <1>1, <1>9, <2>1 DEF timer_init, IInv, Booted, pic_unmask, idt_register_handler, HandlerOf
  <2>3. QED
    BY <1>1, <1>3, <1>4, <1>9, <2>1, <2>2, SMTT(60) DEF timer_init, cpu, pic_unmask
<1>10. CASE init_syscall
  <2>1. step = 12
    BY <1>1, <1>2, <1>10, OrderFacts, SMTT(60) DEF init_syscall, Main
  <2>2. Booted'
    BY <1>1, <1>10, <2>1 DEF init_syscall, IInv, Booted, syscall_init, pic
  <2>3. QED
    BY <1>1, <1>3, <1>4, <1>10, <2>1, <2>2, SMTT(60) DEF init_syscall, cpu, pic
<1>11. CASE process_create_elf
  <2>1. step = 18
    BY <1>1, <1>2, <1>11, OrderFacts, SMTT(60) DEF process_create_elf, Main
  <2>2. Booted'
    BY <1>1, <1>11, <2>1 DEF process_create_elf, IInv, Booted, tables, pic
  <2>3. Rest
    <3>1. parked = [pc |-> parked.pc, stack |-> parked.stack, own |-> parked.own]
      BY DEF IInv, Waiting
    <3>2. /\ parked' = [pc |-> parked'.pc, stack |-> parked'.stack, own |-> parked'.own]
          /\ parked'.pc \in {parked.pc, "new"}
          /\ parked'.stack = parked.stack /\ parked'.own = parked.own
      BY <1>11, <3>1 DEF process_create_elf
    <3>3. use_linux_abi' \in BOOLEAN
      BY <1>11, Zenon DEF process_create_elf
    <3>4. QED
      BY <1>1, <1>2, <1>11, <3>2, <3>3, BootFacts, SMTT(60) DEF process_create_elf, Rest, cpu, pic
  <2>4. QED
    BY <1>1, <1>3, <2>1, <2>2, <2>3, SMTT(60)
<1>12. CASE sti
  <2>1. step \in {15, 19}
    BY <1>1, <1>2, <1>12, OrderFacts, SMTT(60) DEF sti, Main
  <2>2. Booted'
    BY <1>1, <1>12, <2>1 DEF sti, IInv, Booted, tables, pic
  <2>3. KernelOwn(own', "main") /\ reg' = own'
    <3>1. IsRegs(own) /\ "cs" \in Regs /\ "ss" \in Regs /\ "rip" \in Regs /\ "rflags" \in Regs
      BY <1>1, BootFacts DEF KernelOwn, Regs
    <3>2. own' = [own EXCEPT !["rflags"] = Flag(1)] /\ reg' = own'
      BY <1>1, <1>12, BootFacts DEF sti
    <3>3. IsRegs(own') /\ own'["cs"] = own["cs"] /\ own'["ss"] = own["ss"] /\ own'["rip"] = own["rip"]
      <4>1. IsRegs(own') /\ \A r \in Regs : r # "rflags" => own'[r] = own[r]
        BY <3>1, <3>2, SMTT(60) DEF IsRegs
      <4>2. QED
        BY <3>1, <4>1
    <3>4. QED
      BY <1>1, <3>2, <3>3, BootFacts, SMTT(60) DEF KernelOwn
  <2>4. Rest
    BY <1>1, <1>12, <2>1, <2>3, BootFacts, SMTT(60) DEF sti, Rest, IInv, Serving, Waiting, proc, pic
  <2>5. QED
    BY <1>1, <1>3, <2>1, <2>2, <2>4, SMTT(60)
<1>13. CASE init_other
  <2>1. step \notin {3, 4, 5, 6, 10, 18, 20}
    BY <1>1, <1>2, <1>13, OrderFacts, SMTT(60) DEF init_other, Main
  <2>2. Booted'
    BY <1>1, <1>2, <1>13, <2>1 DEF init_other, IInv, Booted, tables, pic
  <2>3. QED
    BY <1>1, <1>2, <1>3, <1>4, <1>13, <2>1, <2>2, SMTT(60) DEF init_other, cpu, pic
<1>20. QED
  BY <1>5, <1>6, <1>7, <1>8, <1>9, <1>10, <1>11, <1>12, <1>13, SMTT(60)

(* A device that requests an interrupt changes nothing else.               *)
LEMMA RequestOnly ==
    ASSUME IInv, UNCHANGED <<step, tables, cpu, proc, trap, imr, isr, icw2>>,
           irr' \subseteq irr \cup Wired
    PROVE  IInv'
<1>1. /\ Turn' = Turn /\ Runs' = Runs
      /\ UNCHANGED <<pc, reg, own, stack, vec, parked, call, served, use_linux_abi>>
  BY DEF Turn, Runs, cpu, proc, trap
<1>2. Booted'
  BY DEF IInv, Booted, tables
<1>3. Lines'
  BY <1>1 DEF IInv, Lines
<1>4. Running'
  BY <1>1 DEF IInv, Running
<1>5. Waiting'
  BY <1>1 DEF IInv, Waiting
<1>6. Serving'
  BY <1>1 DEF IInv, Serving, Entered
<1>7. QED
  BY <1>2, <1>3, <1>4, <1>5, <1>6 DEF IInv

===============================================================================
