------------------------------ MODULE Syscalls -------------------------------
(***************************************************************************)
(* The numbers of the system calls: what user/user_lib.c and the C library *)
(* linked into DOOM put in the registers, and what the two switches of     *)
(* syscall/syscall.c make of it.  An argument is named by its role, a      *)
(* service by its function and the roles it gets, in order.                *)
(***************************************************************************)
EXTENDS Integers, Sequences

Call(num, args, asks) == [num |-> num, args |-> args, asks |-> asks]

UserLib == [
    u_write       |-> Call(0, <<"buf", "len">>, <<"sys_write", "buf", "len">>),
    u_exit        |-> Call(1, <<>>, <<"sys_exit">>),
    u_yield       |-> Call(2, <<>>, <<"sys_yield">>),
    u_sleep       |-> Call(4, <<"ticks">>, <<"sys_sleep", "ticks">>),
    u_read        |-> Call(5, <<"buf", "len">>, <<"sys_read", "buf", "len">>),
    u_map_fb      |-> Call(6, <<>>, <<"sys_map_fb">>),
    u_open        |-> Call(8, <<"path">>, <<"sys_open", "path">>),
    u_fread       |-> Call(9, <<"fd", "buf", "len">>, <<"sys_fread", "fd", "buf", "len">>),
    u_fseek       |-> Call(10, <<"fd", "off", "whence">>, <<"sys_fseek", "fd", "off", "whence">>),
    u_fclose      |-> Call(11, <<"fd">>, <<"sys_fclose", "fd">>),
    u_fsize       |-> Call(12, <<"fd">>, <<"sys_fsize", "fd">>),
    u_sbrk        |-> Call(13, <<"increment">>, <<"sys_sbrk", "increment">>),
    u_gettime     |-> Call(14, <<>>, <<"sys_gettime">>),
    u_setpalette  |-> Call(15, <<"palette">>, <<"sys_setpalette", "palette">>),
    u_get_raw_key |-> Call(18, <<"event">>, <<"sys_get_raw_key", "event">>),
    u_set_fs_base |-> Call(158, <<"ARCH_SET_FS", "base">>, <<"sys_set_fs_base", "base">>),
    u_getkey      |-> Call(177, <<>>, <<"sys_getkey">>)]

(* External: the Linux calls of the C library that the kernel serves.      *)
Libc == [
    read       |-> Call(0, <<"fd", "buf", "len">>, <<"sys_fread", "fd", "buf", "len">>),
    write      |-> Call(1, <<"fd", "buf", "len">>, <<"sys_write", "buf", "len">>),
    open       |-> Call(2, <<"path", "flags">>, <<"sys_open", "path">>),
    close      |-> Call(3, <<"fd">>, <<"sys_fclose", "fd">>),
    lseek      |-> Call(8, <<"fd", "off", "whence">>, <<"sys_fseek", "fd", "off", "whence">>),
    mmap       |-> Call(9, <<"addr", "len", "prot">>, <<"mmap", "len">>),
    mprotect   |-> Call(10, <<"addr", "len", "prot">>, <<"0">>),
    brk        |-> Call(12, <<"addr">>, <<"brk", "addr">>),
    readv      |-> Call(19, <<"fd", "iov", "count">>, <<"readv", "fd", "iov", "count">>),
    writev     |-> Call(20, <<"fd", "iov", "count">>, <<"writev", "iov", "count">>),
    exit       |-> Call(60, <<"code">>, <<"sys_exit">>),
    arch_prctl |-> Call(158, <<"ARCH_SET_FS", "base">>, <<"sys_set_fs_base", "base">>),
    exit_group |-> Call(231, <<"code">>, <<"sys_exit">>),
    openat     |-> Call(257, <<"dirfd", "path", "flags">>, <<"sys_open", "path">>)]

CallsOf(table, names) == {table[n] : n \in names}

(* user_lib.c's wrappers, without the two whose number only the Linux      *)
(* table knows.                                                            *)
NativeABI == CallsOf(UserLib, DOMAIN UserLib \ {"u_set_fs_base", "u_get_raw_key"})

(* The C library's calls, and the wrappers the DOOM port calls beside it.  *)
LinuxABI ==
    CallsOf(Libc, DOMAIN Libc)
    \cup CallsOf(UserLib, {"u_map_fb", "u_sleep", "u_set_fs_base", "u_gettime", "u_setpalette",
                           "u_get_raw_key", "u_sbrk"})

linux_syscall_dispatch(num, a1, a2, a3) ==
    CASE num = 0   -> <<"sys_fread", a1, a2, a3>>
      [] num = 1   -> <<"sys_write", a2, a3>>
      [] num = 2   -> <<"sys_open", a1>>
      [] num = 3   -> <<"sys_fclose", a1>>
      [] num = 4   -> <<"sys_sleep", a1>>
      [] num = 6   -> <<"sys_map_fb">>
      [] num \in {7, 10, 11, 16, 28, 202} -> <<"0">>
      [] num = 8   -> <<"sys_fseek", a1, a2, a3>>
      [] num = 9   -> <<"mmap", a2>>
      [] num = 12  -> <<"brk", a1>>
      [] num = 13  -> <<"sys_sbrk", a1>>
      [] num = 14  -> <<"sys_gettime">>
      [] num = 15  -> <<"sys_setpalette", a1>>
      [] num = 18  -> <<"sys_get_raw_key", a1>>
      [] num = 19  -> <<"readv", a1, a2, a3>>
      [] num = 20  -> <<"writev", a2, a3>>
      [] num \in {60, 231} -> <<"sys_exit">>
      [] num = 158 -> IF a1 = "ARCH_SET_FS" THEN <<"sys_set_fs_base", a2>> ELSE <<"-1">>
      [] num = 177 -> <<"sys_getkey">>
      [] num = 257 -> <<"sys_open", a2>>
      [] OTHER     -> <<"-1">>

custom_dispatch(num, a1, a2, a3) ==
    CASE num = 0   -> <<"sys_write", a1, a2>>
      [] num = 1   -> <<"sys_exit">>
      [] num = 2   -> <<"sys_yield">>
      [] num = 3   -> <<"sys_getpid">>
      [] num = 4   -> <<"sys_sleep", a1>>
      [] num = 5   -> <<"sys_read", a1, a2>>
      [] num = 6   -> <<"sys_map_fb">>
      [] num = 8   -> <<"sys_open", a1>>
      [] num = 9   -> <<"sys_fread", a1, a2, a3>>
      [] num = 10  -> <<"sys_fseek", a1, a2, a3>>
      [] num = 11  -> <<"sys_fclose", a1>>
      [] num = 12  -> <<"sys_fsize", a1>>
      [] num = 13  -> <<"sys_sbrk", a1>>
      [] num = 14  -> <<"sys_gettime">>
      [] num = 15  -> <<"sys_setpalette", a1>>
      [] num = 16  -> <<"sys_set_fs_base", a1>>
      [] num = 177 -> <<"sys_getkey">>
      [] OTHER     -> <<"-1">>

(* Mutant: the flag of the process is not looked at.                       *)
dispatch_unflagged(use_linux_abi, num, a1, a2, a3) == custom_dispatch(num, a1, a2, a3)

syscall_dispatch(use_linux_abi, num, a1, a2, a3) ==
    IF use_linux_abi THEN linux_syscall_dispatch(num, a1, a2, a3)
    ELSE custom_dispatch(num, a1, a2, a3)

=============================================================================
