------------------------------ MODULE MCMachine ------------------------------
(* Machine with all the calls the programs in the repository make.         *)
EXTENDS Machine

MCNativeCalls == NativeABI
MCLinuxCalls == LinuxABI

=============================================================================
