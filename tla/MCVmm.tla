-------------------------------- MODULE MCVmm --------------------------------
(* Two entries per table, as in the kernel's use of its PML4: entry 0 is   *)
(* the kernel's, entry 1 the programs'.                                    *)
EXTENDS Vmm

MCIdx == {0, 1}
MCHeapPages == <<<<0, 1, 0, 0>>>>
(* Two pages in different PDs; the frame buffer shares a PT with one.     *)
MCUserPages == {<<1, 0, 0, 0>>, <<1, 1, 0, 0>>}
MCFbPages == <<<<1, 1, 0, 1>>>>
=============================================================================
