---------------------------- MODULE FrameAllocator ----------------------------
(***************************************************************************)
(* What the physical memory manager promises: a frame of the pool is       *)
(* either available or held by one caller, and only changes hands from     *)
(* one to the other.                                                       *)
(***************************************************************************)
CONSTANT Pool

VARIABLES avail, held

fvars == <<avail, held>>

FInit ==
    /\ avail = Pool
    /\ held = {}

Grant ==
    /\ avail' \subseteq avail
    /\ held' = held \cup (avail \ avail')

Return ==
    /\ held' \subseteq held
    /\ avail' = avail \cup (held \ held')

FSpec == FInit /\ [][Grant \/ Return]_fvars

=============================================================================
