------------------------------- MODULE PageMap -------------------------------
(***************************************************************************)
(* What the virtual memory manager promises for the pages of user          *)
(* programs: every address space has a map of its own, which starts empty  *)
(* and changes only where somebody maps or unmaps a page in it, and no two *)
(* pages anywhere lie in one frame, except in the frame buffer's.          *)
(***************************************************************************)
CONSTANTS Page, Fb, Frame, FbFrame, Unmapped

VARIABLE umap    \* umap[s][v]: the frame of page v of address space s

PInit == umap = [s \in {} |-> {}]

Create(s) ==
    /\ s \notin DOMAIN umap
    /\ umap' = [t \in DOMAIN umap \cup {s} |->
                  IF t = s THEN [v \in Page |-> Unmapped] ELSE umap[t]]

MapPage(s, v, f) ==
    /\ umap' = [umap EXCEPT ![s][v] = f]
    /\ \A t \in DOMAIN umap, u \in Page : umap[t][u] # f

(* The machine may halt between two pages of the frame buffer.             *)
MapFb(s, vs) == umap' = [umap EXCEPT ![s] = [v \in Page |-> IF v \in vs THEN FbFrame ELSE @[v]]]

Unmap(s, v) == umap' = [umap EXCEPT ![s][v] = Unmapped]

PNext ==
    \/ \E s \in DOMAIN umap' : Create(s)
    \/ \E s \in DOMAIN umap :
         \/ \E v \in Page : Unmap(s, v) \/ \E f \in Frame \cap {umap'[s][v]} : MapPage(s, v, f)
         \/ \E vs \in SUBSET Fb : MapFb(s, vs)

PSpec == PInit /\ [][PNext]_umap

=============================================================================
