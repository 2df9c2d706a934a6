------------------------------- MODULE Regions -------------------------------
(***************************************************************************)
(* What an allocator promises its callers: regions that do not overlap,    *)
(* that have a header's room before them, that are aligned, and that stay  *)
(* the caller's until they are given back.                                 *)
(***************************************************************************)
EXTENDS Naturals

CONSTANTS Header, Align

VARIABLE live    \* the regions in use: [ptr, size]

Apart(r, s) == r.ptr + r.size + Header <= s.ptr \/ s.ptr + s.size + Header <= r.ptr

RInit == live = {}

Fresh(r) == r.ptr % Align = 0 /\ \A s \in live : Apart(r, s)

Allocate(r) == Fresh(r) /\ live' = live \cup {r}
Release(r) == r \in live /\ live' = live \ {r}

(* A region grows: in place, or by a move to one that is apart from it.    *)
Resize(r, s) ==
    /\ r \in live /\ live' = (live \ {r}) \cup {s}
    /\ \/ s.ptr = r.ptr /\ \A t \in live \ {r} : Apart(s, t)
       \/ Fresh(s)

RNext ==
    \/ \E r \in live' \ live : Allocate(r) \/ \E s \in live : Resize(s, r)
    \/ \E r \in live : Release(r)

RSpec == RInit /\ [][RNext]_live
=============================================================================
