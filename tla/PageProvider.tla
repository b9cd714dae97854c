---------------------------- MODULE PageProvider ----------------------------
(***************************************************************************)
(* What liballoc may assume of the page allocator (liballoc_alloc and      *)
(* liballoc_free in include/kernel/liballoc.h): it hands out runs of pages *)
(* that nobody holds, each page backed by a frame of its own until the run *)
(* is given back.  It may refuse at any time, and does not promise to hand *)
(* out again what was given back.                                          *)
(***************************************************************************)
CONSTANTS
    Page,           \* pages that may be handed out
    Frame           \* frames of physical memory

VARIABLES
    held,           \* runs of pages handed out, as sets of pages
    frame           \* page of a run handed out -> frame behind it

pages == <<held, frame>>

Injective(f) == \A v, w \in DOMAIN f : f[v] = f[w] => v = w

Init == held = {} /\ frame = [v \in {} |-> v]

\* The run b, which nobody holds, is handed out; frames behind other runs stay.
Allocate(b) ==
    /\ b # {} /\ b \subseteq Page
    /\ b \cap DOMAIN frame = {}
    /\ held' = held \cup {b}
    /\ frame' \in [DOMAIN frame \cup b -> Frame]
    /\ \A v \in DOMAIN frame : frame'[v] = frame[v]
    /\ Injective(frame')

\* The run b is given back.
Free(b) ==
    /\ held' = held \ {b}
    /\ frame' = [v \in DOMAIN frame \ b |-> frame[v]]

Next ==
    \/ \E b \in held' \ held : Allocate(b)
    \/ \E b \in held \ held' : Free(b)

Spec == Init /\ [][Next]_pages

=============================================================================
