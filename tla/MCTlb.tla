------------------------------- MODULE MCTlb -------------------------------
(***************************************************************************)
(* Two-entry tables, a TLB of two slots, two frames of RAM that are tables *)
(* of each other, so that four entries hold a 4 KiB leaf and superpages of *)
(* both sizes.                                                             *)
(***************************************************************************)
EXTENDS Tlb

Leaf(perm, u, ppn) ==
    [V |-> TRUE, perm |-> perm, U |-> u, rsv |-> FALSE, ppn |-> ppn]
Table(ppn) == Leaf({}, FALSE, ppn)
Invalid == [Table(0) EXCEPT !.V = FALSE]

MCRam == {0, 1}

\* Page 1 is a kernel page of frame 1, pages 2 and 3 a user superpage of
\* level 1, pages 12 to 15 a kernel superpage of level 2 over frames 1 to 4.
MCMemory ==
    {[f \in MCRam |-> [i \in Idx |->
        IF f = 0 THEN IF i = 0 THEN Table(1) ELSE Leaf({"R", "W"}, FALSE, 1)
                 ELSE IF i = 0 THEN Table(0) ELSE Leaf({"R", "X"}, TRUE, 5)]]}

\* one page in each half of the root's first table; they share a slot
MCPages == {1, 3}

MCUnmap == {Invalid}

MCRootChoices ==
    {[frame |-> 0, aligned |-> TRUE], [frame |-> 1, aligned |-> FALSE]}
=============================================================================
