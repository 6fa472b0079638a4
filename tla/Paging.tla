------------------------------- MODULE Paging -------------------------------
(***************************************************************************)
(* AddressTranslator::translate: the three-level radix walk in front of    *)
(* every fetch and data access while paging is on.                         *)
(*                                                                         *)
(* Addresses are kept at page granularity.  A virtual page number has the  *)
(* three table indices of NIdx values each (512 in the code) and ONE of    *)
(* the sign-extension bits above them; a physical frame number is as wide, *)
(* so identity mapping and the carry out of a superpage base are the       *)
(* code's 64-bit arithmetic at a smaller width.                            *)
(***************************************************************************)
EXTENDS Integers

CONSTANTS
    NIdx,   \* entries of one page table
    Ram     \* frames backed by RAM; every other frame is an open bus

NPages == NIdx * NIdx * NIdx
VPages == 0 .. (2 * NPages - 1)
Idx    == 0 .. (NIdx - 1)

ASSUME PagingAssumption ==
    /\ NIdx \in Nat /\ NIdx > 1
    /\ Ram \subseteq 0 .. (NPages - 1)

Access == {"R", "W", "X"}

\* A page-table entry: bit V, the set of bits among R, W and X, bit U,
\* whether any bit of PTE_RESERVED_MASK is set, and the page number below
\* those bits.
PTE == [V : BOOLEAN, perm : SUBSET Access, U : BOOLEAN, rsv : BOOLEAN,
        ppn : 0 .. (NPages - 1)]

Memory == [Ram -> [Idx -> PTE]]

\* special register 11: a frame, and whether the low 12 bits are zero
Root == [frame : VPages, aligned : BOOLEAN]

\* A read that no region answers returns ones in every bit.
OpenBus == [V |-> TRUE, perm |-> Access, U |-> TRUE, rsv |-> TRUE,
            ppn |-> NPages - 1]

ReadPte(mem, frame, i) == IF frame \in Ram THEN mem[frame][i] ELSE OpenBus

Idx0(v) == v % NIdx
Idx1(v) == (v \div NIdx) % NIdx
Idx2(v) == (v \div (NIdx * NIdx)) % NIdx

\* _isCanonical39: the bit above the indices repeats the top index bit
Canonical(v) == (v \div NPages = 1) <=> ((v % NPages) * 2 >= NPages)

TRAP_EXEC_ALIGN == 1
TRAP_PAGE_FAULT_NOT_PRESENT == 5
TRAP_PAGE_FAULT_PERMISSION  == 6
TRAP_PAGE_FAULT_RESERVED    == 7
TRAP_PAGE_FAULT_CANONICAL   == 8

\* trap_aux is the pair of fields _encodeAux packs: subtype and level
Aux    == (0 .. 5) \X (0 .. 2)
Result == [valid : BOOLEAN, frame : VPages, cause : {0, 1, 5, 6, 7, 8},
           aux : Aux]

Fault(cause, subtype, level) ==
    [valid |-> FALSE, frame |-> 0, cause |-> cause, aux |-> <<subtype, level>>]

Mapped(frame) ==
    [valid |-> TRUE, frame |-> frame, cause |-> 0, aux |-> <<0, 0>>]

\* page_base + offset, where the base keeps the reserved bits of the entry
PhysicalFrame(leaf, offset) ==
    (leaf.ppn + (IF leaf.rsv THEN NPages ELSE 0) + offset) % (2 * NPages)

\* lambda resolveLeaf; offset is the page number inside a superpage
ResolveLeaf(leaf, level, offset, user, access) ==
    IF leaf.perm = {}
    THEN Fault(TRAP_PAGE_FAULT_NOT_PRESENT, 1, level)
    ELSE IF access \notin leaf.perm \/ (user /\ ~leaf.U)
         THEN Fault(TRAP_PAGE_FAULT_PERMISSION, 3, level)
         ELSE Mapped(PhysicalFrame(leaf, offset))

WalkL0(mem, table, v, user, access) ==
    LET leaf == ReadPte(mem, table, Idx0(v)) IN
    IF ~leaf.V
    THEN Fault(TRAP_PAGE_FAULT_NOT_PRESENT, 1, 0)
    ELSE IF leaf.rsv
         THEN Fault(TRAP_PAGE_FAULT_RESERVED, 4, 0)
         ELSE ResolveLeaf(leaf, 0, 0, user, access)

\* One iteration of the loop over levels 2 and 1.  A superpage leaf is
\* resolved before its reserved bits are looked at.
WalkL1(mem, table, v, user, access) ==
    LET pte == ReadPte(mem, table, Idx1(v)) IN
    IF ~pte.V
    THEN Fault(TRAP_PAGE_FAULT_NOT_PRESENT, 1, 1)
    ELSE IF pte.perm # {}
         THEN ResolveLeaf(pte, 1, Idx0(v), user, access)
         ELSE IF pte.rsv
              THEN Fault(TRAP_PAGE_FAULT_RESERVED, 4, 1)
              ELSE WalkL0(mem, pte.ppn, v, user, access)

WalkL2(mem, table, v, user, access) ==
    LET pte == ReadPte(mem, table, Idx2(v)) IN
    IF ~pte.V
    THEN Fault(TRAP_PAGE_FAULT_NOT_PRESENT, 1, 2)
    ELSE IF pte.perm # {}
         THEN ResolveLeaf(pte, 2, v % (NIdx * NIdx), user, access)
         ELSE IF pte.rsv
              THEN Fault(TRAP_PAGE_FAULT_RESERVED, 4, 2)
              ELSE WalkL1(mem, pte.ppn, v, user, access)

\* translate with config.enabled; the exec-alignment check precedes it
Walk(mem, root, v, user, access) ==
    IF ~root.aligned
    THEN Fault(TRAP_PAGE_FAULT_RESERVED, 4, 2)
    ELSE IF ~Canonical(v)
         THEN Fault(TRAP_PAGE_FAULT_CANONICAL, 5, 2)
         ELSE WalkL2(mem, root.frame, v, user, access)

\* translate: odd is bit 0 of the address
Translate(mem, root, paging, v, odd, user, access) ==
    IF access = "X" /\ odd
    THEN Fault(TRAP_EXEC_ALIGN, 0, 0)
    ELSE IF ~paging
         THEN Mapped(v)
         ELSE Walk(mem, root, v, user, access)
=============================================================================
