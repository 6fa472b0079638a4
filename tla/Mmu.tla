-------------------------------- MODULE Mmu --------------------------------
(***************************************************************************)
(* What the CPU promises about address translation, with no cache in it:   *)
(* every access returns the walk of the page tables as they are, except    *)
(* for a page whose translation software changed without a flush since.    *)
(* Also the state changes around translation that the TLB shares: writes   *)
(* to memory, SSR, trap entry, IRET and reset.                             *)
(***************************************************************************)
EXTENDS Paging

CONSTANTS
    Pages,        \* virtual pages software touches
    MemChoices,   \* contents the loader leaves in RAM
    PteChoices,   \* entries that stores and DMA write
    RootChoices   \* values software writes to special register 11

ASSUME MmuAssumption ==
    /\ Pages \subseteq VPages
    /\ MemChoices \subseteq Memory
    /\ PteChoices \subseteq PTE
    /\ RootChoices \subseteq Root

VARIABLES
    mem,      \* RAM, at the granularity of page-table entries
    root,     \* page_table_root_physical
    paging,   \* cpu_control: paging enable
    user,     \* cpu_control: user mode
    saved,    \* those two bits of interrupt_cpu_control
    run,      \* isRunning
    stale,    \* ghost: pages whose walk changed since the last flush
    out       \* ghost: the access just made and the answer it got

ctlvars == <<root, paging, user, saved>>
mmuvars == <<mem, root, paging, user, saved, run, stale, out>>

Control == [paging : BOOLEAN, user : BOOLEAN]

Answer == [v : Pages \cup {-1}, a : Access, r : Result]

\* of a step that translates nothing for an instruction
NoAnswer == [v |-> -1, a |-> "R", r |-> Mapped(0)]

MmuTypeOK ==
    /\ mem \in Memory
    /\ root \in Root
    /\ paging \in BOOLEAN
    /\ user \in BOOLEAN
    /\ saved \in Control
    /\ run \in BOOLEAN
    /\ stale \subseteq Pages
    /\ out \in Answer

\* registers = {} : the state after reset(), with RAM as the loader left it
MmuInit ==
    /\ mem \in MemChoices
    /\ root = [frame |-> 0, aligned |-> TRUE]
    /\ paging = FALSE
    /\ user = FALSE
    /\ saved = [paging |-> FALSE, user |-> FALSE]
    /\ run = TRUE
    /\ stale = {}
    /\ out = NoAnswer

\* Pages for which some access, in some mode, walks differently in m.
Retranslated(m) ==
    {v \in Pages : \E u \in BOOLEAN, a \in Access :
                        Walk(m, root, v, u, a) # Walk(mem, root, v, u, a)}

Write(frame, i, pte) ==
    IF frame \in Ram THEN [mem EXCEPT ![frame][i] = pte] ELSE mem

Poke(m) == mem' = m /\ stale' = stale \cup Retranslated(m)

\* _raiseInterrupt as far as translation sees it.  The vector table, which
\* decides between the outcomes, is not part of this module: the handler is
\* entered or its fetch faults (supervisor mode is already forced), or the
\* entry is refused and cpu_control is left, or put back, as it was.
EnterTrap ==
    /\ \/ saved' = [paging |-> paging, user |-> user] /\ user' = FALSE
       \/ UNCHANGED <<saved, user>>
    /\ run' \in BOOLEAN

\* The rest of an access once its translation is r: a fault raises.
Finish(v, a, r) ==
    /\ IF r.valid THEN UNCHANGED <<user, saved, run>> ELSE EnterTrap
    /\ out' = [v |-> v, a |-> a, r |-> r]
    /\ UNCHANGED <<root, paging>>

\* Outcomes allowed for an access: the walk; anything mapped if stale.
Allowed(v, odd, a) ==
    {Translate(mem, root, paging, v, odd, user, a)}
        \cup {Mapped(f) : f \in {g \in VPages : paging /\ v \in stale}}

\* a load (R) or a fetch (X)
MmuRead(v, odd, a) ==
    /\ run
    /\ \E r \in Allowed(v, odd, a) : Finish(v, a, r)
    /\ UNCHANGED <<mem, stale>>

MmuStore(v, i, pte) ==
    /\ run
    /\ \E r \in Allowed(v, FALSE, "W") :
          /\ Finish(v, "W", r)
          /\ Poke(IF r.valid THEN Write(r.frame, i, pte) ELSE mem)

\* A device writes RAM by physical address.
DmaWrite(frame, i, pte) ==
    /\ run
    /\ Poke(Write(frame, i, pte))
    /\ out' = NoAnswer
    /\ UNCHANGED <<ctlvars, run>>

\* SYSCALL, a privileged or invalid instruction, an IRQ.
Trap ==
    /\ run
    /\ EnterTrap
    /\ out' = NoAnswer
    /\ UNCHANGED <<mem, root, paging, stale>>

\* SSR selector 0
SsrCpuControl(c) ==
    /\ run /\ ~user
    /\ paging' = c.paging /\ user' = c.user
    /\ stale' = {}
    /\ out' = NoAnswer
    /\ UNCHANGED <<mem, root, saved, run>>

\* SSR selector 11
SsrRoot(r) ==
    /\ run /\ ~user
    /\ root' = r
    /\ stale' = {}
    /\ out' = NoAnswer
    /\ UNCHANGED <<mem, paging, user, saved, run>>

\* SSR selector 23: software rewrites the saved control word
SsrSaved(c) ==
    /\ run /\ ~user
    /\ saved' = c
    /\ out' = NoAnswer
    /\ UNCHANGED <<mem, root, paging, user, run, stale>>

Iret ==
    /\ run /\ ~user
    /\ paging' = saved.paging /\ user' = saved.user
    /\ stale' = {}
    /\ out' = NoAnswer
    /\ UNCHANGED <<mem, root, saved, run>>

Reset ==
    /\ root' = [frame |-> 0, aligned |-> TRUE]
    /\ paging' = FALSE
    /\ user' = FALSE
    /\ saved' = [paging |-> FALSE, user |-> FALSE]
    /\ run' = TRUE
    /\ stale' = {}
    /\ out' = NoAnswer
    /\ UNCHANGED mem

MmuNext ==
    \/ \E v \in Pages : MmuRead(v, FALSE, "R")
    \/ \E v \in Pages, odd \in BOOLEAN : MmuRead(v, odd, "X")
    \/ \E v \in Pages, i \in Idx, p \in PteChoices : MmuStore(v, i, p)
    \/ \E f \in Ram, i \in Idx, p \in PteChoices : DmaWrite(f, i, p)
    \/ Trap
    \/ \E c \in Control : SsrCpuControl(c) \/ SsrSaved(c)
    \/ \E r \in RootChoices : SsrRoot(r)
    \/ Iret
    \/ Reset

MmuSpec == MmuInit /\ [][MmuNext]_mmuvars
=============================================================================
