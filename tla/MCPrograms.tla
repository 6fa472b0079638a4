----------------------------- MODULE MCPrograms -----------------------------
(***************************************************************************)
(* Programs, page tables and the interrupt table on which the hardware     *)
(* cores are model-checked.                                                *)
(*                                                                         *)
(*   page   0, 1  code     2  data     3  interrupt table    4 to 7 tables *)
(*   virtual pages 12 to 15 repeat pages 0 to 3 under the root at 64 and   *)
(*   are not mapped under the root at 112                                  *)
(***************************************************************************)
EXTENDS Integers, Sequences, TLC

Ins(op, fn, rd, rs1, imm, width, pcrel) ==
    [op |-> op, fn |-> fn, rd |-> rd, rs1 |-> rs1, imm |-> imm, width |-> width, pcrel |-> pcrel]

Ldi(rd, imm)       == Ins("LDI", 0, rd, 0, imm, 0, FALSE)
Ujmp(imm)          == Ins("UJMP", "", 0, 0, imm, 0, FALSE)
Op(fn, rd, rs1)    == Ins("ALU", fn, rd, rs1, 1, 0, FALSE)
Load(w, rd, rs1)   == Ins("LOAD", "", rd, rs1, 0, w, FALSE)
Store(w, rd, rs1)  == Ins("STORE", "", rd, rs1, 0, w, FALSE)
Push(rd, rs1)      == Ins("PUSH", "", rd, rs1, 0, 4, FALSE)
Pop(rd, rs1)       == Ins("POP", "", rd, rs1, 0, 4, FALSE)
Move(rd, rs1, imm) == Ins("MOVE", "", rd, rs1, imm, 0, FALSE)
PcPush(rd, imm)    == Ins("PUSH", "", rd, 0, imm, 4, TRUE)
PcPop(rd, imm)     == Ins("POP", "", rd, 0, imm, 4, TRUE)
PcJump(cond, imm)  == Ins("JUMP", cond, 0, 0, imm, 0, TRUE)
Llr(rd, rs1)       == Ins("LLR", "", rd, rs1, 0, 4, FALSE)
Scr(rd, rs1)       == Ins("SCR", "", rd, rs1, 0, 4, FALSE)
Lsr(rd, rs1)       == Ins("LSR", "", rd, rs1, 0, 0, FALSE)
Ssr(rd, rs1)       == Ins("SSR", "", rd, rs1, 0, 0, FALSE)
Sys(op)            == Ins(op, "", 0, 0, 0, 0, FALSE)

\* instructions from address a on
At(a, seq) == [x \in {a + 2 * (k - 1) : k \in 1 .. Len(seq)} |-> seq[(x - a) \div 2 + 1]]

Regs(r1, r2, r3) == 1 :> r1 @@ 2 :> r2 @@ 3 :> r3 @@ 4 :> 0 @@ 15 :> 0
Data == [a \in 32 .. 39 |-> IF a < 38 THEN a % 4 ELSE 0]

\* special registers: control, root, mask, and the saved state of an entry
Special(control, mask) ==
    [s \in {0, 11, 16, 18, 20, 21, 22, 23, 24, 25, 26, 27, 28, 128} |->
        CASE s = 0 -> control [] s = 11 -> 64 [] s = 16 -> 48 [] s = 18 -> mask [] OTHER -> 0]

Program(code, regs, sr, lines) ==
    [code |-> code, regs |-> regs, mem |-> Data, sr |-> sr, lines |-> lines, faulty |-> FALSE]

\* the same program over buses that answer with errors or not at all
Faulty(p) == [p EXCEPT !.faulty = TRUE]

Pte(V, perm, U, ppn) == [V |-> V, perm |-> perm, U |-> U, rsv |-> FALSE, ppn |-> ppn]
NoPte == Pte(FALSE, {}, FALSE, 0)

McTables ==
    4 :> (0 :> Pte(TRUE, {}, FALSE, 5) @@ 1 :> Pte(TRUE, {"R", "W"}, FALSE, 0))
    @@ 5 :> (0 :> Pte(TRUE, {"R", "X"}, TRUE, 0) @@ 1 :> Pte(TRUE, {}, FALSE, 6))
    @@ 6 :> (0 :> Pte(TRUE, {"R", "W"}, TRUE, 2) @@ 1 :> Pte(TRUE, {"R"}, FALSE, 3))
    @@ 7 :> (0 :> Pte(TRUE, {}, FALSE, 5) @@ 1 :> NoPte)

\* Handlers: exceptions at 16, the interrupt of line 1 at 24 and of line 2
\* at 28; no handler for a privileged instruction.
McHandlers == [v \in 0 .. 15 |-> CASE v = 2 -> 0 [] v = 11 -> 24 [] v = 12 -> 28 [] OTHER -> 16]

-----------------------------------------------------------------------------
\* Control words: 1 interrupt enable, 64 paging, 128 user

\* An unaligned store and load, a load-use hazard, PUSH and POP
Accesses == Program(
    At(0, <<Store(4, 2, 1), Load(4, 2, 1), Op("ADD", 2, 2), Push(3, 2), Pop(3, 1), Sys("STOP")>>),
    Regs(33, 200, 40), Special(0, 0), {})

\* A load of more than the store before it wrote
NarrowThenWide == Program(
    At(0, <<Store(1, 3, 1), Load(2, 2, 1), Sys("STOP")>>), Regs(32, 0, 11), Special(0, 0), {})

\* A load into R15 with younger instructions behind it, then a taken jump
LoadJump == Program(
    At(0, <<Load(2, 15, 1), Ssr(2, 0), Op("TEST", 2, 2), PcJump("Z", 2), Sys("STOP"),
            Move(2, 1, 2), Sys("STOP")>>),
    Regs(36, 1, 40), Special(0, 0), {})

\* The GP operations one after the other, each on the result and the flags
\* of the one before
Arithmetic == Program(
    At(0, <<Op("SUB", 2, 1), Op("XOR", 2, 3), Op("SRA", 2, 3), Op("AND", 2, 1), Op("SLL", 2, 3),
            Op("OR", 2, 1), Op("SRL", 2, 3), Op("SRAI", 2, 0), Op("SLLI", 2, 0), Op("SRLI", 2, 0),
            PcJump("S", 2), Sys("STOP"), Sys("STOP")>>),
    Regs(165, 3, 2), Special(0, 0), {})

\* PC-relative PUSH and POP: a load chained to a store
Chained == Program(
    At(0, <<PcPush(3, 30), PcPop(3, 32), Sys("STOP")>>),
    Regs(0, 0, 40), Special(0, 0), {})

\* A user program: a system call, its handler, and the return
SystemCall == Program(
    At(0, <<Ldi(2, 1), Sys("SYSCALL"), Ldi(2, 3), Sys("STOP")>>)
        @@ At(16, <<Lsr(2, 1), Move(2, 2, 2), Ssr(2, 1), Sys("IRET")>>),
    Regs(21, 0, 0), Special(128, 0), {})

\* Under paging: a store and a load through an alias of the data page; the
\* alias goes away with a new root, and the second load must fault.
NewRoot == Program(
    At(0, <<Store(1, 2, 3), Load(1, 4, 3), Ssr(2, 1), Load(1, 4, 3), Sys("STOP")>>)
        @@ At(16, <<Sys("STOP")>>),
    Regs(11, 112, 226), Special(64, 0), {})

\* A page the new root does not map, whose entry no fetch displaces, and two
\* flushes between the loads: the generation of the first comes back.
RootTwice == Program(
    At(0, <<Load(1, 4, 3), Ssr(2, 1), Ssr(2, 1), Load(1, 4, 3), Sys("STOP")>>)
        @@ At(16, <<Sys("STOP")>>),
    Regs(11, 112, 242), Special(64, 0), {})

\* User mode: a load and a store without the permission and a system call,
\* each with a handler that skips the instruction
UserFault == Program(
    At(0, <<Load(1, 2, 3), Store(1, 2, 1), Sys("SYSCALL"), Ldi(2, 2), Sys("STOP")>>)
        @@ At(16, <<Lsr(2, 1), Move(2, 2, 2), Ssr(2, 1), Sys("IRET")>>),
    Regs(21, 2, 48), Special(64 + 128, 0), {})

\* An exception inside an exception handler: one of a lower number is
\* taken, one of the same or a higher number stops the core.
NestedTrap == Program(
    At(0, <<Sys("SYSCALL")>>) @@ At(16, <<Move(15, 0, 5)>>),
    Regs(0, 0, 0), Special(64, 0), {})

\* The interrupt table is moved to a page that is not mapped, or to an
\* address that is not canonical; the next trap stops the core.
LostTable(base) == Program(
    At(0, <<Ssr(2, 1), Sys("SYSCALL")>>), Regs(16, base, 0), Special(64, 0), {})

\* Paging is switched on under an identity mapping of the code.
SwitchOn == Program(
    At(0, <<Ssr(1, 0), Store(1, 2, 3), Load(1, 1, 3), Ujmp(254)>>),
    Regs(64, 2, 226), Special(0, 0), {})

\* Load-linked and store-conditional: one that succeeds, one after a store
\* into the reserved word
Reservation == Program(
    At(0, <<Llr(2, 1), Scr(3, 1), Ldi(2, 1), Scr(2, 1), Llr(2, 1), Store(1, 3, 1), Scr(2, 1), Sys("STOP")>>),
    Regs(32, 0, 7), Special(0, 0), {})

\* A loop interrupted by two lines; their handlers mask the line that came
\* in and return.
Interrupts == Program(
    At(0, <<Ssr(1, 0), Op("ADD", 1, 2), Op("SUB", 1, 2), Ujmp(250)>>)
        @@ At(24, <<Ssr(0, 3), Sys("IRET")>>) @@ At(28, <<Ssr(0, 3), Sys("IRET")>>),
    Regs(1, 3, 18), Special(0, 6), {1, 2})

-----------------------------------------------------------------------------
\* Programs on which one of the cores departs from the program's machine

\* a jump to an odd address
OddJump == Program(
    At(0, <<Move(15, 0, 5), Ldi(2, 1), Ldi(2, 2), Sys("STOP")>>) @@ At(16, <<Sys("STOP")>>),
    Regs(0, 0, 0), Special(0, 0), {})

\* a branch on the outcome of a store-conditional
BranchOnScr == Program(
    At(0, <<Llr(2, 1), Scr(3, 1), PcJump("Z", 2), Ldi(2, 3), Sys("STOP"), Sys("STOP")>>),
    Regs(32, 0, 7), Special(0, 0), {})

\* an interrupt while a load finishes
LoadUnderIrq == Program(
    At(0, <<Ssr(1, 0), Load(1, 2, 3), Ujmp(252)>>) @@ At(24, <<Sys("STOP")>>),
    Regs(1, 0, 33), Special(0, 2), {1})

\* an interrupt in a loop of three fetch lines, one more than the model's V4
\* holds, with a store on every turn; the handler masks the line and returns
StoresUnderIrq == Program(
    At(0, <<Ssr(1, 0), Store(1, 2, 3), Ujmp(6)>>) @@ At(12, <<Ujmp(244)>>)
        @@ At(24, <<Ssr(4, 2), Sys("IRET")>>),
    Regs(1, 18, 32), Special(0, 2), {1})

\* an interrupt under paging
PagedIrq == Program(
    At(0, <<Ssr(1, 0), Ujmp(254)>>) @@ At(24, <<Sys("STOP")>>),
    Regs(65, 0, 0), Special(64, 2), {1})

\* a halt under paging, with no page behind it
PagedStop == Program(
    At(28, <<Ujmp(254), Sys("STOP")>>) @@ At(0, <<Move(15, 0, 30)>>), Regs(0, 0, 0), Special(64, 0), {})

\* a store and a store-conditional under one reservation
StoreInReservation == Program(
    At(0, <<Llr(2, 1), Op("ADD", 2, 2), Store(1, 3, 1), Scr(2, 1), Sys("STOP")>>),
    Regs(32, 0, 7), Special(0, 0), {})

\* a store and a load of its word, which the data cache holds
StoreThenLoad == Program(
    At(0, <<Load(4, 2, 1), Ldi(4, 1), Ldi(4, 1), Store(1, 3, 1), Ldi(4, 1), Ldi(4, 1), Ldi(4, 1),
            Load(4, 2, 1), Sys("STOP")>>),
    Regs(32, 0, 7), Special(0, 0), {})

\* two stores of one byte and of a word around it, then a load of the word
OverlappingStores == Program(
    At(0, <<Store(4, 2, 1), Store(1, 3, 1), Load(4, 2, 1), Sys("STOP")>>),
    Regs(32, 0, 7), Special(0, 0), {})

\* a system call right behind a store
StoreThenCall == Program(
    At(0, <<Store(1, 3, 1), Sys("SYSCALL")>>) @@ At(16, <<Sys("STOP")>>),
    Regs(32, 0, 7), Special(0, 0), {})

\* an interrupt in a loop of one jump
TightLoop == Program(
    At(0, <<Ssr(1, 0), Ujmp(254)>>) @@ At(24, <<Sys("STOP")>>),
    Regs(1, 0, 0), Special(0, 2), {1})

\* a PC-relative PUSH of a word the data cache holds
CachedPush == Program(
    At(0, <<Load(4, 2, 1), PcPush(3, 28), Sys("STOP")>>), Regs(32, 0, 40), Special(0, 0), {})

\* a load the data cache answers, then a load of another word
CachedThenLoad == Program(
    At(0, <<Load(4, 2, 1), Load(4, 2, 1), Load(4, 2, 3), Sys("STOP")>>), Regs(32, 0, 36), Special(0, 0), {})

\* a store-conditional to another word under a reservation
TwoConditionals == Program(
    At(0, <<Llr(2, 1), Scr(2, 3), Scr(2, 1), Sys("STOP")>>), Regs(32, 0, 36), Special(0, 0), {})

\* a PUSH into a page that is not mapped
FaultingPush == Program(
    At(0, <<Push(3, 2)>>) @@ At(16, <<Sys("STOP")>>), Regs(0, 2, 100), Special(64, 0), {})

\* a return through the stack under paging
PagedReturn == Program(
    At(0, <<Pop(3, 15), Ldi(2, 1), Ldi(2, 2), Sys("STOP")>>),
    Regs(0, 0, 228), Special(64, 0), {})

-----------------------------------------------------------------------------
\* Every sequence of three instructions of a menu, then a halt.  R1 points
\* to the word below the stack, so that the first PUSH writes it; R3 is the
\* stack pointer; R2 is loaded, stored and added up.
Menu(width) ==
    {Load(width, 2, 1), Store(width, 2, 1), Op("ADD", 2, 2), Push(3, 2), Pop(3, 2), PcJump("C", 2)}

\* load-linked, store-conditional and the stores that may come between
AtomicMenu == {Llr(2, 1), Scr(2, 1), Store(1, 2, 1), Store(4, 2, 3), Push(3, 2), Op("ADD", 2, 2)}

Sequences3(menu) ==
    {[Program(At(0, <<a, b, c, Sys("STOP"), Sys("STOP")>>), Regs(136, 130, 140), Special(0, 0), {})
        EXCEPT !.mem = [x \in 128 .. 151 |-> x % 4]] : a, b, c \in menu}

\* The same under paging, where the stack may leave its page: the third
\* PUSH is refused.
PagedSequences3(menu) ==
    {[Program(At(0, <<a, b, c, Sys("STOP"), Sys("STOP")>>) @@ At(16, <<Sys("STOP")>>),
              Regs(36, 130, 40), Special(64, 0), {})
        EXCEPT !.mem = [x \in 32 .. 47 |-> x % 4]] : a, b, c \in menu}

-----------------------------------------------------------------------------
\* The named programs every core runs
CommonPrograms ==
    {Accesses, Arithmetic, NarrowThenWide, LoadJump, Chained, SystemCall, NewRoot, RootTwice,
     UserFault, NestedTrap, SwitchOn, Reservation, Interrupts, LostTable(224), LostTable(80),
     Faulty(NewRoot), Faulty(UserFault), Faulty(Accesses)}
=============================================================================
