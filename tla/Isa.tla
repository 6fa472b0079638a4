-------------------------------- MODULE Isa --------------------------------
(***************************************************************************)
(* The machine a program sees: one instruction, one trap or one interrupt  *)
(* entry per step, in program order.  Every hardware core is shown to      *)
(* implement it under a mapping that completes the instructions its        *)
(* pipeline has already decided.                                           *)
(*                                                                         *)
(* What an instruction computes is Execute, the cores' own execute stage;  *)
(* what is abstract here is when and in which order anything happens.      *)
(***************************************************************************)
EXTENDS V3Stages

CONSTANTS
    Programs    \* records [code, regs, mem, sr, lines, faulty]: instructions by
                \* physical address, initial registers, data bytes, special
                \* registers, interrupt lines in use, whether the buses fail

VARIABLES
    prog,   \* the program the machine was started with, one of Programs
    regs,   \* register file; R15 is the address of the next instruction
    flags,  \* <<zero, carry, sign>>
    resv,   \* <<>> or <<address>> of the LL reservation
    mem,    \* data memory
    sr,     \* special registers
    mode    \* "run", "entry" (loading a handler address), "halted", "locked"

vars == <<prog, regs, flags, resv, mem, sr, mode>>

Init ==
    /\ prog \in Programs
    /\ regs = prog.regs
    /\ flags = <<FALSE, FALSE, FALSE>>
    /\ resv = <<>>
    /\ mem = prog.mem
    /\ sr = prog.sr
    /\ mode = "run"

pc == regs[15]

\* an interrupt line may become pending in any step
Latch(s, lines) == [s EXCEPT ![INTERRUPT_STATES_HIGH] = SetBits(@, lines)]

\* Entry into vector with the state of the interrupted instruction saved
Enter(s, vector) ==
    [s EXCEPT ![INTERRUPT_CPU_CONTROL] = s[CPU_CONTROL],
              ![CPU_CONTROL] = EntryControl(s[CPU_CONTROL], vector),
              ![INTERRUPT_EPC] = pc,
              ![INTERRUPT_EFLAGS] = FlagsWord(flags)]

\* A synchronous trap: no effect of the instruction but the trap registers
Trap(trap, lines) ==
    LET s == TrapWrite(Latch(sr, lines), sr[TRAP_CAUSE], trap) IN
    /\ IF PreemptLockup(sr[CPU_CONTROL], trap.cause)
       THEN mode' = "locked"      \* the registers mean nothing any more
       ELSE mode' = "entry" /\ sr' = Enter(s, trap.cause)
    /\ UNCHANGED <<prog, regs, flags, resv, mem>>

-----------------------------------------------------------------------------
Instruction == Fetch(prog.code, Translate(pc, "X", sr).phys)

Outputs ==
    Execute(Instruction, pc, ReadReg(regs, Instruction.rd),
            ReadReg(regs, Instruction.rs1), flags, sr, resv)

Value(opt, default) == IF opt = <<>> THEN default ELSE opt[1]

FetchFault == Translate(pc, "X", sr).fault

\* The accesses of a memory operation in order: the operation, then the
\* store chained to it
FirstAccess(op) == Translate(op.addr, IF op.write THEN "W" ELSE "R", sr)
ChainAccess(op) == Translate(op.chain[1], "W", sr)
MemoryFault(op) ==
    IF FirstAccess(op).fault # <<>> THEN <<FirstAccess(op).fault, op.addr, IF op.write THEN 1 ELSE 0>>
    ELSE IF op.chain # <<>> /\ ChainAccess(op).fault # <<>>
         THEN <<ChainAccess(op).fault, op.chain[1], 1>>
         ELSE <<>>

\* a store ends a reservation whose word it touches
Overlaps(addr, width, res) == addr < res + WordBytes /\ res < addr + width
AfterStore(res, addr, width) ==
    IF res # <<>> /\ Overlaps(addr, width, res[1]) THEN <<>> ELSE res

\* An instruction that stays in the registers
RegisterStep(lines) ==
    LET o == Outputs IN
    /\ mode = "run" /\ FetchFault = <<>>
    /\ o.memory = <<>> /\ o.trap = 0
    /\ regs' = WriteBack(regs, o.writes, o.next_pc)
    /\ flags' = Value(o.flags, flags)
    /\ resv' = IF o.clear_reservation THEN <<>> ELSE resv
    /\ sr' = SpecialClock(sr, o.control, <<>>, <<>>, <<>>, o.special, lines)
    /\ mode' = IF o.halt THEN "halted" ELSE "run"
    /\ UNCHANGED <<prog, mem>>

\* An instruction with a memory operation
MemoryStep(lines) ==
    LET o == Outputs
        op == o.memory[1]
        a  == FirstAccess(op).phys
        loaded == LoadBytes(mem, a, op.width)
        lanes == 0 .. (op.width - 1)
    IN /\ mode = "run" /\ FetchFault = <<>>
       /\ o.memory # <<>> /\ MemoryFault(op) = <<>>
       /\ regs' = WriteBack(regs, MemoryWrites(op, loaded), MemoryNextPc(op, loaded, o.next_pc))
       /\ flags' = Value(op.flags, flags)
       /\ mem' = IF op.write THEN StoreBytes(mem, a, lanes, op.value)
                 ELSE IF op.chain # <<>>
                      THEN StoreBytes(mem, ChainAccess(op).phys, 0 .. (WordBytes - 1), loaded)
                      ELSE mem
       /\ resv' = IF op.write THEN AfterStore(resv, op.addr, op.width)
                  ELSE IF op.chain # <<>> THEN AfterStore(resv, op.chain[1], WordBytes)
                  ELSE IF op.reserve THEN <<op.addr>> ELSE resv
       /\ sr' = Latch(sr, lines)
       /\ UNCHANGED <<prog, mode>>

\* The first bus beat of a store that crosses a bus word, ahead of the rest
FirstBeat(lines) ==
    LET op == Outputs.memory[1]
        addr == IF op.write THEN FirstAccess(op).phys ELSE ChainAccess(op).phys
        width == IF op.write THEN op.width ELSE WordBytes
        value == IF op.write THEN op.value ELSE LoadBytes(mem, FirstAccess(op).phys, op.width)
        room == WordBytes - (addr % WordBytes)
    IN /\ mode = "run" /\ FetchFault = <<>>
       /\ Outputs.memory # <<>> /\ MemoryFault(op) = <<>>
       /\ op.write \/ op.chain # <<>>
       /\ room < width
       /\ mem' = StoreBytes(mem, addr, 0 .. (room - 1), value)
       /\ sr' = Latch(sr, lines)
       /\ UNCHANGED <<prog, regs, flags, resv, mode>>

\* The instruction cannot be fetched, is refused, or its access faults.
Fault(lines) ==
    /\ mode = "run"
    /\ \/ FetchFault # <<>>
          /\ Trap(TrapInfo(FetchFault[1], pc, AccessCode("X"), pc, FetchFault[2]), lines)
       \/ FetchFault = <<>> /\ Outputs.trap # 0
          /\ Trap(TrapInfo(Outputs.trap, 0, 0, pc, 0), lines)
       \/ /\ FetchFault = <<>> /\ Outputs.memory # <<>>
          /\ LET f == MemoryFault(Outputs.memory[1]) IN
             f # <<>> /\ Trap(TrapInfo(f[1][1], f[2], f[3], pc, f[1][2]), lines)

\* A pending interrupt is taken between two instructions.
Interrupt(lines) ==
    LET s == Latch(sr, lines)
        vector == PendingIrq(sr, lines)
    IN /\ mode = "run"
       /\ IntEnable(sr[CPU_CONTROL]) /\ vector # 0 /\ CanPreempt(sr[CPU_CONTROL], vector)
       /\ mode' = "entry"
       /\ sr' = Enter(s, vector)
       /\ UNCHANGED <<prog, regs, flags, resv, mem>>

\* The handler's address is read from the interrupt table.
TableEntry == Translate(Plus(sr[INTERRUPT_TABLE_BASE], CurInt(sr[CPU_CONTROL])), "R", sr)

StartHandler(lines) ==
    /\ mode = "entry"
    /\ TableEntry.fault = <<>> /\ HandlerAt(TableEntry.phys) # 0
    /\ regs' = [regs EXCEPT ![15] = HandlerAt(TableEntry.phys)]
    /\ mode' = "run"
    /\ sr' = Latch(sr, lines)
    /\ UNCHANGED <<prog, flags, resv, mem>>

\* Nothing but a line changes.
Idle(lines) ==
    /\ sr' = Latch(sr, lines)
    /\ UNCHANGED <<prog, regs, flags, resv, mem, mode>>

\* A missing handler, an interrupt table that is not mapped, or an error of
\* a bus that makes errors stops the core; what it leaves in the registers
\* means nothing any more.  (A nested fault stops it in Trap.)
Lockup ==
    /\ \/ mode = "locked"
       \/ mode # "halted" /\ prog.faulty
       \/ mode = "entry" /\ (TableEntry.fault # <<>> \/ HandlerAt(TableEntry.phys) = 0)
    /\ mode' = "locked"
    /\ UNCHANGED prog

\* A halted core keeps what the program computed.
Halted == mode = "halted" /\ UNCHANGED <<prog, regs, flags, resv, mem, mode>>

Next ==
    \/ \E lines \in SUBSET prog.lines :
          \/ RegisterStep(lines) \/ MemoryStep(lines) \/ FirstBeat(lines)
          \/ Fault(lines) \/ Interrupt(lines) \/ StartHandler(lines) \/ Idle(lines)
    \/ Lockup
    \/ Halted

Spec == Init /\ [][Next]_vars
=============================================================================
