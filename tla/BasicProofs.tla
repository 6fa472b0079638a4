----------------------------- MODULE BasicProofs -----------------------------
(***************************************************************************)
(* The basic core flushes its TLB in every edge that switches the address  *)
(* space, and implements the machine of Isa as long as no store fails that *)
(* is made after the registers of its instruction were written: for every  *)
(* program, size of the TLB, number of generations and behaviour of the    *)
(* buses and the interrupt lines.                                          *)
(*                                                                         *)
(* The second part is an invariant, Inv, which says for every state of the *)
(* switch what the core knows of the instruction in hand; a lemma per      *)
(* action shows that it is kept and that the step is one of Isa's.         *)
(***************************************************************************)
EXTENDS BasicCore, HdlTlbProofs

\* Every step is one edge of the special registers and of the TLB.
LEMMA StepClocks ==
  ASSUME Next
  PROVE  \E control, saved, entered, trap, write, fill, lines :
            Clock(control, saved, entered, trap, write, fill, lines)
  <1>0. PICK b \in Answers, lines \in SUBSET prog.lines :
          \/ Waiting(b, lines)
          \/ FetchTranslate(lines) \/ FetchWord(b, lines)
          \/ /\ st = "EXECUTE"
             /\ \E o \in {Outputs} :
                   \/ ExecuteRegister(o, lines) \/ ExecuteTrap(o, lines)
                   \/ o.memory # <<>> /\ ExecuteMemory(o, lines)
          \/ MemTranslate(lines) \/ MemLoad(b, lines) \/ MemStore(b, lines) \/ SplitCycle(lines)
          \/ InterruptVectorTranslate(lines) \/ InterruptVectorLoad(b, lines)
          \/ Walk(b, lines) \/ WalkProcess(lines)
          \/ Halt(lines)
    BY DEF Next
  <1> DEFINE Goal == \E control, saved, entered, trap, write, fill, l :
                        Clock(control, saved, entered, trap, write, fill, l)
  <1>q. Quiet(lines) => Goal
    BY DEF Quiet
  <1> SUFFICES Goal
    OBVIOUS
  <1> HIDE DEF Goal
  <1>b. \A vector, epc, trap : BeginInterruptEntry(vector, epc, trap, lines) => Goal
    BY DEF BeginInterruptEntry, Goal
  <1>r. \A trap : RaiseSyncTrap(trap, lines) => Goal
    BY <1>q, <1>b DEF RaiseSyncTrap
  <1>1. CASE FetchTranslate(lines)
    <2>1. \/ \E trap : RaiseSyncTrap(trap, lines)
          \/ \E vector : BeginInterruptEntry(vector, regs[15], <<>>, lines)
          \/ Quiet(lines)
      BY <1>1 DEF FetchTranslate
    <2> QED BY <2>1, <1>q, <1>r, <1>b
  <1>2. CASE \/ Waiting(b, lines) \/ FetchWord(b, lines) \/ MemLoad(b, lines) \/ MemStore(b, lines)
             \/ SplitCycle(lines) \/ InterruptVectorTranslate(lines) \/ Walk(b, lines) \/ Halt(lines)
    <2>1. Waiting(b, lines) => Quiet(lines)
      BY DEF Waiting
    <2>2. FetchWord(b, lines) => Quiet(lines)
      BY DEF FetchWord
    <2>3. MemLoad(b, lines) => Quiet(lines)
      BY DEF MemLoad
    <2>4. MemStore(b, lines) => Quiet(lines)
      BY DEF MemStore
    <2>5. SplitCycle(lines) => Quiet(lines)
      BY DEF SplitCycle
    <2>6. InterruptVectorTranslate(lines) => Quiet(lines)
      BY DEF InterruptVectorTranslate
    <2>7. Walk(b, lines) => Quiet(lines)
      BY DEF Walk
    <2>8. Halt(lines) => Quiet(lines)
      BY DEF Halt
    <2> QED BY <1>2, <1>q, <2>1, <2>2, <2>3, <2>4, <2>5, <2>6, <2>7, <2>8
  <1>3. ASSUME NEW o, ExecuteRegister(o, lines) \/ ExecuteTrap(o, lines) \/ ExecuteMemory(o, lines)
        PROVE  Goal
    <2>1. CASE ExecuteRegister(o, lines)
      BY <2>1 DEF ExecuteRegister, Goal
    <2>2. CASE ExecuteTrap(o, lines)
      BY <2>2, <1>r DEF ExecuteTrap
    <2>3. CASE ExecuteMemory(o, lines)
      BY <2>3, <1>q DEF ExecuteMemory
    <2> QED BY <1>3, <2>1, <2>2, <2>3
  <1>4. CASE MemTranslate(lines)
    <2>1. Quiet(lines) \/ \E trap : RaiseSyncTrap(trap, lines)
      BY <1>4 DEF MemTranslate, Translation
    <2> QED BY <2>1, <1>q, <1>r
  <1>5. CASE WalkProcess(lines)
    <2>1. \/ Quiet(lines) \/ \E trap : RaiseSyncTrap(trap, lines)
          \/ \E fill : Clock(<<>>, <<>>, <<>>, <<>>, <<>>, fill, lines)
      BY <1>5 DEF WalkProcess
    <2> QED BY <2>1, <1>q, <1>r DEF Goal
  <1>6. CASE InterruptVectorLoad(b, lines)
    <2>1. \/ Quiet(lines)
          \/ \E entered : Clock(<<>>, <<>>, entered, <<>>, <<>>, <<>>, lines)
      BY <1>6 DEF InterruptVectorLoad
    <2> QED BY <2>1, <1>q DEF Goal
  <1> QED BY <1>0, <1>1, <1>2, <1>3, <1>4, <1>5, <1>6

\* the invariant: the register file is complete and the generations are past
Registers == IsFile(sr) /\ GenerationsPast(tlb)

\* One step keeps the invariant, and one that switches the address space
\* leaves no live entry.
LEMMA StepSwitches ==
  ASSUME Registers, Next
  PROVE  /\ Registers'
         /\ \/ sr'[CPU_CONTROL] # sr[CPU_CONTROL]
            \/ sr'[PAGE_TABLE_ROOT] # sr[PAGE_TABLE_ROOT]
            => Live(tlb') = {}
  <1>1. PICK control, saved, entered, trap, write, fill, lines :
          Clock(control, saved, entered, trap, write, fill, lines)
    BY StepClocks
  <1>2. PICK set : sr' = SpecialClock(sr, control, saved, entered, trap, write, set)
    BY <1>1 DEF Clock, BasicSpecialClock
  <1>3. tlb' = TlbClock(tlb, TlbFlush(control, write), fill)
    BY <1>1 DEF Clock, BasicTlbClock
  <1>4. TlbFlush(control, write) \in BOOLEAN
    BY DEF TlbFlush
  <1>5. GenerationsPast(tlb') /\ (TlbFlush(control, write) => Live(tlb') = {})
    BY <1>3, <1>4, ClockPast DEF Registers
  <1>6. /\ IsFile(sr')
        /\ \/ sr'[CPU_CONTROL] # sr[CPU_CONTROL]
           \/ sr'[PAGE_TABLE_ROOT] # sr[PAGE_TABLE_ROOT]
           => TlbFlush(control, write)
    BY <1>2, SpecialClockFile DEF Registers
  <1> QED BY <1>5, <1>6 DEF Registers

\* No translation outlives its address space in the basic core: the edge that
\* changes the control word or the root empties the TLB, for every program,
\* TLB size, number of generations and behaviour of the buses.
THEOREM BasicSwitch == Spec => SwitchFlushes
  <1>1. Init => Registers
    BY ProgramsAssumption, ResetPast DEF Init, Registers, IsFile, IsProgram
  <1>2. Registers /\ [Next]_vars => Registers'
    BY StepSwitches DEF vars, Registers
  <1>3. Registers /\ [Next]_vars =>
          [\/ sr'[CPU_CONTROL] # sr[CPU_CONTROL]
           \/ sr'[PAGE_TABLE_ROOT] # sr[PAGE_TABLE_ROOT]
           => Live(tlb') = {}]_vars
    BY StepSwitches
  <1> QED BY <1>1, <1>2, <1>3, PTL DEF Spec, SwitchFlushes

-----------------------------------------------------------------------------
\* When the core implements Isa.  A store that is made after the registers
\* of its instruction were written does not fault; R15 is not used as a
\* stack pointer; and no leaf has reserved bits set.
StoresMapped == Early => Translate(pending[1].op.addr, "W", sr).fault = <<>>

StackApart == MovesStack(instr) => instr.rd # 15

NoReservedLeaf ==
    \A f \in DOMAIN Tables : \A i \in DOMAIN Tables[f] :
        WalkIsLeaf(Tables[f][i]) => ~Tables[f][i].rsv

-----------------------------------------------------------------------------
\* The invariant: what each state of the switch knows about the instruction

\* every register, latch and byte holds a word of its width
Words ==
    /\ regs \in [DOMAIN prog.regs -> Word]
    /\ 0 \in DOMAIN regs => regs[0] = 0
    /\ sr \in [Selectors -> Word]
    /\ mem \in [DOMAIN prog.mem -> Byte]
    /\ fetch \in [pc : Word, phys : Word]
    /\ IsInstruction(instr, DOMAIN prog.regs)
    /\ DOMAIN first = {"data", "cycle"}

\* the address of the next instruction translates, and where to
PcMapped == Translate(regs[15], "X", sr).fault = <<>>
PcPhys   == Translate(regs[15], "X", sr).phys

\* the instruction in hand is the one at R15
Decoded == PcMapped /\ fetch.pc = regs[15] /\ instr = Fetch(prog.code, PcPhys)

\* The pending operation: the one the instruction asks for, or the store
\* that is left of an instruction that counts as done
Pending ==
    pending # <<>> =>
        LET op == pending[1].op IN
        /\ pending = <<pending[1]>> /\ DOMAIN pending[1] = {"op", "addr", "next_pc"}
        /\ pending[1].next_pc \in Word
        /\ op.addr \in Word /\ op.width \in 0 .. WordBytes /\ op.value \in Word /\ op.write \in BOOLEAN
        /\ Early => op.post = <<>> /\ op.dest = <<>> /\ regs[15] \in Word
        /\ ~Early => /\ Decoded /\ fault_pc = regs[15]
                     /\ Outputs.memory = <<op>> /\ Outputs.trap = 0
                     /\ Outputs.next_pc = pending[1].next_pc

\* the operation's physical address is the translation of its address
Reached(access) ==
    Translate(pending[1].op.addr, access, sr) = [phys |-> pending[1].addr, fault |-> <<>>]

\* where the interrupt table holds the vector's handler
TableVa == Plus(sr[INTERRUPT_TABLE_BASE], entry[1].vector)

\* the states in which an operation is pending
Memories == {"MEM_TRANSLATE", "MEM_LOAD", "MEM_LOAD_SPLIT", "MEM_STORE", "MEM_STORE_SPLIT"}
States ==
    {"FETCH_TRANSLATE", "FETCH", "EXECUTE", "INTERRUPT_VECTOR_TRANSLATE", "INTERRUPT_VECTOR_LOAD",
     "WALK", "WALK_PROCESS", "HALTED"} \cup Memories

\* what a walk is for, and that the rest of it is the walk from the root
Walking ==
    st \in {"WALK", "WALK_PROCESS"} =>
        LET w == walk[1] IN
        /\ walk = <<w>>
        /\ DOMAIN w = {"va", "table", "level", "access", "resume", "pte"}
        /\ w.va \in Word /\ w.level \in 0 .. 2
        /\ Paging /\ EntryFault(w.va, sr) = <<>>
        /\ \/ /\ w.resume = "FETCH" /\ w.va = regs[15] /\ w.access = "X" /\ w.va % 2 = 0
              /\ fault_pc = regs[15] /\ pending = <<>> /\ entry = <<>>
           \/ /\ w.resume \in {"MEM_LOAD", "MEM_STORE"}
              /\ pending # <<>> /\ entry = <<>> /\ w.va = pending[1].op.addr
              /\ IF pending[1].op.write THEN w.resume = "MEM_STORE" /\ w.access = "W"
                 ELSE w.resume = "MEM_LOAD" /\ w.access = "R"
           \/ /\ w.resume = "INTERRUPT_VECTOR_LOAD" /\ w.va = TableVa /\ w.access = "R"
              /\ pending = <<>> /\ entry # <<>>
        /\ \A access, user :
              WalkFrom2(PageOf(sr[PAGE_TABLE_ROOT]), PageOf(w.va), access, user)
                  = WalkRest(w.table, w.level, PageOf(w.va), access, user)
        /\ st = "WALK_PROCESS" => w.pte = WalkEntry(w.table, w.level, PageOf(w.va))

\* an entry under way, which has saved everything but the PC and the flags
Entering ==
    entry # <<>> =>
        /\ entry = <<entry[1]>> /\ DOMAIN entry[1] = {"vector", "epc", "phys"}
        /\ entry[1].epc \in Word
        /\ entry[1].vector = CurInt(sr[CPU_CONTROL])

\* what each state of the switch knows
Phases ==
    /\ st \in States
    /\ st \in {"FETCH_TRANSLATE", "FETCH", "EXECUTE", "HALTED"} => pending = <<>> /\ entry = <<>>
    /\ st \in Memories => pending # <<>> /\ entry = <<>>
    /\ st \in {"INTERRUPT_VECTOR_TRANSLATE", "INTERRUPT_VECTOR_LOAD"} => pending = <<>> /\ entry # <<>>
    /\ st = "FETCH" => PcMapped /\ fetch.phys = PcPhys
    /\ st = "EXECUTE" => Decoded
    /\ st \in {"MEM_LOAD", "MEM_LOAD_SPLIT"} => ~pending[1].op.write /\ Reached("R")
    /\ st \in {"MEM_STORE", "MEM_STORE_SPLIT"} => pending[1].op.write /\ Reached("W")
    /\ st \in {"MEM_LOAD_SPLIT", "MEM_STORE_SPLIT"} => SplitNeeded(Beat.req)
    /\ st = "MEM_LOAD_SPLIT" => first.data = BusWord(mem, pending[1].addr)
    /\ st = "MEM_STORE_SPLIT" =>
          mem = StoreBytes(mem, pending[1].addr, 0 .. (Room(Beat.req) - 1), pending[1].op.value)
    /\ st = "INTERRUPT_VECTOR_LOAD" =>
          Translate(TableVa, "R", sr) = [phys |-> entry[1].phys, fault |-> <<>>]

\* The core is sound, its TLB included, until it locks up.
Sound ==
    /\ Words /\ Pending /\ Walking /\ Entering /\ Phases
    /\ GenerationsPast(tlb) /\ Agrees(tlb, PageOf(sr[PAGE_TABLE_ROOT]))

Inv == prog \in Programs /\ (~locked => Sound)

-----------------------------------------------------------------------------
\* The machine of Isa is built from the same constants as the core,
LEMMA ArchConstants ==
  /\ Arch!Selectors = Selectors /\ Arch!CPU_CONTROL = CPU_CONTROL /\ Arch!PAGE_TABLE_ROOT = PAGE_TABLE_ROOT
  /\ Arch!INTERRUPT_TABLE_BASE = INTERRUPT_TABLE_BASE /\ Arch!INTERRUPT_MASK_HIGH = INTERRUPT_MASK_HIGH
  /\ Arch!INTERRUPT_STATES_HIGH = INTERRUPT_STATES_HIGH /\ Arch!INTERRUPT_EPC = INTERRUPT_EPC
  /\ Arch!INTERRUPT_EFLAGS = INTERRUPT_EFLAGS /\ Arch!INTERRUPT_CPU_CONTROL = INTERRUPT_CPU_CONTROL
  /\ Arch!TRAP_CAUSE = TRAP_CAUSE /\ Arch!TRAP_FAULT_ADDR = TRAP_FAULT_ADDR
  /\ Arch!TRAP_ACCESS = TRAP_ACCESS /\ Arch!TRAP_PC = TRAP_PC /\ Arch!TRAP_AUX = TRAP_AUX
  /\ Arch!THREAD_POINTER = THREAD_POINTER
  /\ Arch!WordBytes = WordBytes /\ Arch!PageBytes = PageBytes /\ Arch!FIRST_HW_IRQ = FIRST_HW_IRQ
  BY DEF Arch!Selectors, Selectors, Arch!CPU_CONTROL, CPU_CONTROL, Arch!PAGE_TABLE_ROOT, PAGE_TABLE_ROOT,
         Arch!INTERRUPT_TABLE_BASE, INTERRUPT_TABLE_BASE, Arch!INTERRUPT_MASK_HIGH, INTERRUPT_MASK_HIGH,
         Arch!INTERRUPT_STATES_HIGH, INTERRUPT_STATES_HIGH, Arch!INTERRUPT_EPC, INTERRUPT_EPC,
         Arch!INTERRUPT_EFLAGS, INTERRUPT_EFLAGS, Arch!INTERRUPT_CPU_CONTROL, INTERRUPT_CPU_CONTROL,
         Arch!TRAP_CAUSE, TRAP_CAUSE, Arch!TRAP_FAULT_ADDR, TRAP_FAULT_ADDR,
         Arch!TRAP_ACCESS, TRAP_ACCESS, Arch!TRAP_PC, TRAP_PC, Arch!TRAP_AUX, TRAP_AUX,
         Arch!THREAD_POINTER, THREAD_POINTER,
         Arch!WordBytes, WordBytes, Arch!PageBytes, PageBytes, Arch!FIRST_HW_IRQ, FIRST_HW_IRQ

\* the same arithmetic,
LEMMA ArchBits ==
  /\ \A a, b : Arch!Plus(a, b) = Plus(a, b) /\ Arch!Minus(a, b) = Minus(a, b)
  /\ \A w, i : Arch!Bit(w, i) = Bit(w, i) /\ Arch!ByteOf(w, i) = ByteOf(w, i)
  /\ \A w, S : Arch!SetBits(w, S) = SetBits(w, S)
  <1>1. \A w, i : Arch!Bit(w, i) = Bit(w, i) /\ Arch!ByteOf(w, i) = ByteOf(w, i)
    BY DEF Arch!Bit, Bit, Arch!ByteOf, ByteOf
  <1>2. \A w, S : Arch!SetBits(w, S) = SetBits(w, S)
    BY <1>1 DEF Arch!SetBits, SetBits
  <1> QED BY <1>1, <1>2 DEF Arch!Plus, Plus, Arch!Minus, Minus

\* the same control word,
LEMMA ArchControl ==
  /\ \A c : Arch!IntEnable(c) = IntEnable(c) /\ Arch!InInterrupt(c) = InInterrupt(c)
  /\ \A c : Arch!CurInt(c) = CurInt(c)
  /\ \A c : Arch!PagingOn(c) = PagingOn(c) /\ Arch!UserMode(c) = UserMode(c)
  /\ \A c, v : Arch!EntryControl(c, v) = EntryControl(c, v)
  /\ \A c, v : Arch!CanPreempt(c, v) = CanPreempt(c, v)
  /\ \A c, v : Arch!PreemptLockup(c, v) = PreemptLockup(c, v)
  <1>1. \A c : Arch!IntEnable(c) = IntEnable(c) /\ Arch!InInterrupt(c) = InInterrupt(c)
    BY ArchBits DEF Arch!IntEnable, IntEnable, Arch!InInterrupt, InInterrupt
  <1>2. \A c : Arch!CurInt(c) = CurInt(c)
    BY DEF Arch!CurInt, CurInt
  <1>3. \A c : Arch!PagingOn(c) = PagingOn(c) /\ Arch!UserMode(c) = UserMode(c)
    BY ArchBits DEF Arch!PagingOn, PagingOn, Arch!UserMode, UserMode
  <1>4. \A c, v : Arch!EntryControl(c, v) = EntryControl(c, v)
    BY <1>3 DEF Arch!EntryControl, EntryControl
  <1>5. \A c, v : Arch!CanPreempt(c, v) = CanPreempt(c, v)
    BY <1>1, <1>2 DEF Arch!CanPreempt, CanPreempt
  <1>6. \A c, v : Arch!PreemptLockup(c, v) = PreemptLockup(c, v)
    BY <1>1, <1>2, ArchConstants DEF Arch!PreemptLockup, PreemptLockup
  <1> QED BY <1>1, <1>2, <1>3, <1>4, <1>5, <1>6

\* the same memory,
LEMMA ArchMemory ==
  /\ \A m, a : Arch!ByteAt(m, a) = ByteAt(m, a)
  /\ \A m, a, w : Arch!LoadBytes(m, a, w) = LoadBytes(m, a, w)
  /\ \A m, a, S, v : Arch!StoreBytes(m, a, S, v) = StoreBytes(m, a, S, v)
  /\ \A a : Arch!PageOf(a) = PageOf(a) /\ Arch!OffsetOf(a) = OffsetOf(a)
  /\ \A e : Arch!PteAt(e) = PteAt(e) /\ Arch!HandlerAt(e) = HandlerAt(e)
  <1>1. \A m, a : Arch!ByteAt(m, a) = ByteAt(m, a)
    BY DEF Arch!ByteAt, ByteAt
  <1>2. \A b : Arch!WordOf(b) = WordOf(b)
    BY DEF Arch!WordOf, WordOf
  <1>3. \A m, a, w : Arch!LoadBytes(m, a, w) = LoadBytes(m, a, w)
    BY <1>1, <1>2 DEF Arch!LoadBytes, LoadBytes
  <1>4. \A m, a, S, v : Arch!StoreBytes(m, a, S, v) = StoreBytes(m, a, S, v)
    BY ArchBits DEF Arch!StoreBytes, StoreBytes
  <1>5. \A a : Arch!PageOf(a) = PageOf(a) /\ Arch!OffsetOf(a) = OffsetOf(a)
    BY ArchConstants DEF Arch!PageOf, PageOf, Arch!OffsetOf, OffsetOf
  <1>6. \A e : Arch!PteAt(e) = PteAt(e) /\ Arch!HandlerAt(e) = HandlerAt(e)
    BY <1>5, ArchConstants DEF Arch!PteAt, PteAt, Arch!HandlerAt, HandlerAt, Arch!ZeroPte, ZeroPte
  <1> QED BY <1>1, <1>3, <1>4, <1>5, <1>6

\* the same page walk and trap information,
LEMMA ArchTranslate ==
  /\ \A va, access, s : Arch!Translate(va, access, s) = Translate(va, access, s)
  /\ \A access : Arch!AccessCode(access) = AccessCode(access)
  /\ \A c, a, x, p, y : Arch!TrapInfo(c, a, x, p, y) = TrapInfo(c, a, x, p, y)
  <1>1. \A t, l, p : Arch!WalkEntry(t, l, p) = WalkEntry(t, l, p)
    <2>1. \A t, l, p : Arch!WalkPteAddr(t, l, p) = WalkPteAddr(t, l, p)
      BY ArchConstants DEF Arch!WalkPteAddr, WalkPteAddr, Arch!P!Idx0, P!Idx0, Arch!P!Idx1, P!Idx1, Arch!P!Idx2, P!Idx2
    <2> QED BY <2>1, ArchMemory DEF Arch!WalkEntry, WalkEntry
  <1>2. \A pte : Arch!WalkIsLeaf(pte) = WalkIsLeaf(pte)
    BY DEF Arch!WalkIsLeaf, WalkIsLeaf
  <1>3. \A s, l : Arch!EncodeAux(s, l) = EncodeAux(s, l)
    BY DEF Arch!EncodeAux, EncodeAux
  <1>4. \A pte, l, a, u : Arch!WalkFault(pte, l, a, u) = WalkFault(pte, l, a, u)
    BY <1>2, <1>3 DEF Arch!WalkFault, WalkFault, Arch!WalkAllowed, WalkAllowed,
         Arch!PAGE_FAULT_NOT_PRESENT, PAGE_FAULT_NOT_PRESENT, Arch!PAGE_FAULT_RESERVED, PAGE_FAULT_RESERVED,
         Arch!PAGE_FAULT_PERMISSION, PAGE_FAULT_PERMISSION
  <1>5. \A pte, l, p : Arch!WalkPage(pte, l, p) = WalkPage(pte, l, p)
    BY ArchConstants DEF Arch!WalkPage, WalkPage
  <1>6. \A pte, l, a, u : Arch!WalkStops(pte, l, a, u) = WalkStops(pte, l, a, u)
    BY <1>2, <1>4 DEF Arch!WalkStops, WalkStops
  <1>7. \A pte, l, p, a, u : Arch!WalkEnd(pte, l, p, a, u) = WalkEnd(pte, l, p, a, u)
    BY <1>4, <1>5 DEF Arch!WalkEnd, WalkEnd
  <1>8. \A t, p, a, u : Arch!WalkFrom0(t, p, a, u) = WalkFrom0(t, p, a, u)
    BY <1>1, <1>7 DEF Arch!WalkFrom0, WalkFrom0
  <1>9. \A t, p, a, u : Arch!WalkFrom1(t, p, a, u) = WalkFrom1(t, p, a, u)
    BY <1>1, <1>6, <1>7, <1>8 DEF Arch!WalkFrom1, WalkFrom1
  <1>10. \A t, p, a, u : Arch!WalkFrom2(t, p, a, u) = WalkFrom2(t, p, a, u)
    BY <1>1, <1>6, <1>7, <1>9 DEF Arch!WalkFrom2, WalkFrom2
  <1>11. \A va, s : Arch!EntryFault(va, s) = EntryFault(va, s)
    <2>1. \A va : Arch!Canonical(va) = Canonical(va)
      BY ArchMemory DEF Arch!Canonical, Canonical, Arch!P!Canonical, P!Canonical, Arch!P!NPages, P!NPages
    <2> QED BY <1>3, <2>1, ArchConstants
            DEF Arch!EntryFault, EntryFault, Arch!RootAligned, RootAligned,
                Arch!PAGE_FAULT_CANONICAL, PAGE_FAULT_CANONICAL, Arch!PAGE_FAULT_RESERVED, PAGE_FAULT_RESERVED
  <1>12. \A va, access, s : Arch!Translate(va, access, s) = Translate(va, access, s)
    BY <1>3, <1>10, <1>11, ArchConstants, ArchMemory, ArchControl
    DEF Arch!Translate, Translate, Arch!EXEC_ALIGN, EXEC_ALIGN
  <1> QED BY <1>12 DEF Arch!AccessCode, AccessCode, Arch!TrapInfo, TrapInfo

\* the same ALU and flags,
LEMMA ArchAlu ==
  /\ \A fn, a, b, imm : Arch!Alu(fn, a, b, imm) = Alu(fn, a, b, imm)
  /\ \A r, c : Arch!FlagValue(r, c) = FlagValue(r, c)
  /\ \A f : Arch!FlagsWord(f) = FlagsWord(f)
  /\ \A w : Arch!WordFlags(w) = WordFlags(w)
  /\ \A f, c : Arch!LsCondition(f, c) = LsCondition(f, c)
  <1>1. \A a, n : Arch!ShiftLeft(a, n) = ShiftLeft(a, n) /\ Arch!ShiftRight(a, n) = ShiftRight(a, n)
    BY ArchBits DEF Arch!ShiftLeft, ShiftLeft, Arch!ShiftRight, ShiftRight
  <1>2. \A a, n : Arch!ShiftArithmetic(a, n) = ShiftArithmetic(a, n)
    BY <1>1 DEF Arch!ShiftArithmetic, ShiftArithmetic
  <1>3. \A fn, a, b, imm : Arch!Alu(fn, a, b, imm) = Alu(fn, a, b, imm)
    BY DEF Arch!Alu, Alu, Arch!ShiftLeft, ShiftLeft, Arch!ShiftRight, ShiftRight,
           Arch!ShiftArithmetic, ShiftArithmetic, Arch!Bit, Bit, Arch!SetBits, SetBits,
           Arch!Plus, Plus, Arch!Minus, Minus
  <1>4. \A w : Arch!WordFlags(w) = WordFlags(w)
    BY ArchBits DEF Arch!WordFlags, WordFlags
  <1> QED BY <1>3, <1>4 DEF Arch!FlagValue, FlagValue, Arch!FlagsWord, FlagsWord, Arch!LsCondition, LsCondition

\* the same special registers
LEMMA ArchSpecial ==
  /\ \A s, sel : Arch!SpecialRead(s, sel) = SpecialRead(s, sel)
  /\ \A s, sel : Arch!ReadAccessFault(s, sel) = ReadAccessFault(s, sel)
  /\ \A s, sel : Arch!WriteAccessFault(s, sel) = WriteAccessFault(s, sel)
  /\ \A s, c, t : Arch!TrapWrite(s, c, t) = TrapWrite(s, c, t)
  /\ \A s, c, v, e, t, w, l : Arch!SpecialClock(s, c, v, e, t, w, l) = SpecialClock(s, c, v, e, t, w, l)
  /\ \A s, l : Arch!PendingIrq(s, l) = PendingIrq(s, l)
  <1>1. \A s, sel : Arch!SpecialRead(s, sel) = SpecialRead(s, sel)
    BY ArchConstants DEF Arch!SpecialRead, SpecialRead
  <1>2. \A s, sel : /\ Arch!ReadAccessFault(s, sel) = ReadAccessFault(s, sel)
                    /\ Arch!WriteAccessFault(s, sel) = WriteAccessFault(s, sel)
    BY ArchConstants, ArchControl DEF Arch!ReadAccessFault, ReadAccessFault, Arch!WriteAccessFault, WriteAccessFault
  <1>3. \A s, c, t : Arch!TrapWrite(s, c, t) = TrapWrite(s, c, t)
    BY ArchConstants DEF Arch!TrapWrite, TrapWrite
  <1>4. \A s, w, c, l : Arch!GuestWrite(s, w, c, l) = GuestWrite(s, w, c, l)
    BY ArchConstants, ArchBits DEF Arch!GuestWrite, GuestWrite
  <1>5. \A s, c, v, e, t, w, l : Arch!SpecialClock(s, c, v, e, t, w, l) = SpecialClock(s, c, v, e, t, w, l)
    BY DEF Arch!SpecialClock, SpecialClock, Arch!TrapWrite, TrapWrite, Arch!GuestWrite, GuestWrite,
           Arch!SetBits, SetBits, Arch!Bit, Bit, Arch!Selectors, Selectors,
           Arch!CPU_CONTROL, CPU_CONTROL, Arch!INTERRUPT_STATES_HIGH, INTERRUPT_STATES_HIGH,
           Arch!INTERRUPT_EPC, INTERRUPT_EPC, Arch!INTERRUPT_EFLAGS, INTERRUPT_EFLAGS,
           Arch!INTERRUPT_CPU_CONTROL, INTERRUPT_CPU_CONTROL, Arch!TRAP_CAUSE, TRAP_CAUSE,
           Arch!TRAP_FAULT_ADDR, TRAP_FAULT_ADDR, Arch!TRAP_ACCESS, TRAP_ACCESS,
           Arch!TRAP_PC, TRAP_PC, Arch!TRAP_AUX, TRAP_AUX
  <1>6. \A s, l : Arch!PendingIrq(s, l) = PendingIrq(s, l)
    BY DEF Arch!PendingIrq, PendingIrq, Arch!Bit, Bit, Arch!Min, Min, Arch!FIRST_HW_IRQ, FIRST_HW_IRQ,
           Arch!INTERRUPT_MASK_HIGH, INTERRUPT_MASK_HIGH, Arch!INTERRUPT_STATES_HIGH, INTERRUPT_STATES_HIGH
  <1> QED BY <1>1, <1>2, <1>3, <1>5, <1>6

\* and the same execute, memory and retire stages.
LEMMA ArchStages ==
  /\ \A c, a : Arch!Fetch(c, a) = Fetch(c, a)
  /\ \A g, r : Arch!ReadReg(g, r) = ReadReg(g, r)
  /\ \A i, pc, a, b, f, s, res : Arch!Execute(i, pc, a, b, f, s, res) = Execute(i, pc, a, b, f, s, res)
  /\ \A op, v : Arch!MemoryWrites(op, v) = MemoryWrites(op, v)
  /\ \A op, v, n : Arch!MemoryNextPc(op, v, n) = MemoryNextPc(op, v, n)
  /\ \A g, w, n : Arch!WriteBack(g, w, n) = WriteBack(g, w, n)
  <1>1. \A i, a, n : Arch!ExecuteLdi(i, a, n) = ExecuteLdi(i, a, n)
    BY DEF Arch!ExecuteLdi, ExecuteLdi, Arch!SetBits, SetBits, Arch!Bit, Bit
  <1>2. \A i, a, b, f, n : Arch!ExecuteLs(i, a, b, f, n) = ExecuteLs(i, a, b, f, n)
    BY DEF Arch!ExecuteLs, ExecuteLs, Arch!Plus, Plus, Arch!Minus, Minus, Arch!MemoryOp, MemoryOp,
           Arch!LsCondition, LsCondition, Arch!WordBytes, WordBytes
  <1>3. \A i, a, f, n : Arch!ExecuteLsPc(i, a, f, n) = ExecuteLsPc(i, a, f, n)
    BY DEF Arch!ExecuteLsPc, ExecuteLsPc, Arch!Plus, Plus, Arch!Minus, Minus, Arch!MemoryOp, MemoryOp,
           Arch!LsCondition, LsCondition, Arch!WordBytes, WordBytes
  <1>4. \A i, a, b, n : Arch!ExecuteAlu(i, a, b, n) = ExecuteAlu(i, a, b, n)
    BY ArchAlu, ZenonT(40) DEF Arch!ExecuteAlu, ExecuteAlu
  <1>5. \A i, a, b, f, res, n : Arch!ExecuteAtomic(i, a, b, f, res, n) = ExecuteAtomic(i, a, b, f, res, n)
    BY DEF Arch!ExecuteAtomic, ExecuteAtomic, Arch!MemoryOp, MemoryOp, Arch!WordBytes, WordBytes
  <1>6. \A i, a, b, s, n : Arch!ExecuteSystem(i, a, b, s, n) = ExecuteSystem(i, a, b, s, n)
    BY DEF Arch!ExecuteSystem, ExecuteSystem, Arch!ReadAccessFault, ReadAccessFault,
           Arch!WriteAccessFault, WriteAccessFault, Arch!SpecialRead, SpecialRead, Arch!UserMode, UserMode,
           Arch!Bit, Bit, Arch!WordFlags, WordFlags, Arch!Selectors, Selectors,
           Arch!CPU_CONTROL, CPU_CONTROL, Arch!THREAD_POINTER, THREAD_POINTER,
           Arch!INTERRUPT_EPC, INTERRUPT_EPC, Arch!INTERRUPT_EFLAGS, INTERRUPT_EFLAGS,
           Arch!INTERRUPT_CPU_CONTROL, INTERRUPT_CPU_CONTROL,
           Arch!PRIVILEGED_INSTRUCTION, PRIVILEGED_INSTRUCTION, Arch!SYSCALL, SYSCALL,
           Arch!SYSCALL_FROM_SUPERVISOR, SYSCALL_FROM_SUPERVISOR,
           Arch!INVALID_INSTRUCTION, INVALID_INSTRUCTION
  <1>7. \A n : Arch!NopOutputs(n) = NopOutputs(n)
    BY DEF Arch!NopOutputs, NopOutputs
  <1>8. \A i, pc, a, b, f, s, res : Arch!Execute(i, pc, a, b, f, s, res) = Execute(i, pc, a, b, f, s, res)
    BY <1>1, <1>2, <1>3, <1>4, <1>5, <1>6, <1>7, ArchBits DEF Arch!Execute, Execute
  <1>9. \A op, v, n : /\ Arch!MemoryWrites(op, v) = MemoryWrites(op, v)
                      /\ Arch!MemoryNextPc(op, v, n) = MemoryNextPc(op, v, n)
    BY DEF Arch!MemoryWrites, MemoryWrites, Arch!MemoryNextPc, MemoryNextPc, Arch!LastWrite, LastWrite,
           Arch!Plus, Plus, Arch!WordBytes, WordBytes
  <1>10. \A g, w, n : Arch!WriteBack(g, w, n) = WriteBack(g, w, n)
    BY DEF Arch!WriteBack, WriteBack, Arch!LastWrite, LastWrite
  <1> QED BY <1>8, <1>9, <1>10
          DEF Arch!Fetch, Fetch, Arch!Unassigned, Unassigned, Arch!ReadReg, ReadReg

\* between two instructions, or in one that has not been decided
Plain == ~locked /\ st # "HALTED" /\ entry = <<>> /\ ~Early

\* Between two instructions the machine's state is the core's.
LEMMA PlainDone ==
  ASSUME Plain
  PROVE  /\ DoneRegs = regs /\ DoneMemory = mem /\ DoneReservation = resv
         /\ DoneSpecial = sr /\ Mode = "run"
  BY DEF Plain, DoneRegs, DoneMemory, DoneReservation, DoneSpecial, Mode

\* what the instruction at R15 computes
Asked ==
    LET i == Fetch(prog.code, PcPhys) IN
    Execute(i, regs[15], ReadReg(regs, i.rd), ReadReg(regs, i.rs1), flags, sr, resv)

\* The machine's next instruction is the one at the core's R15.
LEMMA ArchAsked ==
  ASSUME Plain
  PROVE  Arch!Outputs = Asked /\ Arch!FetchFault = Translate(regs[15], "X", sr).fault
         /\ Arch!pc = regs[15]
  <1>1. Arch!pc = regs[15]
    BY PlainDone DEF Arch!pc
  <1>2. Arch!Instruction = Fetch(prog.code, PcPhys)
    BY <1>1, PlainDone, ArchTranslate, ArchStages DEF Arch!Instruction, PcPhys
  <1> QED BY <1>1, <1>2, PlainDone, ArchTranslate, ArchStages DEF Arch!Outputs, Asked, Arch!FetchFault

\* An instruction that stays in the registers
LEMMA StepRegister ==
  ASSUME Plain, NEW lines \in SUBSET prog.lines, PcMapped, NEW o, o = Asked,
         o.memory = <<>>, o.trap = 0, prog' = prog,
         DoneRegs' = WriteBack(regs, o.writes, o.next_pc),
         flags' = IF o.flags = <<>> THEN flags ELSE o.flags[1],
         DoneReservation' = IF o.clear_reservation THEN <<>> ELSE resv,
         DoneMemory' = mem,
         DoneSpecial' = SpecialClock(sr, o.control, <<>>, <<>>, <<>>, o.special, lines),
         Mode' = IF o.halt THEN "halted" ELSE "run"
  PROVE  Arch!Next
  <1>1. Arch!RegisterStep(lines)
    BY PlainDone, ArchAsked, ArchStages, ArchSpecial DEF Arch!RegisterStep, Arch!Value, PcMapped
  <1> QED BY <1>1 DEF Arch!Next

\* The machine latches interrupt lines as the core does.
LEMMA ArchLatch == \A s, lines : Arch!Latch(s, lines) = Latched(s, lines)
  BY ArchConstants, ArchBits DEF Arch!Latch, Latched

\* Nothing happens but a line
LEMMA StepIdle ==
  ASSUME NEW lines \in SUBSET prog.lines, prog' = prog, DoneRegs' = DoneRegs, flags' = flags,
         DoneReservation' = DoneReservation, DoneMemory' = DoneMemory, Mode' = Mode,
         DoneSpecial' = Latched(DoneSpecial, lines)
  PROVE  Arch!Next
  <1>1. Arch!Idle(lines)
    BY ArchLatch DEF Arch!Idle
  <1> QED BY <1>1 DEF Arch!Next

\* the translations of an operation's address and of its chained store's
FirstAccess(op) == Translate(op.addr, IF op.write THEN "W" ELSE "R", sr)
ChainAccess(op) == Translate(op.chain[1], "W", sr)

\* The machine translates the addresses of an operation as the core does.
LEMMA ArchAccess ==
  ASSUME Plain
  PROVE  /\ \A op : Arch!FirstAccess(op) = FirstAccess(op)
         /\ \A op : Arch!ChainAccess(op) = ChainAccess(op)
         /\ \A op : Arch!MemoryFault(op) =
                IF FirstAccess(op).fault # <<>>
                THEN <<FirstAccess(op).fault, op.addr, IF op.write THEN 1 ELSE 0>>
                ELSE IF op.chain # <<>> /\ ChainAccess(op).fault # <<>>
                     THEN <<ChainAccess(op).fault, op.chain[1], 1>>
                     ELSE <<>>
  <1>1. \A op : Arch!FirstAccess(op) = FirstAccess(op) /\ Arch!ChainAccess(op) = ChainAccess(op)
    BY PlainDone, ArchTranslate DEF Arch!FirstAccess, FirstAccess, Arch!ChainAccess, ChainAccess
  <1> QED BY <1>1 DEF Arch!MemoryFault

\* A memory instruction as a whole
LEMMA StepMemory ==
  ASSUME Plain, NEW lines \in SUBSET prog.lines, PcMapped, NEW op, Asked.memory = <<op>>,
         FirstAccess(op).fault = <<>>, op.chain # <<>> => ChainAccess(op).fault = <<>>, prog' = prog,
         NEW loaded, loaded = LoadBytes(mem, FirstAccess(op).phys, op.width),
         DoneRegs' = WriteBack(regs, MemoryWrites(op, loaded), MemoryNextPc(op, loaded, Asked.next_pc)),
         flags' = IF op.flags = <<>> THEN flags ELSE op.flags[1],
         DoneMemory' = IF op.write THEN StoreBytes(mem, FirstAccess(op).phys, 0 .. (op.width - 1), op.value)
                       ELSE IF op.chain # <<>>
                            THEN StoreBytes(mem, ChainAccess(op).phys, 0 .. (WordBytes - 1), loaded) ELSE mem,
         DoneReservation' = IF op.write THEN AfterStore(resv, [addr |-> op.addr, width |-> op.width])
                            ELSE IF op.chain # <<>>
                                 THEN AfterStore(resv, [addr |-> op.chain[1], width |-> WordBytes])
                            ELSE IF op.reserve THEN <<op.addr>> ELSE resv,
         DoneSpecial' = Latched(sr, lines), Mode' = "run"
  PROVE  Arch!Next
  <1>1. \A res, a, w : Arch!AfterStore(res, a, w) = AfterStore(res, [addr |-> a, width |-> w])
    BY ArchConstants DEF Arch!AfterStore, Arch!Overlaps, AfterStore
  <1>2. <<op>> # <<>> /\ <<op>>[1] = op
    OBVIOUS
  <1>3. Arch!MemoryFault(op) = <<>>
    BY ArchAccess
  <1>4. Arch!MemoryStep(lines)
    BY <1>1, <1>2, <1>3, PlainDone, ArchAsked, ArchStages, ArchMemory, ArchAccess, ArchLatch, ArchConstants
    DEF Arch!MemoryStep, Arch!Value, PcMapped
  <1> QED BY <1>4 DEF Arch!Next

\* The first beat of a store that is split
LEMMA StepBeat ==
  ASSUME Plain, NEW lines \in SUBSET prog.lines, PcMapped, NEW op, Asked.memory = <<op>>,
         FirstAccess(op).fault = <<>>, op.write, op.chain = <<>>, prog' = prog,
         NEW room, room = WordBytes - (FirstAccess(op).phys % WordBytes), room < op.width,
         DoneRegs' = regs, flags' = flags, DoneReservation' = resv, Mode' = "run",
         DoneMemory' = StoreBytes(mem, FirstAccess(op).phys, 0 .. (room - 1), op.value),
         DoneSpecial' = Latched(sr, lines)
  PROVE  Arch!Next
  <1>2. <<op>> # <<>> /\ <<op>>[1] = op
    OBVIOUS
  <1>3. Arch!MemoryFault(op) = <<>>
    BY ArchAccess
  <1>4. Arch!FirstBeat(lines)
    BY <1>2, <1>3, PlainDone, ArchAsked, ArchMemory, ArchAccess, ArchLatch, ArchConstants
    DEF Arch!FirstBeat, PcMapped
  <1> QED BY <1>4 DEF Arch!Next

\* The machine enters a handler as the core does.
LEMMA ArchEnter ==
  ASSUME Plain
  PROVE  \A s, vector : Arch!Enter(s, vector) = Entered(s, vector, regs[15], flags)
  BY PlainDone, ArchAsked, ArchConstants, ArchControl, ArchAlu DEF Arch!Enter, Entered

\* the traps the instruction at R15 can raise: it cannot be fetched, it is
\* refused, or its first access faults
TrapHere(trap) ==
    \/ LET f == Translate(regs[15], "X", sr).fault IN
       f # <<>> /\ trap = TrapInfo(f[1], regs[15], AccessCode("X"), regs[15], f[2])
    \/ PcMapped /\ Asked.trap # 0 /\ trap = TrapInfo(Asked.trap, 0, 0, regs[15], 0)
    \/ PcMapped /\ \E op : LET f == FirstAccess(op).fault IN
          /\ Asked.memory = <<op>> /\ f # <<>>
          /\ trap = TrapInfo(f[1], op.addr, IF op.write THEN 1 ELSE 0, regs[15], f[2])

\* The instruction at R15 traps, or the trap may not preempt the handler.
LEMMA StepFault ==
  ASSUME Plain, NEW lines \in SUBSET prog.lines, NEW trap, TrapHere(trap),
         prog' = prog, DoneRegs' = regs, flags' = flags, DoneReservation' = resv, DoneMemory' = mem,
         IF PreemptLockup(sr[CPU_CONTROL], trap.cause) THEN Mode' = "locked"
         ELSE /\ Mode' = "entry"
              /\ DoneSpecial' = Entered(TrapWrite(Latched(sr, lines), sr[TRAP_CAUSE], trap), trap.cause,
                                        regs[15], flags)
  PROVE  Arch!Next
  <1>1. Arch!Trap(trap, lines)
    BY PlainDone, ArchEnter, ArchLatch, ArchSpecial, ArchControl, ArchConstants DEF Arch!Trap
  <1>2. Arch!Fault(lines)
    <2>1. CASE \E f : /\ f = Translate(regs[15], "X", sr).fault
                      /\ f # <<>> /\ trap = TrapInfo(f[1], regs[15], AccessCode("X"), regs[15], f[2])
      BY <1>1, <2>1, PlainDone, ArchAsked, ArchTranslate DEF Arch!Fault
    <2>2. CASE PcMapped /\ Asked.trap # 0 /\ trap = TrapInfo(Asked.trap, 0, 0, regs[15], 0)
      BY <1>1, <2>2, PlainDone, ArchAsked, ArchTranslate DEF Arch!Fault, PcMapped
    <2>3. ASSUME NEW op, NEW f, PcMapped, Asked.memory = <<op>>, f = FirstAccess(op).fault, f # <<>>,
                 trap = TrapInfo(f[1], op.addr, IF op.write THEN 1 ELSE 0, regs[15], f[2])
          PROVE  Arch!Fault(lines)
      <3>1. <<op>> # <<>> /\ <<op>>[1] = op
        OBVIOUS
      <3> DEFINE m == IF op.write THEN 1 ELSE 0
      <3>2. Arch!MemoryFault(op) = <<f, op.addr, m>>
        BY <2>3, ArchAccess
      <3> HIDE DEF m
      <3>3. /\ <<f, op.addr, m>> # <<>> /\ <<f, op.addr, m>>[1] = f
            /\ <<f, op.addr, m>>[2] = op.addr /\ <<f, op.addr, m>>[3] = m
        OBVIOUS
      <3>4. trap = TrapInfo(f[1], op.addr, m, regs[15], f[2])
        BY <2>3 DEF m
      <3> QED BY <1>1, <2>3, <3>1, <3>2, <3>3, <3>4, PlainDone, ArchAsked, ArchTranslate DEF Arch!Fault, PcMapped
    <2> QED BY <2>1, <2>2, <2>3 DEF TrapHere
  <1> QED BY <1>2 DEF Arch!Next

\* An interrupt is taken between two instructions.
LEMMA StepInterrupt ==
  ASSUME Plain, NEW lines \in SUBSET prog.lines, NEW vector, vector = PendingIrq(sr, lines),
         vector # 0, IntEnable(sr[CPU_CONTROL]), CanPreempt(sr[CPU_CONTROL], vector),
         prog' = prog, DoneRegs' = regs, flags' = flags, DoneReservation' = resv, DoneMemory' = mem,
         Mode' = "entry", DoneSpecial' = Entered(Latched(sr, lines), vector, regs[15], flags)
  PROVE  Arch!Next
  <1>1. Arch!Interrupt(lines)
    BY PlainDone, ArchEnter, ArchLatch, ArchSpecial, ArchControl, ArchConstants DEF Arch!Interrupt
  <1> QED BY <1>1 DEF Arch!Next

\* where the handler's address is
TableEntry == Translate(TableVa, "R", sr)

\* The machine finds the handler's address where the core does.
LEMMA ArchTable ==
  ASSUME sr \in [Selectors -> Word], Entering, entry # <<>>
  PROVE  Arch!TableEntry = TableEntry
  <1>1. /\ DoneSpecial[CPU_CONTROL] = sr[CPU_CONTROL]
        /\ DoneSpecial[PAGE_TABLE_ROOT] = sr[PAGE_TABLE_ROOT]
        /\ DoneSpecial[INTERRUPT_TABLE_BASE] = sr[INTERRUPT_TABLE_BASE]
    BY DEF DoneSpecial, INTERRUPT_EPC, INTERRUPT_EFLAGS, CPU_CONTROL, PAGE_TABLE_ROOT,
           INTERRUPT_TABLE_BASE, Selectors
  <1>2. \A va, access : Translate(va, access, DoneSpecial) = Translate(va, access, sr)
    BY <1>1 DEF Translate, EntryFault
  <1> QED BY <1>1, <1>2, ArchTranslate, ArchBits, ArchControl, ArchConstants
          DEF Arch!TableEntry, TableEntry, TableVa, Entering

\* The handler of the entry under way starts.
LEMMA StepHandler ==
  ASSUME Mode = "entry", sr \in [Selectors -> Word], Entering, entry # <<>>,
         NEW lines \in SUBSET prog.lines,
         TableEntry.fault = <<>>, HandlerAt(TableEntry.phys) # 0,
         prog' = prog, flags' = flags, DoneReservation' = DoneReservation, DoneMemory' = DoneMemory,
         DoneRegs' = [DoneRegs EXCEPT ![15] = HandlerAt(TableEntry.phys)],
         Mode' = "run", DoneSpecial' = Latched(DoneSpecial, lines)
  PROVE  Arch!Next
  <1>1. Arch!StartHandler(lines)
    BY ArchTable, ArchMemory, ArchLatch DEF Arch!StartHandler
  <1> QED BY <1>1 DEF Arch!Next

\* A missing handler or a bus error stops the core.
LEMMA StepLockup ==
  ASSUME sr \in [Selectors -> Word], Entering, prog' = prog, Mode' = "locked",
         \/ Mode = "locked"
         \/ Mode # "halted" /\ prog.faulty
         \/ Mode = "entry" /\ entry # <<>> /\ (TableEntry.fault # <<>> \/ HandlerAt(TableEntry.phys) = 0)
  PROVE  Arch!Next
  <1>1. Arch!Lockup
    BY ArchTable, ArchMemory DEF Arch!Lockup
  <1> QED BY <1>1 DEF Arch!Next

\* A halted machine stays halted.
LEMMA StepHalted ==
  ASSUME Mode = "halted", prog' = prog, DoneRegs' = DoneRegs, flags' = flags,
         DoneReservation' = DoneReservation, DoneMemory' = DoneMemory, Mode' = Mode
  PROVE  Arch!Next
  BY DEF Arch!Next, Arch!Halted

-----------------------------------------------------------------------------
\* What the core does with an address in one of its translate states is
\* what the translation of the address asks for.
LEMMA TranslationMeans ==
  ASSUME GenerationsPast(tlb), Agrees(tlb, PageOf(sr[PAGE_TABLE_ROOT])),
         NEW va \in Word, NEW access \in {"R", "W", "X"}, access = "X" => va % 2 # 1
  PROVE  /\ Translation(va, access) \in {"done", "fault", "walk"}
         /\ Translation(va, access) = "done" =>
               Translate(va, access, sr) = [phys |-> Physical(va), fault |-> <<>>]
         /\ Translation(va, access) = "fault" =>
               EntryFault(va, sr) # <<>> /\ Translate(va, access, sr).fault = EntryFault(va, sr)
         /\ Translation(va, access) = "walk" => Paging /\ EntryFault(va, sr) = <<>>
  <1>0. ~(access = "X" /\ va % 2 = 1)
    OBVIOUS
  <1>1. CASE ~Paging
    BY <1>0, <1>1 DEF Translation, Translate, Physical, Paging
  <1>2. CASE Paging /\ EntryFault(va, sr) # <<>>
    BY <1>0, <1>2 DEF Translation, Translate, Paging
  <1>3. CASE Paging /\ EntryFault(va, sr) = <<>> /\ ~TlbHit(tlb, va, access, User)
    BY <1>3 DEF Translation
  <1>4. CASE Paging /\ EntryFault(va, sr) = <<>> /\ TlbHit(tlb, va, access, User)
    <2> DEFINE k == TlbIndex(va)
               e == tlb.entry[k]
    <2>1. k \in DOMAIN tlb.entry
      BY HdlTlbAssumption DEF GenerationsPast, TlbIndex, PageOf, PageBytes, Word
    <2>2. e.valid /\ e.gen = tlb.gen /\ e.tag = PageOf(va) /\ access \in e.perm /\ (~User \/ e.user)
      BY <1>4 DEF TlbHit
    <2>3. WalkFrom2(PageOf(sr[PAGE_TABLE_ROOT]), PageOf(va), access, User) = Mapped(e.page)
      BY <2>1, <2>2 DEF Agrees
    <2>4. Physical(va) = e.page * PageBytes + OffsetOf(va)
      BY <1>4 DEF Physical, TlbPhys
    <2>5. Mapped(e.page).page = e.page /\ Mapped(e.page).fault = <<>>
      BY DEF Mapped
    <2> HIDE DEF e, k
    <2>6. Translate(va, access, sr) = [phys |-> Physical(va), fault |-> <<>>]
      BY <1>0, <1>4, <2>3, <2>4, <2>5 DEF Translate, Paging, User
    <2> QED BY <1>4, <2>6 DEF Translation
  <1> QED BY <1>1, <1>2, <1>3, <1>4

\* Without reserved bits in a leaf the basic core's checks are the walk's.
LEMMA SameFault ==
  ASSUME NoReservedLeaf, NEW table, NEW level, NEW page, NEW access, NEW user,
         NEW pte, pte = WalkEntry(table, level, page)
  PROVE  BasicWalkFault(pte, level, access, user) = WalkFault(pte, level, access, user)
  <1>1. pte \in Pte /\ (WalkIsLeaf(pte) => pte.rsv = FALSE)
    <2>1. pte \in Pte
      BY PteType DEF WalkEntry
    <2> DEFINE x == WalkPteAddr(table, level, page)
    <2>2. \/ pte = ZeroPte
          \/ PageOf(x) \in DOMAIN Tables /\ OffsetOf(x) \in DOMAIN Tables[PageOf(x)]
             /\ pte = Tables[PageOf(x)][OffsetOf(x)]
      BY DEF WalkEntry, PteAt
    <2> HIDE DEF x
    <2>3. WalkIsLeaf(pte) => ~pte.rsv
      BY <2>2 DEF NoReservedLeaf, ZeroPte, WalkIsLeaf
    <2> QED BY <2>1, <2>3 DEF Pte
  <1>2. WalkIsLeaf(pte) => [pte EXCEPT !.rsv = FALSE] = pte
    BY <1>1 DEF Pte
  <1> QED BY <1>2 DEF BasicWalkFault

\* The execute state is the execute stage.
LEMMA OutputsExecute ==
  Outputs = Execute(instr, fetch.pc, ReadReg(regs, instr.rd), ReadReg(regs, instr.rs1), flags, sr, resv)
  BY DEF Outputs, Execute, BasicLdi, BasicLs, BasicLsPc, BasicAlu, BasicAtomic, BasicSystem

-----------------------------------------------------------------------------
\* A cycle in which the core writes no special register
LEMMA QuietClock ==
  ASSUME NEW lines, Quiet(lines)
  PROVE  sr' = Latched(sr, lines) /\ tlb' = tlb
  <1>1. sr' = Latched(sr, lines)
    BY DEF Quiet, Clock, BasicSpecialClock, SpecialClock, Latched
  <1>2. ~TlbFlush(<<>>, <<>>)
    BY DEF TlbFlush
  <1> QED BY <1>1, <1>2 DEF Quiet, Clock, BasicTlbClock, TlbClock

\* which no translation sees
LEMMA LatchedSame ==
  ASSUME sr \in [Selectors -> Word], NEW lines, sr' = Latched(sr, lines)
  PROVE  /\ sr'[CPU_CONTROL] = sr[CPU_CONTROL] /\ sr'[PAGE_TABLE_ROOT] = sr[PAGE_TABLE_ROOT]
         /\ sr'[INTERRUPT_TABLE_BASE] = sr[INTERRUPT_TABLE_BASE]
         /\ \A va, access : Translate(va, access, sr') = Translate(va, access, sr)
         /\ \A va : EntryFault(va, sr') = EntryFault(va, sr)
         /\ Paging' = Paging /\ User' = User
  <1>1. /\ sr'[CPU_CONTROL] = sr[CPU_CONTROL] /\ sr'[PAGE_TABLE_ROOT] = sr[PAGE_TABLE_ROOT]
        /\ sr'[INTERRUPT_TABLE_BASE] = sr[INTERRUPT_TABLE_BASE]
    BY DEF Latched, CPU_CONTROL, PAGE_TABLE_ROOT, INTERRUPT_TABLE_BASE, INTERRUPT_STATES_HIGH, Selectors
  <1>2. \A va, access : Translate(va, access, sr') = Translate(va, access, sr) /\ EntryFault(va, sr') = EntryFault(va, sr)
    BY <1>1, TranslateSame
  <1> QED BY <1>1, <1>2 DEF Paging, User

\* The operation in hand and the entry under way stay what they are.
SameWork ==
    /\ \/ pending' = pending /\ (pending # <<>> => instr' = instr)
       \/ /\ pending # <<>> /\ pending' # <<>> /\ instr' = instr
          /\ pending'[1].op = pending[1].op /\ pending'[1].next_pc = pending[1].next_pc
    /\ \/ entry' = entry
       \/ entry # <<>> /\ entry' # <<>> /\ entry'[1].epc = entry[1].epc

\* When the work in hand stays and only lines are latched, the machine sees
\* only the lines.
LEMMA SameDone ==
  ASSUME sr \in [Selectors -> Word], NEW lines, sr' = Latched(sr, lines), SameWork,
         entry # <<>> => entry[1].epc \in Word, regs' = regs, flags' = flags, resv' = resv, mem' = mem
  PROVE  /\ DoneRegs' = DoneRegs /\ DoneMemory' = DoneMemory /\ DoneReservation' = DoneReservation
         /\ DoneSpecial' = Latched(DoneSpecial, lines)
  <1>1. /\ Early' = Early
        /\ Early => pending'[1].op = pending[1].op /\ pending'[1].next_pc = pending[1].next_pc
    BY DEF SameWork, Early
  <1>2. Early => Target' = Target
    BY <1>1, LatchedSame DEF Target
  <1>3. DoneRegs' = DoneRegs /\ DoneReservation' = DoneReservation
    BY <1>1 DEF DoneRegs, DoneReservation
  <1>4. DoneMemory' = DoneMemory
    BY <1>1, <1>2 DEF DoneMemory
  <1>5. DoneSpecial' = Latched(DoneSpecial, lines)
    <2>1. CASE entry = <<>>
      BY <2>1 DEF SameWork, DoneSpecial
    <2>2. CASE entry # <<>>
      <3>1. entry' # <<>> /\ entry'[1].epc = entry[1].epc
        BY <2>2 DEF SameWork
      <3>2. DoneSpecial' = Saved(Latched(sr, lines), entry[1].epc, FlagsWord(flags))
        BY <2>2, <3>1 DEF DoneSpecial, Saved
      <3>3. DoneSpecial = Saved(sr, entry[1].epc, FlagsWord(flags))
        BY <2>2 DEF DoneSpecial, Saved
      <3> QED BY <2>2, <3>2, <3>3, SavedLatched, FlagsWordType
    <2> QED BY <2>1, <2>2
  <1> QED BY <1>3, <1>4, <1>5

\* A cycle that writes no special register leaves the TLB right.
LEMMA QuietSound ==
  ASSUME Sound, NEW lines, Quiet(lines)
  PROVE  /\ sr \in [Selectors -> Word]
         /\ sr' \in [Selectors -> Word] /\ sr' = Latched(sr, lines)
         /\ GenerationsPast(tlb)' /\ Agrees(tlb, PageOf(sr[PAGE_TABLE_ROOT]))'
  <1>1. sr \in [Selectors -> Word]
    BY DEF Sound, Words
  <1>2. sr' = Latched(sr, lines) /\ tlb' = tlb
    BY QuietClock
  <1>3. sr' \in [Selectors -> Word]
    BY <1>1, <1>2, LatchedType
  <1>4. sr'[PAGE_TABLE_ROOT] = sr[PAGE_TABLE_ROOT]
    BY <1>1, <1>2, LatchedSame
  <1> QED BY <1>1, <1>2, <1>3, <1>4 DEF Sound

\* The operands of an instruction are words.
LEMMA ReadWord ==
  ASSUME Words, NEW r, r \in DOMAIN prog.regs \cup {0}
  PROVE  ReadReg(regs, r) \in Word
  <1>1. 0 \in Word
    BY DEF Word
  <1> QED BY <1>1 DEF Words, ReadReg

\* What the instruction in hand computes is a result, and what it asks of
\* memory does not depend on the special registers.
LEMMA OutputsResult ==
  ASSUME Words
  PROVE  /\ IsResult(Outputs)
         /\ Outputs.memory # <<>> => Asks(Outputs, instr, resv)
  <1> DEFINE a == ReadReg(regs, instr.rd)
             b == ReadReg(regs, instr.rs1)
  <1>1. IsInstruction(instr, DOMAIN prog.regs)
    BY DEF Words
  <1>2. a \in Word /\ b \in Word /\ fetch.pc \in Word /\ sr \in [Selectors -> Word]
    BY <1>1, ReadWord DEF Words, IsInstruction
  <1> HIDE DEF a, b
  <1>3. Outputs = Execute(instr, fetch.pc, a, b, flags, sr, resv)
    BY OutputsExecute DEF a, b
  <1>4. IsResult(Outputs)
    BY <1>1, <1>2, <1>3, ExecuteResult
  <1>5. Outputs.memory # <<>> => Asks(Outputs, instr, resv)
    BY <1>1, <1>2, <1>3, ExecuteMemoryOp
  <1> QED BY <1>4, <1>5

\* A memory instruction in hand asks for the same as long as it has not
\* written a register.
LEMMA OutputsKept ==
  ASSUME Words, Outputs.memory # <<>>, instr' = instr, fetch'.pc = fetch.pc,
         regs' = regs, flags' = flags, resv' = resv
  PROVE  Outputs' = Outputs
  <1> DEFINE a == ReadReg(regs, instr.rd)
             b == ReadReg(regs, instr.rs1)
  <1>1. IsInstruction(instr, DOMAIN prog.regs)
    BY DEF Words
  <1>2. a \in Word /\ b \in Word /\ fetch.pc \in Word
    BY <1>1, ReadWord DEF Words, IsInstruction
  <1>4. Outputs' = Execute(instr, fetch.pc, a, b, flags, sr', resv)
    <2>1. Outputs' = Execute(instr', fetch'.pc, ReadReg(regs', instr'.rd), ReadReg(regs', instr'.rs1), flags', sr', resv')
      BY DEF Outputs, Execute, BasicLdi, BasicLs, BasicLsPc, BasicAlu, BasicAtomic, BasicSystem
    <2> QED BY <2>1
  <1> HIDE DEF a, b
  <1>3. Outputs = Execute(instr, fetch.pc, a, b, flags, sr, resv)
    BY OutputsExecute DEF a, b
  <1> QED BY <1>1, <1>2, <1>3, <1>4, ExecuteMemoryOp

\* Lines that are latched do not move the next instruction.
LEMMA PcKept ==
  ASSUME sr \in [Selectors -> Word], NEW lines, sr' = Latched(sr, lines), regs' = regs
  PROVE  PcMapped' = PcMapped /\ PcPhys' = PcPhys
  BY LatchedSame DEF PcMapped, PcPhys

\* The pending operation stays what it is while nothing but its physical
\* address changes.
LEMMA PendingKept ==
  ASSUME Sound, NEW lines, sr' = Latched(sr, lines), instr' = instr, fetch'.pc = fetch.pc, prog' = prog,
         regs' = regs, flags' = flags, resv' = resv, fault_pc' = fault_pc,
         NEW addr,
         \/ pending' = pending
         \/ pending # <<>> /\ pending' = <<[pending[1] EXCEPT !.addr = addr]>>
  PROVE  /\ Pending' /\ Early' = Early
         /\ pending # <<>> => /\ pending' # <<>> /\ pending'[1].op = pending[1].op
                              /\ pending'[1].next_pc = pending[1].next_pc
         /\ pending = <<>> => pending' = <<>>
  <1>0. CASE pending = <<>>
    BY <1>0 DEF Pending, Early
  <1>1. CASE pending # <<>>
    <2>1. pending = <<pending[1]>> /\ DOMAIN pending[1] = {"op", "addr", "next_pc"}
      BY <1>1 DEF Sound, Pending
    <2>2. /\ pending' # <<>> /\ pending' = <<pending'[1]>> /\ DOMAIN pending'[1] = {"op", "addr", "next_pc"}
          /\ pending'[1].op = pending[1].op /\ pending'[1].next_pc = pending[1].next_pc
      <3>1. CASE pending' = pending
        BY <1>1, <2>1, <3>1
      <3>2. CASE pending' = <<[pending[1] EXCEPT !.addr = addr]>>
        <4> DEFINE p == pending[1]
                   q == [p EXCEPT !.addr = addr]
        <4>1. DOMAIN q = {"op", "addr", "next_pc"} /\ q.op = p.op /\ q.next_pc = p.next_pc
          BY <2>1
        <4>2. pending' = <<q>>
          BY <3>2
        <4> HIDE DEF q
        <4> QED BY <4>1, <4>2
      <3> QED BY <3>1, <3>2
    <2>3. Early' = Early
      BY <1>1, <2>2 DEF Early
    <2>4. Early \/ Outputs' = Outputs
      <3>1. ~Early => Outputs.memory # <<>>
        BY <1>1 DEF Sound, Pending
      <3> QED BY <3>1, OutputsKept DEF Sound
    <2>5. Decoded' = Decoded
      BY PcKept DEF Decoded, PcMapped, PcPhys, Sound, Words
    <2>6. Pending'
      BY <1>1, <2>2, <2>3, <2>4, <2>5 DEF Sound, Pending
    <2> QED BY <1>1, <2>2, <2>3, <2>6
  <1> QED BY <1>0, <1>1

\* so does an entry
LEMMA EnteringKept ==
  ASSUME Entering, sr'[CPU_CONTROL] = sr[CPU_CONTROL], NEW phys,
         \/ entry' = entry
         \/ entry # <<>> /\ entry' = <<[entry[1] EXCEPT !.phys = phys]>>
  PROVE  /\ Entering'
         /\ entry # <<>> => /\ entry' # <<>> /\ entry'[1].epc = entry[1].epc
                            /\ entry'[1].vector = entry[1].vector
         /\ entry = <<>> => entry' = <<>>
  <1>0. CASE entry' = entry
    BY <1>0 DEF Entering
  <1>1. CASE entry # <<>> /\ entry' = <<[entry[1] EXCEPT !.phys = phys]>>
    <2>1. entry = <<entry[1]>> /\ DOMAIN entry[1] = {"vector", "epc", "phys"}
          /\ entry[1].epc \in Word /\ entry[1].vector = CurInt(sr[CPU_CONTROL])
      BY <1>1 DEF Entering
    <2> DEFINE p == entry[1]
               q == [p EXCEPT !.phys = phys]
    <2>2. DOMAIN q = {"vector", "epc", "phys"} /\ q.epc = p.epc /\ q.vector = p.vector
      BY <2>1
    <2>3. entry' = <<q>>
      BY <1>1
    <2> HIDE DEF q
    <2> QED BY <1>1, <2>1, <2>2, <2>3 DEF Entering
  <1> QED BY <1>0, <1>1

\* The core goes on with what it is doing: the machine sees nothing.
LEMMA IdleStep ==
  ASSUME Sound, ~locked, st # "HALTED", NEW lines \in SUBSET prog.lines, Quiet(lines), SameWork,
         entry = <<>> <=> entry' = <<>>, st' # "HALTED", locked' = locked, prog' = prog,
         regs' = regs, flags' = flags, resv' = resv, mem' = mem
  PROVE  Arch!Next
  <1>1. sr \in [Selectors -> Word] /\ sr' = Latched(sr, lines)
    BY QuietSound
  <1>2. entry # <<>> => entry[1].epc \in Word
    BY DEF Sound, Entering
  <1>3. /\ DoneRegs' = DoneRegs /\ DoneMemory' = DoneMemory /\ DoneReservation' = DoneReservation
        /\ DoneSpecial' = Latched(DoneSpecial, lines)
    BY <1>1, <1>2, SameDone
  <1>4. Mode' = Mode
    BY DEF Mode
  <1> QED BY <1>3, <1>4, StepIdle

\* A bus error, where the buses make errors
LEMMA LockStep ==
  ASSUME Inv, ~locked, st # "HALTED", prog.faulty, locked' = TRUE, prog' = prog
  PROVE  Inv' /\ Arch!Next
  <1>1. Inv'
    BY DEF Inv
  <1>2. Mode' = "locked" /\ Mode # "halted"
    BY DEF Mode
  <1>3. sr \in [Selectors -> Word] /\ Entering
    BY DEF Inv, Sound, Words
  <1>4. Arch!Next
    BY <1>2, <1>3, StepLockup
  <1> QED BY <1>1, <1>4

\* A bus error happens only where the buses make errors.
LEMMA ErrorFaulty ==
  ASSUME "err" \in Answers
  PROVE  prog.faulty
  BY DEF Answers

\* A locked core stays locked.
LEMMA LockedStep ==
  ASSUME Inv, locked, locked' = locked \/ locked' = TRUE, prog' = prog
  PROVE  Inv' /\ Arch!Next
  <1>1. Mode' = "locked" /\ Mode = "locked"
    BY DEF Mode
  <1> QED BY <1>1 DEF Inv, Arch!Next, Arch!Lockup

\* The beat on the data bus is that of the pending operation.
LEMMA BeatFields ==
  /\ Beat.req.addr = pending[1].addr /\ Beat.req.width = pending[1].op.width /\ Beat.req.kind = "data"
  /\ Beat.req.write = pending[1].op.write /\ Beat.req.value = pending[1].op.value
  /\ Beat.first = first.data
  /\ Beat.st = IF st \in {"MEM_LOAD_SPLIT", "MEM_STORE_SPLIT"} THEN "SECOND" ELSE "FIRST"
  BY DEF Beat

\* Everything the core has in hand stays.
LEMMA KeptSound ==
  ASSUME Sound, NEW lines, Quiet(lines), prog' = prog, regs' = regs, flags' = flags, resv' = resv, mem' = mem,
         st' = st, fetch' = fetch, instr' = instr, pending' = pending, fault_pc' = fault_pc,
         walk' = walk, entry' = entry, DOMAIN first' = {"data", "cycle"}, first'.data = first.data
  PROVE  Sound'
  <1>1. /\ sr \in [Selectors -> Word]
        /\ sr' \in [Selectors -> Word] /\ sr' = Latched(sr, lines)
        /\ GenerationsPast(tlb)' /\ Agrees(tlb, PageOf(sr[PAGE_TABLE_ROOT]))'
    BY QuietSound
  <1>2. Words'
    BY <1>1 DEF Sound, Words
  <1>3. Pending' /\ Early' = Early
    BY <1>1, PendingKept
  <1>4. /\ sr'[CPU_CONTROL] = sr[CPU_CONTROL] /\ sr'[PAGE_TABLE_ROOT] = sr[PAGE_TABLE_ROOT]
        /\ sr'[INTERRUPT_TABLE_BASE] = sr[INTERRUPT_TABLE_BASE]
        /\ \A va, access : Translate(va, access, sr') = Translate(va, access, sr)
        /\ \A va : EntryFault(va, sr') = EntryFault(va, sr)
        /\ Paging' = Paging
    BY <1>1, LatchedSame
  <1>5. Entering'
    BY <1>4 DEF Sound, Entering
  <1>6. TableVa' = TableVa
    BY <1>4 DEF TableVa
  <1>7. Walking'
    BY <1>4, <1>6 DEF Sound, Walking
  <1>8. Beat.req' = Beat.req
    BY DEF Beat
  <1>9. Phases'
    <2>1. PcMapped' = PcMapped /\ PcPhys' = PcPhys /\ Decoded' = Decoded
      BY <1>4 DEF PcMapped, PcPhys, Decoded
    <2>2. Reached("R")' = Reached("R") /\ Reached("W")' = Reached("W")
      BY <1>4 DEF Reached
    <2> QED BY <1>4, <1>6, <1>8, <2>1, <2>2 DEF Sound, Phases
  <1> QED BY <1>1, <1>2, <1>3, <1>5, <1>7, <1>9 DEF Sound

\* The core waits.
LEMMA StayStep ==
  ASSUME Inv, ~locked, NEW lines \in SUBSET prog.lines, Quiet(lines),
         prog' = prog, regs' = regs, flags' = flags, resv' = resv, mem' = mem,
         st' = st, fetch' = fetch, instr' = instr, pending' = pending, fault_pc' = fault_pc,
         walk' = walk, entry' = entry, locked' = locked,
         DOMAIN first' = {"data", "cycle"}, first'.data = first.data
  PROVE  Inv' /\ Arch!Next
  <1>1. Sound'
    BY KeptSound DEF Inv
  <1>2. SameWork
    BY DEF SameWork
  <1>3. CASE st # "HALTED"
    BY <1>1, <1>2, <1>3, IdleStep DEF Inv
  <1>4. CASE st = "HALTED"
    <2>1. sr \in [Selectors -> Word] /\ sr' = Latched(sr, lines)
      BY QuietSound DEF Inv
    <2>2. entry # <<>> => entry[1].epc \in Word
      BY DEF Inv, Sound, Entering
    <2>3. DoneRegs' = DoneRegs /\ DoneMemory' = DoneMemory /\ DoneReservation' = DoneReservation
      BY <1>2, <2>1, <2>2, SameDone
    <2>4. Mode = "halted" /\ Mode' = "halted"
      BY <1>4 DEF Mode
    <2>5. Arch!Next
      BY <2>3, <2>4, StepHalted
    <2> QED BY <1>1, <2>5 DEF Inv
  <1> QED BY <1>3, <1>4

\* a cycle of waiting, between the beats of an access, or of a halted core
LEMMA WaitingStep ==
  ASSUME Inv, ~locked, NEW b, NEW lines \in SUBSET prog.lines,
         Waiting(b, lines) \/ SplitCycle(lines) \/ Halt(lines)
  PROVE  Inv' /\ Arch!Next
  <1>1. DOMAIN first = {"data", "cycle"}
    BY DEF Inv, Sound, Words
  <1>2. CASE Waiting(b, lines)
    BY <1>1, <1>2, StayStep DEF Waiting, arch
  <1>3. CASE SplitCycle(lines)
    <2>1. DOMAIN first' = {"data", "cycle"} /\ first'.data = first.data
      BY <1>1, <1>3 DEF SplitCycle
    <2> QED BY <1>3, <2>1, StayStep DEF SplitCycle, arch
  <1>4. CASE Halt(lines)
    BY <1>1, <1>4, StayStep DEF Halt, arch
  <1> QED BY <1>2, <1>3, <1>4

\* The register file of a sound core has a PC.
LEMMA PcWord ==
  ASSUME Inv, ~locked
  PROVE  regs[15] \in Word /\ 15 \in DOMAIN regs /\ DOMAIN regs = DOMAIN prog.regs
  <1>1. 15 \in DOMAIN prog.regs
    BY ProgramsAssumption DEF Inv, IsProgram
  <1> QED BY <1>1 DEF Inv, Sound, Words

\* An entry begins.
LEMMA BeginSound ==
  ASSUME Inv, ~locked, NEW v \in 0 .. 15, NEW trap, trap # <<>> => IsTrap(trap[1]), NEW lines,
         BeginInterruptEntry(v, regs[15], trap, lines),
         prog' = prog, regs' = regs, flags' = flags, resv' = resv, mem' = mem,
         fetch' = fetch, instr' = instr, first' = first
  PROVE  /\ Inv' /\ Mode' = "entry"
         /\ DoneSpecial' = Entered(TrapWritten(Latched(sr, lines), sr[TRAP_CAUSE], trap), v, regs[15], flags)
         /\ DoneRegs' = regs /\ DoneMemory' = mem /\ DoneReservation' = resv
  <1>0. Sound /\ sr \in [Selectors -> Word] /\ regs[15] \in Word
    BY PcWord DEF Inv, Sound, Words
  <1>1. /\ Clock(<<EntryControl(sr[CPU_CONTROL], v)>>, <<sr[CPU_CONTROL]>>, <<>>, trap, <<>>, <<>>, lines)
        /\ entry' = <<[vector |-> v, epc |-> regs[15], phys |-> 0]>>
        /\ pending' = <<>> /\ walk' = <<>> /\ st' = "INTERRUPT_VECTOR_TRANSLATE" /\ locked' = locked
    BY DEF BeginInterruptEntry, Goto
  <1> DEFINE ec == EntryControl(sr[CPU_CONTROL], v)
             c == sr[CPU_CONTROL]
  <1>2. sr' = SpecialClock(sr, <<ec>>, <<c>>, <<>>, trap, <<>>, lines)
    BY <1>1 DEF Clock, BasicSpecialClock
  <1>3. tlb' = TlbClock(tlb, TRUE, <<>>)
    BY <1>1 DEF Clock, BasicTlbClock, TlbFlush
  <1>4. GenerationsPast(tlb') /\ Agrees(tlb', PageOf(sr'[PAGE_TABLE_ROOT]))
    <2>1. GenerationsPast(tlb')
      BY <1>0, <1>3, ClockPast DEF Sound
    <2>2. Agrees(tlb', PageOf(sr'[PAGE_TABLE_ROOT]))
      BY <1>0, <1>3, ClockAgrees DEF Sound
    <2> QED BY <2>1, <2>2
  <1>5. /\ Saved(sr', regs[15], FlagsWord(flags))
                = Entered(TrapWritten(Latched(sr, lines), sr[TRAP_CAUSE], trap), v, regs[15], flags)
        /\ sr'[CPU_CONTROL] = ec
    <2>1. sr' = EntryClock(sr, v, trap, lines)
      BY <1>2 DEF EntryClock
    <2> QED BY <1>0, <2>1, EntrySaved
  <1>6. sr' \in [Selectors -> Word]
    <2>1. ec \in Word /\ c \in Word
      BY <1>0, EntryVector DEF CPU_CONTROL, Selectors
    <2>2. \A x \in 0 .. 15 : x \in Word
      BY DEF Word
    <2>3. Optional(<<ec>>) /\ Optional(<<c>>)
      <3> HIDE DEF ec, c
      <3> QED BY <2>1 DEF Optional
    <2>4. trap # <<>> => /\ trap[1].cause \in Word /\ trap[1].addr \in Word /\ trap[1].access \in Word
                         /\ trap[1].pc \in Word /\ trap[1].aux \in Word
      BY <2>2 DEF IsTrap
    <2> HIDE DEF ec, c
    <2> QED BY <1>0, <1>2, <2>3, <2>4, SpecialClockWords
  <1>7. /\ entry' # <<>> /\ entry' = <<entry'[1]>> /\ DOMAIN entry'[1] = {"vector", "epc", "phys"}
        /\ entry'[1].epc = regs[15] /\ entry'[1].vector = v
    BY <1>1
  <1>8. Entering'
    BY <1>0, <1>5, <1>7, EntryVector DEF Entering
  <1>9. Words'
    BY <1>0, <1>6 DEF Sound, Words
  <1>10. Pending' /\ Walking' /\ Phases'
    BY <1>1, <1>7 DEF Pending, Walking, Phases, States, Memories
  <1>11. Inv'
    BY <1>4, <1>8, <1>9, <1>10 DEF Inv, Sound
  <1>12. ~Early'
    BY <1>1 DEF Early
  <1>13. DoneRegs' = regs /\ DoneMemory' = mem /\ DoneReservation' = resv
    BY <1>12 DEF DoneRegs, DoneMemory, DoneReservation
  <1>14. DoneSpecial' = Entered(TrapWritten(Latched(sr, lines), sr[TRAP_CAUSE], trap), v, regs[15], flags)
    BY <1>5, <1>7 DEF DoneSpecial, Saved
  <1>15. Mode' = "entry"
    BY <1>1, <1>7 DEF Mode
  <1> QED BY <1>11, <1>13, <1>14, <1>15

\* The instruction at R15 traps: an entry begins, or the core locks up.
LEMMA TrapStep ==
  ASSUME Inv, Plain, NEW trap, TrapHere(trap), IsTrap(trap), trap.pc = regs[15],
         NEW lines \in SUBSET prog.lines, RaiseSyncTrap(trap, lines),
         prog' = prog, regs' = regs, flags' = flags, resv' = resv, mem' = mem,
         fetch' = fetch, instr' = instr, first' = first
  PROVE  Inv' /\ Arch!Next
  <1>1. CASE PreemptLockup(sr[CPU_CONTROL], trap.cause)
    <2>1. locked' = TRUE /\ pending' = pending /\ entry' = entry
      BY <1>1 DEF RaiseSyncTrap, EnterLockup
    <2>2. Inv' /\ Mode' = "locked"
      BY <2>1 DEF Inv, Mode
    <2>3. ~Early'
      BY <2>1 DEF Plain, Early
    <2>4. DoneRegs' = regs /\ DoneMemory' = mem /\ DoneReservation' = resv
      BY <2>3 DEF DoneRegs, DoneMemory, DoneReservation
    <2> QED BY <1>1, <2>2, <2>4, StepFault
  <1>2. CASE ~PreemptLockup(sr[CPU_CONTROL], trap.cause)
    <2>1. BeginInterruptEntry(trap.cause, regs[15], <<trap>>, lines)
      BY <1>2 DEF RaiseSyncTrap
    <2>2. trap.cause \in 0 .. 15 /\ ~locked /\ <<trap>>[1] = trap /\ <<trap>> # <<>>
      BY DEF IsTrap, Plain
    <2>3. /\ Inv' /\ Mode' = "entry"
          /\ DoneSpecial' = Entered(TrapWritten(Latched(sr, lines), sr[TRAP_CAUSE], <<trap>>), trap.cause, regs[15], flags)
          /\ DoneRegs' = regs /\ DoneMemory' = mem /\ DoneReservation' = resv
      BY <2>1, <2>2, BeginSound
    <2>4. DoneSpecial' = Entered(TrapWrite(Latched(sr, lines), sr[TRAP_CAUSE], trap), trap.cause, regs[15], flags)
      BY <2>3 DEF TrapWritten
    <2> QED BY <1>2, <2>3, <2>4, StepFault
  <1> QED BY <1>1, <1>2

\* between two instructions
LEMMA FetchPlain ==
  ASSUME Inv, ~locked, st \in {"FETCH_TRANSLATE", "FETCH", "EXECUTE"}
  PROVE  Plain /\ pending = <<>> /\ entry = <<>>
  BY DEF Inv, Sound, Phases, Plain, Early

\* A walk starts for an address that passed the checks.
LEMMA WalkStarts ==
  ASSUME Sound, NEW lines, Quiet(lines), NEW va \in Word, NEW access, NEW resume,
         StartWalk(va, access, resume), Paging, EntryFault(va, sr) = <<>>, regs' = regs,
         \/ /\ resume = "FETCH" /\ va = regs'[15] /\ access = "X" /\ va % 2 = 0
            /\ fault_pc' = regs'[15] /\ pending' = <<>> /\ entry' = <<>>
         \/ /\ resume \in {"MEM_LOAD", "MEM_STORE"}
            /\ pending' # <<>> /\ entry' = <<>> /\ va = pending'[1].op.addr
            /\ IF pending'[1].op.write THEN resume = "MEM_STORE" /\ access = "W"
               ELSE resume = "MEM_LOAD" /\ access = "R"
         \/ /\ resume = "INTERRUPT_VECTOR_LOAD" /\ va = TableVa' /\ access = "R"
            /\ pending' = <<>> /\ entry' # <<>>
  PROVE  Walking' /\ Phases' /\ st' = "WALK" /\ locked' = locked
  <1>1. /\ sr \in [Selectors -> Word]
        /\ sr' \in [Selectors -> Word] /\ sr' = Latched(sr, lines)
    BY QuietSound
  <1>2. /\ sr'[PAGE_TABLE_ROOT] = sr[PAGE_TABLE_ROOT]
        /\ EntryFault(va, sr') = EntryFault(va, sr)
        /\ Paging' = Paging
    BY <1>1, LatchedSame
  <1>3. /\ walk' = <<[va |-> va, table |-> PageOf(sr[PAGE_TABLE_ROOT]), level |-> 2,
                     access |-> access, resume |-> resume, pte |-> <<>>]>>
        /\ st' = "WALK" /\ locked' = locked
    BY DEF StartWalk, Goto
  <1> DEFINE w == walk'[1]
  <1>4. /\ walk' = <<w>> /\ DOMAIN w = {"va", "table", "level", "access", "resume", "pte"}
        /\ w.va = va /\ w.table = PageOf(sr[PAGE_TABLE_ROOT]) /\ w.level = 2 /\ w.access = access
        /\ w.resume = resume
    BY <1>3
  <1>5. \A a, user : WalkFrom2(PageOf(sr'[PAGE_TABLE_ROOT]), PageOf(w.va), a, user)
                      = WalkRest(w.table, w.level, PageOf(w.va), a, user)
    BY <1>2, <1>4 DEF WalkRest
  <1>6. Walking'
    <2> HIDE DEF w
    <2>1. w.level \in 0 .. 2
      BY <1>4
    <2>2. /\ walk' = <<w>>
        /\ DOMAIN w = {"va", "table", "level", "access", "resume", "pte"}
        /\ w.va \in Word /\ w.level \in 0 .. 2
        /\ Paging' /\ EntryFault(w.va, sr') = <<>>
      BY <1>2, <1>4, <2>1
    <2>3. \/ /\ w.resume = "FETCH" /\ w.va = regs'[15] /\ w.access = "X" /\ w.va % 2 = 0
             /\ fault_pc' = regs'[15] /\ pending' = <<>> /\ entry' = <<>>
          \/ /\ w.resume \in {"MEM_LOAD", "MEM_STORE"}
             /\ pending' # <<>> /\ entry' = <<>> /\ w.va = pending'[1].op.addr
             /\ IF pending'[1].op.write THEN w.resume = "MEM_STORE" /\ w.access = "W"
                ELSE w.resume = "MEM_LOAD" /\ w.access = "R"
          \/ /\ w.resume = "INTERRUPT_VECTOR_LOAD" /\ w.va = TableVa' /\ w.access = "R"
             /\ pending' = <<>> /\ entry' # <<>>
      BY <1>4
    <2> QED BY <1>3, <1>5, <2>2, <2>3 DEF Walking, w
  <1>7. Phases'
    BY <1>3 DEF Phases, States, Memories
  <1> QED BY <1>3, <1>6, <1>7

\* the parts of the invariant that a quiet cycle with nothing in hand keeps
LEMMA QuietRest ==
  ASSUME Inv, ~locked, NEW lines, Quiet(lines), prog' = prog,
         regs' = regs, flags' = flags, resv' = resv, mem' = mem,
         pending' = <<>>, entry' = <<>>, fetch' \in [pc : Word, phys : Word],
         IsInstruction(instr', DOMAIN prog.regs), first' = first, Walking', Phases'
  PROVE  Inv'
  <1>1. /\ sr' \in [Selectors -> Word]
        /\ GenerationsPast(tlb)' /\ Agrees(tlb, PageOf(sr[PAGE_TABLE_ROOT]))'
    BY QuietSound DEF Inv
  <1>2. Words' /\ Pending' /\ Entering'
    BY <1>1 DEF Inv, Sound, Words, Pending, Entering
  <1> QED BY <1>1, <1>2 DEF Inv, Sound

-----------------------------------------------------------------------------
\* FETCH_TRANSLATE: an interrupt, a fault, a walk, or an address to fetch.
LEMMA FetchTranslateStep ==
  ASSUME Inv, ~locked, NEW lines \in SUBSET prog.lines, FetchTranslate(lines)
  PROVE  Inv' /\ Arch!Next
  <1> DEFINE pc == regs[15]
             vector == PendingIrq(sr, lines)
             xl == Translation(pc, "X")
             fault == IF pc % 2 = 1 THEN <<EXEC_ALIGN, EncodeAux(0, 0)>> ELSE EntryFault(pc, sr)
             irq == IrqTaken(vector)
             trap == TrapInfo(fault[1], pc, AccessCode("X"), pc, fault[2])
  <1>0. /\ Plain /\ pending = <<>> /\ entry = <<>> /\ pc \in Word /\ Sound
        /\ prog' = prog /\ regs' = regs /\ flags' = flags /\ resv' = resv /\ mem' = mem
        /\ instr' = instr /\ first' = first /\ st = "FETCH_TRANSLATE"
    BY PcWord, FetchPlain DEF FetchTranslate, arch, Inv
  <1>1. IF pc % 2 = 1 \/ (~irq /\ xl = "fault")
        THEN RaiseSyncTrap(trap, lines) /\ UNCHANGED <<fetch, fault_pc>>
        ELSE IF irq
        THEN BeginInterruptEntry(vector, pc, <<>>, lines) /\ UNCHANGED <<fetch, fault_pc>>
        ELSE /\ Quiet(lines) /\ UNCHANGED <<pending, entry>>
             /\ IF xl = "done"
                THEN /\ fetch' = [fetch EXCEPT !.phys = Physical(pc)]
                     /\ Goto("FETCH") /\ UNCHANGED <<walk, fault_pc>>
                ELSE /\ StartWalk(pc, "X", "FETCH") /\ fault_pc' = pc /\ UNCHANGED fetch
    BY DEF FetchTranslate
  <1>p. pc % 2 = 1 \/ pc % 2 = 0
    BY <1>0, WordInt
  <1>x. pc % 2 # 1 =>
        /\ xl \in {"done", "fault", "walk"}
        /\ xl = "done" => Translate(pc, "X", sr) = [phys |-> Physical(pc), fault |-> <<>>]
        /\ xl = "fault" => EntryFault(pc, sr) # <<>> /\ Translate(pc, "X", sr).fault = EntryFault(pc, sr)
        /\ xl = "walk" => Paging /\ EntryFault(pc, sr) = <<>>
    BY <1>0, TranslationMeans DEF Sound
  <1> HIDE DEF xl, irq, vector, fault
  <1>2. CASE pc % 2 = 1 \/ (~irq /\ xl = "fault")
    <2>1. RaiseSyncTrap(trap, lines) /\ fetch' = fetch
      BY <1>1, <1>2
    <2>2. fault # <<>> /\ IsFault(fault) /\ Translate(pc, "X", sr).fault = fault
      <3>1. CASE pc % 2 = 1
        <4>1. fault = <<EXEC_ALIGN, EncodeAux(0, 0)>>
          BY <3>1 DEF fault
        <4>2. Translate(pc, "X", sr).fault = <<EXEC_ALIGN, EncodeAux(0, 0)>>
          BY <3>1 DEF Translate
        <4>3. IsFault(<<EXEC_ALIGN, EncodeAux(0, 0)>>)
          BY DEF IsFault, EXEC_ALIGN, EncodeAux, Word
        <4> QED BY <4>1, <4>2, <4>3
      <3>2. CASE pc % 2 # 1
        <4>1. fault = EntryFault(pc, sr) /\ fault # <<>> /\ Translate(pc, "X", sr).fault = fault
          BY <1>2, <1>x, <3>2 DEF fault
        <4> QED BY <4>1, EntryFaultType
      <3> QED BY <3>1, <3>2
    <2>3. IsTrap(trap) /\ trap.pc = regs[15]
      <3>1. AccessCode("X") \in 0 .. 2
        BY AccessCodes
      <3> QED BY <1>0, <2>2, <3>1, TrapInfoType DEF IsFault
    <2>4. TrapHere(trap)
      BY <2>2 DEF TrapHere
    <2> HIDE DEF trap
    <2> QED BY <1>0, <2>1, <2>3, <2>4, TrapStep
  <1>3. CASE pc % 2 # 1 /\ irq
    <2>1. BeginInterruptEntry(vector, regs[15], <<>>, lines) /\ fetch' = fetch
      BY <1>1, <1>3
    <2>2. vector \in 0 .. 15 /\ vector = PendingIrq(sr, lines)
      BY PendingIrqRange DEF vector
    <2>3. vector # 0 /\ IntEnable(sr[CPU_CONTROL]) /\ CanPreempt(sr[CPU_CONTROL], vector)
      BY <1>3 DEF irq, IrqTaken
    <2>4. PICK none : none = <<>>
      OBVIOUS
    <2>5. BeginInterruptEntry(vector, regs[15], none, lines)
      BY <2>1, <2>4
    <2>6. /\ Inv' /\ Mode' = "entry"
          /\ DoneSpecial' = Entered(TrapWritten(Latched(sr, lines), sr[TRAP_CAUSE], none), vector, regs[15], flags)
          /\ DoneRegs' = regs /\ DoneMemory' = mem /\ DoneReservation' = resv
      BY <1>0, <2>1, <2>2, <2>4, <2>5, BeginSound
    <2>7. DoneSpecial' = Entered(Latched(sr, lines), vector, regs[15], flags)
      BY <2>4, <2>6 DEF TrapWritten
    <2> QED BY <1>0, <2>2, <2>3, <2>6, <2>7, StepInterrupt
  <1>4. CASE pc % 2 # 1 /\ ~irq /\ xl = "done"
    <2>1. /\ Quiet(lines) /\ pending' = <<>> /\ entry' = <<>> /\ st' = "FETCH" /\ locked' = locked
          /\ fetch' = [fetch EXCEPT !.phys = Physical(pc)] /\ walk' = walk
      BY <1>0, <1>1, <1>4 DEF Goto
    <2>2. Translate(pc, "X", sr) = [phys |-> Physical(pc), fault |-> <<>>]
      BY <1>4, <1>x
    <2>3. Physical(pc) \in Word
      BY <1>0, <2>2, TranslateType
    <2>4. fetch' \in [pc : Word, phys : Word] /\ fetch'.phys = Physical(pc)
      BY <1>0, <2>1, <2>3 DEF Sound, Words
    <2>5. PcMapped' = PcMapped /\ PcPhys' = PcPhys
      BY <1>0, <2>1, PcKept, QuietSound
    <2>6. PcMapped /\ PcPhys = Physical(pc)
      BY <2>2 DEF PcMapped, PcPhys
    <2>7. Walking' /\ Phases'
      BY <2>1, <2>4, <2>5, <2>6 DEF Walking, Phases, States, Memories
    <2>8. Inv'
      BY <1>0, <2>1, <2>4, <2>7, QuietRest DEF Sound, Words
    <2>9. SameWork
      BY <1>0, <2>1 DEF SameWork
    <2>10. Arch!Next
      BY <1>0, <2>1, <2>9, IdleStep
    <2> QED BY <2>8, <2>10
  <1>5. CASE pc % 2 # 1 /\ ~irq /\ xl = "walk"
    <2>1. /\ Quiet(lines) /\ pending' = <<>> /\ entry' = <<>>
          /\ StartWalk(pc, "X", "FETCH") /\ fault_pc' = pc /\ fetch' = fetch
      BY <1>0, <1>1, <1>5
    <2>2. Paging /\ EntryFault(pc, sr) = <<>> /\ pc % 2 = 0
      BY <1>5, <1>x, <1>p
    <2>3. Walking' /\ Phases' /\ st' = "WALK" /\ locked' = locked
      BY <1>0, <2>1, <2>2, WalkStarts
    <2>4. Inv'
      BY <1>0, <2>1, <2>3, QuietRest DEF Sound, Words
    <2>5. SameWork
      BY <1>0, <2>1 DEF SameWork
    <2>6. Arch!Next
      BY <1>0, <2>1, <2>3, <2>5, IdleStep
    <2> QED BY <2>4, <2>6
  <1> QED BY <1>2, <1>3, <1>4, <1>5, <1>p, <1>x

\* FETCH: the instruction at R15 arrives.
LEMMA FetchWordStep ==
  ASSUME Inv, ~locked, NEW b \in Answers, NEW lines \in SUBSET prog.lines, FetchWord(b, lines)
  PROVE  Inv' /\ Arch!Next
  <1>0. /\ Plain /\ pending = <<>> /\ entry = <<>> /\ regs[15] \in Word /\ Sound /\ prog \in Programs
        /\ prog' = prog /\ regs' = regs /\ flags' = flags /\ resv' = resv /\ mem' = mem
        /\ pending' = <<>> /\ entry' = <<>> /\ first' = first /\ walk' = walk /\ st = "FETCH" /\ Quiet(lines)
    BY PcWord, FetchPlain DEF FetchWord, arch, Inv
  <1>1. CASE b = "err"
    <2>1. locked' = TRUE
      BY <1>1 DEF FetchWord, EnterLockup
    <2>2. prog.faulty
      BY <1>1, ErrorFaulty
    <2> QED BY <1>0, <2>1, <2>2, LockStep
  <1>2. CASE b # "err"
    <2>1. /\ fetch' = [fetch EXCEPT !.pc = regs[15]] /\ instr' = Fetch(prog.code, fetch.phys)
          /\ st' = "EXECUTE" /\ locked' = locked
      BY <1>2 DEF FetchWord, Goto
    <2>2. fetch' \in [pc : Word, phys : Word] /\ fetch'.pc = regs[15]
      BY <1>0, <2>1 DEF Sound, Words
    <2>3. PcMapped' = PcMapped /\ PcPhys' = PcPhys
      BY <1>0, PcKept, QuietSound
    <2>4. PcMapped /\ fetch.phys = PcPhys
      BY <1>0 DEF Sound, Phases
    <2>5. IsInstruction(instr', DOMAIN prog.regs)
      BY <1>0, <2>1, FetchType, ProgramsAssumption
    <2>6. Decoded'
      BY <1>0, <2>1, <2>2, <2>3, <2>4 DEF Decoded
    <2>7. Walking' /\ Phases'
      BY <1>0, <2>1, <2>6 DEF Walking, Phases, States, Memories
    <2>8. Inv'
      BY <1>0, <2>2, <2>5, <2>7, QuietRest
    <2>9. SameWork
      BY <1>0 DEF SameWork
    <2>10. Arch!Next
      BY <1>0, <2>1, <2>9, IdleStep
    <2> QED BY <2>8, <2>10
  <1> QED BY <1>1, <1>2

\* in EXECUTE what the core computes is what the instruction at R15 asks
LEMMA ExecuteAsked ==
  ASSUME Decoded
  PROVE  Outputs = Asked /\ PcMapped
  BY OutputsExecute DEF Decoded, Asked

\* EXECUTE: the instruction is refused.
LEMMA ExecuteTrapStep ==
  ASSUME Inv, ~locked, NEW lines \in SUBSET prog.lines, ExecuteTrap(Outputs, lines)
  PROVE  Inv' /\ Arch!Next
  <1>0. /\ Plain /\ regs[15] \in Word /\ Sound /\ prog \in Programs
        /\ prog' = prog /\ regs' = regs /\ flags' = flags /\ resv' = resv /\ mem' = mem
        /\ fetch' = fetch /\ instr' = instr /\ first' = first /\ st = "EXECUTE"
    BY PcWord, FetchPlain DEF ExecuteTrap, arch, Inv
  <1>1. Decoded /\ Words
    BY <1>0 DEF Sound, Phases
  <1>2. IsResult(Outputs) /\ Outputs = Asked /\ PcMapped /\ fetch.pc = regs[15]
    BY <1>1, OutputsResult, ExecuteAsked DEF Decoded
  <1> DEFINE trap == TrapInfo(Outputs.trap, 0, 0, regs[15], 0)
  <1>3. RaiseSyncTrap(trap, lines) /\ Outputs.trap # 0
    BY <1>2 DEF ExecuteTrap
  <1>4. IsTrap(trap) /\ trap.pc = regs[15]
    <2>1. Outputs.trap \in 0 .. 15 /\ 0 \in Word
      BY <1>2 DEF IsResult, Word
    <2> QED BY <1>0, <2>1, TrapInfoType
  <1>5. TrapHere(trap)
    BY <1>2, <1>3 DEF TrapHere
  <1> HIDE DEF trap
  <1> QED BY <1>0, <1>3, <1>4, <1>5, TrapStep

\* With nothing in hand the machine's state is the core's.
LEMMA BareDone ==
  ASSUME pending' = <<>>, entry' = <<>>
  PROVE  /\ DoneRegs' = regs' /\ DoneMemory' = mem' /\ DoneReservation' = resv' /\ DoneSpecial' = sr'
         /\ locked' = FALSE => Mode' = IF st' = "HALTED" THEN "halted" ELSE "run"
  <1>1. ~Early'
    BY DEF Early
  <1> QED BY <1>1 DEF DoneRegs, DoneMemory, DoneReservation, DoneSpecial, Mode

\* EXECUTE: the instruction needs the registers only.
LEMMA ExecuteRegisterStep ==
  ASSUME Inv, ~locked, NEW lines \in SUBSET prog.lines, ExecuteRegister(Outputs, lines)
  PROVE  Inv' /\ Arch!Next
  <1>1. PICK o : o = Outputs
    OBVIOUS
  <1>0. /\ Plain /\ pending = <<>> /\ entry = <<>> /\ Sound /\ prog \in Programs
        /\ st = "EXECUTE" /\ o.trap = 0 /\ o.memory = <<>>
        /\ regs' = WriteBack(regs, o.writes, o.next_pc)
        /\ flags' = (IF o.flags = <<>> THEN flags ELSE o.flags[1])
        /\ resv' = (IF o.clear_reservation THEN <<>> ELSE resv)
        /\ Clock(o.control, <<>>, <<>>, <<>>, o.special, <<>>, lines)
        /\ st' = (IF o.halt THEN "HALTED" ELSE "FETCH_TRANSLATE")
        /\ prog' = prog /\ mem' = mem /\ locked' = locked /\ pending' = <<>> /\ entry' = <<>>
        /\ fetch' = fetch /\ instr' = instr /\ first' = first
    BY <1>1, FetchPlain DEF ExecuteRegister, Inv
  <1>2. Decoded /\ Words /\ sr \in [Selectors -> Word]
    BY <1>0 DEF Sound, Phases, Words
  <1>3. IsResult(o) /\ o = Asked /\ PcMapped
    BY <1>1, <1>2, OutputsResult, ExecuteAsked
  <1> DEFINE hides == o.special # <<>> /\ o.special[1].sel = INTERRUPT_STATES_HIGH
             set == IF hides THEN {} ELSE lines
  <1>4. set \in SUBSET prog.lines
    OBVIOUS
  <1> HIDE DEF hides
  <1>5. /\ sr' = SpecialClock(sr, o.control, <<>>, <<>>, <<>>, o.special, set)
        /\ tlb' = TlbClock(tlb, TlbFlush(o.control, o.special), <<>>)
    BY <1>0 DEF Clock, BasicSpecialClock, BasicTlbClock, hides
  <1> HIDE DEF set
  <1>6. sr' \in [Selectors -> Word]
    <2>1. Optional(o.control) /\ (o.special # <<>> => o.special[1].data \in Word)
      BY <1>3 DEF IsResult, Optional
    <2>2. PICK none : none = <<>>
      OBVIOUS
    <2>3. sr' = SpecialClock(sr, o.control, none, none, none, o.special, set)
      BY <1>5, <2>2
    <2>4. Optional(none)
      BY <2>2 DEF Optional
    <2> QED BY <1>2, <2>1, <2>2, <2>3, <2>4, SpecialClockWords
  <1>7. GenerationsPast(tlb') /\ Agrees(tlb', PageOf(sr'[PAGE_TABLE_ROOT]))
    <2> DEFINE flush == TlbFlush(o.control, o.special)
               root == PageOf(sr[PAGE_TABLE_ROOT])
               new == PageOf(sr'[PAGE_TABLE_ROOT])
    <2>1. flush \in BOOLEAN
      BY DEF TlbFlush
    <2>2. flush \/ new = root
      BY <1>2, <1>5, SpecialClockFile DEF IsFile
    <2>3. GenerationsPast(tlb) /\ Agrees(tlb, root)
      BY <1>0 DEF Sound
    <2> HIDE DEF flush, root
    <2>4. tlb' = TlbClock(tlb, flush, <<>>)
      BY <1>5 DEF flush
    <2>5. GenerationsPast(tlb')
      BY <2>1, <2>3, <2>4, ClockPast
    <2> HIDE DEF new
    <2>6. Agrees(tlb', new)
      BY <2>1, <2>2, <2>3, <2>4, ClockAgrees
    <2> QED BY <2>5, <2>6 DEF new
  <1>8. regs' \in [DOMAIN prog.regs -> Word] /\ (0 \in DOMAIN prog.regs => regs'[0] = 0)
    <2>1. \A r, old : old \in Word => LastWrite(o.writes, r, old) \in Word
      BY <1>3, LastWord DEF IsResult
    <2>2. o.next_pc \in Word /\ regs \in [DOMAIN prog.regs -> Word]
      BY <1>2, <1>3 DEF IsResult, Words
    <2> QED BY <1>0, <2>1, <2>2, WriteBackType
  <1>9. Words'
    BY <1>0, <1>2, <1>6, <1>8 DEF Words
  <1>10. Pending' /\ Entering' /\ Walking' /\ Phases'
    BY <1>0 DEF Pending, Entering, Walking, Phases, States, Memories
  <1>11. Inv'
    BY <1>0, <1>7, <1>9, <1>10 DEF Inv, Sound
  <1>12. Mode' = IF o.halt THEN "halted" ELSE "run"
    BY <1>0 DEF Mode
  <1>13. Arch!Next
    BY <1>0, <1>3, <1>4, <1>5, <1>12, BareDone, StepRegister
  <1> QED BY <1>11, <1>13

\* A cycle between two instructions, or in one that is not decided
LEMMA PlainIdle ==
  ASSUME Plain, NEW lines \in SUBSET prog.lines, sr' = Latched(sr, lines), prog' = prog,
         regs' = regs, flags' = flags, resv' = resv, mem' = mem,
         locked' = locked, st' # "HALTED", entry' = <<>>, ~Early'
  PROVE  Arch!Next
  <1>1. DoneRegs' = regs /\ DoneMemory' = mem /\ DoneReservation' = resv /\ DoneSpecial' = sr' /\ Mode' = "run"
    BY DEF Plain, DoneRegs, DoneMemory, DoneReservation, DoneSpecial, Mode
  <1> QED BY <1>1, PlainDone, StepIdle

\* A store that gives a reservation up leaves none, as one of its own word does.
LEMMA AfterStoreOwn ==
  ASSUME NEW a \in Word, NEW op, op.addr = a, op.width = WordBytes, NEW res, res = <<a>>
  PROVE  AfterStore(res, op) = <<>> /\ AfterStore(<<>>, op) = <<>>
  BY DEF AfterStore, WordBytes, Word

\* An operation is latched that the instruction is not yet decided by.
LEMMA LatchUndecided ==
  ASSUME Inv, ~locked, NEW lines \in SUBSET prog.lines, st = "EXECUTE", Quiet(lines),
         NEW op, Outputs.memory = <<op>>, IsOperation(op, instr, resv), Outputs.trap = 0,
         Outputs.next_pc \in Word, ~(op.write /\ instr.op # "STORE"),
         prog' = prog, regs' = regs, flags' = flags, resv' = resv, mem' = mem,
         fetch' = fetch, instr' = instr, first' = first, walk' = walk, entry' = entry,
         pending' = <<[op |-> op, addr |-> op.addr, next_pc |-> Outputs.next_pc]>>,
         fault_pc' = fetch.pc, st' = "MEM_TRANSLATE", locked' = locked
  PROVE  Inv' /\ Arch!Next
  <1>0. /\ Plain /\ pending = <<>> /\ entry = <<>> /\ Sound /\ Decoded /\ Words
        /\ sr \in [Selectors -> Word]
    BY FetchPlain DEF Inv, Sound, Phases, Words
  <1>1. /\ sr' \in [Selectors -> Word] /\ sr' = Latched(sr, lines)
        /\ GenerationsPast(tlb)' /\ Agrees(tlb, PageOf(sr[PAGE_TABLE_ROOT]))'
    BY <1>0, QuietSound
  <1>2. Words'
    BY <1>0, <1>1 DEF Words
  <1>3. /\ pending' # <<>> /\ pending' = <<pending'[1]>> /\ DOMAIN pending'[1] = {"op", "addr", "next_pc"}
        /\ pending'[1].op = op /\ pending'[1].next_pc = Outputs.next_pc
    OBVIOUS
  <1>4. ~Early'
    BY <1>3 DEF Early
  <1>5. <<op>> # <<>>
    OBVIOUS
  <1>6. Outputs' = Outputs
    BY <1>0, <1>5, OutputsKept
  <1>7. Decoded' /\ fetch.pc = regs[15]
    BY <1>0, <1>1, PcKept DEF Decoded
  <1>8. Pending'
    <2>1. /\ op.addr \in Word /\ op.width \in 0 .. WordBytes /\ op.value \in Word /\ op.write \in BOOLEAN
      BY DEF IsOperation
    <2> QED BY <1>3, <1>4, <1>6, <1>7, <2>1 DEF Pending
  <1>9. Walking' /\ Phases' /\ Entering'
    BY <1>0, <1>3 DEF Walking, Phases, Entering, States, Memories
  <1>10. Inv'
    BY <1>1, <1>2, <1>8, <1>9 DEF Inv, Sound
  <1>11. Arch!Next
    BY <1>0, <1>1, <1>4, PlainIdle
  <1> QED BY <1>10, <1>11

\* A store is latched whose instruction counts as done.
LEMMA LatchDone ==
  ASSUME Inv, ~locked, NEW lines \in SUBSET prog.lines, st = "EXECUTE", Quiet(lines),
         NEW op, Outputs.memory = <<op>>, IsOperation(op, instr, resv), Outputs.trap = 0,
         Outputs.next_pc \in Word, op.write, instr.op # "STORE", NEW rest,
         rest = IF op.post # <<>> THEN [op EXCEPT !.post = <<>>] ELSE op,
         prog' = prog, regs' = Moved(regs, op.post), mem' = mem,
         flags' = IF op.flags = <<>> THEN flags ELSE op.flags[1],
         resv' = IF op.flags = <<>> THEN resv ELSE <<>>,
         fetch' = fetch, instr' = instr, first' = first, walk' = walk, entry' = entry,
         pending' = <<[op |-> rest, addr |-> op.addr, next_pc |-> Outputs.next_pc]>>,
         fault_pc' = fetch.pc, st' = "MEM_TRANSLATE", locked' = locked, StoresMapped', StackApart'
  PROVE  Inv' /\ Arch!Next
  <1>0. /\ Plain /\ pending = <<>> /\ entry = <<>> /\ Sound /\ Decoded /\ Words
        /\ sr \in [Selectors -> Word]
    BY FetchPlain DEF Inv, Sound, Phases, Words
  <1>1. /\ sr' \in [Selectors -> Word] /\ sr' = Latched(sr, lines)
        /\ GenerationsPast(tlb)' /\ Agrees(tlb, PageOf(sr[PAGE_TABLE_ROOT]))'
    BY <1>0, QuietSound
  <1>2. /\ rest.addr = op.addr /\ rest.width = op.width /\ rest.write = op.write /\ rest.value = op.value
        /\ rest.post = <<>> /\ rest.dest = <<>>
    <2>1. DOMAIN op = {"addr", "width", "write", "value", "dest", "post", "chain", "flags", "reserve"}
      BY DEF IsOperation
    <2>2. op.dest = <<>>
      BY DEF IsOperation
    <2> QED BY <2>1, <2>2
  <1>3. /\ pending' # <<>> /\ pending' = <<pending'[1]>> /\ DOMAIN pending'[1] = {"op", "addr", "next_pc"}
        /\ pending'[1].op = rest /\ pending'[1].next_pc = Outputs.next_pc
    OBVIOUS
  <1>4. Early'
    BY <1>2, <1>3 DEF Early
  <1>p. op.post # <<>> => /\ op.post = <<op.post[1]>> /\ op.post[1].value \in Word
                         /\ ~op.post[1].alias /\ op.post[1].index # 15
    <2>1. op.post # <<>> => instr.rd # 15
      BY DEF IsOperation, StackApart
    <2> QED BY <2>1 DEF IsOperation
  <1>g. 15 \in DOMAIN prog.regs /\ regs \in [DOMAIN prog.regs -> Word] /\ (0 \in DOMAIN prog.regs => regs[0] = 0)
    BY <1>0, PcWord DEF Words
  <1>5. /\ regs' \in [DOMAIN prog.regs -> Word]
        /\ 0 \in DOMAIN regs' => regs'[0] = 0
    BY <1>g, <1>p, MovedType
  <1>6. Words'
    BY <1>0, <1>1, <1>5 DEF Words
  <1>7. Pending'
    <2>1. /\ rest.addr \in Word /\ rest.width \in 0 .. WordBytes /\ rest.value \in Word /\ rest.write \in BOOLEAN
      BY <1>2 DEF IsOperation
    <2>2. regs'[15] \in Word
      BY <1>5, <1>g
    <2> QED BY <1>2, <1>3, <1>4, <2>1, <2>2 DEF Pending
  <1>8. Walking' /\ Phases' /\ Entering'
    BY <1>0, <1>3 DEF Walking, Phases, Entering, States, Memories
  <1>9. Inv'
    BY <1>1, <1>6, <1>7, <1>8 DEF Inv, Sound
  <1>10. /\ Translate(op.addr, "W", sr') = Translate(op.addr, "W", sr)
         /\ FirstAccess(op) = Translate(op.addr, "W", sr)
    BY <1>0, <1>1, LatchedSame DEF FirstAccess
  <1>11. FirstAccess(op).fault = <<>> /\ Target' = FirstAccess(op).phys
    BY <1>2, <1>3, <1>4, <1>10 DEF StoresMapped, Target
  <1>12. op.chain = <<>> /\ op.dest = <<>> /\ Outputs = Asked /\ PcMapped
    BY <1>0, ExecuteAsked DEF IsOperation
  <1>13. DoneRegs' = [Moved(regs, op.post) EXCEPT ![15] = Asked.next_pc]
    BY <1>3, <1>4, <1>12 DEF DoneRegs
  <1>14. PICK loaded : loaded = LoadBytes(mem, FirstAccess(op).phys, op.width)
    OBVIOUS
  <1>15. DoneRegs' = WriteBack(regs, MemoryWrites(op, loaded), MemoryNextPc(op, loaded, Asked.next_pc))
    BY <1>g, <1>p, <1>12, <1>13, MovedWriteBack
  <1>16. DoneMemory' = StoreBytes(mem, FirstAccess(op).phys, 0 .. (op.width - 1), op.value)
    BY <1>2, <1>3, <1>4, <1>11 DEF DoneMemory
  <1>17. DoneReservation' = AfterStore(resv, [addr |-> op.addr, width |-> op.width])
    <2>1. DoneReservation' = AfterStore(resv', rest)
      BY <1>3, <1>4 DEF DoneReservation
    <2>2. PICK aw : aw = [addr |-> op.addr, width |-> op.width]
      OBVIOUS
    <2>3. aw.addr = op.addr /\ aw.width = op.width
      BY <2>2
    <2>4. \A res : AfterStore(res, rest) = AfterStore(res, aw)
      BY <1>2, <2>3 DEF AfterStore
    <2>5. CASE op.flags = <<>>
      BY <2>1, <2>2, <2>4, <2>5
    <2>6. CASE op.flags # <<>>
      <3>1. resv = <<op.addr>> /\ op.width = WordBytes /\ op.addr \in Word
        BY <2>6 DEF IsOperation
      <3>2. AfterStore(resv, aw) = <<>> /\ AfterStore(<<>>, rest) = <<>>
        BY <1>2, <2>3, <3>1, AfterStoreOwn
      <3> QED BY <2>1, <2>2, <2>6, <3>2
    <2> QED BY <2>5, <2>6
  <1>18. DoneSpecial' = Latched(sr, lines) /\ Mode' = "run"
    BY <1>0, <1>1 DEF DoneSpecial, Mode
  <1>19. Arch!Next
    BY <1>0, <1>11, <1>12, <1>14, <1>15, <1>16, <1>17, <1>18, StepMemory
  <1> QED BY <1>9, <1>19

\* EXECUTE: the instruction needs memory.
LEMMA ExecuteMemoryStep ==
  ASSUME Inv, ~locked, NEW lines \in SUBSET prog.lines, Outputs.memory # <<>>, ExecuteMemory(Outputs, lines),
         StoresMapped', StackApart'
  PROVE  Inv' /\ Arch!Next
  <1>0. /\ st = "EXECUTE" /\ prog' = prog /\ mem' = mem /\ fetch' = fetch /\ instr' = instr /\ first' = first
        /\ walk' = walk /\ entry' = entry /\ fault_pc' = fetch.pc /\ st' = "MEM_TRANSLATE" /\ locked' = locked
        /\ Quiet(lines)
    BY DEF ExecuteMemory, Goto
  <1>1. Asks(Outputs, instr, resv)
    BY OutputsResult DEF Inv, Sound
  <1>2. PICK op : Outputs.memory = <<op>> /\ IsOperation(op, instr, resv)
    BY <1>1 DEF Asks
  <1>3. Outputs.trap = 0 /\ Outputs.next_pc \in Word /\ Outputs.memory[1] = op
    BY <1>1, <1>2 DEF Asks
  <1> DEFINE moved == op.write /\ op.post # <<>>
             rest == IF moved THEN [op EXCEPT !.post = <<>>] ELSE op
  <1>4. /\ regs' = IF moved THEN WriteReg(op.post[1].index, op.post[1].value) ELSE regs
        /\ flags' = IF op.flags = <<>> THEN flags ELSE op.flags[1]
        /\ resv' = IF op.flags = <<>> THEN resv ELSE <<>>
        /\ pending' = <<[op |-> rest, addr |-> op.addr, next_pc |-> Outputs.next_pc]>>
    BY <1>3 DEF ExecuteMemory
  <1>5. CASE ~(op.write /\ instr.op # "STORE")
    <2>1. ~moved /\ op.flags = <<>>
      BY <1>2, <1>5 DEF IsOperation
    <2>2. rest = op
      BY <2>1
    <2> HIDE DEF moved, rest
    <2>3. regs' = regs /\ flags' = flags /\ resv' = resv
      BY <1>4, <2>1
    <2>4. pending' = <<[op |-> op, addr |-> op.addr, next_pc |-> Outputs.next_pc]>>
      BY <1>4, <2>2
    <2> QED BY <1>0, <1>2, <1>3, <1>5, <2>3, <2>4, LatchUndecided
  <1>6. CASE op.write /\ instr.op # "STORE"
    <2>1. regs' = Moved(regs, op.post)
      BY <1>4, <1>6 DEF Moved, WriteReg
    <2>2. rest = IF op.post # <<>> THEN [op EXCEPT !.post = <<>>] ELSE op
      BY <1>6
    <2>3. PICK r : r = rest
      OBVIOUS
    <2>4. /\ r = IF op.post # <<>> THEN [op EXCEPT !.post = <<>>] ELSE op
          /\ pending' = <<[op |-> r, addr |-> op.addr, next_pc |-> Outputs.next_pc]>>
      BY <1>4, <2>2, <2>3
    <2>5. /\ flags' = IF op.flags = <<>> THEN flags ELSE op.flags[1]
          /\ resv' = IF op.flags = <<>> THEN resv ELSE <<>>
      BY <1>4
    <2> HIDE DEF moved, rest
    <2> QED BY <1>0, <1>2, <1>3, <1>6, <2>1, <2>4, <2>5, LatchDone
  <1> QED BY <1>5, <1>6

\* The core goes on with the operation or the entry it has in hand.
LEMMA GoOn ==
  ASSUME Inv, ~locked, st # "HALTED", NEW lines \in SUBSET prog.lines, sr' = Latched(sr, lines),
         GenerationsPast(tlb)', Agrees(tlb, PageOf(sr[PAGE_TABLE_ROOT]))', prog' = prog,
         regs' = regs, flags' = flags, resv' = resv, mem' = mem, instr' = instr, fault_pc' = fault_pc,
         fetch' \in [pc : Word, phys : Word], fetch'.pc = fetch.pc, DOMAIN first' = {"data", "cycle"},
         NEW addr,
         \/ pending' = pending
         \/ pending # <<>> /\ pending' = <<[pending[1] EXCEPT !.addr = addr]>>,
         NEW phys,
         \/ entry' = entry
         \/ entry # <<>> /\ entry' = <<[entry[1] EXCEPT !.phys = phys]>>,
         Walking', Phases', st' # "HALTED", locked' = locked
  PROVE  Inv' /\ Arch!Next
  <1>0. Sound /\ Words /\ Entering /\ sr \in [Selectors -> Word]
    BY DEF Inv, Sound, Words
  <1>1. sr' \in [Selectors -> Word] /\ sr'[CPU_CONTROL] = sr[CPU_CONTROL]
    BY <1>0, LatchedType, LatchedSame
  <1>2. /\ Pending' /\ Early' = Early
        /\ pending # <<>> => /\ pending' # <<>> /\ pending'[1].op = pending[1].op
                             /\ pending'[1].next_pc = pending[1].next_pc
        /\ pending = <<>> => pending' = <<>>
    BY <1>0, PendingKept
  <1>3. /\ Entering'
        /\ entry # <<>> => /\ entry' # <<>> /\ entry'[1].epc = entry[1].epc
        /\ entry = <<>> => entry' = <<>>
    BY <1>0, <1>1, EnteringKept
  <1>4. Words'
    BY <1>0, <1>1 DEF Words
  <1>5. Inv'
    BY <1>1, <1>2, <1>3, <1>4 DEF Inv, Sound
  <1>6. SameWork
    BY <1>2, <1>3 DEF SameWork
  <1>7. entry # <<>> => entry[1].epc \in Word
    BY <1>0 DEF Entering
  <1>8. /\ DoneRegs' = DoneRegs /\ DoneMemory' = DoneMemory /\ DoneReservation' = DoneReservation
        /\ DoneSpecial' = Latched(DoneSpecial, lines)
    BY <1>0, <1>6, <1>7, SameDone
  <1>9. Mode' = Mode
    BY <1>3 DEF Mode
  <1>10. Arch!Next
    BY <1>8, <1>9, StepIdle
  <1> QED BY <1>5, <1>10

\* An access that faults traps, unless the instruction counts as done: then
\* its store is known not to fault.
LEMMA AccessTraps ==
  ASSUME Inv, ~locked, st # "HALTED", NEW lines \in SUBSET prog.lines, pending # <<>>, entry = <<>>, StoresMapped,
         NEW op, op = pending[1].op, NEW access, access = (IF op.write THEN "W" ELSE "R"),
         NEW fault, fault # <<>>, IsFault(fault), Translate(op.addr, access, sr).fault = fault,
         RaiseSyncTrap(TrapInfo(fault[1], op.addr, AccessCode(access), fault_pc, fault[2]), lines),
         prog' = prog, regs' = regs, flags' = flags, resv' = resv, mem' = mem,
         fetch' = fetch, instr' = instr, first' = first
  PROVE  Inv' /\ Arch!Next
  <1>1. ~Early
    BY DEF StoresMapped, Early
  <1>2. /\ Decoded /\ fault_pc = regs[15] /\ Outputs.memory = <<op>> /\ op.addr \in Word
    BY <1>1 DEF Inv, Sound, Pending
  <1>3. Outputs = Asked /\ PcMapped
    BY <1>2, ExecuteAsked
  <1>4. Plain
    BY <1>1 DEF Plain
  <1> DEFINE code == IF op.write THEN 1 ELSE 0
             trap == TrapInfo(fault[1], op.addr, code, regs[15], fault[2])
  <1>5. AccessCode(access) = code /\ code \in 0 .. 2
    BY AccessCodes
  <1>6. RaiseSyncTrap(trap, lines)
    BY <1>2, <1>5
  <1>7. IsTrap(trap) /\ trap.pc = regs[15]
    <2>1. regs[15] \in Word
      BY PcWord
    <2> HIDE DEF code
    <2> QED BY <1>2, <1>5, <2>1, TrapInfoType DEF IsFault
  <1>8. TrapHere(trap)
    <2>1. FirstAccess(op).fault = fault
      BY DEF FirstAccess
    <2> QED BY <1>2, <1>3, <2>1 DEF TrapHere
  <1> HIDE DEF trap
  <1> QED BY <1>4, <1>6, <1>7, <1>8, TrapStep

\* MEM_TRANSLATE: the address of the operation.
LEMMA MemTranslateStep ==
  ASSUME Inv, ~locked, NEW lines \in SUBSET prog.lines, MemTranslate(lines), StoresMapped
  PROVE  Inv' /\ Arch!Next
  <1> DEFINE op == pending[1].op
             access == IF op.write THEN "W" ELSE "R"
             after == IF op.write THEN "MEM_STORE" ELSE "MEM_LOAD"
             xl == Translation(op.addr, access)
             fault == EntryFault(op.addr, sr)
  <1>0. /\ st = "MEM_TRANSLATE" /\ prog' = prog /\ regs' = regs /\ flags' = flags /\ resv' = resv /\ mem' = mem
        /\ fetch' = fetch /\ instr' = instr /\ fault_pc' = fault_pc /\ first' = first
    BY DEF MemTranslate, arch
  <1>1. /\ Sound /\ pending # <<>> /\ entry = <<>> /\ op.addr \in Word /\ op.write \in BOOLEAN
        /\ pending = <<pending[1]>> /\ DOMAIN pending[1] = {"op", "addr", "next_pc"}
        /\ fetch \in [pc : Word, phys : Word] /\ DOMAIN first = {"data", "cycle"}
    BY <1>0 DEF Inv, Sound, Phases, Memories, Pending, Words
  <1>x. /\ xl \in {"done", "fault", "walk"}
        /\ xl = "done" => Translate(op.addr, access, sr) = [phys |-> Physical(op.addr), fault |-> <<>>]
        /\ xl = "fault" => fault # <<>> /\ Translate(op.addr, access, sr).fault = fault
        /\ xl = "walk" => Paging /\ fault = <<>>
    BY <1>1, TranslationMeans DEF Sound
  <1>2. CASE xl = "fault"
    <2>1. RaiseSyncTrap(TrapInfo(fault[1], op.addr, AccessCode(access), fault_pc, fault[2]), lines)
      BY <1>2 DEF MemTranslate
    <2>2. fault # <<>> /\ IsFault(fault) /\ Translate(op.addr, access, sr).fault = fault
      BY <1>2, <1>x, EntryFaultType
    <2> HIDE DEF fault
    <2> QED BY <1>0, <1>1, <2>1, <2>2, AccessTraps
  <1>3. CASE xl = "done"
    <2>1. /\ pending' = <<[pending[1] EXCEPT !.addr = Physical(op.addr)]>>
          /\ Quiet(lines) /\ st' = after /\ locked' = locked /\ walk' = walk /\ entry' = entry
      BY <1>3 DEF MemTranslate, Goto
    <2>2. Translate(op.addr, access, sr) = [phys |-> Physical(op.addr), fault |-> <<>>]
      BY <1>3, <1>x
    <2>3. /\ sr \in [Selectors -> Word] /\ sr' = Latched(sr, lines)
          /\ GenerationsPast(tlb)' /\ Agrees(tlb, PageOf(sr[PAGE_TABLE_ROOT]))'
      BY <1>1, <2>1, QuietSound
    <2>4. \A va, a : Translate(va, a, sr') = Translate(va, a, sr)
      BY <2>3, LatchedSame
    <2>5. pending' # <<>> /\ pending'[1].op = op /\ pending'[1].addr = Physical(op.addr)
      <3> DEFINE p == pending[1]
                 q == [p EXCEPT !.addr = Physical(op.addr)]
      <3>1. q.op = p.op /\ q.addr = Physical(op.addr)
        BY <1>1
      <3>2. pending' = <<q>>
        BY <2>1
      <3> HIDE DEF q
      <3> QED BY <3>1, <3>2
    <2>6. Reached(access)'
      BY <2>2, <2>4, <2>5 DEF Reached
    <2>7. Phases' /\ Walking'
      <3>1. CASE op.write
        BY <1>1, <2>1, <2>5, <2>6, <3>1 DEF Phases, Walking, States, Memories
      <3>2. CASE ~op.write
        BY <1>1, <2>1, <2>5, <2>6, <3>2 DEF Phases, Walking, States, Memories
      <3> QED BY <3>1, <3>2
    <2>8. st # "HALTED" /\ st' # "HALTED"
      BY <1>0, <2>1
    <2> HIDE DEF op, after
    <2>9. PICK addr : pending' = <<[pending[1] EXCEPT !.addr = addr]>>
      BY <2>1
    <2> QED BY <1>0, <1>1, <2>1, <2>3, <2>7, <2>8, <2>9, GoOn
  <1>4. CASE xl = "walk"
    <2>1. /\ Quiet(lines) /\ StartWalk(op.addr, access, after) /\ pending' = pending /\ entry' = entry
      BY <1>4 DEF MemTranslate
    <2>2. Paging /\ EntryFault(op.addr, sr) = <<>>
      BY <1>4, <1>x
    <2>3. /\ sr \in [Selectors -> Word] /\ sr' = Latched(sr, lines)
          /\ GenerationsPast(tlb)' /\ Agrees(tlb, PageOf(sr[PAGE_TABLE_ROOT]))'
      BY <1>1, <2>1, QuietSound
    <2>4. Walking' /\ Phases' /\ st' = "WALK" /\ locked' = locked
      BY <1>0, <1>1, <2>1, <2>2, WalkStarts
    <2> HIDE DEF op
    <2> QED BY <1>0, <1>1, <2>1, <2>3, <2>4, GoOn
  <1> QED BY <1>2, <1>3, <1>4, <1>x

\* What a load returns, in one beat or two, is its bytes.
LEMMA LoadReturns ==
  ASSUME Inv, ~locked, st \in {"MEM_LOAD", "MEM_LOAD_SPLIT"}, st = "MEM_LOAD" => ~SplitNeeded(Beat.req),
         pending[1].addr \in Word
  PROVE  LsuLoad(Beat, mem) = LoadBytes(mem, pending[1].addr, pending[1].op.width)
  <1> DEFINE a == pending[1].addr
             width == pending[1].op.width
             l == Beat
  <1>1. l.req.kind = "data" /\ l.req.addr = a /\ l.req.width = width /\ l.first = first.data
    BY BeatFields
  <1>2. CASE st = "MEM_LOAD"
    <2> HIDE DEF l
    <2> QED BY <1>1, <1>2 DEF LsuLoad, l
  <1>3. CASE st = "MEM_LOAD_SPLIT"
    <2>1. SplitNeeded(l.req) /\ first.data = BusWord(mem, a)
      BY <1>3 DEF Inv, Sound, Phases
    <2> HIDE DEF l, a, width
    <2>2. LsuLoad(l, mem) = WordOf([i \in 0 .. 3 |->
                IF i < width THEN Joined(l, BusWord(mem, a + Room(l.req)), i) ELSE 0])
      BY <1>1, <2>1 DEF LsuLoad
    <2>3. a \in Word
      BY DEF a
    <2>4. \A i \in 0 .. 3 : SplitByte(l, mem, i) = MemoryByte(mem, a, i)
      BY <1>1, <2>1, <2>3, JoinedLoad
    <2>5. [i \in 0 .. 3 |-> IF i < width THEN Joined(l, BusWord(mem, a + Room(l.req)), i) ELSE 0]
            = [i \in 0 .. 3 |-> IF i < width THEN ByteAt(mem, a + i) ELSE 0]
      BY <1>1, <2>4 DEF SplitByte, MemoryByte
    <2>6. LsuLoad(l, mem) = LoadBytes(mem, a, width)
      BY <2>2, <2>5 DEF LoadBytes
    <2> QED BY <2>6 DEF l, a, width
  <1> QED BY <1>2, <1>3

\* the state a load is in: undecided, at an address that translates
LEMMA LoadFacts ==
  ASSUME Inv, ~locked, st \in {"MEM_LOAD", "MEM_LOAD_SPLIT"}, NEW op, op = pending[1].op
  PROVE  /\ Sound /\ pending # <<>> /\ entry = <<>> /\ ~op.write /\ Plain
         /\ Decoded /\ PcMapped /\ Asked = Outputs
         /\ Outputs.memory = <<op>> /\ Outputs.next_pc = pending[1].next_pc /\ Outputs.next_pc \in Word
         /\ IsOperation(op, instr, resv)
         /\ FirstAccess(op).fault = <<>> /\ FirstAccess(op).phys = pending[1].addr
         /\ pending[1].addr \in Word /\ sr \in [Selectors -> Word]
         /\ mem \in [DOMAIN prog.mem -> Byte]
  <1>1. /\ Sound /\ pending # <<>> /\ entry = <<>> /\ ~op.write /\ Reached("R") /\ sr \in [Selectors -> Word]
        /\ mem \in [DOMAIN prog.mem -> Byte] /\ Words
    BY DEF Inv, Sound, Phases, Memories, Words
  <1>2. ~Early
    BY <1>1 DEF Early
  <1>3. /\ Decoded /\ Outputs.memory = <<op>> /\ Outputs.next_pc = pending[1].next_pc /\ op.addr \in Word
    BY <1>1, <1>2 DEF Sound, Pending
  <1>4. PcMapped /\ Asked = Outputs /\ Plain
    BY <1>1, <1>2, <1>3, ExecuteAsked DEF Plain
  <1>5. Outputs.memory # <<>> /\ Outputs.memory[1] = op
    BY <1>3
  <1>6. Asks(Outputs, instr, resv)
    BY <1>1, <1>5, OutputsResult
  <1>7. PICK x : Outputs.memory = <<x>> /\ IsOperation(x, instr, resv)
    BY <1>6 DEF Asks
  <1>8. x = op
    BY <1>5, <1>7
  <1>9. FirstAccess(op) = [phys |-> pending[1].addr, fault |-> <<>>]
    BY <1>1 DEF Reached, FirstAccess
  <1>10. FirstAccess(op).fault = <<>> /\ FirstAccess(op).phys = pending[1].addr
    BY <1>9
  <1>11. pending[1].addr \in Word
    <2>1. FirstAccess(op).phys \in Word
      BY <1>3, TranslateType DEF FirstAccess
    <2> QED BY <1>10, <2>1
  <1> QED BY <1>1, <1>3, <1>4, <1>6, <1>7, <1>8, <1>10, <1>11 DEF Asks

\* A load with no chained store ends its instruction.
LEMMA LoadEnds ==
  ASSUME Inv, ~locked, NEW lines \in SUBSET prog.lines, st \in {"MEM_LOAD", "MEM_LOAD_SPLIT"},
         NEW op, op = pending[1].op, op.chain = <<>>,
         NEW loaded, loaded = LoadBytes(mem, pending[1].addr, op.width), Quiet(lines), LoadDone(op, loaded),
         prog' = prog, flags' = flags, mem' = mem, fetch' = fetch, instr' = instr, first' = first,
         walk' = walk, entry' = entry
  PROVE  Inv' /\ Arch!Next
  <1>0. /\ Sound /\ pending # <<>> /\ entry = <<>> /\ ~op.write /\ Plain
        /\ Decoded /\ PcMapped /\ Asked = Outputs
        /\ Outputs.memory = <<op>> /\ Outputs.next_pc = pending[1].next_pc /\ Outputs.next_pc \in Word
        /\ IsOperation(op, instr, resv)
        /\ FirstAccess(op).fault = <<>> /\ FirstAccess(op).phys = pending[1].addr
        /\ mem \in [DOMAIN prog.mem -> Byte]
    BY LoadFacts
  <1>1. /\ sr' \in [Selectors -> Word] /\ sr' = Latched(sr, lines)
        /\ GenerationsPast(tlb)' /\ Agrees(tlb, PageOf(sr[PAGE_TABLE_ROOT]))'
    BY <1>0, QuietSound
  <1>2. /\ resv' = IF op.reserve THEN <<op.addr>> ELSE resv
        /\ regs' = WriteBack(regs, MemoryWrites(op, loaded), MemoryNextPc(op, loaded, Outputs.next_pc))
        /\ pending' = <<>> /\ st' = "FETCH_TRANSLATE" /\ locked' = locked
    BY <1>0 DEF LoadDone, Goto
  <1>3. loaded \in Word
    BY <1>0, LoadWord
  <1>4. \A r, old : old \in Word => LastWrite(MemoryWrites(op, loaded), r, old) \in Word
    BY <1>0, <1>3, MemoryWord
  <1>5. MemoryNextPc(op, loaded, Outputs.next_pc) \in Word
    BY <1>0, <1>4 DEF MemoryNextPc
  <1>6. Words
    BY <1>0 DEF Sound
  <1>7. /\ regs' \in [DOMAIN prog.regs -> Word]
        /\ 0 \in DOMAIN regs' => regs'[0] = 0
    <2>1. regs \in [DOMAIN prog.regs -> Word]
      BY <1>6 DEF Words
    <2> QED BY <1>2, <1>4, <1>5, <2>1, WriteBackType
  <1>8. Words'
    BY <1>1, <1>6, <1>7 DEF Words
  <1>9. Pending' /\ Entering' /\ Walking' /\ Phases'
    BY <1>0, <1>2 DEF Pending, Entering, Walking, Phases, States, Memories
  <1>10. Inv'
    BY <1>1, <1>8, <1>9 DEF Inv, Sound
  <1>11. Mode' = "run"
    BY <1>0, <1>2 DEF Mode
  <1>12. op.flags = <<>>
    BY <1>0 DEF IsOperation
  <1>13. /\ DoneRegs' = regs' /\ DoneMemory' = mem /\ DoneReservation' = resv' /\ DoneSpecial' = Latched(sr, lines)
    BY <1>0, <1>1, <1>2, BareDone
  <1>14. /\ DoneRegs' = WriteBack(regs, MemoryWrites(op, loaded), MemoryNextPc(op, loaded, Asked.next_pc))
         /\ DoneReservation' = IF op.reserve THEN <<op.addr>> ELSE resv
         /\ loaded = LoadBytes(mem, FirstAccess(op).phys, op.width) /\ Asked.memory = <<op>>
    BY <1>0, <1>2, <1>13
  <1>15. Arch!Next
    BY <1>0, <1>11, <1>12, <1>13, <1>14, StepMemory
  <1> QED BY <1>10, <1>15

\* A load with a chained store: the instruction counts as done.
LEMMA LoadChains ==
  ASSUME Inv, ~locked, NEW lines \in SUBSET prog.lines, st \in {"MEM_LOAD", "MEM_LOAD_SPLIT"},
         NEW op, op = pending[1].op, op.chain # <<>>, StoresMapped', StackApart',
         NEW loaded, loaded = LoadBytes(mem, pending[1].addr, op.width), Quiet(lines), LoadDone(op, loaded),
         prog' = prog, flags' = flags, mem' = mem, fetch' = fetch, instr' = instr, first' = first,
         walk' = walk, entry' = entry
  PROVE  Inv' /\ Arch!Next
  <1>0. /\ Sound /\ pending # <<>> /\ entry = <<>> /\ ~op.write /\ Plain
        /\ Decoded /\ PcMapped /\ Asked = Outputs
        /\ Outputs.memory = <<op>> /\ Outputs.next_pc = pending[1].next_pc /\ Outputs.next_pc \in Word
        /\ IsOperation(op, instr, resv)
        /\ FirstAccess(op).fault = <<>> /\ FirstAccess(op).phys = pending[1].addr
        /\ mem \in [DOMAIN prog.mem -> Byte] /\ sr \in [Selectors -> Word]
    BY LoadFacts
  <1>1. /\ sr' \in [Selectors -> Word] /\ sr' = Latched(sr, lines)
        /\ GenerationsPast(tlb)' /\ Agrees(tlb, PageOf(sr[PAGE_TABLE_ROOT]))'
    BY <1>0, QuietSound
  <1>o. /\ op.flags = <<>> /\ instr.op # "STORE" /\ op.chain[1] \in Word /\ op.dest = <<>> /\ ~op.reserve
        /\ op.post # <<>> /\ op.post = <<op.post[1]>> /\ op.post[1].value \in Word
        /\ ~op.post[1].alias /\ op.post[1].index # 15
    BY <1>0 DEF IsOperation, StackApart
  <1> DEFINE store == MemoryOp(op.chain[1], WordBytes, TRUE, loaded)
  <1>2. /\ resv' = resv /\ regs' = Moved(regs, op.post) /\ st' = "MEM_TRANSLATE" /\ locked' = locked
        /\ pending' = <<[pending[1] EXCEPT !.op = store, !.addr = op.chain[1]]>>
    BY <1>o DEF LoadDone, Goto, Moved, WriteReg
  <1>3. /\ store.addr = op.chain[1] /\ store.width = WordBytes /\ store.write = TRUE /\ store.value = loaded
        /\ store.post = <<>> /\ store.dest = <<>> /\ store.write \in BOOLEAN
    BY DEF MemoryOp
  <1> HIDE DEF store
  <1>4. /\ pending' # <<>> /\ pending' = <<pending'[1]>> /\ DOMAIN pending'[1] = {"op", "addr", "next_pc"}
        /\ pending'[1].op = store /\ pending'[1].next_pc = Outputs.next_pc
    <2>1. pending = <<pending[1]>> /\ DOMAIN pending[1] = {"op", "addr", "next_pc"}
      BY <1>0 DEF Sound, Pending
    <2> DEFINE p == pending[1]
               q == [p EXCEPT !.op = store, !.addr = op.chain[1]]
    <2>2. DOMAIN q = {"op", "addr", "next_pc"} /\ q.op = store /\ q.next_pc = p.next_pc
      BY <2>1
    <2>3. pending' = <<q>>
      BY <1>2
    <2> HIDE DEF q
    <2> QED BY <1>0, <2>2, <2>3
  <1>5. Early'
    BY <1>o, <1>3, <1>4 DEF Early
  <1>6. loaded \in Word
    BY <1>0, LoadWord
  <1>g. 15 \in DOMAIN prog.regs /\ regs \in [DOMAIN prog.regs -> Word] /\ (0 \in DOMAIN prog.regs => regs[0] = 0)
    BY <1>0, PcWord DEF Sound, Words
  <1>7. /\ regs' \in [DOMAIN prog.regs -> Word]
        /\ 0 \in DOMAIN regs' => regs'[0] = 0
    BY <1>g, <1>o, <1>2, MovedType
  <1>8. Words'
    BY <1>0, <1>1, <1>7 DEF Sound, Words
  <1>9. Pending'
    <2>1. /\ store.addr \in Word /\ store.width \in 0 .. WordBytes /\ store.value \in Word
      BY <1>o, <1>3, <1>6 DEF WordBytes
    <2>2. regs'[15] \in Word
      BY <1>7, <1>g
    <2> QED BY <1>0, <1>3, <1>4, <1>5, <2>1, <2>2 DEF Pending
  <1>10. Walking' /\ Phases' /\ Entering'
    BY <1>0, <1>2, <1>4 DEF Walking, Phases, Entering, States, Memories
  <1>11. Inv'
    BY <1>1, <1>8, <1>9, <1>10 DEF Inv, Sound
  <1>12. /\ Translate(op.chain[1], "W", sr') = Translate(op.chain[1], "W", sr)
         /\ ChainAccess(op) = Translate(op.chain[1], "W", sr)
    BY <1>0, <1>1, LatchedSame DEF ChainAccess
  <1>13. ChainAccess(op).fault = <<>> /\ Target' = ChainAccess(op).phys
    BY <1>3, <1>4, <1>5, <1>12 DEF StoresMapped, Target
  <1>14. DoneRegs' = [Moved(regs, op.post) EXCEPT ![15] = Asked.next_pc]
    BY <1>0, <1>2, <1>4, <1>5 DEF DoneRegs
  <1>15. DoneRegs' = WriteBack(regs, MemoryWrites(op, loaded), MemoryNextPc(op, loaded, Asked.next_pc))
    BY <1>g, <1>o, <1>14, MovedWriteBack
  <1>16. DoneMemory' = StoreBytes(mem, ChainAccess(op).phys, 0 .. (WordBytes - 1), loaded)
    BY <1>3, <1>4, <1>5, <1>13 DEF DoneMemory
  <1>17. DoneReservation' = AfterStore(resv, [addr |-> op.chain[1], width |-> WordBytes])
    <2>1. DoneReservation' = AfterStore(resv, store)
      BY <1>2, <1>4, <1>5 DEF DoneReservation
    <2> QED BY <1>3, <2>1 DEF AfterStore
  <1>18. DoneSpecial' = Latched(sr, lines) /\ Mode' = "run"
    BY <1>0, <1>1, <1>2 DEF DoneSpecial, Mode
  <1>19. /\ loaded = LoadBytes(mem, FirstAccess(op).phys, op.width) /\ Asked.memory = <<op>>
    BY <1>0
  <1>20. Arch!Next
    BY <1>0, <1>o, <1>13, <1>15, <1>16, <1>17, <1>18, <1>19, StepMemory
  <1> QED BY <1>11, <1>20

\* MEM_LOAD and MEM_LOAD_SPLIT: a beat of a load.
LEMMA MemLoadStep ==
  ASSUME Inv, ~locked, NEW b \in Answers, NEW lines \in SUBSET prog.lines, MemLoad(b, lines),
         StoresMapped', StackApart'
  PROVE  Inv' /\ Arch!Next
  <1> DEFINE split == st = "MEM_LOAD" /\ SplitNeeded(Beat.req)
  <1>0. /\ st \in {"MEM_LOAD", "MEM_LOAD_SPLIT"} /\ Quiet(lines)
        /\ prog' = prog /\ flags' = flags /\ mem' = mem /\ fetch' = fetch /\ instr' = instr
        /\ fault_pc' = fault_pc /\ walk' = walk /\ entry' = entry
    BY DEF MemLoad
  <1>1. PICK op : op = pending[1].op
    OBVIOUS
  <1>2. /\ Sound /\ pending # <<>> /\ entry = <<>> /\ ~op.write
        /\ pending[1].addr \in Word
    BY <1>0, <1>1, LoadFacts
  <1>3. CASE b = "err"
    <2>1. locked' = TRUE
      BY <1>3 DEF MemLoad, EnterLockup
    <2>2. prog.faulty /\ st # "HALTED"
      BY <1>0, <1>3, ErrorFaulty
    <2> QED BY <1>0, <2>1, <2>2, LockStep
  <1>4. CASE b # "err" /\ split
    <2>1. /\ first' = [data |-> BusWord(mem, pending[1].addr), cycle |-> TRUE]
          /\ st' = "MEM_LOAD_SPLIT" /\ locked' = locked
          /\ regs' = regs /\ resv' = resv /\ pending' = pending
      BY <1>4 DEF MemLoad, Goto
    <2>2. DOMAIN first' = {"data", "cycle"} /\ first'.data = BusWord(mem, pending[1].addr)
      BY <2>1
    <2>3. /\ sr \in [Selectors -> Word] /\ sr' = Latched(sr, lines)
          /\ GenerationsPast(tlb)' /\ Agrees(tlb, PageOf(sr[PAGE_TABLE_ROOT]))'
      BY <1>0, <1>2, QuietSound
    <2>4. \A va, a : Translate(va, a, sr') = Translate(va, a, sr)
      BY <2>3, LatchedSame
    <2>5. Reached("R")'
      BY <1>0, <1>2, <2>1, <2>4 DEF Sound, Phases, Reached
    <2>6. SplitNeeded(Beat.req)'
      BY <1>4, <2>1 DEF Beat
    <2>7. Phases' /\ Walking'
      BY <1>0, <1>1, <1>2, <2>1, <2>2, <2>5, <2>6 DEF Phases, Walking, States, Memories
    <2>8. st # "HALTED" /\ fetch \in [pc : Word, phys : Word]
      BY <1>0, <1>2 DEF Sound, Words
    <2> HIDE DEF split
    <2> QED BY <1>0, <2>1, <2>2, <2>3, <2>7, <2>8, GoOn
  <1>5. CASE b # "err" /\ ~split
    <2>1. LoadDone(op, LsuLoad(Beat, mem)) /\ first' = first
      BY <1>1, <1>5 DEF MemLoad
    <2>2. LsuLoad(Beat, mem) = LoadBytes(mem, pending[1].addr, op.width)
      BY <1>0, <1>1, <1>2, <1>5, LoadReturns
    <2>3. PICK loaded : loaded = LoadBytes(mem, pending[1].addr, op.width)
      OBVIOUS
    <2>4. LoadDone(op, loaded)
      BY <2>1, <2>2, <2>3
    <2>5. CASE op.chain = <<>>
      BY <1>0, <1>1, <2>1, <2>3, <2>4, <2>5, LoadEnds
    <2>6. CASE op.chain # <<>>
      BY <1>0, <1>1, <2>1, <2>3, <2>4, <2>6, LoadChains
    <2> QED BY <2>5, <2>6
  <1> QED BY <1>3, <1>4, <1>5

\* the lanes of the beats of a store
LEMMA StoreLanes ==
  ASSUME Inv, ~locked, st \in {"MEM_STORE", "MEM_STORE_SPLIT"}, NEW a, a = pending[1].addr, a \in Word,
         NEW w, w = pending[1].op.width, w \in 0 .. WordBytes
  PROVE  LET r == Room(Beat.req) IN
         /\ r = WordBytes - (a % WordBytes) /\ r \in 1 .. 4
         /\ SplitNeeded(Beat.req) <=> w > r
         /\ st = "MEM_STORE_SPLIT" => w > r /\ BeatLanes(Beat) = r .. (w - 1)
         /\ st = "MEM_STORE" /\ w > r => BeatLanes(Beat) = 0 .. (r - 1)
         /\ st = "MEM_STORE" /\ ~(w > r) => BeatLanes(Beat) = 0 .. (w - 1)
  <1> DEFINE r == Room(Beat.req)
             l == Beat
  <1>1. l.req.addr = a /\ l.req.width = w /\ l.req.kind = "data"
        /\ l.st = IF st \in {"MEM_LOAD_SPLIT", "MEM_STORE_SPLIT"} THEN "SECOND" ELSE "FIRST"
    BY BeatFields
  <1>2. st = "MEM_STORE_SPLIT" => SplitNeeded(l.req)
    BY DEF Inv, Sound, Phases
  <1> HIDE DEF l
  <1>3. Room(l.req) = WordBytes - (a % WordBytes) /\ (SplitNeeded(l.req) <=> w > Room(l.req))
    BY <1>1 DEF Room, SplitNeeded
  <1>4. WordBytes - (a % WordBytes) \in 1 .. 4
    BY DEF WordBytes, Word
  <1>5. /\ SplitNeeded(l.req) /\ l.st = "SECOND" => BeatLanes(l) = Room(l.req) .. (w - 1)
        /\ SplitNeeded(l.req) /\ l.st = "FIRST" => BeatLanes(l) = 0 .. (Room(l.req) - 1)
        /\ ~SplitNeeded(l.req) => BeatLanes(l) = 0 .. (w - 1)
    BY <1>1 DEF BeatLanes
  <1>6. r = Room(l.req) /\ l = Beat
    BY DEF l
  <1> HIDE DEF r
  <1>7. CASE st = "MEM_STORE_SPLIT"
    BY <1>1, <1>2, <1>3, <1>4, <1>5, <1>6, <1>7 DEF r
  <1>8. CASE st = "MEM_STORE"
    BY <1>1, <1>3, <1>4, <1>5, <1>6, <1>8 DEF r
  <1> QED BY <1>7, <1>8

\* the state a store is in: undecided, or of an instruction that counts as
\* done; at an address that translates
LEMMA StoreFacts ==
  ASSUME Inv, ~locked, st \in {"MEM_STORE", "MEM_STORE_SPLIT"}, NEW op, op = pending[1].op
  PROVE  /\ Sound /\ pending # <<>> /\ entry = <<>> /\ op.write
         /\ op.post = <<>> /\ op.dest = <<>>
         /\ op.addr \in Word /\ op.width \in 0 .. WordBytes /\ op.value \in Word
         /\ pending[1].next_pc \in Word /\ pending[1].addr \in Word
         /\ FirstAccess(op).fault = <<>> /\ FirstAccess(op).phys = pending[1].addr /\ Target = pending[1].addr
         /\ sr \in [Selectors -> Word] /\ mem \in [DOMAIN prog.mem -> Byte]
         /\ ~Early => /\ Plain /\ Decoded /\ PcMapped /\ Asked = Outputs
                      /\ Outputs.memory = <<op>> /\ Outputs.next_pc = pending[1].next_pc
                      /\ op.flags = <<>> /\ op.chain = <<>>
  <1>1. /\ Sound /\ pending # <<>> /\ entry = <<>> /\ op.write /\ Reached("W") /\ sr \in [Selectors -> Word]
        /\ mem \in [DOMAIN prog.mem -> Byte] /\ Words
    BY DEF Inv, Sound, Phases, Memories, Words
  <1>2. /\ op.addr \in Word /\ op.width \in 0 .. WordBytes /\ op.value \in Word
        /\ pending[1].next_pc \in Word
    BY <1>1 DEF Sound, Pending
  <1>3. /\ Translate(op.addr, "W", sr) = [phys |-> pending[1].addr, fault |-> <<>>]
        /\ FirstAccess(op) = Translate(op.addr, "W", sr) /\ Target = Translate(op.addr, "W", sr).phys
    BY <1>1 DEF Reached, FirstAccess, Target
  <1>4. FirstAccess(op).fault = <<>> /\ FirstAccess(op).phys = pending[1].addr /\ Target = pending[1].addr
    BY <1>3
  <1>5. pending[1].addr \in Word
    <2>1. FirstAccess(op).phys \in Word
      BY <1>2, TranslateType DEF FirstAccess
    <2> QED BY <1>4, <2>1
  <1>6. CASE Early
    <2>1. op.post = <<>> /\ op.dest = <<>>
      BY <1>1, <1>6 DEF Sound, Pending
    <2> QED BY <1>1, <1>2, <1>4, <1>5, <1>6, <2>1
  <1>7. CASE ~Early
    <2>1. /\ Decoded /\ Outputs.memory = <<op>> /\ Outputs.next_pc = pending[1].next_pc
      BY <1>1, <1>7 DEF Sound, Pending
    <2>2. PcMapped /\ Asked = Outputs /\ Plain
      BY <1>1, <1>7, <2>1, ExecuteAsked DEF Plain
    <2>3. Outputs.memory # <<>> /\ Outputs.memory[1] = op
      BY <2>1
    <2>4. PICK x : Outputs.memory = <<x>> /\ IsOperation(x, instr, resv)
      BY <1>1, <2>3, OutputsResult DEF Asks
    <2>5. x = op /\ instr.op = "STORE"
      BY <1>1, <1>7, <2>3, <2>4 DEF Early
    <2>6. op.post = <<>> /\ op.dest = <<>> /\ op.flags = <<>> /\ op.chain = <<>>
      BY <1>1, <2>4, <2>5 DEF IsOperation
    <2> QED BY <1>1, <1>2, <1>4, <1>5, <1>7, <2>1, <2>2, <2>6
  <1> QED BY <1>6, <1>7

\* The first beat of a store that crosses a bus word
LEMMA StoreBegins ==
  ASSUME Inv, ~locked, NEW lines \in SUBSET prog.lines, st = "MEM_STORE", SplitNeeded(Beat.req),
         NEW op, op = pending[1].op, Quiet(lines),
         mem' = StoreBytes(mem, pending[1].addr, BeatLanes(Beat), op.value),
         DOMAIN first' = {"data", "cycle"}, st' = "MEM_STORE_SPLIT", locked' = locked,
         prog' = prog, regs' = regs, flags' = flags, resv' = resv, pending' = pending,
         fetch' = fetch, instr' = instr, fault_pc' = fault_pc, walk' = walk, entry' = entry
  PROVE  Inv' /\ Arch!Next
  <1>0. /\ Sound /\ pending # <<>> /\ entry = <<>> /\ op.write
        /\ op.width \in 0 .. WordBytes /\ op.value \in Word /\ pending[1].addr \in Word
        /\ FirstAccess(op).fault = <<>> /\ FirstAccess(op).phys = pending[1].addr /\ Target = pending[1].addr
        /\ sr \in [Selectors -> Word] /\ mem \in [DOMAIN prog.mem -> Byte]
        /\ ~Early => /\ Plain /\ Decoded /\ PcMapped /\ Asked = Outputs
                     /\ Outputs.memory = <<op>> /\ op.flags = <<>> /\ op.chain = <<>>
    BY StoreFacts
  <1>1. /\ sr' \in [Selectors -> Word] /\ sr' = Latched(sr, lines)
        /\ GenerationsPast(tlb)' /\ Agrees(tlb, PageOf(sr[PAGE_TABLE_ROOT]))'
    BY <1>0, QuietSound
  <1>2. PICK a, r, w, v : a = pending[1].addr /\ r = Room(Beat.req) /\ w = op.width /\ v = op.value
    OBVIOUS
  <1>3. /\ r = WordBytes - (a % WordBytes) /\ r \in 1 .. 4 /\ w > r /\ BeatLanes(Beat) = 0 .. (r - 1)
        /\ w \in 0 .. WordBytes
    BY <1>0, <1>2, StoreLanes
  <1>4. mem' = StoreBytes(mem, a, 0 .. (r - 1), v)
    BY <1>2, <1>3
  <1>5. 0 .. (r - 1) \subseteq 0 .. 3
    BY <1>3
  <1>6. mem' \in [DOMAIN prog.mem -> Byte]
    <2>1. PICK D, lanes : D = DOMAIN prog.mem /\ lanes = 0 .. (r - 1)
      OBVIOUS
    <2>2. mem \in [D -> Byte] /\ lanes \subseteq 0 .. 3 /\ v \in Word
      BY <1>0, <1>2, <1>5, <2>1
    <2>3. StoreBytes(mem, a, lanes, v) \in [D -> Byte]
      BY <2>2, StoreBytesType
    <2> QED BY <1>4, <2>1, <2>3
  <1>7. Words'
    BY <1>0, <1>1, <1>6 DEF Sound, Words
  <1>8. Pending' /\ Early' = Early
    BY <1>0, <1>1, PendingKept
  <1>9. mem' = StoreBytes(mem', a, 0 .. (r - 1), v)
    <2>1. PICK lanes : lanes = 0 .. (r - 1)
      OBVIOUS
    <2>2. lanes = lanes \cup lanes
      OBVIOUS
    <2>3. mem' = StoreBytes(mem, a, lanes, v)
      BY <1>4, <2>1
    <2>4. StoreBytes(StoreBytes(mem, a, lanes, v), a, lanes, v) = StoreBytes(mem, a, lanes, v)
      BY <2>2, StoreTwice
    <2> QED BY <2>1, <2>3, <2>4
  <1>10. Beat.req' = Beat.req
    BY DEF Beat
  <1>11. \A va, x : Translate(va, x, sr') = Translate(va, x, sr)
    BY <1>0, <1>1, LatchedSame
  <1>12. Reached("W")'
    BY <1>0, <1>11 DEF Sound, Phases, Reached
  <1>13. Phases' /\ Walking'
    <2>1. SplitNeeded(Beat.req)' /\ Room(Beat.req)' = r
      BY <1>2, <1>10
    <2>2. pending'[1].addr = a /\ pending'[1].op.value = v /\ pending'[1].op.write
      BY <1>0, <1>2
    <2> QED BY <1>0, <1>9, <1>12, <2>1, <2>2 DEF Phases, Walking, States, Memories
  <1>14. Entering'
    BY <1>0 DEF Entering
  <1>15. Inv'
    BY <1>1, <1>7, <1>8, <1>13, <1>14 DEF Inv, Sound
  <1>16. Mode' = "run" /\ Mode = "run" /\ DoneSpecial' = Latched(sr, lines) /\ DoneSpecial = sr
    BY <1>0, <1>1 DEF Mode, DoneSpecial
  <1>17. CASE ~Early
    <2>1. DoneRegs' = regs /\ DoneReservation' = resv /\ DoneMemory' = mem'
      BY <1>8, <1>17 DEF DoneRegs, DoneReservation, DoneMemory
    <2>2. /\ r = WordBytes - (FirstAccess(op).phys % WordBytes) /\ r < op.width
          /\ DoneMemory' = StoreBytes(mem, FirstAccess(op).phys, 0 .. (r - 1), op.value)
          /\ Asked.memory = <<op>>
      BY <1>0, <1>2, <1>3, <1>4, <1>17, <2>1
    <2>3. Arch!Next
      BY <1>0, <1>16, <1>17, <2>1, <2>2, StepBeat
    <2> QED BY <1>15, <2>3
  <1>18. CASE Early
    <2>1. DoneRegs' = DoneRegs /\ DoneReservation' = DoneReservation
      BY <1>8, <1>18 DEF DoneRegs, DoneReservation
    <2>2. Target' = a
      BY <1>0, <1>2, <1>11 DEF Target
    <2>3. PICK one, all : one = 0 .. (r - 1) /\ all = 0 .. (w - 1)
      OBVIOUS
    <2>4. DoneMemory' = StoreBytes(mem', a, all, v) /\ DoneMemory = StoreBytes(mem, a, all, v)
      BY <1>0, <1>2, <1>8, <1>18, <2>2, <2>3 DEF DoneMemory
    <2>5. all = one \cup all
      BY <1>3, <2>3 DEF WordBytes
    <2>6. StoreBytes(StoreBytes(mem, a, one, v), a, all, v) = StoreBytes(mem, a, all, v)
      BY <2>5, StoreTwice
    <2>7. DoneMemory' = DoneMemory
      BY <1>4, <2>3, <2>4, <2>6
    <2>8. Arch!Next
      BY <1>16, <2>1, <2>7, StepIdle
    <2> QED BY <1>15, <2>8
  <1> QED BY <1>17, <1>18

\* After the last beat of a store all its bytes are in memory.
LEMMA StoreWhole ==
  ASSUME Inv, ~locked, st \in {"MEM_STORE", "MEM_STORE_SPLIT"}, ~(st = "MEM_STORE" /\ SplitNeeded(Beat.req)),
         NEW op, op = pending[1].op,
         mem' = StoreBytes(mem, pending[1].addr, BeatLanes(Beat), op.value)
  PROVE  /\ mem' = StoreBytes(mem, pending[1].addr, 0 .. (op.width - 1), op.value)
         /\ mem' \in [DOMAIN prog.mem -> Byte]
  <1>0. /\ op.width \in 0 .. WordBytes /\ op.value \in Word /\ pending[1].addr \in Word
        /\ mem \in [DOMAIN prog.mem -> Byte]
    BY StoreFacts
  <1>2. PICK a, r, w, v : a = pending[1].addr /\ r = Room(Beat.req) /\ w = op.width /\ v = op.value
    OBVIOUS
  <1>3. /\ r \in 1 .. 4 /\ w \in 0 .. WordBytes
        /\ SplitNeeded(Beat.req) <=> w > r
        /\ st = "MEM_STORE_SPLIT" => w > r /\ BeatLanes(Beat) = r .. (w - 1)
        /\ st = "MEM_STORE" /\ ~(w > r) => BeatLanes(Beat) = 0 .. (w - 1)
    BY <1>0, <1>2, StoreLanes
  <1>4. PICK one, all, rest : one = 0 .. (r - 1) /\ all = 0 .. (w - 1) /\ rest = r .. (w - 1)
    OBVIOUS
  <1>5. mem' = StoreBytes(mem, a, all, v)
    <2>1. CASE st = "MEM_STORE"
      BY <1>2, <1>3, <1>4, <2>1
    <2>2. CASE st = "MEM_STORE_SPLIT"
      <3>1. mem' = StoreBytes(mem, a, rest, v)
        BY <1>2, <1>3, <1>4, <2>2
      <3>2. mem = StoreBytes(mem, a, one, v)
        BY <1>2, <1>4, <2>2 DEF Inv, Sound, Phases
      <3>3. all = one \cup rest
        BY <1>3, <1>4, <2>2 DEF WordBytes
      <3>4. StoreBytes(StoreBytes(mem, a, one, v), a, rest, v) = StoreBytes(mem, a, all, v)
        BY <3>3, StoreTwice
      <3> QED BY <3>1, <3>2, <3>4
    <2> QED BY <2>1, <2>2
  <1>6. all \subseteq 0 .. 3
    BY <1>3, <1>4 DEF WordBytes
  <1>7. PICK D : D = DOMAIN prog.mem
    OBVIOUS
  <1>8. StoreBytes(mem, a, all, v) \in [D -> Byte]
    <2>1. mem \in [D -> Byte] /\ v \in Word
      BY <1>0, <1>2, <1>7
    <2> QED BY <1>6, <2>1, StoreBytesType
  <1> QED BY <1>2, <1>4, <1>5, <1>7, <1>8

\* The last beat of a store
LEMMA StoreEnds ==
  ASSUME Inv, ~locked, NEW lines \in SUBSET prog.lines, st \in {"MEM_STORE", "MEM_STORE_SPLIT"},
         ~(st = "MEM_STORE" /\ SplitNeeded(Beat.req)),
         NEW op, op = pending[1].op, Quiet(lines),
         mem' = StoreBytes(mem, pending[1].addr, BeatLanes(Beat), op.value),
         resv' = AfterStore(resv, op), regs' = WriteBack(regs, MemoryWrites(op, 0), pending[1].next_pc),
         pending' = <<>>, st' = "FETCH_TRANSLATE", locked' = locked,
         prog' = prog, flags' = flags, first' = first, fetch' = fetch, instr' = instr, entry' = entry
  PROVE  Inv' /\ Arch!Next
  <1>0. /\ Sound /\ pending # <<>> /\ entry = <<>> /\ op.write
        /\ op.post = <<>> /\ op.dest = <<>> /\ pending[1].next_pc \in Word
        /\ FirstAccess(op).fault = <<>> /\ FirstAccess(op).phys = pending[1].addr /\ Target = pending[1].addr
        /\ sr \in [Selectors -> Word]
        /\ ~Early => /\ Plain /\ Decoded /\ PcMapped /\ Asked = Outputs
                     /\ Outputs.memory = <<op>> /\ Outputs.next_pc = pending[1].next_pc
                     /\ op.flags = <<>> /\ op.chain = <<>>
    BY StoreFacts
  <1>1. /\ sr' \in [Selectors -> Word] /\ sr' = Latched(sr, lines)
        /\ GenerationsPast(tlb)' /\ Agrees(tlb, PageOf(sr[PAGE_TABLE_ROOT]))'
    BY <1>0, QuietSound
  <1>2. /\ mem' = StoreBytes(mem, pending[1].addr, 0 .. (op.width - 1), op.value)
        /\ mem' \in [DOMAIN prog.mem -> Byte]
    BY StoreWhole
  <1>g. 15 \in DOMAIN prog.regs /\ regs \in [DOMAIN prog.regs -> Word] /\ (0 \in DOMAIN prog.regs => regs[0] = 0)
    BY <1>0, PcWord DEF Sound, Words
  <1>3. \A loaded : /\ MemoryWrites(op, loaded) = <<>>
                    /\ MemoryNextPc(op, loaded, pending[1].next_pc) = pending[1].next_pc
    BY <1>0 DEF MemoryWrites, MemoryNextPc, LastWrite
  <1>4. regs' = WriteBack(regs, <<>>, pending[1].next_pc)
    BY <1>3
  <1>5. regs' = [regs EXCEPT ![15] = pending[1].next_pc]
    <2>1. [Moved(regs, op.post) EXCEPT ![15] = pending[1].next_pc]
            = WriteBack(regs, MemoryWrites(op, 0), MemoryNextPc(op, 0, pending[1].next_pc))
      BY <1>0, <1>g, MovedWriteBack
    <2>2. Moved(regs, op.post) = regs
      BY <1>0 DEF Moved
    <2> QED BY <1>3, <1>4, <2>1, <2>2
  <1>6. /\ regs' \in [DOMAIN prog.regs -> Word]
        /\ 0 \in DOMAIN regs' => regs'[0] = 0
    BY <1>0, <1>5, <1>g
  <1>7. Words'
    BY <1>0, <1>1, <1>2, <1>6 DEF Sound, Words
  <1>8. Pending' /\ Entering' /\ Walking' /\ Phases'
    BY <1>0 DEF Pending, Entering, Walking, Phases, States, Memories
  <1>9. Inv'
    BY <1>1, <1>7, <1>8 DEF Inv, Sound
  <1>10. Mode' = "run" /\ Mode = "run" /\ DoneSpecial = sr
    BY <1>0 DEF Mode, DoneSpecial, Sound, Phases, Memories
  <1>11. DoneRegs' = regs' /\ DoneMemory' = mem' /\ DoneReservation' = resv' /\ DoneSpecial' = Latched(sr, lines)
    BY <1>0, <1>1 DEF DoneRegs, DoneMemory, DoneReservation, DoneSpecial, Early
  <1>12. CASE ~Early
    <2>1. PICK loaded : loaded = LoadBytes(mem, FirstAccess(op).phys, op.width)
      OBVIOUS
    <2>2. DoneRegs' = WriteBack(regs, MemoryWrites(op, loaded), MemoryNextPc(op, loaded, Asked.next_pc))
      BY <1>0, <1>3, <1>4, <1>11, <1>12
    <2>3. DoneReservation' = AfterStore(resv, [addr |-> op.addr, width |-> op.width])
      <3>1. PICK aw : aw = [addr |-> op.addr, width |-> op.width]
        OBVIOUS
      <3>2. aw.addr = op.addr /\ aw.width = op.width
        BY <3>1
      <3>3. AfterStore(resv, op) = AfterStore(resv, aw)
        BY <3>2 DEF AfterStore
      <3> QED BY <1>11, <3>1, <3>3
    <2>4. DoneMemory' = StoreBytes(mem, FirstAccess(op).phys, 0 .. (op.width - 1), op.value)
      BY <1>0, <1>2, <1>11
    <2>5. Asked.memory = <<op>>
      BY <1>0, <1>12
    <2>6. Arch!Next
      BY <1>0, <1>10, <1>11, <1>12, <2>1, <2>2, <2>3, <2>4, <2>5, StepMemory
    <2> QED BY <1>9, <2>6
  <1>13. CASE Early
    <2>1. DoneRegs' = DoneRegs
      BY <1>5, <1>11, <1>13 DEF DoneRegs
    <2>2. DoneMemory' = DoneMemory
      BY <1>0, <1>2, <1>11, <1>13 DEF DoneMemory
    <2>3. DoneReservation' = DoneReservation
      BY <1>11, <1>13 DEF DoneReservation
    <2>4. Arch!Next
      BY <1>10, <1>11, <2>1, <2>2, <2>3, StepIdle
    <2> QED BY <1>9, <2>4
  <1> QED BY <1>12, <1>13

\* MEM_STORE and MEM_STORE_SPLIT: a beat of a store.
LEMMA MemStoreStep ==
  ASSUME Inv, ~locked, NEW b \in Answers, NEW lines \in SUBSET prog.lines, MemStore(b, lines)
  PROVE  Inv' /\ Arch!Next
  <1> DEFINE split == st = "MEM_STORE" /\ SplitNeeded(Beat.req)
  <1>0. /\ st \in {"MEM_STORE", "MEM_STORE_SPLIT"} /\ Quiet(lines)
        /\ prog' = prog /\ flags' = flags /\ fetch' = fetch /\ instr' = instr
        /\ fault_pc' = fault_pc /\ walk' = walk /\ entry' = entry
    BY DEF MemStore
  <1>1. PICK op : op = pending[1].op
    OBVIOUS
  <1>3. CASE b = "err"
    <2>1. locked' = TRUE
      BY <1>3 DEF MemStore, EnterLockup
    <2>2. prog.faulty /\ st # "HALTED"
      BY <1>0, <1>3, ErrorFaulty
    <2> QED BY <1>0, <2>1, <2>2, LockStep
  <1>4. CASE b # "err" /\ split
    <2>1. /\ first' = [first EXCEPT !.cycle = TRUE]
          /\ mem' = StoreBytes(mem, pending[1].addr, BeatLanes(Beat), op.value)
          /\ st' = "MEM_STORE_SPLIT" /\ locked' = locked
          /\ regs' = regs /\ resv' = resv /\ pending' = pending
      BY <1>1, <1>4 DEF MemStore, Goto
    <2>2. DOMAIN first' = {"data", "cycle"}
      BY <2>1 DEF Inv, Sound, Words
    <2> QED BY <1>0, <1>1, <1>4, <2>1, <2>2, StoreBegins
  <1>5. CASE b # "err" /\ ~split
    <2>1. /\ mem' = StoreBytes(mem, pending[1].addr, BeatLanes(Beat), op.value)
          /\ resv' = AfterStore(resv, op) /\ regs' = WriteBack(regs, MemoryWrites(op, 0), pending[1].next_pc)
          /\ pending' = <<>> /\ st' = "FETCH_TRANSLATE" /\ locked' = locked /\ first' = first
      BY <1>1, <1>5 DEF MemStore, Goto
    <2> QED BY <1>0, <1>1, <1>5, <2>1, StoreEnds
  <1> QED BY <1>3, <1>4, <1>5

\* the interrupt table entry of the entry under way is at a word address
LEMMA TableWord ==
  ASSUME sr \in [Selectors -> Word], Entering, entry # <<>>
  PROVE  TableVa \in Word
  <1>1. sr[INTERRUPT_TABLE_BASE] \in Word /\ sr[CPU_CONTROL] \in Word
    BY DEF INTERRUPT_TABLE_BASE, CPU_CONTROL, Selectors
  <1>2. sr[INTERRUPT_TABLE_BASE] \in Int /\ sr[CPU_CONTROL] \in Int
    BY <1>1, WordInt
  <1>3. entry[1].vector \in Int
    BY <1>2 DEF Entering, CurInt
  <1> QED BY <1>2, <1>3, PlusWord DEF TableVa

\* A vector that cannot be reached locks the core up.
LEMMA VectorLocks ==
  ASSUME Inv, ~locked, st # "HALTED", entry # <<>>, locked' = TRUE, prog' = prog,
         TableEntry.fault # <<>> \/ HandlerAt(TableEntry.phys) = 0
  PROVE  Inv' /\ Arch!Next
  <1>1. Inv'
    BY DEF Inv
  <1>2. Mode' = "locked" /\ Mode = "entry"
    BY DEF Mode
  <1>3. sr \in [Selectors -> Word] /\ Entering
    BY DEF Inv, Sound, Words
  <1>4. Arch!Next
    BY <1>2, <1>3, StepLockup
  <1> QED BY <1>1, <1>4

\* INTERRUPT_VECTOR_TRANSLATE: the address of the table entry.
LEMMA InterruptVectorTranslateStep ==
  ASSUME Inv, ~locked, NEW lines \in SUBSET prog.lines, InterruptVectorTranslate(lines)
  PROVE  Inv' /\ Arch!Next
  <1> DEFINE va == TableVa
             xl == Translation(va, "R")
  <1>0. /\ st = "INTERRUPT_VECTOR_TRANSLATE" /\ Quiet(lines)
        /\ prog' = prog /\ regs' = regs /\ flags' = flags /\ resv' = resv /\ mem' = mem
        /\ fetch' = fetch /\ instr' = instr /\ fault_pc' = fault_pc /\ first' = first /\ pending' = pending
    BY DEF InterruptVectorTranslate, arch
  <1>1. /\ Sound /\ pending = <<>> /\ entry # <<>> /\ Entering
        /\ fetch \in [pc : Word, phys : Word] /\ DOMAIN first = {"data", "cycle"}
    BY <1>0 DEF Inv, Sound, Phases, Words
  <1>2. /\ sr \in [Selectors -> Word] /\ sr' = Latched(sr, lines)
        /\ GenerationsPast(tlb)' /\ Agrees(tlb, PageOf(sr[PAGE_TABLE_ROOT]))'
    BY <1>0, <1>1, QuietSound
  <1>3. va \in Word
    BY <1>1, <1>2, TableWord
  <1>4. /\ \A a, x : Translate(a, x, sr') = Translate(a, x, sr)
        /\ sr'[CPU_CONTROL] = sr[CPU_CONTROL] /\ sr'[INTERRUPT_TABLE_BASE] = sr[INTERRUPT_TABLE_BASE]
    BY <1>2, LatchedSame
  <1>c. /\ xl = "fault" => EnterLockup /\ UNCHANGED <<entry, walk>>
        /\ xl = "done" => /\ entry' = <<[entry[1] EXCEPT !.phys = Physical(va)]>>
                          /\ Goto("INTERRUPT_VECTOR_LOAD") /\ UNCHANGED walk
        /\ xl = "walk" => StartWalk(va, "R", "INTERRUPT_VECTOR_LOAD") /\ UNCHANGED entry
    BY DEF InterruptVectorTranslate, TableVa
  <1>x. /\ xl \in {"done", "fault", "walk"}
        /\ xl = "done" => Translate(va, "R", sr) = [phys |-> Physical(va), fault |-> <<>>]
        /\ xl = "fault" => EntryFault(va, sr) # <<>> /\ Translate(va, "R", sr).fault = EntryFault(va, sr)
        /\ xl = "walk" => Paging /\ EntryFault(va, sr) = <<>>
    BY <1>1, <1>3, TranslationMeans DEF Sound
  <1> HIDE DEF xl
  <1>5. CASE xl = "fault"
    <2>1. locked' = TRUE
      BY <1>5, <1>c DEF EnterLockup
    <2>2. TableEntry.fault # <<>>
      BY <1>5, <1>x DEF TableEntry
    <2> QED BY <1>0, <1>1, <2>1, <2>2, VectorLocks
  <1>6. CASE xl = "done"
    <2>1. /\ entry' = <<[entry[1] EXCEPT !.phys = Physical(va)]>>
          /\ st' = "INTERRUPT_VECTOR_LOAD" /\ locked' = locked
      BY <1>6, <1>c DEF Goto
    <2>2. /\ entry' # <<>> /\ entry'[1].vector = entry[1].vector /\ entry'[1].phys = Physical(va)
      <3>1. DOMAIN entry[1] = {"vector", "epc", "phys"}
        BY <1>1 DEF Entering
      <3> DEFINE p == entry[1]
                 q == [p EXCEPT !.phys = Physical(va)]
      <3>2. q.vector = p.vector /\ q.phys = Physical(va)
        BY <3>1
      <3>3. entry' = <<q>>
        BY <2>1
      <3> HIDE DEF q
      <3> QED BY <3>2, <3>3
    <2>3. TableVa' = va
      BY <1>4, <2>2 DEF TableVa
    <2>4. Translate(TableVa', "R", sr') = [phys |-> entry'[1].phys, fault |-> <<>>]
      BY <1>4, <1>6, <1>x, <2>2, <2>3
    <2>5. Walking' /\ Phases'
      BY <1>0, <1>1, <2>1, <2>2, <2>4 DEF Walking, Phases, States, Memories
    <2>6. PICK phys : entry' = <<[entry[1] EXCEPT !.phys = phys]>>
      BY <2>1
    <2>7. st # "HALTED" /\ st' # "HALTED"
      BY <1>0, <2>1
    <2> QED BY <1>0, <1>1, <1>2, <2>1, <2>5, <2>6, <2>7, GoOn
  <1>7. CASE xl = "walk"
    <2>1. StartWalk(va, "R", "INTERRUPT_VECTOR_LOAD") /\ entry' = entry
      BY <1>7, <1>c
    <2>2. Paging /\ EntryFault(va, sr) = <<>>
      BY <1>7, <1>x
    <2>3. TableVa' = va
      BY <1>4, <2>1 DEF TableVa
    <2>4. Walking' /\ Phases' /\ st' = "WALK" /\ locked' = locked
      BY <1>0, <1>1, <1>3, <2>1, <2>2, <2>3, WalkStarts
    <2> QED BY <1>0, <1>1, <1>2, <2>1, <2>4, GoOn
  <1> QED BY <1>5, <1>6, <1>7, <1>x

\* The handler's address is in the table: the handler starts.
LEMMA HandlerStarts ==
  ASSUME Inv, ~locked, NEW lines \in SUBSET prog.lines, st = "INTERRUPT_VECTOR_LOAD",
         NEW handler, handler = HandlerAt(entry[1].phys), handler # 0,
         Clock(<<>>, <<>>, <<entry[1].epc, FlagsWord(flags)>>, <<>>, <<>>, <<>>, lines),
         regs' = [regs EXCEPT ![15] = handler], entry' = <<>>, st' = "FETCH_TRANSLATE", locked' = locked,
         prog' = prog, flags' = flags, resv' = resv, mem' = mem,
         fetch' = fetch, instr' = instr, pending' = pending, first' = first
  PROVE  Inv' /\ Arch!Next
  <1>0. /\ Sound /\ pending = <<>> /\ entry # <<>> /\ Entering /\ Words /\ sr \in [Selectors -> Word]
        /\ Translate(TableVa, "R", sr) = [phys |-> entry[1].phys, fault |-> <<>>]
    BY DEF Inv, Sound, Phases, Words
  <1>1. TableEntry.fault = <<>> /\ TableEntry.phys = entry[1].phys
    BY <1>0 DEF TableEntry
  <1>2. PICK e, f : e = entry[1].epc /\ f = FlagsWord(flags)
    OBVIOUS
  <1>3. e \in Word /\ f \in Word
    BY <1>0, <1>2, FlagsWordType DEF Entering
  <1>4. sr' = Latched(Saved(sr, e, f), lines)
    <2>1. sr' = SpecialClock(sr, <<>>, <<>>, <<e, f>>, <<>>, <<>>, lines)
      BY <1>2 DEF Clock, BasicSpecialClock
    <2> QED BY <2>1 DEF SpecialClock, Latched, Saved
  <1>5. tlb' = tlb
    <2>1. ~TlbFlush(<<>>, <<>>)
      BY DEF TlbFlush
    <2> QED BY <2>1 DEF Clock, BasicTlbClock, TlbClock
  <1>6. PICK s : s = Saved(sr, e, f)
    OBVIOUS
  <1>7. s \in [Selectors -> Word] /\ s[PAGE_TABLE_ROOT] = sr[PAGE_TABLE_ROOT]
    <2>1. s \in [Selectors -> Word]
      BY <1>0, <1>3, <1>6, SavedType
    <2>2. DOMAIN sr = Selectors
      BY <1>0
    <2> QED BY <1>6, <2>1, <2>2, SavedFile DEF PAGE_TABLE_ROOT, INTERRUPT_EPC, INTERRUPT_EFLAGS, Selectors
  <1>8. sr' \in [Selectors -> Word]
    BY <1>4, <1>6, <1>7, LatchedType
  <1>9. sr'[PAGE_TABLE_ROOT] = sr[PAGE_TABLE_ROOT]
    BY <1>4, <1>6, <1>7, LatchedFile DEF PAGE_TABLE_ROOT, INTERRUPT_STATES_HIGH, Selectors
  <1>10. GenerationsPast(tlb)' /\ Agrees(tlb, PageOf(sr[PAGE_TABLE_ROOT]))'
    BY <1>0, <1>5, <1>9 DEF Sound
  <1>11. handler \in Word
    <2>1. entry[1].phys \in Word
      <3>1. Translate(TableVa, "R", sr).phys \in Word
        BY <1>0, TableWord, TranslateType
      <3> QED BY <1>0, <3>1
    <2>2. entry[1].phys % 16 \in 0 .. 15
      <3>1. entry[1].phys \in Int
        BY <2>1, WordInt
      <3> QED BY <3>1
    <2> QED BY <2>2, L64Assumption DEF HandlerAt, PageBytes, Word
  <1>12. Words'
    <2>1. regs \in [DOMAIN prog.regs -> Word] /\ (0 \in DOMAIN regs => regs[0] = 0)
      BY <1>0 DEF Words
    <2>2. regs' \in [DOMAIN prog.regs -> Word] /\ (0 \in DOMAIN regs' => regs'[0] = 0)
      <3>1. PICK g, h, D : g = regs /\ h = handler /\ D = DOMAIN prog.regs
        OBVIOUS
      <3>2. g \in [D -> Word] /\ (0 \in D => g[0] = 0) /\ h \in Word
        BY <1>11, <2>1, <3>1
      <3>3. PICK n : n = [g EXCEPT ![15] = h]
        OBVIOUS
      <3>5. n \in [D -> Word]
        BY <3>2, <3>3
      <3>6. 0 \in D => n[0] = 0
        BY <3>2, <3>3
      <3>4. regs' = [g EXCEPT ![15] = h] /\ DOMAIN regs' = D
        BY <3>1, <3>2
      <3> QED BY <3>1, <3>3, <3>4, <3>5, <3>6
    <2> QED BY <1>0, <1>8, <2>2 DEF Words
  <1>13. Pending' /\ Entering' /\ Walking' /\ Phases'
    BY <1>0 DEF Pending, Entering, Walking, Phases, States, Memories
  <1>14. Inv'
    BY <1>10, <1>12, <1>13 DEF Inv, Sound
  <1>15. ~Early /\ ~Early'
    BY <1>0 DEF Early
  <1>16. /\ DoneRegs = regs /\ DoneRegs' = regs' /\ DoneMemory' = DoneMemory
         /\ DoneReservation' = DoneReservation
    BY <1>15 DEF DoneRegs, DoneMemory, DoneReservation
  <1>17. Mode = "entry" /\ Mode' = "run"
    BY <1>0 DEF Mode
  <1>18. DoneSpecial = Saved(sr, e, f) /\ DoneSpecial' = sr'
    BY <1>0, <1>2 DEF DoneSpecial, Saved
  <1>19. HandlerAt(TableEntry.phys) = handler
    BY <1>1
  <1>20. Arch!Next
    BY <1>0, <1>1, <1>4, <1>16, <1>17, <1>18, <1>19, StepHandler
  <1> QED BY <1>14, <1>20

\* INTERRUPT_VECTOR_LOAD: the handler's address.
LEMMA InterruptVectorLoadStep ==
  ASSUME Inv, ~locked, NEW b \in Answers, NEW lines \in SUBSET prog.lines, InterruptVectorLoad(b, lines)
  PROVE  Inv' /\ Arch!Next
  <1>0. /\ st = "INTERRUPT_VECTOR_LOAD"
        /\ prog' = prog /\ flags' = flags /\ resv' = resv /\ mem' = mem
        /\ fetch' = fetch /\ instr' = instr /\ pending' = pending /\ first' = first
    BY DEF InterruptVectorLoad
  <1>1. PICK handler : handler = HandlerAt(entry[1].phys)
    OBVIOUS
  <1>2. CASE b = "err"
    <2>1. locked' = TRUE
      BY <1>2 DEF InterruptVectorLoad, EnterLockup
    <2>2. prog.faulty /\ st # "HALTED"
      BY <1>0, <1>2, ErrorFaulty
    <2> QED BY <1>0, <2>1, <2>2, LockStep
  <1>3. CASE handler = 0
    <2>1. locked' = TRUE
      BY <1>1, <1>3 DEF InterruptVectorLoad, EnterLockup
    <2>2. entry # <<>> /\ Translate(TableVa, "R", sr) = [phys |-> entry[1].phys, fault |-> <<>>]
      BY <1>0 DEF Inv, Sound, Phases
    <2>3. HandlerAt(TableEntry.phys) = 0 /\ st # "HALTED"
      <3>1. TableEntry.phys = entry[1].phys
        BY <2>2 DEF TableEntry
      <3> QED BY <1>0, <1>1, <1>3, <3>1
    <2> QED BY <1>0, <2>1, <2>2, <2>3, VectorLocks
  <1>4. CASE b # "err" /\ handler # 0
    <2>1. /\ Clock(<<>>, <<>>, <<entry[1].epc, FlagsWord(flags)>>, <<>>, <<>>, <<>>, lines)
          /\ regs' = [regs EXCEPT ![15] = handler] /\ entry' = <<>> /\ st' = "FETCH_TRANSLATE"
          /\ locked' = locked
      BY <1>1, <1>4 DEF InterruptVectorLoad, Goto
    <2> QED BY <1>0, <1>1, <1>4, <2>1, HandlerStarts
  <1> QED BY <1>2, <1>3, <1>4

\* what a walk is for
WalkFor(w) ==
    \/ /\ w.resume = "FETCH" /\ w.va = regs[15] /\ w.access = "X" /\ w.va % 2 = 0
       /\ fault_pc = regs[15] /\ pending = <<>> /\ entry = <<>>
    \/ /\ w.resume \in {"MEM_LOAD", "MEM_STORE"}
       /\ pending # <<>> /\ entry = <<>> /\ w.va = pending[1].op.addr
       /\ IF pending[1].op.write THEN w.resume = "MEM_STORE" /\ w.access = "W"
          ELSE w.resume = "MEM_LOAD" /\ w.access = "R"
    \/ /\ w.resume = "INTERRUPT_VECTOR_LOAD" /\ w.va = TableVa /\ w.access = "R"
       /\ pending = <<>> /\ entry # <<>>

\* The state a walk is in.
LEMMA WalkFacts ==
  ASSUME Inv, ~locked, st \in {"WALK", "WALK_PROCESS"}, NEW w, w = walk[1]
  PROVE  /\ Sound /\ walk = <<w>>
         /\ DOMAIN w = {"va", "table", "level", "access", "resume", "pte"}
         /\ w.va \in Word /\ w.level \in 0 .. 2
         /\ Paging /\ EntryFault(w.va, sr) = <<>> /\ WalkFor(w)
         /\ \A access, user :
               WalkFrom2(PageOf(sr[PAGE_TABLE_ROOT]), PageOf(w.va), access, user)
                   = WalkRest(w.table, w.level, PageOf(w.va), access, user)
         /\ st = "WALK_PROCESS" => w.pte = WalkEntry(w.table, w.level, PageOf(w.va))
  BY DEF Inv, Sound, Walking, WalkFor

\* n is a walk that has as much left as w
SameRest(w, n) ==
    \A access, user : WalkRest(w.table, w.level, PageOf(w.va), access, user)
                      = WalkRest(n.table, n.level, PageOf(w.va), access, user)

\* A walk that goes on is for what it was for.
LEMMA WalkGoesOn ==
  ASSUME Inv, ~locked, st \in {"WALK", "WALK_PROCESS"}, NEW w, w = walk[1], NEW lines, sr' = Latched(sr, lines),
         regs' = regs, pending' = pending, entry' = entry, fault_pc' = fault_pc,
         NEW n, walk' = <<n>>, DOMAIN n = {"va", "table", "level", "access", "resume", "pte"},
         n.va = w.va, n.access = w.access, n.resume = w.resume, n.level \in 0 .. 2,
         SameRest(w, n),
         NEW s, s = st', s \in {"WALK", "WALK_PROCESS"},
         s = "WALK_PROCESS" => n.pte = WalkEntry(n.table, n.level, PageOf(w.va))
  PROVE  Walking' /\ Phases'
  <1>0. /\ Sound /\ w.va \in Word /\ Paging /\ EntryFault(w.va, sr) = <<>> /\ WalkFor(w)
        /\ \A access, user :
              WalkFrom2(PageOf(sr[PAGE_TABLE_ROOT]), PageOf(w.va), access, user)
                  = WalkRest(w.table, w.level, PageOf(w.va), access, user)
    BY WalkFacts
  <1>1. /\ sr'[PAGE_TABLE_ROOT] = sr[PAGE_TABLE_ROOT]
        /\ EntryFault(w.va, sr') = EntryFault(w.va, sr)
        /\ Paging' = Paging /\ sr'[INTERRUPT_TABLE_BASE] = sr[INTERRUPT_TABLE_BASE]
    BY <1>0, LatchedSame DEF Sound, Words
  <1>2. TableVa' = TableVa
    BY <1>1 DEF TableVa
  <1>3. \/ /\ n.resume = "FETCH" /\ n.va = regs'[15] /\ n.access = "X" /\ n.va % 2 = 0
           /\ fault_pc' = regs'[15] /\ pending' = <<>> /\ entry' = <<>>
        \/ /\ n.resume \in {"MEM_LOAD", "MEM_STORE"}
           /\ pending' # <<>> /\ entry' = <<>> /\ n.va = pending'[1].op.addr
           /\ IF pending'[1].op.write THEN n.resume = "MEM_STORE" /\ n.access = "W"
              ELSE n.resume = "MEM_LOAD" /\ n.access = "R"
        \/ /\ n.resume = "INTERRUPT_VECTOR_LOAD" /\ n.va = TableVa' /\ n.access = "R"
           /\ pending' = <<>> /\ entry' # <<>>
    BY <1>0, <1>2 DEF WalkFor
  <1>4. \A access, user :
           WalkFrom2(PageOf(sr'[PAGE_TABLE_ROOT]), PageOf(n.va), access, user)
               = WalkRest(n.table, n.level, PageOf(n.va), access, user)
    BY <1>0, <1>1 DEF SameRest
  <1>5. walk'[1] = n
    OBVIOUS
  <1>6. /\ n.va \in Word /\ Paging' /\ EntryFault(n.va, sr') = <<>>
        /\ st' = "WALK_PROCESS" => n.pte = WalkEntry(n.table, n.level, PageOf(n.va))
    BY <1>0, <1>1
  <1>7. Walking'
    BY <1>3, <1>4, <1>5, <1>6 DEF Walking
  <1>8. Phases'
    BY DEF Phases, States, Memories
  <1> QED BY <1>7, <1>8

\* WALK: an entry of a page table arrives.
LEMMA WalkStep ==
  ASSUME Inv, ~locked, NEW b \in Answers, NEW lines \in SUBSET prog.lines, Walk(b, lines)
  PROVE  Inv' /\ Arch!Next
  <1>0. /\ st = "WALK" /\ Quiet(lines)
        /\ prog' = prog /\ regs' = regs /\ flags' = flags /\ resv' = resv /\ mem' = mem
        /\ fetch' = fetch /\ instr' = instr /\ fault_pc' = fault_pc /\ first' = first
        /\ pending' = pending /\ entry' = entry
    BY DEF Walk, arch
  <1>1. CASE b = "err"
    <2>1. locked' = TRUE
      BY <1>1 DEF Walk, EnterLockup
    <2>2. prog.faulty /\ st # "HALTED"
      BY <1>0, <1>1, ErrorFaulty
    <2> QED BY <1>0, <2>1, <2>2, LockStep
  <1>2. CASE b # "err"
    <2>0. PICK w : w = walk[1]
      OBVIOUS
    <2>1. PICK n : n = [w EXCEPT !.pte = WalkEntry(w.table, w.level, PageOf(w.va))]
      OBVIOUS
    <2>2. walk' = <<n>> /\ st' = "WALK_PROCESS" /\ locked' = locked
      BY <1>2, <2>0, <2>1 DEF Walk, Goto
    <2>3. DOMAIN w = {"va", "table", "level", "access", "resume", "pte"} /\ w.level \in 0 .. 2 /\ Sound
      BY <1>0, <2>0, WalkFacts
    <2>4. /\ DOMAIN n = {"va", "table", "level", "access", "resume", "pte"}
          /\ n.va = w.va /\ n.access = w.access /\ n.resume = w.resume /\ n.level = w.level
          /\ n.table = w.table /\ n.pte = WalkEntry(w.table, w.level, PageOf(w.va))
      BY <2>1, <2>3
    <2>5. /\ sr \in [Selectors -> Word] /\ sr' = Latched(sr, lines)
          /\ GenerationsPast(tlb)' /\ Agrees(tlb, PageOf(sr[PAGE_TABLE_ROOT]))'
      BY <1>0, <2>3, QuietSound
    <2>6. SameRest(w, n)
      BY <2>4 DEF SameRest
    <2>7. Walking' /\ Phases'
      <3>1. PICK s : s = st'
        OBVIOUS
      <3>2. s \in {"WALK", "WALK_PROCESS"} /\ n.pte = WalkEntry(n.table, n.level, PageOf(w.va))
        BY <2>2, <2>4, <3>1
      <3> QED BY <1>0, <2>0, <2>2, <2>3, <2>4, <2>5, <2>6, <3>1, <3>2, WalkGoesOn
    <2>8. fetch \in [pc : Word, phys : Word] /\ DOMAIN first = {"data", "cycle"}
      BY <2>3 DEF Sound, Words
    <2>9. st # "HALTED" /\ st' # "HALTED"
      BY <1>0, <2>2
    <2> QED BY <1>0, <2>2, <2>5, <2>7, <2>8, <2>9, GoOn
  <1> QED BY <1>1, <1>2

\* What the walk of the state machine finds is what the translation means.
LEMMA WalkFinds ==
  ASSUME NoReservedLeaf, Inv, ~locked, st = "WALK_PROCESS", NEW w, w = walk[1],
         NEW fault, fault = BasicWalkFault(w.pte, w.level, w.access, User)
  PROVE  /\ fault = WalkFault(w.pte, w.level, w.access, User)
         /\ fault # <<>> => IsFault(fault) /\ Translate(w.va, w.access, sr).fault = fault
         /\ fault = <<>> /\ WalkIsLeaf(w.pte) =>
               Translate(w.va, w.access, sr) = [phys |-> WalkPhys(w.pte, w.level, w.va), fault |-> <<>>]
  <1>0. /\ w.va \in Word /\ w.level \in 0 .. 2 /\ Paging /\ EntryFault(w.va, sr) = <<>> /\ WalkFor(w)
        /\ WalkFrom2(PageOf(sr[PAGE_TABLE_ROOT]), PageOf(w.va), w.access, User)
               = WalkRest(w.table, w.level, PageOf(w.va), w.access, User)
        /\ w.pte = WalkEntry(w.table, w.level, PageOf(w.va))
    BY WalkFacts
  <1>1. fault = WalkFault(w.pte, w.level, w.access, User)
    BY <1>0, SameFault
  <1>2. fault # <<>> => IsFault(fault)
    BY <1>0, <1>1, WalkFaultType
  <1>3. w.access = "X" => w.va % 2 # 1
    BY <1>0 DEF WalkFor
  <1>4. /\ WalkFault(w.pte, w.level, w.access, User) # <<>> =>
              Translate(w.va, w.access, sr).fault = WalkFault(w.pte, w.level, w.access, User)
        /\ WalkFault(w.pte, w.level, w.access, User) = <<>> /\ WalkIsLeaf(w.pte) =>
              Translate(w.va, w.access, sr) = [phys |-> WalkPhys(w.pte, w.level, w.va), fault |-> <<>>]
    BY <1>0, <1>3, WalkMeans DEF Paging, User
  <1> QED BY <1>1, <1>2, <1>4

\* The walk comes to a fault.
LEMMA WalkFaults ==
  ASSUME NoReservedLeaf, Inv, ~locked, StoresMapped, st = "WALK_PROCESS", NEW w, w = walk[1],
         NEW lines \in SUBSET prog.lines,
         NEW fault, fault = BasicWalkFault(w.pte, w.level, w.access, User), fault # <<>>,
         IF w.resume = "INTERRUPT_VECTOR_LOAD"
         THEN EnterLockup
         ELSE RaiseSyncTrap(TrapInfo(fault[1], w.va, AccessCode(w.access), fault_pc, fault[2]), lines),
         prog' = prog, regs' = regs, flags' = flags, resv' = resv, mem' = mem,
         fetch' = fetch, instr' = instr, first' = first
  PROVE  Inv' /\ Arch!Next
  <1>0. Sound /\ WalkFor(w) /\ w.va \in Word
    BY WalkFacts
  <1>1. IsFault(fault) /\ Translate(w.va, w.access, sr).fault = fault
    BY WalkFinds
  <1>2. CASE w.resume = "INTERRUPT_VECTOR_LOAD"
    <2>1. w.va = TableVa /\ w.access = "R" /\ entry # <<>>
      BY <1>0, <1>2 DEF WalkFor
    <2>2. TableEntry.fault # <<>>
      BY <1>1, <2>1 DEF TableEntry
    <2>3. locked' = TRUE
      BY <1>2 DEF EnterLockup
    <2> QED BY <2>1, <2>2, <2>3, VectorLocks
  <1>3. CASE w.resume = "FETCH"
    <2>1. w.va = regs[15] /\ w.access = "X" /\ fault_pc = regs[15] /\ pending = <<>> /\ entry = <<>>
      BY <1>0, <1>3 DEF WalkFor
    <2>2. Plain
      BY <2>1 DEF Plain, Early
    <2> DEFINE trap == TrapInfo(fault[1], regs[15], AccessCode("X"), regs[15], fault[2])
    <2>3. RaiseSyncTrap(trap, lines)
      BY <1>3, <2>1
    <2>4. IsTrap(trap) /\ trap.pc = regs[15]
      <3>1. AccessCode("X") \in 0 .. 2
        BY AccessCodes
      <3>2. regs[15] \in Word
        BY PcWord
      <3> QED BY <1>1, <3>1, <3>2, TrapInfoType DEF IsFault
    <2>5. TrapHere(trap)
      BY <1>1, <2>1 DEF TrapHere
    <2> HIDE DEF trap
    <2> QED BY <2>2, <2>3, <2>4, <2>5, TrapStep
  <1>4. CASE w.resume \in {"MEM_LOAD", "MEM_STORE"}
    <2>1. PICK op : op = pending[1].op
      OBVIOUS
    <2>2. pending # <<>> /\ entry = <<>> /\ w.va = op.addr /\ w.access = IF op.write THEN "W" ELSE "R"
      BY <1>0, <1>4, <2>1 DEF WalkFor
    <2>3. PICK access : access = w.access
      OBVIOUS
    <2>4. RaiseSyncTrap(TrapInfo(fault[1], op.addr, AccessCode(access), fault_pc, fault[2]), lines)
      BY <1>4, <2>2, <2>3
    <2>5. access = (IF op.write THEN "W" ELSE "R") /\ Translate(op.addr, access, sr).fault = fault
      BY <1>1, <2>2, <2>3
    <2> QED BY <1>1, <2>1, <2>2, <2>4, <2>5, AccessTraps
  <1> QED BY <1>0, <1>2, <1>3, <1>4 DEF WalkFor

\* the TLB after the fill of a walk that found its leaf
LEMMA FillSound ==
  ASSUME Inv, ~locked, st = "WALK_PROCESS", NEW w, w = walk[1],
         NEW a, NEW u, WalkFault(w.pte, w.level, a, u) = <<>>, WalkIsLeaf(w.pte),
         NEW lines, Clock(<<>>, <<>>, <<>>, <<>>, <<>>, WalkFill(w), lines)
  PROVE  /\ sr \in [Selectors -> Word] /\ sr' = Latched(sr, lines)
         /\ GenerationsPast(tlb)' /\ Agrees(tlb, PageOf(sr[PAGE_TABLE_ROOT]))'
  <1>0. /\ Sound /\ w.level \in 0 .. 2
        /\ \A access, user :
               WalkFrom2(PageOf(sr[PAGE_TABLE_ROOT]), PageOf(w.va), access, user)
                   = WalkRest(w.table, w.level, PageOf(w.va), access, user)
        /\ w.pte = WalkEntry(w.table, w.level, PageOf(w.va))
    BY WalkFacts
  <1>1. sr \in [Selectors -> Word]
    BY <1>0 DEF Sound, Words
  <1>2. sr' = Latched(sr, lines)
    BY DEF Clock, BasicSpecialClock, SpecialClock, Latched
  <1>3. sr'[PAGE_TABLE_ROOT] = sr[PAGE_TABLE_ROOT]
    BY <1>1, <1>2, LatchedSame
  <1>4. PICK fill : fill = WalkFill(w)
    OBVIOUS
  <1>5. tlb' = TlbClock(tlb, FALSE, fill)
    BY <1>4 DEF Clock, BasicTlbClock, TlbFlush
  <1>6. /\ fill[1] = PageOf(w.va) /\ fill[2] = WalkPage(w.pte, w.level, PageOf(w.va)) /\ fill[3] = w.pte
    BY <1>4 DEF WalkFill
  <1>7. \A access, user : WalkAllowed(fill[3], access, user) =>
            WalkFrom2(PageOf(sr[PAGE_TABLE_ROOT]), fill[1], access, user) = Mapped(fill[2])
    BY <1>0, <1>6, LeafRest
  <1>8. GenerationsPast(tlb')
    BY <1>0, <1>5, ClockPast DEF Sound
  <1>9. Agrees(tlb', PageOf(sr[PAGE_TABLE_ROOT]))
    BY <1>0, <1>5, <1>7, ClockAgrees DEF Sound
  <1> QED BY <1>1, <1>2, <1>3, <1>8, <1>9

\* The walk comes to its leaf: the state machine resumes with the address.
LEMMA WalkEnds ==
  ASSUME NoReservedLeaf, Inv, ~locked, st = "WALK_PROCESS", NEW w, w = walk[1],
         NEW lines \in SUBSET prog.lines,
         BasicWalkFault(w.pte, w.level, w.access, User) = <<>>, WalkIsLeaf(w.pte),
         NEW phys, phys = WalkPhys(w.pte, w.level, w.va),
         Clock(<<>>, <<>>, <<>>, <<>>, <<>>, WalkFill(w), lines),
         fetch' = IF w.resume = "FETCH" THEN [fetch EXCEPT !.phys = phys] ELSE fetch,
         entry' = IF w.resume = "INTERRUPT_VECTOR_LOAD" THEN <<[entry[1] EXCEPT !.phys = phys]>> ELSE entry,
         pending' = IF w.resume \in {"MEM_LOAD", "MEM_STORE"}
                    THEN <<[pending[1] EXCEPT !.addr = phys]>> ELSE pending,
         st' = w.resume, locked' = locked,
         prog' = prog, regs' = regs, flags' = flags, resv' = resv, mem' = mem,
         instr' = instr, fault_pc' = fault_pc, first' = first
  PROVE  Inv' /\ Arch!Next
  <1>0. /\ Sound /\ WalkFor(w) /\ w.va \in Word
    BY WalkFacts
  <1>1. /\ WalkFault(w.pte, w.level, w.access, User) = <<>>
        /\ Translate(w.va, w.access, sr) = [phys |-> phys, fault |-> <<>>]
    BY WalkFinds
  <1>2. /\ sr \in [Selectors -> Word] /\ sr' = Latched(sr, lines)
        /\ GenerationsPast(tlb)' /\ Agrees(tlb, PageOf(sr[PAGE_TABLE_ROOT]))'
    BY <1>1, FillSound
  <1>3. /\ \A a, x : Translate(a, x, sr') = Translate(a, x, sr)
        /\ sr'[CPU_CONTROL] = sr[CPU_CONTROL] /\ sr'[INTERRUPT_TABLE_BASE] = sr[INTERRUPT_TABLE_BASE]
    BY <1>2, LatchedSame
  <1>4. phys \in Word
    <2>1. Translate(w.va, w.access, sr).phys \in Word
      BY <1>0, TranslateType
    <2> QED BY <1>1, <2>1
  <1>5. fetch \in [pc : Word, phys : Word] /\ DOMAIN first = {"data", "cycle"}
    BY <1>0 DEF Sound, Words
  <1>6. CASE w.resume = "FETCH"
    <2>1. /\ w.va = regs[15] /\ w.access = "X" /\ pending = <<>> /\ entry = <<>>
      BY <1>0, <1>6 DEF WalkFor
    <2>2. /\ fetch' = [fetch EXCEPT !.phys = phys] /\ pending' = pending /\ entry' = entry /\ st' = "FETCH"
      BY <1>6
    <2>3. fetch' \in [pc : Word, phys : Word] /\ fetch'.pc = fetch.pc /\ fetch'.phys = phys
      BY <1>4, <1>5, <2>2
    <2>4. PcMapped' /\ PcPhys' = phys
      BY <1>1, <1>3, <2>1 DEF PcMapped, PcPhys
    <2>5. Walking' /\ Phases'
      BY <2>1, <2>2, <2>3, <2>4 DEF Walking, Phases, States, Memories
    <2>6. st # "HALTED" /\ st' # "HALTED" /\ DOMAIN first' = {"data", "cycle"}
      BY <1>5, <2>2
    <2> QED BY <1>2, <2>2, <2>3, <2>5, <2>6, GoOn
  <1>7. CASE w.resume \in {"MEM_LOAD", "MEM_STORE"}
    <2>1. /\ pending # <<>> /\ entry = <<>> /\ w.va = pending[1].op.addr
          /\ pending[1].op.write => w.resume = "MEM_STORE" /\ w.access = "W"
          /\ ~pending[1].op.write => w.resume = "MEM_LOAD" /\ w.access = "R"
      BY <1>0, <1>7 DEF WalkFor
    <2>2. /\ fetch' = fetch /\ pending' = <<[pending[1] EXCEPT !.addr = phys]>> /\ entry' = entry
      BY <1>7
    <2>3. pending' # <<>> /\ pending'[1].op = pending[1].op /\ pending'[1].addr = phys
      <3>0. DOMAIN pending[1] = {"op", "addr", "next_pc"}
        BY <1>0, <2>1 DEF Sound, Pending
      <3> DEFINE p == pending[1]
                 q == [p EXCEPT !.addr = phys]
      <3>1. q.op = p.op /\ q.addr = phys
        BY <3>0
      <3>2. pending' = <<q>>
        BY <2>2
      <3> HIDE DEF q
      <3> QED BY <3>1, <3>2
    <2>4. Reached(w.access)'
      <3>1. PICK access : access = w.access
        OBVIOUS
      <3>2. Translate(pending'[1].op.addr, access, sr') = [phys |-> pending'[1].addr, fault |-> <<>>]
        BY <1>1, <1>3, <2>1, <2>3, <3>1
      <3> QED BY <3>1, <3>2 DEF Reached
    <2>5. Phases' /\ Walking'
      <3>1. CASE pending[1].op.write
        <4>1. st' = "MEM_STORE" /\ Reached("W")'
          BY <2>1, <2>4, <3>1 DEF Reached
        <4> QED BY <2>1, <2>2, <2>3, <3>1, <4>1 DEF Phases, Walking, States, Memories
      <3>2. CASE ~pending[1].op.write
        <4>1. st' = "MEM_LOAD" /\ Reached("R")'
          BY <2>1, <2>4, <3>2 DEF Reached
        <4> QED BY <2>1, <2>2, <2>3, <3>2, <4>1 DEF Phases, Walking, States, Memories
      <3> QED BY <3>1, <3>2
    <2>6. st # "HALTED" /\ st' # "HALTED" /\ DOMAIN first' = {"data", "cycle"}
          /\ fetch' \in [pc : Word, phys : Word] /\ fetch'.pc = fetch.pc
      BY <1>5, <1>7, <2>2
    <2>7. PICK addr : pending' = <<[pending[1] EXCEPT !.addr = addr]>>
      BY <2>2
    <2> QED BY <1>2, <2>1, <2>2, <2>5, <2>6, <2>7, GoOn
  <1>8. CASE w.resume = "INTERRUPT_VECTOR_LOAD"
    <2>1. w.va = TableVa /\ w.access = "R" /\ pending = <<>> /\ entry # <<>>
      BY <1>0, <1>8 DEF WalkFor
    <2>2. /\ fetch' = fetch /\ pending' = pending /\ entry' = <<[entry[1] EXCEPT !.phys = phys]>>
          /\ st' = "INTERRUPT_VECTOR_LOAD"
      BY <1>8
    <2>3. /\ entry' # <<>> /\ entry'[1].vector = entry[1].vector /\ entry'[1].phys = phys
      <3>1. DOMAIN entry[1] = {"vector", "epc", "phys"}
        BY <1>0, <2>1 DEF Sound, Entering
      <3> DEFINE p == entry[1]
                 q == [p EXCEPT !.phys = phys]
      <3>2. q.vector = p.vector /\ q.phys = phys
        BY <3>1
      <3>3. entry' = <<q>>
        BY <2>2
      <3> HIDE DEF q
      <3> QED BY <3>2, <3>3
    <2>4. TableVa' = w.va
      BY <1>3, <2>1, <2>3 DEF TableVa
    <2>5. Translate(TableVa', "R", sr') = [phys |-> entry'[1].phys, fault |-> <<>>]
      BY <1>1, <1>3, <2>1, <2>3, <2>4
    <2>6. Walking' /\ Phases'
      BY <2>1, <2>2, <2>3, <2>5 DEF Walking, Phases, States, Memories
    <2>7. PICK p : entry' = <<[entry[1] EXCEPT !.phys = p]>>
      BY <2>2
    <2>8. st # "HALTED" /\ st' # "HALTED" /\ DOMAIN first' = {"data", "cycle"}
          /\ fetch' \in [pc : Word, phys : Word] /\ fetch'.pc = fetch.pc
      BY <1>5, <2>2
    <2> QED BY <1>2, <2>1, <2>2, <2>6, <2>7, <2>8, GoOn
  <1> QED BY <1>0, <1>6, <1>7, <1>8 DEF WalkFor

\* The walk comes to a table of the next level.
LEMMA WalkDescends ==
  ASSUME NoReservedLeaf, Inv, ~locked, st = "WALK_PROCESS", NEW w, w = walk[1],
         NEW lines \in SUBSET prog.lines,
         BasicWalkFault(w.pte, w.level, w.access, User) = <<>>, ~WalkIsLeaf(w.pte), Quiet(lines),
         NEW n, walk' = <<n>>, DOMAIN n = {"va", "table", "level", "access", "resume", "pte"},
         n.va = w.va, n.access = w.access, n.resume = w.resume,
         n.table = w.pte.ppn, n.level = w.level - 1,
         st' = "WALK", locked' = locked, fetch' = fetch, entry' = entry, pending' = pending,
         prog' = prog, regs' = regs, flags' = flags, resv' = resv, mem' = mem,
         instr' = instr, fault_pc' = fault_pc, first' = first
  PROVE  Inv' /\ Arch!Next
  <1>0. /\ Sound /\ WalkFor(w) /\ w.level \in 0 .. 2
        /\ w.pte = WalkEntry(w.table, w.level, PageOf(w.va))
    BY WalkFacts
  <1>1. WalkFault(w.pte, w.level, w.access, User) = <<>>
    BY WalkFinds
  <1>2. /\ sr \in [Selectors -> Word] /\ sr' = Latched(sr, lines)
        /\ GenerationsPast(tlb)' /\ Agrees(tlb, PageOf(sr[PAGE_TABLE_ROOT]))'
    BY <1>0, QuietSound
  <1>3. /\ w.level - 1 \in 0 .. 2
        /\ \A access, user : WalkRest(w.table, w.level, PageOf(w.va), access, user)
                              = WalkRest(w.pte.ppn, w.level - 1, PageOf(w.va), access, user)
    BY <1>0, <1>1, DescendRest
  <1>6. n.level \in 0 .. 2 /\ SameRest(w, n)
    BY <1>3 DEF SameRest
  <1>8. Walking' /\ Phases'
    <2>1. PICK s : s = st'
      OBVIOUS
    <2>2. s \in {"WALK", "WALK_PROCESS"} /\ s # "WALK_PROCESS"
      BY <2>1
    <2> QED BY <1>2, <1>6, <2>1, <2>2, WalkGoesOn
  <1>9. fetch \in [pc : Word, phys : Word] /\ DOMAIN first = {"data", "cycle"}
    BY <1>0 DEF Sound, Words
  <1>10. st # "HALTED" /\ st' # "HALTED"
    OBVIOUS
  <1> QED BY <1>2, <1>8, <1>9, <1>10, GoOn

\* WALK_PROCESS: a fault, a leaf, or the next table.
LEMMA WalkProcessStep ==
  ASSUME NoReservedLeaf, Inv, ~locked, StoresMapped, NEW lines \in SUBSET prog.lines, WalkProcess(lines)
  PROVE  Inv' /\ Arch!Next
  <1>0. /\ st = "WALK_PROCESS"
        /\ prog' = prog /\ regs' = regs /\ flags' = flags /\ resv' = resv /\ mem' = mem
        /\ instr' = instr /\ fault_pc' = fault_pc /\ first' = first
    BY DEF WalkProcess, arch
  <1>1. PICK w, fault, phys :
          /\ w = walk[1] /\ fault = BasicWalkFault(w.pte, w.level, w.access, User)
          /\ phys = WalkPhys(w.pte, w.level, w.va)
    OBVIOUS
  <1>2. CASE fault # <<>>
    <2>1. /\ fetch' = fetch
          /\ IF w.resume = "INTERRUPT_VECTOR_LOAD"
             THEN EnterLockup
             ELSE RaiseSyncTrap(TrapInfo(fault[1], w.va, AccessCode(w.access), fault_pc, fault[2]), lines)
      BY <1>1, <1>2 DEF WalkProcess
    <2> QED BY <1>0, <1>1, <1>2, <2>1, WalkFaults
  <1>3. CASE fault = <<>> /\ WalkIsLeaf(w.pte)
    <2>1. /\ Clock(<<>>, <<>>, <<>>, <<>>, <<>>, WalkFill(w), lines)
          /\ fetch' = IF w.resume = "FETCH" THEN [fetch EXCEPT !.phys = phys] ELSE fetch
          /\ entry' = IF w.resume = "INTERRUPT_VECTOR_LOAD" THEN <<[entry[1] EXCEPT !.phys = phys]>> ELSE entry
          /\ pending' = IF w.resume \in {"MEM_LOAD", "MEM_STORE"}
                        THEN <<[pending[1] EXCEPT !.addr = phys]>> ELSE pending
          /\ st' = w.resume /\ locked' = locked
      BY <1>1, <1>3 DEF WalkProcess, Goto
    <2> QED BY <1>0, <1>1, <1>3, <2>1, WalkEnds
  <1>4. CASE fault = <<>> /\ ~WalkIsLeaf(w.pte)
    <2>0. PICK n : n = [w EXCEPT !.table = w.pte.ppn, !.level = @ - 1, !.pte = <<>>]
      OBVIOUS
    <2>2. DOMAIN w = {"va", "table", "level", "access", "resume", "pte"}
      BY <1>0, <1>1, WalkFacts
    <2>3. /\ DOMAIN n = {"va", "table", "level", "access", "resume", "pte"}
          /\ n.va = w.va /\ n.access = w.access /\ n.resume = w.resume
          /\ n.table = w.pte.ppn /\ n.level = w.level - 1
      BY <2>0, <2>2
    <2>1. /\ Quiet(lines)
          /\ walk' = <<n>>
          /\ st' = "WALK" /\ locked' = locked /\ fetch' = fetch /\ entry' = entry /\ pending' = pending
      BY <1>1, <1>4, <2>0 DEF WalkProcess, Goto
    <2> QED BY <1>0, <1>1, <1>4, <2>1, <2>3, WalkDescends
  <1> QED BY <1>2, <1>3, <1>4

\* Every action leaves the program and a locked core alone.
LEMMA StepLocks ==
  ASSUME Next, locked
  PROVE  prog' = prog /\ (locked' = locked \/ locked' = TRUE)
  <1>0. PICK b \in Answers, lines \in SUBSET prog.lines :
          \/ Waiting(b, lines)
          \/ FetchTranslate(lines) \/ FetchWord(b, lines)
          \/ /\ st = "EXECUTE"
             /\ \E o \in {Outputs} :
                   \/ ExecuteRegister(o, lines) \/ ExecuteTrap(o, lines)
                   \/ o.memory # <<>> /\ ExecuteMemory(o, lines)
          \/ MemTranslate(lines) \/ MemLoad(b, lines) \/ MemStore(b, lines) \/ SplitCycle(lines)
          \/ InterruptVectorTranslate(lines) \/ InterruptVectorLoad(b, lines)
          \/ Walk(b, lines) \/ WalkProcess(lines)
          \/ Halt(lines)
    BY DEF Next
  <1> DEFINE Goal == prog' = prog /\ (locked' = locked \/ locked' = TRUE)
  <1>r. \A trap : RaiseSyncTrap(trap, lines) => locked' = locked \/ locked' = TRUE
    BY DEF RaiseSyncTrap, EnterLockup, BeginInterruptEntry, Goto
  <1>1. CASE Waiting(b, lines) \/ SplitCycle(lines) \/ Halt(lines)
    BY <1>1 DEF Waiting, SplitCycle, Halt
  <1>2. CASE FetchTranslate(lines)
    BY <1>2, <1>r DEF FetchTranslate, BeginInterruptEntry, Goto, StartWalk
  <1>3. CASE FetchWord(b, lines)
    BY <1>3 DEF FetchWord, EnterLockup, Goto
  <1>4. ASSUME NEW o, ExecuteRegister(o, lines) \/ ExecuteTrap(o, lines) \/ ExecuteMemory(o, lines)
        PROVE  Goal
    BY <1>4, <1>r DEF ExecuteRegister, ExecuteTrap, ExecuteMemory, Goto
  <1>5. CASE MemTranslate(lines)
    BY <1>5, <1>r DEF MemTranslate, Translation, Goto, StartWalk
  <1>6. CASE MemLoad(b, lines)
    BY <1>6 DEF MemLoad, EnterLockup, LoadDone, Goto
  <1>7. CASE MemStore(b, lines)
    BY <1>7 DEF MemStore, EnterLockup, Goto
  <1>8. CASE InterruptVectorTranslate(lines)
    BY <1>8 DEF InterruptVectorTranslate, Translation, EnterLockup, Goto, StartWalk
  <1>9. CASE InterruptVectorLoad(b, lines)
    BY <1>9 DEF InterruptVectorLoad, EnterLockup, Goto
  <1>10. CASE Walk(b, lines)
    BY <1>10 DEF Walk, EnterLockup, Goto
  <1>11. CASE WalkProcess(lines)
    BY <1>11, <1>r DEF WalkProcess, EnterLockup, Goto
  <1> QED BY <1>0, <1>1, <1>2, <1>3, <1>4, <1>5, <1>6, <1>7, <1>8, <1>9, <1>10, <1>11

\* One step of the core is one step of the machine.
LEMMA StepImplements ==
  ASSUME NoReservedLeaf, Inv, Next, StoresMapped, StoresMapped', StackApart'
  PROVE  Inv' /\ Arch!Next
  <1>1. CASE locked
    BY <1>1, StepLocks, LockedStep
  <1>2. CASE ~locked
    <2>0. PICK b \in Answers, lines \in SUBSET prog.lines :
          \/ Waiting(b, lines)
          \/ FetchTranslate(lines) \/ FetchWord(b, lines)
          \/ /\ st = "EXECUTE"
             /\ \E o \in {Outputs} :
                   \/ ExecuteRegister(o, lines) \/ ExecuteTrap(o, lines)
                   \/ o.memory # <<>> /\ ExecuteMemory(o, lines)
          \/ MemTranslate(lines) \/ MemLoad(b, lines) \/ MemStore(b, lines) \/ SplitCycle(lines)
          \/ InterruptVectorTranslate(lines) \/ InterruptVectorLoad(b, lines)
          \/ Walk(b, lines) \/ WalkProcess(lines)
          \/ Halt(lines)
      BY DEF Next
    <2>1. CASE Waiting(b, lines) \/ SplitCycle(lines) \/ Halt(lines)
      BY <1>2, <2>1, WaitingStep
    <2>2. CASE FetchTranslate(lines)
      BY <1>2, <2>2, FetchTranslateStep
    <2>3. CASE FetchWord(b, lines)
      BY <1>2, <2>3, FetchWordStep
    <2>4. CASE ExecuteRegister(Outputs, lines)
      BY <1>2, <2>4, ExecuteRegisterStep
    <2>5. CASE ExecuteTrap(Outputs, lines)
      BY <1>2, <2>5, ExecuteTrapStep
    <2>6. CASE Outputs.memory # <<>> /\ ExecuteMemory(Outputs, lines)
      BY <1>2, <2>6, ExecuteMemoryStep
    <2>7. CASE MemTranslate(lines)
      BY <1>2, <2>7, MemTranslateStep
    <2>8. CASE MemLoad(b, lines)
      BY <1>2, <2>8, MemLoadStep
    <2>9. CASE MemStore(b, lines)
      BY <1>2, <2>9, MemStoreStep
    <2>10. CASE InterruptVectorTranslate(lines)
      BY <1>2, <2>10, InterruptVectorTranslateStep
    <2>11. CASE InterruptVectorLoad(b, lines)
      BY <1>2, <2>11, InterruptVectorLoadStep
    <2>12. CASE Walk(b, lines)
      BY <1>2, <2>12, WalkStep
    <2>13. CASE WalkProcess(lines)
      BY <1>2, <2>13, WalkProcessStep
    <2> QED BY <2>0, <2>1, <2>2, <2>3, <2>4, <2>5, <2>6, <2>7, <2>8, <2>9, <2>10, <2>11, <2>12, <2>13
  <1> QED BY <1>1, <1>2

\* The core starts sound, and as the machine does.
LEMMA InitSound ==
  ASSUME Init
  PROVE  Inv /\ Arch!Init
  <1>0. /\ prog \in Programs /\ IsProgram(prog)
        /\ regs = prog.regs /\ mem = prog.mem /\ sr = prog.sr /\ tlb = TlbReset
        /\ st = "FETCH_TRANSLATE" /\ locked = FALSE /\ pending = <<>> /\ entry = <<>> /\ walk = <<>>
        /\ fetch = [pc |-> 0, phys |-> 0] /\ instr = Unassigned /\ first = [data |-> NoBytes, cycle |-> FALSE]
    BY ProgramsAssumption DEF Init
  <1>1. /\ regs \in [DOMAIN prog.regs -> Word] /\ (0 \in DOMAIN regs => regs[0] = 0)
        /\ sr \in [Selectors -> Word] /\ mem \in [DOMAIN prog.mem -> Byte]
    BY <1>0 DEF IsProgram
  <1>2. IsInstruction(instr, DOMAIN prog.regs)
    <2>1. Unassigned.op = "ILLEGAL" /\ Unassigned.rd = 0 /\ Unassigned.rs1 = 0 /\ Unassigned.imm = 0
          /\ Unassigned.width = 0 /\ Unassigned.pcrel \in BOOLEAN
      BY DEF Unassigned
    <2> QED BY <1>0, <2>1 DEF IsInstruction, Opcodes, Word, WordBytes
  <1>3. fetch \in [pc : Word, phys : Word] /\ DOMAIN first = {"data", "cycle"}
    BY <1>0 DEF Word
  <1>4. Words
    BY <1>1, <1>2, <1>3 DEF Words
  <1>5. Pending /\ Walking /\ Entering /\ Phases
    BY <1>0 DEF Pending, Walking, Entering, Phases, States, Memories
  <1>6. GenerationsPast(tlb) /\ Agrees(tlb, PageOf(sr[PAGE_TABLE_ROOT]))
    BY <1>0, ResetPast DEF Agrees, Live
  <1>7. Inv
    BY <1>0, <1>4, <1>5, <1>6 DEF Inv, Sound
  <1>8. ~Early /\ Mode = "run" /\ DoneSpecial = sr
    BY <1>0 DEF Early, Mode, DoneSpecial
  <1>9. DoneRegs = regs /\ DoneMemory = mem /\ DoneReservation = resv
    BY <1>8 DEF DoneRegs, DoneMemory, DoneReservation
  <1>10. Arch!Init
    BY <1>8, <1>9 DEF Init, Arch!Init
  <1> QED BY <1>7, <1>10

\* A step that changes nothing
LEMMA StutterSame ==
  ASSUME Inv, UNCHANGED vars
  PROVE  Inv' /\ UNCHANGED Arch!vars
  <1>0. /\ prog' = prog /\ regs' = regs /\ flags' = flags /\ resv' = resv /\ mem' = mem /\ sr' = sr
        /\ st' = st /\ locked' = locked /\ fetch' = fetch /\ instr' = instr /\ pending' = pending
        /\ fault_pc' = fault_pc /\ first' = first /\ walk' = walk /\ entry' = entry /\ tlb' = tlb
    BY DEF vars, arch
  <1>1. Words' = Words
    BY <1>0 DEF Words
  <1>2. Early' = Early /\ Outputs' = Outputs /\ PcMapped' = PcMapped /\ PcPhys' = PcPhys
    BY <1>0 DEF Early, PcMapped, PcPhys, Outputs
  <1>3. Pending' = Pending
    BY <1>0, <1>2 DEF Pending, Decoded
  <1>4. Walking' = Walking /\ Entering' = Entering
    BY <1>0 DEF Walking, Entering, TableVa, Paging
  <1>5. Phases' = Phases
    BY <1>0, <1>2 DEF Phases, Decoded, Reached, Beat, TableVa
  <1>6. Inv'
    BY <1>0, <1>1, <1>3, <1>4, <1>5 DEF Inv, Sound
  <1>7. /\ DoneRegs' = DoneRegs /\ DoneMemory' = DoneMemory /\ DoneReservation' = DoneReservation
        /\ DoneSpecial' = DoneSpecial /\ Mode' = Mode
    BY <1>0, <1>2 DEF DoneRegs, DoneMemory, DoneReservation, DoneSpecial, Mode, Target
  <1>8. UNCHANGED Arch!vars
    BY <1>0, <1>7 DEF Arch!vars
  <1> QED BY <1>6, <1>8

\* The basic core implements the machine: every cycle of its state machine,
\* with the bus slow or fast, accesses in one beat or two, walks and hits in
\* the TLB, traps, interrupts and lockups, is one step of Isa or none.  Three
\* things the core does otherwise are excluded: it writes the registers of a
\* push or a chained pop before it translates the store (StoresMapped), and
\* so with the PC as the stack pointer its next instruction too (StackApart);
\* and it does not look at the reserved bits of a leaf (NoReservedLeaf).
THEOREM BasicImplements ==
  ASSUME NoReservedLeaf
  PROVE  Spec /\ []StoresMapped /\ []StackApart => ImplementsIsa
  <1>1. Init => Inv /\ Arch!Init
    BY InitSound
  <1>2. Inv /\ [Next]_vars /\ StoresMapped /\ StoresMapped' /\ StackApart' => Inv' /\ [Arch!Next]_(Arch!vars)
    BY StepImplements, StutterSame
  <1> QED BY <1>1, <1>2, PTL DEF Spec, ImplementsIsa, Arch!Spec
=============================================================================
