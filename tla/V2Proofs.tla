------------------------------ MODULE V2Proofs ------------------------------
(***************************************************************************)
(* The V2 core flushes its TLB in every edge that switches the address     *)
(* space; its data cache holds what memory holds; and it implements the    *)
(* machine of Isa.  For every program, page table, bus and interrupt       *)
(* timing and unit size, under the hypotheses BusFree, HitsMemory,         *)
(* CachedWhole and ScrClears, each the absence of one departure of this    *)
(* core; without a data cache the first three hold by themselves.          *)
(***************************************************************************)
EXTENDS V2Core, HdlTlbProofs

\* Every step is one edge of the special registers and of the TLB.
LEMMA StepClocks ==
  ASSUME Next
  PROVE  \E control, saved, entered, trap, write, fill, lines :
            Clock(control, saved, entered, trap, write, fill, lines)
  <1>0. PICK i \in IBus, d \in DBus, lines \in SUBSET prog.lines :
          \/ FetchTranslate(lines) \/ FetchRequest(i, lines) \/ Decode(lines)
          \/ /\ st = "EXECUTE"
             /\ \E o \in {Outputs} :
                   ExecuteRegister(o, lines) \/ ExecuteTrap(o, lines) \/ ExecuteMemory(o, lines)
          \/ ExecuteComplete(lines) \/ Writeback(lines)
          \/ MemTranslate(lines) \/ Memory(d, lines)
          \/ Walk(d, lines) \/ WalkProcess(lines)
          \/ InterruptVectorTranslate(lines) \/ InterruptVectorLoad(d, lines)
          \/ Stopped(lines)
    BY DEF Next
  <1> DEFINE Goal == \E control, saved, entered, trap, write, fill, l :
                        Clock(control, saved, entered, trap, write, fill, l)
  <1>q. Quiet(lines) => Goal
    BY DEF Quiet
  <1> SUFFICES Goal
    OBVIOUS
  <1> HIDE DEF Goal
  <1>b. \A vector, epc, trap : BeginInterruptEntry(vector, epc, trap, lines) => Goal
    BY DEF BeginInterruptEntry, Goal
  <1>r. \A trap : RaiseSyncTrap(trap, lines) => Goal
    BY <1>q, <1>b DEF RaiseSyncTrap
  <1>1. CASE FetchTranslate(lines)
    <2>1. \/ \E trap : RaiseSyncTrap(trap, lines)
          \/ \E vector : BeginInterruptEntry(vector, regs[15], <<>>, lines)
          \/ Quiet(lines)
      BY <1>1 DEF FetchTranslate
    <2> QED BY <2>1, <1>q, <1>r, <1>b
  <1>2. CASE \/ FetchRequest(i, lines) \/ Decode(lines) \/ ExecuteComplete(lines)
             \/ Writeback(lines) \/ Memory(d, lines) \/ Walk(d, lines)
             \/ InterruptVectorTranslate(lines) \/ Stopped(lines)
    <2>1. FetchRequest(i, lines) => Quiet(lines)
      BY DEF FetchRequest
    <2>2. Decode(lines) => Quiet(lines)
      BY DEF Decode
    <2>3. ExecuteComplete(lines) => Quiet(lines)
      BY DEF ExecuteComplete
    <2>4. Writeback(lines) => Quiet(lines)
      BY DEF Writeback
    <2>5. Memory(d, lines) => Quiet(lines)
      BY DEF Memory
    <2>6. Walk(d, lines) => Quiet(lines)
      BY DEF Walk
    <2>7. InterruptVectorTranslate(lines) => Quiet(lines)
      BY DEF InterruptVectorTranslate
    <2>8. Stopped(lines) => Quiet(lines)
      BY DEF Stopped
    <2> QED BY <1>2, <1>q, <2>1, <2>2, <2>3, <2>4, <2>5, <2>6, <2>7, <2>8
  <1>3. ASSUME NEW o, ExecuteRegister(o, lines) \/ ExecuteTrap(o, lines) \/ ExecuteMemory(o, lines)
        PROVE  Goal
    <2>1. CASE ExecuteRegister(o, lines)
      BY <2>1 DEF ExecuteRegister, Goal
    <2>2. CASE ExecuteTrap(o, lines)
      BY <2>2, <1>r DEF ExecuteTrap
    <2>3. CASE ExecuteMemory(o, lines)
      BY <2>3, <1>q DEF ExecuteMemory
    <2> QED BY <1>3, <2>1, <2>2, <2>3
  <1>4. CASE MemTranslate(lines)
    <2>1. Quiet(lines) \/ \E trap : RaiseSyncTrap(trap, lines)
      BY <1>4 DEF MemTranslate, Translation
    <2> QED BY <2>1, <1>q, <1>r
  <1>5. CASE WalkProcess(lines)
    <2>1. \/ Quiet(lines) \/ \E trap : RaiseSyncTrap(trap, lines)
          \/ \E fill : Clock(<<>>, <<>>, <<>>, <<>>, <<>>, fill, lines)
      BY <1>5 DEF WalkProcess
    <2> QED BY <2>1, <1>q, <1>r DEF Goal
  <1>6. CASE InterruptVectorLoad(d, lines)
    <2>1. \/ Quiet(lines)
          \/ \E entered : Clock(<<>>, <<>>, entered, <<>>, <<>>, <<>>, lines)
      BY <1>6 DEF InterruptVectorLoad
    <2> QED BY <2>1, <1>q DEF Goal
  <1> QED BY <1>0, <1>1, <1>2, <1>3, <1>4, <1>5, <1>6

\* the invariant: the register file is complete and the generations are past
Registers == IsFile(sr) /\ GenerationsPast(tlb)

\* One step keeps the invariant, and one that switches the address space
\* leaves no live entry.
LEMMA StepSwitches ==
  ASSUME Registers, Next
  PROVE  /\ Registers'
         /\ \/ sr'[CPU_CONTROL] # sr[CPU_CONTROL]
            \/ sr'[PAGE_TABLE_ROOT] # sr[PAGE_TABLE_ROOT]
            => Live(tlb') = {}
  <1>1. PICK control, saved, entered, trap, write, fill, lines :
          Clock(control, saved, entered, trap, write, fill, lines)
    BY StepClocks
  <1>2. PICK set : sr' = SpecialClock(sr, control, saved, entered, trap, write, set)
    BY <1>1 DEF Clock, V2SpecialClock
  <1>3. tlb' = TlbClock(tlb, TlbFlush(control, write), fill)
    BY <1>1 DEF Clock, V2TlbClock
  <1>4. TlbFlush(control, write) \in BOOLEAN
    BY DEF TlbFlush
  <1>5. GenerationsPast(tlb') /\ (TlbFlush(control, write) => Live(tlb') = {})
    BY <1>3, <1>4, ClockPast DEF Registers
  <1>6. /\ IsFile(sr')
        /\ \/ sr'[CPU_CONTROL] # sr[CPU_CONTROL]
           \/ sr'[PAGE_TABLE_ROOT] # sr[PAGE_TABLE_ROOT]
           => TlbFlush(control, write)
    BY <1>2, SpecialClockFile DEF Registers
  <1> QED BY <1>5, <1>6 DEF Registers

\* No translation outlives its address space in the V2 core: the edge that
\* changes the control word or the root empties the TLB, for every program,
\* TLB size, number of generations and behaviour of the buses.
THEOREM V2Switch == Spec => SwitchFlushes
  <1>1. Init => Registers
    BY ProgramsAssumption, ResetPast DEF Init, Registers, IsFile, IsProgram
  <1>2. Registers /\ [Next]_vars => Registers'
    BY StepSwitches DEF vars, Registers
  <1>3. Registers /\ [Next]_vars =>
          [\/ sr'[CPU_CONTROL] # sr[CPU_CONTROL]
           \/ sr'[PAGE_TABLE_ROOT] # sr[PAGE_TABLE_ROOT]
           => Live(tlb') = {}]_vars
    BY StepSwitches
  <1> QED BY <1>1, <1>2, <1>3, PTL DEF Spec, SwitchFlushes

-----------------------------------------------------------------------------
\* When the core implements Isa.  An access finds the LSU idle: no load that
\* the cache answered has left its request on a bus that is still busy.
BusFree == Requesting /\ ~started => lsu.st = "IDLE"

\* The cache does not answer the load of a PC-relative PUSH or POP.
CachedWhole == st = "MEMORY" /\ Cached => mo[1].op.chain = <<>>

\* A store that finds its line in the cache is one to memory, and keeps what
\* is written: the cache holds no line of a device or of an empty address.
HitsMemory ==
    st = "MEMORY" /\ mo[1].op.write /\ CacheHit(dcache, mo[1].addr) =>
        \A k \in 0 .. (mo[1].op.width - 1) : mo[1].addr + k \in DOMAIN mem

\* A store-conditional fails only when there is no reservation at all.
ScrClears ==
    st = "EXECUTE" /\ exe[1].i.op = "SCR" /\ resv # <<exe[1].b>> => resv = <<>>

-----------------------------------------------------------------------------
\* The invariant: what each state of the switch knows about the instruction

\* every register, latch and byte holds a word of its width
Words ==
    /\ regs \in [DOMAIN prog.regs -> Word]
    /\ 0 \in DOMAIN regs => regs[0] = 0
    /\ sr \in [Selectors -> Word]
    /\ mem \in [DOMAIN prog.mem -> Byte]
    /\ fetch_phys \in Word
    /\ IsInstruction(cur, DOMAIN prog.regs)

\* the address of the next instruction translates, and where to
PcMapped == Translate(regs[15], "X", sr).fault = <<>>
PcPhys   == Translate(regs[15], "X", sr).phys

\* the instruction at R15, and what it computes
Here == Fetch(prog.code, PcPhys)
Asked == Execute(Here, regs[15], ReadReg(regs, Here.rd), ReadReg(regs, Here.rs1), flags, sr, resv)

\* the translations of an operation's address and of its chained store's
FirstAccess(op) == Translate(op.addr, IF op.write THEN "W" ELSE "R", sr)
ChainAccess(op) == Translate(op.chain[1], "W", sr)

\* The operation in hand is the one the instruction asks for, or the store
\* that one is chained to, with the word it loaded.
Chosen(first, op) ==
    /\ Asked.memory = <<first>> /\ IsOperation(first, Here, resv)
    /\ \/ op = first
       \/ /\ first.chain # <<>> /\ FirstAccess(first).fault = <<>>
          /\ op = ChainedStore(first, LoadBytes(mem, FirstAccess(first).phys, first.width))
Pending ==
    mo # <<>> =>
        LET op == mo[1].op IN
        /\ mo = <<mo[1]>> /\ DOMAIN mo[1] = {"op", "addr", "next_pc"}
        /\ mo[1].next_pc \in Word /\ mo[1].addr \in Word
        /\ IsOperation(op, Here, resv)
        /\ PcMapped /\ fault_pc = regs[15]
        /\ Asked.memory # <<>> /\ Asked.next_pc = mo[1].next_pc
        /\ ~Beaten => Chosen(Asked.memory[1], op)

\* what waits in the writeback latch are words
Latches ==
    wb # <<>> =>
        /\ wb = <<wb[1]>> /\ DOMAIN wb[1] = {"writes", "flags", "next_pc"}
        /\ wb[1].next_pc \in Word
        /\ \A r, old : old \in Word => LastWrite(wb[1].writes, r, old) \in Word

\* where the interrupt table holds the vector's handler
TableVa == Plus(sr[INTERRUPT_TABLE_BASE], entry[1].vector)

States ==
    {"FETCH_TRANSLATE", "FETCH_REQUEST", "DECODE", "EXECUTE", "EXECUTE_COMPLETE", "WRITEBACK",
     "MEM_TRANSLATE", "MEMORY", "WALK", "WALK_PROCESS", "INTERRUPT_VECTOR_TRANSLATE",
     "INTERRUPT_VECTOR_LOAD", "HALTED"}

\* what a walk is for, and that the rest of it is the walk from the root
Walking ==
    st \in {"WALK", "WALK_PROCESS"} =>
        LET w == walk[1] IN
        /\ walk = <<w>>
        /\ DOMAIN w = {"va", "table", "level", "access", "kind", "pte"}
        /\ w.va \in Word /\ w.level \in 0 .. 2
        /\ Paging /\ EntryFault(w.va, sr) = <<>>
        /\ \/ /\ w.kind = "fetch" /\ w.va = regs[15] /\ w.access = "X" /\ w.va % 2 = 0
              /\ fault_pc = regs[15] /\ mo = <<>> /\ entry = <<>>
           \/ /\ w.kind = "memory" /\ mo # <<>> /\ entry = <<>> /\ w.va = mo[1].op.addr
              /\ w.access = IF mo[1].op.write THEN "W" ELSE "R"
           \/ /\ w.kind = "vector" /\ w.va = TableVa /\ w.access = "R"
              /\ mo = <<>> /\ entry # <<>>
        /\ \A access, user :
              WalkFrom2(PageOf(sr[PAGE_TABLE_ROOT]), PageOf(w.va), access, user)
                  = WalkRest(w.table, w.level, PageOf(w.va), access, user)
        /\ st = "WALK_PROCESS" => w.pte = WalkEntry(w.table, w.level, PageOf(w.va))

\* an entry under way, which has saved everything but the PC and the flags
Entering ==
    entry # <<>> =>
        /\ entry = <<entry[1]>> /\ DOMAIN entry[1] = {"vector", "epc", "phys"}
        /\ entry[1].epc \in Word
        /\ entry[1].vector = CurInt(sr[CPU_CONTROL])

\* what each state of the switch knows
Phases ==
    /\ st \in States
    /\ st \in {"EXECUTE_COMPLETE", "WRITEBACK"} <=> wb # <<>>
    /\ st \in {"MEM_TRANSLATE", "MEMORY"} => mo # <<>> /\ entry = <<>>
    /\ st \in {"INTERRUPT_VECTOR_TRANSLATE", "INTERRUPT_VECTOR_LOAD"} => mo = <<>> /\ entry # <<>>
    /\ st \in {"FETCH_TRANSLATE", "FETCH_REQUEST", "DECODE", "EXECUTE", "EXECUTE_COMPLETE",
               "WRITEBACK", "HALTED"} => mo = <<>> /\ entry = <<>>
    /\ st = "FETCH_REQUEST" => PcMapped /\ fetch_phys = PcPhys
    /\ st \in {"DECODE", "EXECUTE"} => PcMapped /\ cur = Here
    /\ st = "EXECUTE" => exe = <<[i |-> Here, pc |-> regs[15], a |-> ReadReg(regs, Here.rd),
                                  b |-> ReadReg(regs, Here.rs1)]>>
    /\ st = "MEMORY" => FirstAccess(mo[1].op) = [phys |-> mo[1].addr, fault |-> <<>>]
    /\ st = "INTERRUPT_VECTOR_LOAD" =>
          Translate(TableVa, "R", sr) = [phys |-> entry[1].phys, fault |-> <<>>]

\* The LSU works on the request of the state that waits for it, or on a load
\* nobody waits for; its first beat is done; buses that do not fail answer
\* before the watchdogs.
Bus ==
    /\ DOMAIN lsu = {"st", "started", "req", "first", "wd"}
    /\ lsu.st \in {"IDLE", "FIRST", "SECOND"} /\ lsu.started \in BOOLEAN
    /\ started \in BOOLEAN
    /\ started => Requesting /\ LsuActive(lsu) /\ lsu.req = Request
    /\ ~started => ~lsu.req.write
    /\ lsu.st = "SECOND" => SplitNeeded(lsu.req)
    /\ lsu.st = "SECOND" /\ started =>
          IF lsu.req.write
          THEN mem = StoreBytes(mem, lsu.req.addr, 0 .. (Room(lsu.req) - 1), lsu.req.value)
          ELSE lsu.first = BusWord(mem, lsu.req.addr)
Watchdogs ==
    /\ DOMAIN fe = {"valid", "base", "req", "cancelled", "rbase", "wd"}
    /\ lsu.wd \in Nat /\ (~lsu.started => lsu.wd = 0)
    /\ fe.wd \in Nat /\ fe.req \in BOOLEAN /\ (~fe.req => fe.wd = 0)
    /\ ~prog.faulty => lsu.wd < BusTimeout /\ fe.wd < FetchTimeout

\* a line holds the memory of its tag, and the tag belongs to the line
IsLine(e, k, m) ==
    e = <<>> \/ \E tag \in 0 .. 63 :
        /\ tag % CacheLines = k
        /\ e = <<[tag |-> tag, data |-> LoadBytes(m, tag * WordBytes, WordBytes)]>>
IsCache(c, m) ==
    /\ DOMAIN c = 0 .. (CacheLines - 1)
    /\ \A k \in 0 .. (CacheLines - 1) : IsLine(c[k], k, m)

\* the units beside the switch; the cache is behind by the rest of a store
\* whose first beat is done
UnitsRight == Bus /\ Watchdogs /\ (~Beaten => IsCache(dcache, mem))

\* The core is sound, its TLB and its cache included, until it locks up.
Sound ==
    /\ Words /\ Pending /\ Latches /\ Walking /\ Entering /\ Phases /\ UnitsRight
    /\ GenerationsPast(tlb) /\ Agrees(tlb, PageOf(sr[PAGE_TABLE_ROOT]))

Inv == prog \in Programs /\ (~locked => Sound)

-----------------------------------------------------------------------------
\* The machine of Isa is built from the same constants,
LEMMA ArchConstants ==
  /\ Arch!Selectors = Selectors /\ Arch!CPU_CONTROL = CPU_CONTROL /\ Arch!PAGE_TABLE_ROOT = PAGE_TABLE_ROOT
  /\ Arch!INTERRUPT_TABLE_BASE = INTERRUPT_TABLE_BASE /\ Arch!INTERRUPT_MASK_HIGH = INTERRUPT_MASK_HIGH
  /\ Arch!INTERRUPT_STATES_HIGH = INTERRUPT_STATES_HIGH /\ Arch!INTERRUPT_EPC = INTERRUPT_EPC
  /\ Arch!INTERRUPT_EFLAGS = INTERRUPT_EFLAGS /\ Arch!INTERRUPT_CPU_CONTROL = INTERRUPT_CPU_CONTROL
  /\ Arch!TRAP_CAUSE = TRAP_CAUSE /\ Arch!TRAP_FAULT_ADDR = TRAP_FAULT_ADDR
  /\ Arch!TRAP_ACCESS = TRAP_ACCESS /\ Arch!TRAP_PC = TRAP_PC /\ Arch!TRAP_AUX = TRAP_AUX
  /\ Arch!THREAD_POINTER = THREAD_POINTER
  /\ Arch!WordBytes = WordBytes /\ Arch!PageBytes = PageBytes /\ Arch!FIRST_HW_IRQ = FIRST_HW_IRQ
  BY DEF Arch!Selectors, Selectors, Arch!CPU_CONTROL, CPU_CONTROL, Arch!PAGE_TABLE_ROOT, PAGE_TABLE_ROOT,
         Arch!INTERRUPT_TABLE_BASE, INTERRUPT_TABLE_BASE, Arch!INTERRUPT_MASK_HIGH, INTERRUPT_MASK_HIGH,
         Arch!INTERRUPT_STATES_HIGH, INTERRUPT_STATES_HIGH, Arch!INTERRUPT_EPC, INTERRUPT_EPC,
         Arch!INTERRUPT_EFLAGS, INTERRUPT_EFLAGS, Arch!INTERRUPT_CPU_CONTROL, INTERRUPT_CPU_CONTROL,
         Arch!TRAP_CAUSE, TRAP_CAUSE, Arch!TRAP_FAULT_ADDR, TRAP_FAULT_ADDR,
         Arch!TRAP_ACCESS, TRAP_ACCESS, Arch!TRAP_PC, TRAP_PC, Arch!TRAP_AUX, TRAP_AUX,
         Arch!THREAD_POINTER, THREAD_POINTER,
         Arch!WordBytes, WordBytes, Arch!PageBytes, PageBytes, Arch!FIRST_HW_IRQ, FIRST_HW_IRQ

\* the same arithmetic,
LEMMA ArchBits ==
  /\ \A a, b : Arch!Plus(a, b) = Plus(a, b) /\ Arch!Minus(a, b) = Minus(a, b)
  /\ \A w, i : Arch!Bit(w, i) = Bit(w, i) /\ Arch!ByteOf(w, i) = ByteOf(w, i)
  /\ \A w, S : Arch!SetBits(w, S) = SetBits(w, S)
  <1>1. \A w, i : Arch!Bit(w, i) = Bit(w, i) /\ Arch!ByteOf(w, i) = ByteOf(w, i)
    BY DEF Arch!Bit, Bit, Arch!ByteOf, ByteOf
  <1>2. \A w, S : Arch!SetBits(w, S) = SetBits(w, S)
    BY <1>1 DEF Arch!SetBits, SetBits
  <1> QED BY <1>1, <1>2 DEF Arch!Plus, Plus, Arch!Minus, Minus

\* the same control word,
LEMMA ArchControl ==
  /\ \A c : Arch!IntEnable(c) = IntEnable(c) /\ Arch!InInterrupt(c) = InInterrupt(c)
  /\ \A c : Arch!CurInt(c) = CurInt(c)
  /\ \A c : Arch!PagingOn(c) = PagingOn(c) /\ Arch!UserMode(c) = UserMode(c)
  /\ \A c, v : Arch!EntryControl(c, v) = EntryControl(c, v)
  /\ \A c, v : Arch!CanPreempt(c, v) = CanPreempt(c, v)
  /\ \A c, v : Arch!PreemptLockup(c, v) = PreemptLockup(c, v)
  <1>1. \A c : Arch!IntEnable(c) = IntEnable(c) /\ Arch!InInterrupt(c) = InInterrupt(c)
    BY ArchBits DEF Arch!IntEnable, IntEnable, Arch!InInterrupt, InInterrupt
  <1>2. \A c : Arch!CurInt(c) = CurInt(c)
    BY DEF Arch!CurInt, CurInt
  <1>3. \A c : Arch!PagingOn(c) = PagingOn(c) /\ Arch!UserMode(c) = UserMode(c)
    BY ArchBits DEF Arch!PagingOn, PagingOn, Arch!UserMode, UserMode
  <1>4. \A c, v : Arch!EntryControl(c, v) = EntryControl(c, v)
    BY <1>3 DEF Arch!EntryControl, EntryControl
  <1>5. \A c, v : Arch!CanPreempt(c, v) = CanPreempt(c, v)
    BY <1>1, <1>2 DEF Arch!CanPreempt, CanPreempt
  <1>6. \A c, v : Arch!PreemptLockup(c, v) = PreemptLockup(c, v)
    BY <1>1, <1>2, ArchConstants DEF Arch!PreemptLockup, PreemptLockup
  <1> QED BY <1>1, <1>2, <1>3, <1>4, <1>5, <1>6

\* the same memory,
LEMMA ArchMemory ==
  /\ \A m, a : Arch!ByteAt(m, a) = ByteAt(m, a)
  /\ \A m, a, w : Arch!LoadBytes(m, a, w) = LoadBytes(m, a, w)
  /\ \A m, a, S, v : Arch!StoreBytes(m, a, S, v) = StoreBytes(m, a, S, v)
  /\ \A a : Arch!PageOf(a) = PageOf(a) /\ Arch!OffsetOf(a) = OffsetOf(a)
  /\ \A e : Arch!PteAt(e) = PteAt(e) /\ Arch!HandlerAt(e) = HandlerAt(e)
  <1>1. \A m, a : Arch!ByteAt(m, a) = ByteAt(m, a)
    BY DEF Arch!ByteAt, ByteAt
  <1>2. \A b : Arch!WordOf(b) = WordOf(b)
    BY DEF Arch!WordOf, WordOf
  <1>3. \A m, a, w : Arch!LoadBytes(m, a, w) = LoadBytes(m, a, w)
    BY <1>1, <1>2 DEF Arch!LoadBytes, LoadBytes
  <1>4. \A m, a, S, v : Arch!StoreBytes(m, a, S, v) = StoreBytes(m, a, S, v)
    BY ArchBits DEF Arch!StoreBytes, StoreBytes
  <1>5. \A a : Arch!PageOf(a) = PageOf(a) /\ Arch!OffsetOf(a) = OffsetOf(a)
    BY ArchConstants DEF Arch!PageOf, PageOf, Arch!OffsetOf, OffsetOf
  <1>6. \A e : Arch!PteAt(e) = PteAt(e) /\ Arch!HandlerAt(e) = HandlerAt(e)
    BY <1>5, ArchConstants DEF Arch!PteAt, PteAt, Arch!HandlerAt, HandlerAt, Arch!ZeroPte, ZeroPte
  <1> QED BY <1>1, <1>3, <1>4, <1>5, <1>6

\* the same page walk and trap information,
LEMMA ArchTranslate ==
  /\ \A va, access, s : Arch!Translate(va, access, s) = Translate(va, access, s)
  /\ \A access : Arch!AccessCode(access) = AccessCode(access)
  /\ \A c, a, x, p, y : Arch!TrapInfo(c, a, x, p, y) = TrapInfo(c, a, x, p, y)
  <1>1. \A t, l, p : Arch!WalkEntry(t, l, p) = WalkEntry(t, l, p)
    <2>1. \A t, l, p : Arch!WalkPteAddr(t, l, p) = WalkPteAddr(t, l, p)
      BY ArchConstants DEF Arch!WalkPteAddr, WalkPteAddr, Arch!P!Idx0, P!Idx0, Arch!P!Idx1, P!Idx1, Arch!P!Idx2, P!Idx2
    <2> QED BY <2>1, ArchMemory DEF Arch!WalkEntry, WalkEntry
  <1>2. \A pte : Arch!WalkIsLeaf(pte) = WalkIsLeaf(pte)
    BY DEF Arch!WalkIsLeaf, WalkIsLeaf
  <1>3. \A s, l : Arch!EncodeAux(s, l) = EncodeAux(s, l)
    BY DEF Arch!EncodeAux, EncodeAux
  <1>4. \A pte, l, a, u : Arch!WalkFault(pte, l, a, u) = WalkFault(pte, l, a, u)
    BY <1>2, <1>3 DEF Arch!WalkFault, WalkFault, Arch!WalkAllowed, WalkAllowed,
         Arch!PAGE_FAULT_NOT_PRESENT, PAGE_FAULT_NOT_PRESENT, Arch!PAGE_FAULT_RESERVED, PAGE_FAULT_RESERVED,
         Arch!PAGE_FAULT_PERMISSION, PAGE_FAULT_PERMISSION
  <1>5. \A pte, l, p : Arch!WalkPage(pte, l, p) = WalkPage(pte, l, p)
    BY ArchConstants DEF Arch!WalkPage, WalkPage
  <1>6. \A pte, l, a, u : Arch!WalkStops(pte, l, a, u) = WalkStops(pte, l, a, u)
    BY <1>2, <1>4 DEF Arch!WalkStops, WalkStops
  <1>7. \A pte, l, p, a, u : Arch!WalkEnd(pte, l, p, a, u) = WalkEnd(pte, l, p, a, u)
    BY <1>4, <1>5 DEF Arch!WalkEnd, WalkEnd
  <1>8. \A t, p, a, u : Arch!WalkFrom0(t, p, a, u) = WalkFrom0(t, p, a, u)
    BY <1>1, <1>7 DEF Arch!WalkFrom0, WalkFrom0
  <1>9. \A t, p, a, u : Arch!WalkFrom1(t, p, a, u) = WalkFrom1(t, p, a, u)
    BY <1>1, <1>6, <1>7, <1>8 DEF Arch!WalkFrom1, WalkFrom1
  <1>10. \A t, p, a, u : Arch!WalkFrom2(t, p, a, u) = WalkFrom2(t, p, a, u)
    BY <1>1, <1>6, <1>7, <1>9 DEF Arch!WalkFrom2, WalkFrom2
  <1>11. \A va, s : Arch!EntryFault(va, s) = EntryFault(va, s)
    <2>1. \A va : Arch!Canonical(va) = Canonical(va)
      BY ArchMemory DEF Arch!Canonical, Canonical, Arch!P!Canonical, P!Canonical, Arch!P!NPages, P!NPages
    <2> QED BY <1>3, <2>1, ArchConstants
            DEF Arch!EntryFault, EntryFault, Arch!RootAligned, RootAligned,
                Arch!PAGE_FAULT_CANONICAL, PAGE_FAULT_CANONICAL, Arch!PAGE_FAULT_RESERVED, PAGE_FAULT_RESERVED
  <1>12. \A va, access, s : Arch!Translate(va, access, s) = Translate(va, access, s)
    BY <1>3, <1>10, <1>11, ArchConstants, ArchMemory, ArchControl
    DEF Arch!Translate, Translate, Arch!EXEC_ALIGN, EXEC_ALIGN
  <1> QED BY <1>12 DEF Arch!AccessCode, AccessCode, Arch!TrapInfo, TrapInfo

\* the same ALU and flags,
LEMMA ArchAlu ==
  /\ \A fn, a, b, imm : Arch!Alu(fn, a, b, imm) = Alu(fn, a, b, imm)
  /\ \A r, c : Arch!FlagValue(r, c) = FlagValue(r, c)
  /\ \A f : Arch!FlagsWord(f) = FlagsWord(f)
  /\ \A w : Arch!WordFlags(w) = WordFlags(w)
  /\ \A f, c : Arch!LsCondition(f, c) = LsCondition(f, c)
  <1>1. \A a, n : Arch!ShiftLeft(a, n) = ShiftLeft(a, n) /\ Arch!ShiftRight(a, n) = ShiftRight(a, n)
    BY ArchBits DEF Arch!ShiftLeft, ShiftLeft, Arch!ShiftRight, ShiftRight
  <1>2. \A a, n : Arch!ShiftArithmetic(a, n) = ShiftArithmetic(a, n)
    BY <1>1 DEF Arch!ShiftArithmetic, ShiftArithmetic
  <1>3. \A fn, a, b, imm : Arch!Alu(fn, a, b, imm) = Alu(fn, a, b, imm)
    BY DEF Arch!Alu, Alu, Arch!ShiftLeft, ShiftLeft, Arch!ShiftRight, ShiftRight,
           Arch!ShiftArithmetic, ShiftArithmetic, Arch!Bit, Bit, Arch!SetBits, SetBits,
           Arch!Plus, Plus, Arch!Minus, Minus
  <1>4. \A w : Arch!WordFlags(w) = WordFlags(w)
    BY ArchBits DEF Arch!WordFlags, WordFlags
  <1> QED BY <1>3, <1>4 DEF Arch!FlagValue, FlagValue, Arch!FlagsWord, FlagsWord, Arch!LsCondition, LsCondition

\* the same special registers
LEMMA ArchSpecial ==
  /\ \A s, sel : Arch!SpecialRead(s, sel) = SpecialRead(s, sel)
  /\ \A s, sel : Arch!ReadAccessFault(s, sel) = ReadAccessFault(s, sel)
  /\ \A s, sel : Arch!WriteAccessFault(s, sel) = WriteAccessFault(s, sel)
  /\ \A s, c, t : Arch!TrapWrite(s, c, t) = TrapWrite(s, c, t)
  /\ \A s, c, v, e, t, w, l : Arch!SpecialClock(s, c, v, e, t, w, l) = SpecialClock(s, c, v, e, t, w, l)
  /\ \A s, l : Arch!PendingIrq(s, l) = PendingIrq(s, l)
  <1>1. \A s, sel : Arch!SpecialRead(s, sel) = SpecialRead(s, sel)
    BY ArchConstants DEF Arch!SpecialRead, SpecialRead
  <1>2. \A s, sel : /\ Arch!ReadAccessFault(s, sel) = ReadAccessFault(s, sel)
                    /\ Arch!WriteAccessFault(s, sel) = WriteAccessFault(s, sel)
    BY ArchConstants, ArchControl DEF Arch!ReadAccessFault, ReadAccessFault, Arch!WriteAccessFault, WriteAccessFault
  <1>3. \A s, c, t : Arch!TrapWrite(s, c, t) = TrapWrite(s, c, t)
    BY ArchConstants DEF Arch!TrapWrite, TrapWrite
  <1>4. \A s, w, c, l : Arch!GuestWrite(s, w, c, l) = GuestWrite(s, w, c, l)
    BY ArchConstants, ArchBits DEF Arch!GuestWrite, GuestWrite
  <1>5. \A s, c, v, e, t, w, l : Arch!SpecialClock(s, c, v, e, t, w, l) = SpecialClock(s, c, v, e, t, w, l)
    BY DEF Arch!SpecialClock, SpecialClock, Arch!TrapWrite, TrapWrite, Arch!GuestWrite, GuestWrite,
           Arch!SetBits, SetBits, Arch!Bit, Bit, Arch!Selectors, Selectors,
           Arch!CPU_CONTROL, CPU_CONTROL, Arch!INTERRUPT_STATES_HIGH, INTERRUPT_STATES_HIGH,
           Arch!INTERRUPT_EPC, INTERRUPT_EPC, Arch!INTERRUPT_EFLAGS, INTERRUPT_EFLAGS,
           Arch!INTERRUPT_CPU_CONTROL, INTERRUPT_CPU_CONTROL, Arch!TRAP_CAUSE, TRAP_CAUSE,
           Arch!TRAP_FAULT_ADDR, TRAP_FAULT_ADDR, Arch!TRAP_ACCESS, TRAP_ACCESS,
           Arch!TRAP_PC, TRAP_PC, Arch!TRAP_AUX, TRAP_AUX
  <1>6. \A s, l : Arch!PendingIrq(s, l) = PendingIrq(s, l)
    BY DEF Arch!PendingIrq, PendingIrq, Arch!Bit, Bit, Arch!Min, Min, Arch!FIRST_HW_IRQ, FIRST_HW_IRQ,
           Arch!INTERRUPT_MASK_HIGH, INTERRUPT_MASK_HIGH, Arch!INTERRUPT_STATES_HIGH, INTERRUPT_STATES_HIGH
  <1> QED BY <1>1, <1>2, <1>3, <1>5, <1>6

\* and the same execute, memory and retire stages.
LEMMA ArchStages ==
  /\ \A c, a : Arch!Fetch(c, a) = Fetch(c, a)
  /\ \A g, r : Arch!ReadReg(g, r) = ReadReg(g, r)
  /\ \A i, pc, a, b, f, s, res : Arch!Execute(i, pc, a, b, f, s, res) = Execute(i, pc, a, b, f, s, res)
  /\ \A op, v : Arch!MemoryWrites(op, v) = MemoryWrites(op, v)
  /\ \A op, v, n : Arch!MemoryNextPc(op, v, n) = MemoryNextPc(op, v, n)
  /\ \A g, w, n : Arch!WriteBack(g, w, n) = WriteBack(g, w, n)
  <1>1. \A i, a, n : Arch!ExecuteLdi(i, a, n) = ExecuteLdi(i, a, n)
    BY DEF Arch!ExecuteLdi, ExecuteLdi, Arch!SetBits, SetBits, Arch!Bit, Bit
  <1>2. \A i, a, b, f, n : Arch!ExecuteLs(i, a, b, f, n) = ExecuteLs(i, a, b, f, n)
    BY DEF Arch!ExecuteLs, ExecuteLs, Arch!Plus, Plus, Arch!Minus, Minus, Arch!MemoryOp, MemoryOp,
           Arch!LsCondition, LsCondition, Arch!WordBytes, WordBytes
  <1>3. \A i, a, f, n : Arch!ExecuteLsPc(i, a, f, n) = ExecuteLsPc(i, a, f, n)
    BY DEF Arch!ExecuteLsPc, ExecuteLsPc, Arch!Plus, Plus, Arch!Minus, Minus, Arch!MemoryOp, MemoryOp,
           Arch!LsCondition, LsCondition, Arch!WordBytes, WordBytes
  <1>4. \A i, a, b, n : Arch!ExecuteAlu(i, a, b, n) = ExecuteAlu(i, a, b, n)
    BY ArchAlu, ZenonT(40) DEF Arch!ExecuteAlu, ExecuteAlu
  <1>5. \A i, a, b, f, res, n : Arch!ExecuteAtomic(i, a, b, f, res, n) = ExecuteAtomic(i, a, b, f, res, n)
    BY DEF Arch!ExecuteAtomic, ExecuteAtomic, Arch!MemoryOp, MemoryOp, Arch!WordBytes, WordBytes
  <1>6. \A i, a, b, s, n : Arch!ExecuteSystem(i, a, b, s, n) = ExecuteSystem(i, a, b, s, n)
    BY DEF Arch!ExecuteSystem, ExecuteSystem, Arch!ReadAccessFault, ReadAccessFault,
           Arch!WriteAccessFault, WriteAccessFault, Arch!SpecialRead, SpecialRead, Arch!UserMode, UserMode,
           Arch!Bit, Bit, Arch!WordFlags, WordFlags, Arch!Selectors, Selectors,
           Arch!CPU_CONTROL, CPU_CONTROL, Arch!THREAD_POINTER, THREAD_POINTER,
           Arch!INTERRUPT_EPC, INTERRUPT_EPC, Arch!INTERRUPT_EFLAGS, INTERRUPT_EFLAGS,
           Arch!INTERRUPT_CPU_CONTROL, INTERRUPT_CPU_CONTROL,
           Arch!PRIVILEGED_INSTRUCTION, PRIVILEGED_INSTRUCTION, Arch!SYSCALL, SYSCALL,
           Arch!SYSCALL_FROM_SUPERVISOR, SYSCALL_FROM_SUPERVISOR,
           Arch!INVALID_INSTRUCTION, INVALID_INSTRUCTION
  <1>7. \A n : Arch!NopOutputs(n) = NopOutputs(n)
    BY DEF Arch!NopOutputs, NopOutputs
  <1>8. \A i, pc, a, b, f, s, res : Arch!Execute(i, pc, a, b, f, s, res) = Execute(i, pc, a, b, f, s, res)
    BY <1>1, <1>2, <1>3, <1>4, <1>5, <1>6, <1>7, ArchBits DEF Arch!Execute, Execute
  <1>9. \A op, v, n : /\ Arch!MemoryWrites(op, v) = MemoryWrites(op, v)
                      /\ Arch!MemoryNextPc(op, v, n) = MemoryNextPc(op, v, n)
    BY DEF Arch!MemoryWrites, MemoryWrites, Arch!MemoryNextPc, MemoryNextPc, Arch!LastWrite, LastWrite,
           Arch!Plus, Plus, Arch!WordBytes, WordBytes
  <1>10. \A g, w, n : Arch!WriteBack(g, w, n) = WriteBack(g, w, n)
    BY DEF Arch!WriteBack, WriteBack, Arch!LastWrite, LastWrite
  <1> QED BY <1>8, <1>9, <1>10
          DEF Arch!Fetch, Fetch, Arch!Unassigned, Unassigned, Arch!ReadReg, ReadReg

\* between two instructions, or in one that has not been decided
Plain == ~locked /\ st # "HALTED" /\ entry = <<>> /\ wb = <<>> /\ ~Beaten

\* Between two instructions the machine's state is the core's.
LEMMA PlainDone ==
  ASSUME Plain
  PROVE  /\ DoneRegs = regs /\ DoneFlags = flags /\ DoneMemory = mem /\ DoneReservation = resv
         /\ DoneSpecial = sr /\ Mode = "run"
  BY DEF Plain, Done, DoneRegs, DoneFlags, DoneMemory, DoneReservation, DoneSpecial, Mode

\* The machine's next instruction is the one at the core's R15.
LEMMA ArchAsked ==
  ASSUME Plain
  PROVE  Arch!Outputs = Asked /\ Arch!FetchFault = Translate(regs[15], "X", sr).fault
         /\ Arch!pc = regs[15]
  <1>1. Arch!pc = regs[15]
    BY PlainDone DEF Arch!pc
  <1>2. Arch!Instruction = Here
    BY <1>1, PlainDone, ArchTranslate, ArchStages DEF Arch!Instruction, Here, PcPhys
  <1> QED BY <1>1, <1>2, PlainDone, ArchTranslate, ArchStages DEF Arch!Outputs, Asked, Arch!FetchFault

\* An instruction that stays in the registers
LEMMA StepRegister ==
  ASSUME Plain, NEW lines \in SUBSET prog.lines, PcMapped, NEW o, o = Asked,
         o.memory = <<>>, o.trap = 0, prog' = prog,
         DoneRegs' = WriteBack(regs, o.writes, o.next_pc),
         DoneFlags' = IF o.flags = <<>> THEN flags ELSE o.flags[1],
         DoneReservation' = IF o.clear_reservation THEN <<>> ELSE resv,
         DoneMemory' = mem,
         DoneSpecial' = SpecialClock(sr, o.control, <<>>, <<>>, <<>>, o.special, lines),
         Mode' = IF o.halt THEN "halted" ELSE "run"
  PROVE  Arch!Next
  <1>1. Arch!RegisterStep(lines)
    BY PlainDone, ArchAsked, ArchStages, ArchSpecial DEF Arch!RegisterStep, Arch!Value, PcMapped
  <1> QED BY <1>1 DEF Arch!Next

\* The machine latches interrupt lines as the core does.
LEMMA ArchLatch == \A s, lines : Arch!Latch(s, lines) = Latched(s, lines)
  BY ArchConstants, ArchBits DEF Arch!Latch, Latched

\* Nothing happens but a line
LEMMA StepIdle ==
  ASSUME NEW lines \in SUBSET prog.lines, prog' = prog, DoneRegs' = DoneRegs, DoneFlags' = DoneFlags,
         DoneReservation' = DoneReservation, DoneMemory' = DoneMemory, Mode' = Mode,
         DoneSpecial' = Latched(DoneSpecial, lines)
  PROVE  Arch!Next
  <1>1. Arch!Idle(lines)
    BY ArchLatch DEF Arch!Idle
  <1> QED BY <1>1 DEF Arch!Next

\* The machine translates the addresses of an operation as the core does.
LEMMA ArchAccess ==
  ASSUME Plain
  PROVE  /\ \A op : Arch!FirstAccess(op) = FirstAccess(op)
         /\ \A op : Arch!ChainAccess(op) = ChainAccess(op)
         /\ \A op : Arch!MemoryFault(op) =
                IF FirstAccess(op).fault # <<>>
                THEN <<FirstAccess(op).fault, op.addr, IF op.write THEN 1 ELSE 0>>
                ELSE IF op.chain # <<>> /\ ChainAccess(op).fault # <<>>
                     THEN <<ChainAccess(op).fault, op.chain[1], 1>>
                     ELSE <<>>
  <1>1. \A op : Arch!FirstAccess(op) = FirstAccess(op) /\ Arch!ChainAccess(op) = ChainAccess(op)
    BY PlainDone, ArchTranslate DEF Arch!FirstAccess, FirstAccess, Arch!ChainAccess, ChainAccess
  <1> QED BY <1>1 DEF Arch!MemoryFault

\* what a store of width bytes leaves of a reservation
Unreserved(res, addr, width) ==
    IF res # <<>> /\ addr < res[1] + WordBytes /\ res[1] < addr + width THEN <<>> ELSE res

\* A memory instruction as a whole
LEMMA StepMemory ==
  ASSUME Plain, NEW lines \in SUBSET prog.lines, PcMapped, NEW op, Asked.memory = <<op>>,
         FirstAccess(op).fault = <<>>, op.chain # <<>> => ChainAccess(op).fault = <<>>, prog' = prog,
         NEW loaded, loaded = LoadBytes(mem, FirstAccess(op).phys, op.width),
         DoneRegs' = WriteBack(regs, MemoryWrites(op, loaded), MemoryNextPc(op, loaded, Asked.next_pc)),
         DoneFlags' = IF op.flags = <<>> THEN flags ELSE op.flags[1],
         DoneMemory' = IF op.write THEN StoreBytes(mem, FirstAccess(op).phys, 0 .. (op.width - 1), op.value)
                       ELSE IF op.chain # <<>>
                            THEN StoreBytes(mem, ChainAccess(op).phys, 0 .. (WordBytes - 1), loaded) ELSE mem,
         DoneReservation' = IF op.write THEN Unreserved(resv, op.addr, op.width)
                            ELSE IF op.chain # <<>> THEN Unreserved(resv, op.chain[1], WordBytes)
                            ELSE IF op.reserve THEN <<op.addr>> ELSE resv,
         DoneSpecial' = Latched(sr, lines), Mode' = "run"
  PROVE  Arch!Next
  <1>1. \A res, a, w : Arch!AfterStore(res, a, w) = Unreserved(res, a, w)
    BY ArchConstants DEF Arch!AfterStore, Arch!Overlaps, Unreserved
  <1>2. <<op>> # <<>> /\ <<op>>[1] = op
    OBVIOUS
  <1>3. Arch!MemoryFault(op) = <<>>
    BY ArchAccess
  <1>4. Arch!MemoryStep(lines)
    BY <1>1, <1>2, <1>3, PlainDone, ArchAsked, ArchStages, ArchMemory, ArchAccess, ArchLatch, ArchConstants
    DEF Arch!MemoryStep, Arch!Value, PcMapped
  <1> QED BY <1>4 DEF Arch!Next

\* The machine enters a handler as the core does.
LEMMA ArchEnter ==
  ASSUME Plain
  PROVE  \A s, vector : Arch!Enter(s, vector) = Entered(s, vector, regs[15], flags)
  BY PlainDone, ArchAsked, ArchConstants, ArchControl, ArchAlu DEF Arch!Enter, Entered

\* the traps the instruction at R15 can raise: it cannot be fetched, it is
\* refused, its first access faults, or the store chained to it does
TrapHere(trap) ==
    \/ LET f == Translate(regs[15], "X", sr).fault IN
       f # <<>> /\ trap = TrapInfo(f[1], regs[15], AccessCode("X"), regs[15], f[2])
    \/ PcMapped /\ Asked.trap # 0 /\ trap = TrapInfo(Asked.trap, 0, 0, regs[15], 0)
    \/ PcMapped /\ \E op : LET f == FirstAccess(op).fault IN
          /\ Asked.memory = <<op>> /\ f # <<>>
          /\ trap = TrapInfo(f[1], op.addr, IF op.write THEN 1 ELSE 0, regs[15], f[2])
    \/ PcMapped /\ \E op : LET f == ChainAccess(op).fault IN
          /\ Asked.memory = <<op>> /\ FirstAccess(op).fault = <<>> /\ op.chain # <<>> /\ f # <<>>
          /\ trap = TrapInfo(f[1], op.chain[1], 1, regs[15], f[2])

\* The instruction at R15 traps, or the trap may not preempt the handler.
LEMMA StepFault ==
  ASSUME Plain, NEW lines \in SUBSET prog.lines, NEW trap, TrapHere(trap),
         prog' = prog, DoneRegs' = regs, DoneFlags' = flags, DoneReservation' = resv, DoneMemory' = mem,
         IF PreemptLockup(sr[CPU_CONTROL], trap.cause) THEN Mode' = "locked"
         ELSE /\ Mode' = "entry"
              /\ DoneSpecial' = Entered(TrapWrite(Latched(sr, lines), sr[TRAP_CAUSE], trap), trap.cause,
                                        regs[15], flags)
  PROVE  Arch!Next
  <1>1. Arch!Trap(trap, lines)
    BY PlainDone, ArchEnter, ArchLatch, ArchSpecial, ArchControl, ArchConstants DEF Arch!Trap
  <1>2. Arch!Fault(lines)
    <2>1. CASE \E f : /\ f = Translate(regs[15], "X", sr).fault
                      /\ f # <<>> /\ trap = TrapInfo(f[1], regs[15], AccessCode("X"), regs[15], f[2])
      BY <1>1, <2>1, PlainDone, ArchAsked, ArchTranslate DEF Arch!Fault
    <2>2. CASE PcMapped /\ Asked.trap # 0 /\ trap = TrapInfo(Asked.trap, 0, 0, regs[15], 0)
      BY <1>1, <2>2, PlainDone, ArchAsked, ArchTranslate DEF Arch!Fault, PcMapped
    <2>3. ASSUME NEW op, NEW f, NEW a, NEW m, PcMapped, Asked.memory = <<op>>,
                 Arch!MemoryFault(op) = <<f, a, m>>, trap = TrapInfo(f[1], a, m, regs[15], f[2])
          PROVE  Arch!Fault(lines)
      <3>1. <<op>> # <<>> /\ <<op>>[1] = op
        OBVIOUS
      <3>3. /\ <<f, a, m>> # <<>> /\ <<f, a, m>>[1] = f
            /\ <<f, a, m>>[2] = a /\ <<f, a, m>>[3] = m
        OBVIOUS
      <3> QED BY <1>1, <2>3, <3>1, <3>3, PlainDone, ArchAsked, ArchTranslate DEF Arch!Fault, PcMapped
    <2>4. ASSUME NEW op, NEW f, PcMapped, Asked.memory = <<op>>, f = FirstAccess(op).fault, f # <<>>,
                 trap = TrapInfo(f[1], op.addr, IF op.write THEN 1 ELSE 0, regs[15], f[2])
          PROVE  Arch!Fault(lines)
      <3>1. PICK m : m = IF op.write THEN 1 ELSE 0
        OBVIOUS
      <3>2. Arch!MemoryFault(op) = <<f, op.addr, m>>
        BY <2>4, <3>1, ArchAccess
      <3> QED BY <2>4, <3>1, <3>2, <2>3
    <2>5. ASSUME NEW op, NEW f, PcMapped, Asked.memory = <<op>>, FirstAccess(op).fault = <<>>,
                 op.chain # <<>>, f = ChainAccess(op).fault, f # <<>>,
                 trap = TrapInfo(f[1], op.chain[1], 1, regs[15], f[2])
          PROVE  Arch!Fault(lines)
      <3>2. Arch!MemoryFault(op) = <<f, op.chain[1], 1>>
        BY <2>5, ArchAccess
      <3> QED BY <2>5, <3>2, <2>3
    <2> QED BY <2>1, <2>2, <2>4, <2>5 DEF TrapHere
  <1> QED BY <1>2 DEF Arch!Next

\* An interrupt is taken between two instructions.
LEMMA StepInterrupt ==
  ASSUME Plain, NEW lines \in SUBSET prog.lines, NEW vector, vector = PendingIrq(sr, lines),
         vector # 0, IntEnable(sr[CPU_CONTROL]), CanPreempt(sr[CPU_CONTROL], vector),
         prog' = prog, DoneRegs' = regs, DoneFlags' = flags, DoneReservation' = resv, DoneMemory' = mem,
         Mode' = "entry", DoneSpecial' = Entered(Latched(sr, lines), vector, regs[15], flags)
  PROVE  Arch!Next
  <1>1. Arch!Interrupt(lines)
    BY PlainDone, ArchEnter, ArchLatch, ArchSpecial, ArchControl, ArchConstants DEF Arch!Interrupt
  <1> QED BY <1>1 DEF Arch!Next

\* where the handler's address is
TableEntry == Translate(TableVa, "R", sr)

\* The machine finds the handler's address where the core does.
LEMMA ArchTable ==
  ASSUME sr \in [Selectors -> Word], Entering, entry # <<>>
  PROVE  Arch!TableEntry = TableEntry
  <1>1. /\ DoneSpecial[CPU_CONTROL] = sr[CPU_CONTROL]
        /\ DoneSpecial[PAGE_TABLE_ROOT] = sr[PAGE_TABLE_ROOT]
        /\ DoneSpecial[INTERRUPT_TABLE_BASE] = sr[INTERRUPT_TABLE_BASE]
    BY DEF DoneSpecial, INTERRUPT_EPC, INTERRUPT_EFLAGS, CPU_CONTROL, PAGE_TABLE_ROOT,
           INTERRUPT_TABLE_BASE, Selectors
  <1>2. \A va, access : Translate(va, access, DoneSpecial) = Translate(va, access, sr)
    BY <1>1 DEF Translate, EntryFault
  <1> QED BY <1>1, <1>2, ArchTranslate, ArchBits, ArchControl, ArchConstants
          DEF Arch!TableEntry, TableEntry, TableVa, Entering

\* The handler of the entry under way starts.
LEMMA StepHandler ==
  ASSUME Mode = "entry", sr \in [Selectors -> Word], Entering, entry # <<>>,
         NEW lines \in SUBSET prog.lines,
         TableEntry.fault = <<>>, HandlerAt(TableEntry.phys) # 0,
         prog' = prog, DoneFlags' = DoneFlags, DoneReservation' = DoneReservation, DoneMemory' = DoneMemory,
         DoneRegs' = [DoneRegs EXCEPT ![15] = HandlerAt(TableEntry.phys)],
         Mode' = "run", DoneSpecial' = Latched(DoneSpecial, lines)
  PROVE  Arch!Next
  <1>1. Arch!StartHandler(lines)
    BY ArchTable, ArchMemory, ArchLatch DEF Arch!StartHandler
  <1> QED BY <1>1 DEF Arch!Next

\* A missing handler or a bus error stops the core.
LEMMA StepLockup ==
  ASSUME sr \in [Selectors -> Word], Entering, prog' = prog, Mode' = "locked",
         \/ Mode = "locked"
         \/ Mode # "halted" /\ prog.faulty
         \/ Mode = "entry" /\ entry # <<>> /\ (TableEntry.fault # <<>> \/ HandlerAt(TableEntry.phys) = 0)
  PROVE  Arch!Next
  <1>1. Arch!Lockup
    BY ArchTable, ArchMemory DEF Arch!Lockup
  <1> QED BY <1>1 DEF Arch!Next

\* A halted machine stays halted.
LEMMA StepHalted ==
  ASSUME Mode = "halted", prog' = prog, DoneRegs' = DoneRegs, DoneFlags' = DoneFlags,
         DoneReservation' = DoneReservation, DoneMemory' = DoneMemory, Mode' = Mode
  PROVE  Arch!Next
  BY DEF Arch!Next, Arch!Halted

-----------------------------------------------------------------------------
\* What the core does with an address in one of its translate states is
\* what the translation of the address asks for.
LEMMA TranslationMeans ==
  ASSUME GenerationsPast(tlb), Agrees(tlb, PageOf(sr[PAGE_TABLE_ROOT])),
         NEW va \in Word, NEW access \in {"R", "W", "X"}, access = "X" => va % 2 # 1
  PROVE  /\ Translation(va, access) \in {"done", "fault", "walk"}
         /\ Translation(va, access) = "done" =>
               Translate(va, access, sr) = [phys |-> Physical(va), fault |-> <<>>]
         /\ Translation(va, access) = "fault" =>
               EntryFault(va, sr) # <<>> /\ Translate(va, access, sr).fault = EntryFault(va, sr)
         /\ Translation(va, access) = "walk" => Paging /\ EntryFault(va, sr) = <<>>
  <1>0. ~(access = "X" /\ va % 2 = 1)
    OBVIOUS
  <1>1. CASE ~Paging
    BY <1>0, <1>1 DEF Translation, Translate, Physical, Paging
  <1>2. CASE Paging /\ EntryFault(va, sr) # <<>>
    BY <1>0, <1>2 DEF Translation, Translate, Paging
  <1>3. CASE Paging /\ EntryFault(va, sr) = <<>> /\ ~TlbHit(tlb, va, access, User)
    BY <1>3 DEF Translation
  <1>4. CASE Paging /\ EntryFault(va, sr) = <<>> /\ TlbHit(tlb, va, access, User)
    <2> DEFINE k == TlbIndex(va)
               e == tlb.entry[k]
    <2>1. k \in DOMAIN tlb.entry
      BY HdlTlbAssumption DEF GenerationsPast, TlbIndex, PageOf, PageBytes, Word
    <2>2. e.valid /\ e.gen = tlb.gen /\ e.tag = PageOf(va) /\ access \in e.perm /\ (~User \/ e.user)
      BY <1>4 DEF TlbHit
    <2>3. WalkFrom2(PageOf(sr[PAGE_TABLE_ROOT]), PageOf(va), access, User) = Mapped(e.page)
      BY <2>1, <2>2 DEF Agrees
    <2>4. Physical(va) = e.page * PageBytes + OffsetOf(va)
      BY <1>4 DEF Physical, TlbPhys
    <2>5. Mapped(e.page).page = e.page /\ Mapped(e.page).fault = <<>>
      BY DEF Mapped
    <2> HIDE DEF e, k
    <2>6. Translate(va, access, sr) = [phys |-> Physical(va), fault |-> <<>>]
      BY <1>0, <1>4, <2>3, <2>4, <2>5 DEF Translate, Paging, User
    <2> QED BY <1>4, <2>6 DEF Translation
  <1> QED BY <1>1, <1>2, <1>3, <1>4

-----------------------------------------------------------------------------
\* Buses that do not make errors answer in time, and no watchdog fires.
LEMMA DataBus ==
  ASSUME Watchdogs, Bus, NEW d, d \in DBus
  PROVE  /\ d \in {"wait", "ack", "err"}
         /\ LsuError(lsu, d) => prog.faulty
         /\ ~(LsuActive(lsu) /\ lsu.started) => d = "wait"
         /\ ~prog.faulty /\ d = "wait" /\ LsuActive(lsu) => lsu.wd + 1 < BusTimeout
  <1>1. lsu.wd \in Nat /\ (~lsu.started => lsu.wd = 0) /\ (~prog.faulty => lsu.wd < BusTimeout)
    BY DEF Watchdogs
  <1>2. BusTimeout \in Nat /\ BusTimeout >= 2
    BY V2Assumption
  <1>3. CASE ~(LsuActive(lsu) /\ lsu.started)
    <2>1. d = "wait"
      BY <1>3 DEF DBus, Answers
    <2> QED BY <1>1, <1>2, <1>3, <2>1 DEF LsuError
  <1>4. CASE LsuActive(lsu) /\ lsu.started /\ prog.faulty
    BY <1>4 DEF DBus, Answers
  <1>5. CASE LsuActive(lsu) /\ lsu.started /\ ~prog.faulty
    <2>1. d \in IF lsu.wd + 1 >= BusTimeout THEN {"ack"} ELSE {"wait", "ack"}
      BY <1>5 DEF DBus, Answers
    <2>2. d # "err" /\ ~LsuWatchdog(lsu)
      BY <1>1, <1>2, <1>5, <2>1 DEF LsuWatchdog
    <2> QED BY <1>1, <1>2, <1>5, <2>1, <2>2 DEF LsuError, LsuErr
  <1> QED BY <1>3, <1>4, <1>5

\* What the instruction bus may answer the frontend.
LEMMA FetchBus ==
  ASSUME Watchdogs, NEW i, i \in IBus
  PROVE  /\ i \in {"wait", "ack", "err"}
         /\ FetchError(fe, i) => prog.faulty
         /\ ~fe.req => i = "wait"
         /\ ~prog.faulty /\ i = "wait" /\ fe.req => fe.wd + 1 < FetchTimeout
  <1>1. fe.wd \in Nat /\ (~prog.faulty => fe.wd < FetchTimeout)
    BY DEF Watchdogs
  <1>2. FetchTimeout \in Nat
    BY V2Assumption
  <1>3. CASE ~fe.req
    BY <1>3 DEF IBus, Answers, FetchError
  <1>4. CASE fe.req /\ prog.faulty
    BY <1>4 DEF IBus, Answers
  <1>5. CASE fe.req /\ ~prog.faulty
    <2>1. i \in IF fe.wd + 1 >= FetchTimeout THEN {"ack"} ELSE {"wait", "ack"}
      BY <1>5 DEF IBus, Answers
    <2>2. i # "err" /\ ~FetchWatchdog(fe)
      BY <1>1, <1>2, <1>5, <2>1 DEF FetchWatchdog
    <2> QED BY <1>1, <1>2, <1>5, <2>1, <2>2 DEF FetchError, FetchErr
  <1> QED BY <1>3, <1>4, <1>5

\* One edge of the core's LSU
LEMMA LsuEdges ==
  ASSUME Bus, NEW i, NEW d, Units(i, d)
  PROVE  /\ DOMAIN lsu' = {"st", "started", "req", "first", "wd"} /\ lsu'.started \in BOOLEAN
         /\ LsuReady(lsu) /\ LsuRequest = <<>> => lsu' = lsu
         /\ LsuReady(lsu) /\ LsuRequest # <<>> =>
               lsu'.st = "FIRST" /\ ~lsu'.started /\ lsu'.req = LsuRequest[1] /\ lsu'.wd = 0
         /\ LsuActive(lsu) /\ LsuDone(lsu, d) => lsu' = LsuReset
         /\ LsuActive(lsu) /\ ~LsuDone(lsu, d) =>
               /\ lsu'.req = lsu.req
               /\ BeatTaken(lsu, d) =>
                     /\ lsu'.st = "SECOND" /\ ~lsu'.started /\ lsu'.first = BusWord(mem, lsu.req.addr)
                     /\ lsu'.wd = IF d = "wait" /\ ~LsuWatchdog(lsu) THEN lsu.wd + 1 ELSE 0
               /\ ~BeatTaken(lsu, d) =>
                     /\ lsu'.st = lsu.st /\ lsu'.first = lsu.first /\ lsu'.started
                     /\ lsu'.wd = IF d = "wait" /\ ~LsuWatchdog(lsu) THEN lsu.wd + 1 ELSE 0
         /\ LsuDone(lsu, d) => LsuActive(lsu) /\ lsu.started
  <1>1. lsu' = LsuClock(lsu, d, LsuRequest, mem)
    BY DEF Units, V2LsuClock
  <1>2. DOMAIN lsu = {"st", "started", "req", "first", "wd"} /\ lsu.started \in BOOLEAN
    BY DEF Bus
  <1> QED BY <1>1, <1>2, LsuNext

\* One edge keeps the watchdogs below their limits.
LEMMA WatchdogsKept ==
  ASSUME Watchdogs, Bus, NEW i, i \in IBus, NEW d, d \in DBus, Units(i, d)
  PROVE  Watchdogs'
  <1>0. /\ DOMAIN fe = {"valid", "base", "req", "cancelled", "rbase", "wd"}
        /\ lsu.wd \in Nat /\ (~lsu.started => lsu.wd = 0)
        /\ fe.wd \in Nat /\ fe.req \in BOOLEAN /\ (~fe.req => fe.wd = 0)
        /\ ~prog.faulty => lsu.wd < BusTimeout /\ fe.wd < FetchTimeout
        /\ BusTimeout \in Nat /\ BusTimeout >= 2 /\ FetchTimeout \in Nat \ {0}
    BY V2Assumption DEF Watchdogs
  <1>1. prog' = prog
    BY DEF Units
  <1>2. /\ d \in {"wait", "ack", "err"}
        /\ ~(LsuActive(lsu) /\ lsu.started) => d = "wait"
        /\ ~prog.faulty /\ d = "wait" /\ LsuActive(lsu) => lsu.wd + 1 < BusTimeout
    BY DataBus
  <1>4. /\ lsu'.wd \in Nat /\ (~lsu'.started => lsu'.wd = 0)
        /\ ~prog.faulty => lsu'.wd < BusTimeout
    <2> DEFINE wd == IF d = "wait" /\ ~LsuWatchdog(lsu) THEN lsu.wd + 1 ELSE 0
    <2>0. wd \in Nat /\ (~prog.faulty /\ LsuActive(lsu) => wd < BusTimeout) /\ (d = "ack" => wd = 0)
      BY <1>0, <1>2
    <2>1. CASE LsuReady(lsu)
      <3>1. CASE LsuRequest = <<>>
        BY <1>0, <2>1, <3>1, LsuEdges
      <3>2. CASE LsuRequest # <<>>
        BY <1>0, <2>1, <3>2, LsuEdges
      <3> QED BY <3>1, <3>2
    <2>2. CASE LsuActive(lsu) /\ LsuDone(lsu, d)
      BY <1>0, <2>2, LsuEdges DEF LsuReset
    <2>3. CASE LsuActive(lsu) /\ ~LsuDone(lsu, d) /\ BeatTaken(lsu, d)
      <3>1. lsu'.wd = wd
        BY <2>3, LsuEdges
      <3>2. d = "ack"
        BY <2>3 DEF BeatTaken
      <3> QED BY <1>0, <2>0, <2>3, <3>1, <3>2
    <2>4. CASE LsuActive(lsu) /\ ~LsuDone(lsu, d) /\ ~BeatTaken(lsu, d)
      <3>1. lsu'.wd = wd /\ lsu'.started
        BY <2>4, LsuEdges
      <3> QED BY <2>0, <2>4, <3>1
    <2> QED BY <2>1, <2>2, <2>3, <2>4 DEF LsuReady, LsuActive
  <1>5. /\ DOMAIN fe' = {"valid", "base", "req", "cancelled", "rbase", "wd"}
        /\ fe'.wd \in Nat /\ fe'.req \in BOOLEAN /\ (~fe'.req => fe'.wd = 0)
        /\ ~prog.faulty => fe'.wd < FetchTimeout
    <2>1. PICK line : fe' = FrontendClock(fe, i, line, FALSE)
      BY DEF Units, V2FrontendClock
    <2>2. /\ i \in {"wait", "ack", "err"} /\ (~fe.req => i = "wait")
          /\ ~prog.faulty /\ i = "wait" /\ fe.req => fe.wd + 1 < FetchTimeout
      BY FetchBus
    <2> DEFINE wd == IF fe.req /\ i = "wait" /\ ~FetchWatchdog(fe) THEN fe.wd + 1 ELSE 0
    <2>3. wd \in Nat /\ (~prog.faulty => wd < FetchTimeout) /\ (~fe.req => wd = 0)
      BY <1>0, <2>2
    <2>4. \/ fe' = FrontendReset
          \/ fe' = [FrontendReset EXCEPT !.valid = TRUE, !.base = fe.rbase]
          \/ ~fe.req /\ fe' = [fe EXCEPT !.req = TRUE, !.cancelled = FALSE, !.rbase = line]
          \/ fe' = [fe EXCEPT !.wd = wd]
      BY <2>1 DEF FrontendClock
    <2> HIDE DEF wd
    <2>5. CASE fe' = FrontendReset \/ fe' = [FrontendReset EXCEPT !.valid = TRUE, !.base = fe.rbase]
      <3>0. /\ FrontendReset.wd = 0 /\ ~FrontendReset.req /\ FrontendReset.req \in BOOLEAN
            /\ DOMAIN FrontendReset = {"valid", "base", "req", "cancelled", "rbase", "wd"}
        BY DEF FrontendReset
      <3>1. fe'.wd = FrontendReset.wd /\ fe'.req = FrontendReset.req
        BY <2>5, <3>0
      <3>2. DOMAIN fe' = {"valid", "base", "req", "cancelled", "rbase", "wd"}
        BY <2>5 DEF FrontendReset
      <3> QED BY <1>0, <3>0, <3>1, <3>2
    <2>6. CASE ~fe.req /\ fe' = [fe EXCEPT !.req = TRUE, !.cancelled = FALSE, !.rbase = line]
      BY <1>0, <2>6
    <2>7. CASE fe' = [fe EXCEPT !.wd = wd]
      BY <1>0, <2>3, <2>7
    <2> QED BY <2>4, <2>5, <2>6, <2>7
  <1> QED BY <1>1, <1>4, <1>5 DEF Watchdogs

\* what the state that waits asks of the LSU
LEMMA RequestFields ==
  /\ st = "MEMORY" => /\ Request.kind = "data" /\ Request.addr = mo[1].addr
                      /\ Request.width = mo[1].op.width /\ Request.write = mo[1].op.write
                      /\ Request.value = mo[1].op.value
  /\ st = "WALK" => /\ Request.kind = "pte" /\ ~Request.write
                    /\ Request.addr = WalkPteAddr(walk[1].table, walk[1].level, PageOf(walk[1].va))
  /\ st = "INTERRUPT_VECTOR_LOAD" => /\ Request.kind = "vec" /\ ~Request.write
                                     /\ Request.addr = entry[1].phys
  <1>1. CASE st = "MEMORY"
    BY <1>1 DEF Request
  <1>2. CASE st = "WALK"
    BY <1>2 DEF Request, NoRequest
  <1>3. CASE st = "INTERRUPT_VECTOR_LOAD"
    BY <1>3 DEF Request, NoRequest
  <1> QED BY <1>1, <1>2, <1>3

\* A store whose first beat is done is that of the MEMORY state.
LEMMA BeatenFacts ==
  ASSUME Sound, Beaten
  PROVE  /\ started /\ st = "MEMORY" /\ lsu.req = Request /\ mo # <<>> /\ mo[1].op.write
         /\ wb = <<>> /\ entry = <<>>
  <1>1. started /\ Requesting /\ lsu.req = Request /\ Request.write
    BY DEF Beaten, Sound, UnitsRight, Bus
  <1>2. st = "MEMORY"
    BY <1>1, RequestFields DEF Requesting
  <1> QED BY <1>1, <1>2, RequestFields DEF Sound, Phases

\* A beat of a busy LSU writes what its request says.
LEMMA BeatWrites ==
  ASSUME Sound, NEW i, NEW d, Units(i, d)
  PROVE  /\ mem' = IF BeatTaken(lsu, d) /\ lsu.req.write
                   THEN StoreBytes(mem, lsu.req.addr, BeatLanes(lsu), lsu.req.value) ELSE mem
         /\ ~started \/ ~Request.write => mem' = mem
         /\ prog' = prog /\ started' = (Requesting /\ st' = st)
  <1>1. mem' = IF BeatTaken(lsu, d) /\ lsu.req.write
               THEN StoreBytes(mem, lsu.req.addr, BeatLanes(lsu), lsu.req.value) ELSE mem
    BY DEF Units, LsuMemory
  <1>2. /\ started => lsu.req = Request
        /\ ~started => ~lsu.req.write
    BY DEF Sound, UnitsRight, Bus
  <1> QED BY <1>1, <1>2 DEF Units

\* The state goes on waiting for the LSU.
LEMMA UnitsStay ==
  ASSUME Sound, BusFree, NEW i, NEW d, Units(i, d),
         Requesting, st' = st, Request' = Request, ~LsuDone(lsu, d)
  PROVE  /\ Bus' /\ started' /\ lsu'.req = Request
         /\ BeatTaken(lsu, d) => /\ started /\ lsu.st = "FIRST" /\ lsu.req = Request /\ SplitNeeded(Request)
                                 /\ lsu'.st = "SECOND" /\ BeatLanes(lsu) = 0 .. (Room(Request) - 1)
         /\ ~BeatTaken(lsu, d) => mem' = mem /\ (lsu'.st = "SECOND" <=> lsu.st = "SECOND")
  <1>0. /\ DOMAIN lsu = {"st", "started", "req", "first", "wd"}
        /\ lsu.st \in {"IDLE", "FIRST", "SECOND"} /\ lsu.started \in BOOLEAN
        /\ started \in BOOLEAN
        /\ started => Requesting /\ LsuActive(lsu) /\ lsu.req = Request
        /\ ~started => ~lsu.req.write
        /\ lsu.st = "SECOND" => SplitNeeded(lsu.req)
        /\ lsu.st = "SECOND" /\ started =>
              IF lsu.req.write
              THEN mem = StoreBytes(mem, lsu.req.addr, 0 .. (Room(lsu.req) - 1), lsu.req.value)
              ELSE lsu.first = BusWord(mem, lsu.req.addr)
    BY DEF Sound, UnitsRight, Bus
  <1>b. Bus
    BY DEF Sound, UnitsRight
  <1>1. started' /\ started' \in BOOLEAN
    BY DEF Units
  <1>t. lsu'.started \in BOOLEAN
    BY <1>b, LsuEdges
  <1>r. Requesting'
    BY DEF Requesting
  <1>2. CASE ~started
    <2>1. lsu.st = "IDLE" /\ LsuRequest # <<>> /\ LsuRequest[1] = Request
      BY <1>2 DEF BusFree, LsuRequest
    <2>2. /\ lsu'.st = "FIRST" /\ ~lsu'.started /\ lsu'.req = Request
          /\ DOMAIN lsu' = {"st", "started", "req", "first", "wd"}
      BY <1>b, <2>1, LsuEdges DEF LsuReady
    <2>3. mem' = mem
      BY <1>2, BeatWrites
    <2>4. ~BeatTaken(lsu, d)
      BY <2>1 DEF BeatTaken, LsuActive
    <2>5. Bus'
      BY <1>1, <1>r, <1>t, <2>2, <2>3 DEF Bus, LsuActive
    <2> QED BY <1>1, <2>1, <2>2, <2>3, <2>4, <2>5
  <1>3. CASE started /\ ~BeatTaken(lsu, d)
    <2>1. /\ lsu'.req = lsu.req /\ lsu'.st = lsu.st /\ lsu'.first = lsu.first /\ lsu'.started
          /\ DOMAIN lsu' = {"st", "started", "req", "first", "wd"} /\ lsu'.started \in BOOLEAN
      BY <1>0, <1>b, <1>3, LsuEdges
    <2>2. mem' = mem
      BY <1>3, BeatWrites
    <2>3. Bus'
      BY <1>0, <1>1, <1>r, <1>3, <2>1, <2>2 DEF Bus, LsuActive
    <2> QED BY <1>0, <1>1, <1>3, <2>1, <2>2, <2>3
  <1>4. CASE started /\ BeatTaken(lsu, d)
    <2>1. lsu.st = "FIRST" /\ SplitNeeded(lsu.req) /\ LsuActive(lsu)
      BY <1>0, <1>4 DEF LsuDone, BeatTaken, LsuActive
    <2>2. BeatLanes(lsu) = 0 .. (Room(lsu.req) - 1)
      BY <2>1 DEF BeatLanes
    <2>3. /\ lsu'.req = lsu.req /\ lsu'.st = "SECOND" /\ ~lsu'.started
          /\ lsu'.first = BusWord(mem, lsu.req.addr)
          /\ DOMAIN lsu' = {"st", "started", "req", "first", "wd"}
      BY <1>b, <1>4, <2>1, LsuEdges
    <2> DEFINE lanes == 0 .. (Room(lsu.req) - 1)
    <2>4. IF lsu.req.write THEN mem' = StoreBytes(mem', lsu.req.addr, lanes, lsu.req.value)
          ELSE mem' = mem
      <3>1. CASE lsu.req.write
        <4>1. mem' = StoreBytes(mem, lsu.req.addr, lanes, lsu.req.value)
          BY <1>4, <2>2, <3>1, BeatWrites
        <4>2. lanes = lanes \cup lanes
          OBVIOUS
        <4> HIDE DEF lanes
        <4> QED BY <3>1, <4>1, <4>2, StoreTwice
      <3>2. CASE ~lsu.req.write
        BY <3>2, BeatWrites
      <3> QED BY <3>1, <3>2
    <2>5. Bus'
      BY <1>0, <1>1, <1>r, <1>t, <1>4, <2>1, <2>3, <2>4 DEF Bus, LsuActive
    <2> QED BY <1>0, <1>1, <1>4, <2>1, <2>2, <2>3, <2>5
  <1> QED BY <1>0, <1>2, <1>3, <1>4

\* The state waits for nothing, or no longer.
LEMMA UnitsLeave ==
  ASSUME Sound, BusFree, NEW i, NEW d, Units(i, d), ~(Requesting /\ st' = st),
         Requesting => LsuDone(lsu, d) \/ ~Request.write
  PROVE  Bus' /\ ~Beaten'
  <1>0. /\ DOMAIN lsu = {"st", "started", "req", "first", "wd"}
        /\ lsu.st \in {"IDLE", "FIRST", "SECOND"} /\ lsu.started \in BOOLEAN
        /\ started \in BOOLEAN
        /\ started => Requesting /\ LsuActive(lsu) /\ lsu.req = Request
        /\ ~started => ~lsu.req.write
        /\ lsu.st = "SECOND" => SplitNeeded(lsu.req)
    BY DEF Sound, UnitsRight, Bus
  <1>b. Bus
    BY DEF Sound, UnitsRight
  <1>1. ~started' /\ started' \in BOOLEAN
    BY DEF Units
  <1>t. lsu'.started \in BOOLEAN
    BY <1>b, LsuEdges
  <1>2. /\ DOMAIN lsu' = {"st", "started", "req", "first", "wd"}
        /\ lsu'.st \in {"IDLE", "FIRST", "SECOND"} /\ lsu'.started \in BOOLEAN
        /\ ~lsu'.req.write
        /\ lsu'.st = "SECOND" => SplitNeeded(lsu'.req)
    <2>1. CASE LsuReady(lsu) /\ LsuRequest = <<>>
      <3>1. lsu' = lsu
        BY <1>b, <2>1, LsuEdges
      <3> QED BY <1>0, <2>1, <3>1 DEF LsuReady, LsuActive
    <2>2. CASE LsuReady(lsu) /\ LsuRequest # <<>>
      <3>1. Requesting /\ ~started /\ LsuRequest[1] = Request
        BY <2>2 DEF LsuRequest
      <3>2. lsu'.st = "FIRST" /\ ~lsu'.started /\ lsu'.req = Request
            /\ DOMAIN lsu' = {"st", "started", "req", "first", "wd"}
        BY <1>b, <2>2, <3>1, LsuEdges
      <3>3. ~Request.write
        BY <1>b, <2>2, <3>1, LsuEdges DEF LsuReady, LsuActive
      <3> QED BY <1>t, <3>2, <3>3
    <2>3. CASE LsuActive(lsu) /\ LsuDone(lsu, d)
      <3>1. lsu' = LsuReset
        BY <1>b, <2>3, LsuEdges
      <3>2. ~NoRequest.write
        BY DEF NoRequest
      <3>3. /\ DOMAIN LsuReset = {"st", "started", "req", "first", "wd"}
            /\ LsuReset.st = "IDLE" /\ LsuReset.started \in BOOLEAN /\ LsuReset.req = NoRequest
        BY DEF LsuReset
      <3> QED BY <3>1, <3>2, <3>3
    <2>4. CASE LsuActive(lsu) /\ ~LsuDone(lsu, d)
      <3>0. ~lsu.req.write
        BY <1>0, <2>4
      <3>1. CASE BeatTaken(lsu, d)
        <4>1. SplitNeeded(lsu.req)
          BY <2>4, <3>1 DEF LsuDone
        <4>2. /\ lsu'.req = lsu.req /\ lsu'.st = "SECOND" /\ ~lsu'.started
              /\ DOMAIN lsu' = {"st", "started", "req", "first", "wd"}
          BY <1>b, <2>4, <3>1, LsuEdges
        <4> QED BY <1>t, <3>0, <4>1, <4>2
      <3>2. CASE ~BeatTaken(lsu, d)
        <4>2. /\ lsu'.req = lsu.req /\ lsu'.st = lsu.st /\ lsu'.started
              /\ DOMAIN lsu' = {"st", "started", "req", "first", "wd"}
          BY <1>b, <2>4, <3>2, LsuEdges
        <4> QED BY <1>0, <1>t, <3>0, <4>2
      <3> QED BY <3>1, <3>2
    <2> QED BY <2>1, <2>2, <2>3, <2>4 DEF LsuReady, LsuActive
  <1> QED BY <1>1, <1>2 DEF Bus, Beaten

\* What the units do while the core is not in MEMORY
LEMMA UnitsQuiet ==
  ASSUME Sound, BusFree, NEW i, i \in IBus, NEW d, d \in DBus, Units(i, d), st # "MEMORY",
         Requesting => IF st' = st THEN Request' = Request /\ ~LsuDone(lsu, d) ELSE LsuDone(lsu, d),
         dcache' = dcache
  PROVE  /\ UnitsRight' /\ mem' = mem /\ prog' = prog /\ ~Beaten /\ ~Beaten'
         /\ IsCache(dcache, mem)
  <1>1. ~Beaten
    BY BeatenFacts
  <1>2. ~(Requesting /\ Request.write)
    BY RequestFields DEF Requesting
  <1>3. mem' = mem /\ prog' = prog
    <2>1. started => Requesting
      BY DEF Sound, UnitsRight, Bus
    <2> QED BY <1>2, <2>1, BeatWrites
  <1>4. Bus' /\ ~Beaten'
    <2>1. CASE Requesting /\ st' = st
      <3>1. Bus' /\ lsu'.req = Request
        BY <2>1, UnitsStay
      <3> QED BY <1>2, <2>1, <3>1 DEF Beaten
    <2>2. CASE ~(Requesting /\ st' = st)
      BY <2>2, UnitsLeave
    <2> QED BY <2>1, <2>2
  <1>5. Watchdogs'
    BY WatchdogsKept DEF Sound, UnitsRight
  <1>6. IsCache(dcache, mem)
    BY <1>1 DEF Sound, UnitsRight
  <1>7. IsCache(dcache', mem')
    BY <1>3, <1>6
  <1> QED BY <1>1, <1>3, <1>4, <1>5, <1>6, <1>7 DEF UnitsRight

-----------------------------------------------------------------------------
\* A cycle in which the core writes no special register
LEMMA QuietClock ==
  ASSUME NEW lines, Quiet(lines)
  PROVE  sr' = Latched(sr, lines) /\ tlb' = tlb
  <1>1. sr' = Latched(sr, lines)
    BY DEF Quiet, Clock, V2SpecialClock, SpecialClock, Latched
  <1>2. ~TlbFlush(<<>>, <<>>)
    BY DEF TlbFlush
  <1> QED BY <1>1, <1>2 DEF Quiet, Clock, V2TlbClock, TlbClock

\* which no translation sees
LEMMA LatchedSame ==
  ASSUME sr \in [Selectors -> Word], NEW lines, sr' = Latched(sr, lines)
  PROVE  /\ sr'[CPU_CONTROL] = sr[CPU_CONTROL] /\ sr'[PAGE_TABLE_ROOT] = sr[PAGE_TABLE_ROOT]
         /\ sr'[INTERRUPT_TABLE_BASE] = sr[INTERRUPT_TABLE_BASE]
         /\ \A va, access : Translate(va, access, sr') = Translate(va, access, sr)
         /\ \A va : EntryFault(va, sr') = EntryFault(va, sr)
         /\ Paging' = Paging /\ User' = User
  <1>1. /\ sr'[CPU_CONTROL] = sr[CPU_CONTROL] /\ sr'[PAGE_TABLE_ROOT] = sr[PAGE_TABLE_ROOT]
        /\ sr'[INTERRUPT_TABLE_BASE] = sr[INTERRUPT_TABLE_BASE]
    BY DEF Latched, CPU_CONTROL, PAGE_TABLE_ROOT, INTERRUPT_TABLE_BASE, INTERRUPT_STATES_HIGH, Selectors
  <1>2. \A va, access : Translate(va, access, sr') = Translate(va, access, sr) /\ EntryFault(va, sr') = EntryFault(va, sr)
    BY <1>1, TranslateSame
  <1> QED BY <1>1, <1>2 DEF Paging, User

\* The finished instruction, the store under way and the entry under way
\* stay what they are.
SameWork ==
    /\ wb' = wb /\ (Beaten' <=> Beaten) /\ (Beaten => mo' = mo)
    /\ \/ entry' = entry
       \/ entry # <<>> /\ entry' # <<>> /\ entry'[1].epc = entry[1].epc

\* When the work in hand stays and only lines are latched, the machine sees
\* only the lines.
LEMMA SameDone ==
  ASSUME sr \in [Selectors -> Word], NEW lines, sr' = Latched(sr, lines), SameWork,
         entry # <<>> => entry[1].epc \in Word, regs' = regs, flags' = flags, resv' = resv, mem' = mem
  PROVE  /\ DoneRegs' = DoneRegs /\ DoneFlags' = DoneFlags
         /\ DoneMemory' = DoneMemory /\ DoneReservation' = DoneReservation
         /\ DoneSpecial' = Latched(DoneSpecial, lines)
  <1>1. Done' = Done
    BY DEF SameWork, Done, MemoryResult
  <1>2. DoneRegs' = DoneRegs /\ DoneFlags' = DoneFlags
    BY <1>1 DEF DoneRegs, DoneFlags
  <1>3. DoneMemory' = DoneMemory /\ DoneReservation' = DoneReservation
    BY DEF SameWork, DoneMemory, DoneReservation
  <1>5. DoneSpecial' = Latched(DoneSpecial, lines)
    <2>1. CASE entry = <<>>
      BY <2>1 DEF SameWork, DoneSpecial
    <2>2. CASE entry # <<>>
      <3>1. entry' # <<>> /\ entry'[1].epc = entry[1].epc
        BY <2>2 DEF SameWork
      <3>2. DoneSpecial' = Saved(Latched(sr, lines), entry[1].epc, FlagsWord(flags))
        BY <2>2, <3>1 DEF DoneSpecial, Saved
      <3>3. DoneSpecial = Saved(sr, entry[1].epc, FlagsWord(flags))
        BY <2>2 DEF DoneSpecial, Saved
      <3> QED BY <2>2, <3>2, <3>3, SavedLatched, FlagsWordType
    <2> QED BY <2>1, <2>2
  <1> QED BY <1>2, <1>3, <1>5

\* A cycle that writes no special register leaves the TLB right.
LEMMA QuietSound ==
  ASSUME Sound, NEW lines, Quiet(lines)
  PROVE  /\ sr \in [Selectors -> Word]
         /\ sr' \in [Selectors -> Word] /\ sr' = Latched(sr, lines)
         /\ GenerationsPast(tlb)' /\ Agrees(tlb, PageOf(sr[PAGE_TABLE_ROOT]))'
  <1>1. sr \in [Selectors -> Word]
    BY DEF Sound, Words
  <1>2. sr' = Latched(sr, lines) /\ tlb' = tlb
    BY QuietClock
  <1>3. sr' \in [Selectors -> Word]
    BY <1>1, <1>2, LatchedType
  <1>4. sr'[PAGE_TABLE_ROOT] = sr[PAGE_TABLE_ROOT]
    BY <1>1, <1>2, LatchedSame
  <1> QED BY <1>1, <1>2, <1>3, <1>4 DEF Sound

\* The register file of a sound core has a PC.
LEMMA PcWord ==
  ASSUME Inv, ~locked
  PROVE  /\ regs[15] \in Word /\ 15 \in DOMAIN regs /\ DOMAIN regs = DOMAIN prog.regs
         /\ IsProgram(prog) /\ Sound
  <1>1. IsProgram(prog)
    BY ProgramsAssumption DEF Inv
  <1> QED BY <1>1 DEF Inv, Sound, Words, IsProgram

\* The operands of an instruction are words.
LEMMA ReadWord ==
  ASSUME Words, NEW r, r \in DOMAIN prog.regs \cup {0}
  PROVE  ReadReg(regs, r) \in Word
  <1>1. 0 \in Word
    BY DEF Word
  <1> QED BY <1>1 DEF Words, ReadReg

\* The instruction at R15 and its operands
LEMMA HereType ==
  ASSUME Inv, ~locked
  PROVE  /\ IsInstruction(Here, DOMAIN prog.regs)
         /\ ReadReg(regs, Here.rd) \in Word /\ ReadReg(regs, Here.rs1) \in Word
  <1>1. IsInstruction(Here, DOMAIN prog.regs) /\ Words
    BY PcWord, FetchType DEF Here, Sound
  <1> QED BY <1>1, ReadWord DEF IsInstruction

\* What the instruction at R15 computes is a result.
LEMMA AskedResult ==
  ASSUME Inv, ~locked
  PROVE  /\ IsResult(Asked)
         /\ Asked.memory # <<>> => Asks(Asked, Here, resv)
  <1> DEFINE a == ReadReg(regs, Here.rd)
             b == ReadReg(regs, Here.rs1)
  <1>1. IsInstruction(Here, DOMAIN prog.regs) /\ a \in Word /\ b \in Word
    BY HereType
  <1>2. regs[15] \in Word /\ sr \in [Selectors -> Word]
    BY PcWord DEF Sound, Words
  <1>3. Asked = Execute(Here, regs[15], a, b, flags, sr, resv)
    BY DEF Asked
  <1> HIDE DEF a, b
  <1>4. IsResult(Asked)
    BY <1>1, <1>2, <1>3, ExecuteResult
  <1>5. Asked.memory # <<>> => Asks(Asked, Here, resv)
    BY <1>1, <1>2, <1>3, ExecuteMemoryOp
  <1> QED BY <1>4, <1>5

\* Lines that are latched do not move the next instruction.
LEMMA PcKept ==
  ASSUME sr \in [Selectors -> Word], NEW lines, sr' = Latched(sr, lines), regs' = regs, prog' = prog
  PROVE  PcMapped' = PcMapped /\ PcPhys' = PcPhys /\ Here' = Here
  BY LatchedSame DEF PcMapped, PcPhys, Here

\* A memory instruction at R15 asks for the same as long as it has not
\* written a register.
LEMMA AskedKept ==
  ASSUME Inv, ~locked, NEW lines, sr' = Latched(sr, lines), Asked.memory # <<>>,
         prog' = prog, regs' = regs, flags' = flags, resv' = resv
  PROVE  Asked' = Asked
  <1> DEFINE a == ReadReg(regs, Here.rd)
             b == ReadReg(regs, Here.rs1)
  <1>1. IsInstruction(Here, DOMAIN prog.regs) /\ a \in Word /\ b \in Word
    BY HereType
  <1>2. regs[15] \in Word /\ sr \in [Selectors -> Word]
    BY PcWord DEF Sound, Words
  <1>3. Here' = Here
    BY <1>2, PcKept
  <1>4. Asked' = Execute(Here, regs[15], a, b, flags, sr', resv)
    BY <1>3 DEF Asked
  <1>5. Asked = Execute(Here, regs[15], a, b, flags, sr, resv)
    BY DEF Asked
  <1> HIDE DEF a, b
  <1> QED BY <1>1, <1>2, <1>4, <1>5, ExecuteMemoryOp

\* The operation in hand stays what it is while nothing but its physical
\* address changes.
LEMMA PendingKept ==
  ASSUME Inv, ~locked, NEW lines, sr' = Latched(sr, lines), prog' = prog,
         regs' = regs, flags' = flags, resv' = resv, fault_pc' = fault_pc,
         mem' = mem \/ Beaten', Beaten => Beaten', NEW addr,
         \/ mo' = mo
         \/ mo # <<>> /\ addr \in Word /\ mo' = <<[mo[1] EXCEPT !.addr = addr]>>
  PROVE  /\ Pending'
         /\ mo # <<>> => /\ mo' # <<>> /\ mo'[1].op = mo[1].op /\ mo'[1].next_pc = mo[1].next_pc
                         /\ mo'[1].addr = IF mo' = mo THEN mo[1].addr ELSE addr
         /\ mo = <<>> => mo' = <<>>
  <1>s. Sound /\ sr \in [Selectors -> Word]
    BY PcWord DEF Sound, Words
  <1>0. CASE mo = <<>>
    BY <1>0 DEF Pending
  <1>1. CASE mo # <<>>
    <2>0. /\ mo = <<mo[1]>> /\ DOMAIN mo[1] = {"op", "addr", "next_pc"}
          /\ mo[1].next_pc \in Word /\ mo[1].addr \in Word
          /\ IsOperation(mo[1].op, Here, resv)
          /\ PcMapped /\ fault_pc = regs[15]
          /\ Asked.memory # <<>> /\ Asked.next_pc = mo[1].next_pc
          /\ ~Beaten => Chosen(Asked.memory[1], mo[1].op)
      BY <1>1, <1>s DEF Sound, Pending
    <2>1. /\ mo' # <<>> /\ mo' = <<mo'[1]>> /\ DOMAIN mo'[1] = {"op", "addr", "next_pc"}
          /\ mo'[1].op = mo[1].op /\ mo'[1].next_pc = mo[1].next_pc /\ mo'[1].addr \in Word
          /\ mo'[1].addr = IF mo' = mo THEN mo[1].addr ELSE addr
      <3>1. CASE mo' = mo
        BY <1>1, <2>0, <3>1
      <3>2. CASE mo' # mo /\ addr \in Word /\ mo' = <<[mo[1] EXCEPT !.addr = addr]>>
        <4> DEFINE p == mo[1]
                   q == [p EXCEPT !.addr = addr]
        <4>1. DOMAIN q = {"op", "addr", "next_pc"} /\ q.op = p.op /\ q.next_pc = p.next_pc /\ q.addr = addr
          BY <2>0
        <4>2. mo' = <<q>>
          BY <3>2
        <4> HIDE DEF q
        <4> QED BY <3>2, <4>1, <4>2
      <3> QED BY <3>1, <3>2
    <2>2. PcMapped' /\ Here' = Here
      BY <1>s, <2>0, PcKept
    <2>3. Asked' = Asked
      BY <1>s, <2>0, AskedKept
    <2>4. ~Beaten' => Chosen(Asked.memory[1], mo[1].op)'
      <3> SUFFICES ASSUME ~Beaten' PROVE Chosen(Asked.memory[1], mo[1].op)'
        OBVIOUS
      <3>1. PICK first : Asked.memory = <<first>> /\ first = Asked.memory[1]
        BY <2>0 DEF Chosen
      <3>2. mem' = mem /\ Chosen(first, mo[1].op)
        BY <2>0, <3>1
      <3>3. FirstAccess(first)' = FirstAccess(first)
        BY <1>s, LatchedSame DEF FirstAccess
      <3>4. Chosen(first, mo[1].op)'
        BY <2>1, <2>2, <2>3, <3>2, <3>3 DEF Chosen
      <3> QED BY <2>3, <3>1, <3>4
    <2>5. Pending'
      BY <2>0, <2>1, <2>2, <2>3, <2>4 DEF Pending
    <2> QED BY <1>1, <2>1, <2>5
  <1> QED BY <1>0, <1>1

-----------------------------------------------------------------------------
\* An entry stays what it is while its vector is looked up.
LEMMA EnteringKept ==
  ASSUME Entering, sr'[CPU_CONTROL] = sr[CPU_CONTROL], NEW phys,
         \/ entry' = entry
         \/ entry # <<>> /\ entry' = <<[entry[1] EXCEPT !.phys = phys]>>
  PROVE  /\ Entering'
         /\ entry # <<>> => /\ entry' # <<>> /\ entry'[1].epc = entry[1].epc
                            /\ entry'[1].vector = entry[1].vector
         /\ entry = <<>> => entry' = <<>>
  <1>0. CASE entry' = entry
    BY <1>0 DEF Entering
  <1>1. CASE entry # <<>> /\ entry' = <<[entry[1] EXCEPT !.phys = phys]>>
    <2>1. entry = <<entry[1]>> /\ DOMAIN entry[1] = {"vector", "epc", "phys"}
          /\ entry[1].epc \in Word /\ entry[1].vector = CurInt(sr[CPU_CONTROL])
      BY <1>1 DEF Entering
    <2> DEFINE p == entry[1]
               q == [p EXCEPT !.phys = phys]
    <2>2. DOMAIN q = {"vector", "epc", "phys"} /\ q.epc = p.epc /\ q.vector = p.vector
      BY <2>1
    <2>3. entry' = <<q>>
      BY <1>1
    <2> HIDE DEF q
    <2> QED BY <1>1, <2>1, <2>2, <2>3 DEF Entering
  <1> QED BY <1>0, <1>1

\* The core goes on with what it is doing: the machine sees nothing.
LEMMA IdleStep ==
  ASSUME Sound, ~locked, st # "HALTED", NEW lines \in SUBSET prog.lines, Quiet(lines), SameWork,
         entry = <<>> <=> entry' = <<>>, st' # "HALTED", locked' = locked, prog' = prog,
         regs' = regs, flags' = flags, resv' = resv, mem' = mem
  PROVE  Arch!Next
  <1>1. sr \in [Selectors -> Word] /\ sr' = Latched(sr, lines)
    BY QuietSound
  <1>2. entry # <<>> => entry[1].epc \in Word
    BY DEF Sound, Entering
  <1>3. /\ DoneRegs' = DoneRegs /\ DoneFlags' = DoneFlags
        /\ DoneMemory' = DoneMemory /\ DoneReservation' = DoneReservation
        /\ DoneSpecial' = Latched(DoneSpecial, lines)
    BY <1>1, <1>2, SameDone
  <1>4. Mode' = Mode
    BY DEF Mode
  <1> QED BY <1>3, <1>4, StepIdle

\* A bus error, where the buses make errors
LEMMA LockStep ==
  ASSUME Inv, ~locked, st # "HALTED", prog.faulty, locked' = TRUE, prog' = prog
  PROVE  Inv' /\ Arch!Next
  <1>1. Inv'
    BY DEF Inv
  <1>2. Mode' = "locked" /\ Mode # "halted"
    BY DEF Mode
  <1>3. sr \in [Selectors -> Word] /\ Entering
    BY DEF Inv, Sound, Words
  <1>4. Arch!Next
    BY <1>2, <1>3, StepLockup
  <1> QED BY <1>1, <1>4

\* A locked core stays locked.
LEMMA LockedStep ==
  ASSUME Inv, locked, locked' = locked \/ locked' = TRUE, prog' = prog
  PROVE  Inv' /\ Arch!Next
  <1>1. Mode' = "locked" /\ Mode = "locked"
    BY DEF Mode
  <1> QED BY <1>1 DEF Inv, Arch!Next, Arch!Lockup

\* what the units of a core that is not in MEMORY do to the rest of it
Calm == UnitsRight' /\ mem' = mem /\ prog' = prog /\ ~Beaten /\ ~Beaten'

\* A state that waits for no access leaves the units to themselves.
LEMMA CalmUnits ==
  ASSUME Sound, BusFree, NEW i, i \in IBus, NEW d, d \in DBus, Units(i, d), ~Requesting, dcache' = dcache
  PROVE  Calm
  BY UnitsQuiet DEF Calm, Requesting

\* Everything the core has in hand stays.
LEMMA KeptSound ==
  ASSUME Inv, ~locked, NEW lines, Quiet(lines), prog' = prog, regs' = regs, flags' = flags, resv' = resv,
         mem' = mem \/ Beaten', Beaten => Beaten', mem' \in [DOMAIN prog.mem -> Byte], UnitsRight',
         st' = st, fetch_phys' = fetch_phys, cur' = cur, exe' = exe, wb' = wb, mo' = mo,
         fault_pc' = fault_pc, walk' = walk, entry' = entry
  PROVE  Sound'
  <1>s. Sound
    BY DEF Inv
  <1>1. /\ sr \in [Selectors -> Word]
        /\ sr' \in [Selectors -> Word] /\ sr' = Latched(sr, lines)
        /\ GenerationsPast(tlb)' /\ Agrees(tlb, PageOf(sr[PAGE_TABLE_ROOT]))'
    BY <1>s, QuietSound
  <1>2. Words'
    BY <1>s, <1>1 DEF Sound, Words
  <1>3. Pending'
    BY <1>1, PendingKept
  <1>4. /\ sr'[CPU_CONTROL] = sr[CPU_CONTROL] /\ sr'[PAGE_TABLE_ROOT] = sr[PAGE_TABLE_ROOT]
        /\ sr'[INTERRUPT_TABLE_BASE] = sr[INTERRUPT_TABLE_BASE]
        /\ \A va, access : Translate(va, access, sr') = Translate(va, access, sr)
        /\ \A va : EntryFault(va, sr') = EntryFault(va, sr)
        /\ Paging' = Paging
    BY <1>1, LatchedSame
  <1>5. Entering' /\ Latches'
    BY <1>s, <1>4 DEF Sound, Entering, Latches
  <1>6. TableVa' = TableVa
    BY <1>4 DEF TableVa
  <1>7. Walking'
    BY <1>s, <1>4, <1>6 DEF Sound, Walking
  <1>9. Phases'
    <2>1. PcMapped' = PcMapped /\ PcPhys' = PcPhys /\ Here' = Here
      BY <1>1, PcKept
    <2>2. \A op : FirstAccess(op)' = FirstAccess(op)
      BY <1>4 DEF FirstAccess
    <2> QED BY <1>s, <1>4, <1>6, <2>1, <2>2 DEF Sound, Phases
  <1> QED BY <1>1, <1>2, <1>3, <1>5, <1>7, <1>9 DEF Sound

\* The core waits.
LEMMA StayStep ==
  ASSUME Inv, ~locked, NEW lines \in SUBSET prog.lines, Quiet(lines), UnitsRight', prog' = prog, mem' = mem,
         Beaten' <=> Beaten,
         regs' = regs, flags' = flags, resv' = resv, locked' = locked,
         st' = st, fetch_phys' = fetch_phys, cur' = cur, exe' = exe, wb' = wb, mo' = mo,
         fault_pc' = fault_pc, walk' = walk, entry' = entry
  PROVE  Inv' /\ Arch!Next
  <1>0. mem' \in [DOMAIN prog.mem -> Byte]
    BY DEF Inv, Sound, Words
  <1>1. Sound'
    BY <1>0, KeptSound
  <1>2. SameWork
    BY DEF SameWork
  <1>3. CASE st # "HALTED"
    BY <1>1, <1>2, <1>3, IdleStep DEF Inv
  <1>4. CASE st = "HALTED"
    <2>1. sr \in [Selectors -> Word] /\ sr' = Latched(sr, lines)
      BY QuietSound DEF Inv
    <2>2. entry # <<>> => entry[1].epc \in Word
      BY DEF Inv, Sound, Entering
    <2>3. /\ DoneRegs' = DoneRegs /\ DoneFlags' = DoneFlags
          /\ DoneMemory' = DoneMemory /\ DoneReservation' = DoneReservation
      BY <1>2, <2>1, <2>2, SameDone
    <2>4. Mode = "halted" /\ Mode' = "halted"
      BY <1>4 DEF Mode
    <2>5. Arch!Next
      BY <2>3, <2>4, StepHalted
    <2> QED BY <1>1, <2>5 DEF Inv
  <1> QED BY <1>3, <1>4

\* An entry begins.
LEMMA BeginSound ==
  ASSUME Inv, ~locked, NEW v \in 0 .. 15, NEW trap, trap # <<>> => IsTrap(trap[1]), NEW lines,
         BeginInterruptEntry(v, regs[15], trap, lines), Calm, wb' = <<>>,
         regs' = regs, flags' = flags, resv' = resv, fetch_phys' = fetch_phys, cur' = cur
  PROVE  /\ Inv' /\ Mode' = "entry"
         /\ DoneSpecial' = Entered(TrapWritten(Latched(sr, lines), sr[TRAP_CAUSE], trap), v, regs[15], flags)
         /\ DoneRegs' = regs /\ DoneFlags' = flags /\ DoneMemory' = mem /\ DoneReservation' = resv
  <1>0. Sound /\ sr \in [Selectors -> Word] /\ regs[15] \in Word
    BY PcWord DEF Inv, Sound, Words
  <1>m. UnitsRight' /\ mem' = mem /\ prog' = prog /\ ~Beaten'
    BY DEF Calm
  <1>1. /\ Clock(<<EntryControl(sr[CPU_CONTROL], v)>>, <<sr[CPU_CONTROL]>>, <<>>, trap, <<>>, <<>>, lines)
        /\ entry' = <<[vector |-> v, epc |-> regs[15], phys |-> 0]>>
        /\ mo' = <<>> /\ walk' = <<>> /\ st' = "INTERRUPT_VECTOR_TRANSLATE" /\ locked' = locked
    BY DEF BeginInterruptEntry, Goto
  <1> DEFINE ec == EntryControl(sr[CPU_CONTROL], v)
             c == sr[CPU_CONTROL]
  <1>2. sr' = SpecialClock(sr, <<ec>>, <<c>>, <<>>, trap, <<>>, lines)
    BY <1>1 DEF Clock, V2SpecialClock
  <1>3. tlb' = TlbClock(tlb, TRUE, <<>>)
    BY <1>1 DEF Clock, V2TlbClock, TlbFlush
  <1>4. GenerationsPast(tlb') /\ Agrees(tlb', PageOf(sr'[PAGE_TABLE_ROOT]))
    <2>1. GenerationsPast(tlb')
      BY <1>0, <1>3, ClockPast DEF Sound
    <2>2. Agrees(tlb', PageOf(sr'[PAGE_TABLE_ROOT]))
      BY <1>0, <1>3, ClockAgrees DEF Sound
    <2> QED BY <2>1, <2>2
  <1>5. /\ Saved(sr', regs[15], FlagsWord(flags))
                = Entered(TrapWritten(Latched(sr, lines), sr[TRAP_CAUSE], trap), v, regs[15], flags)
        /\ sr'[CPU_CONTROL] = ec
    <2>1. sr' = EntryClock(sr, v, trap, lines)
      BY <1>2 DEF EntryClock
    <2> QED BY <1>0, <2>1, EntrySaved
  <1>6. sr' \in [Selectors -> Word]
    <2>1. ec \in Word /\ c \in Word
      BY <1>0, EntryVector DEF CPU_CONTROL, Selectors
    <2>2. \A x \in 0 .. 15 : x \in Word
      BY DEF Word
    <2>3. Optional(<<ec>>) /\ Optional(<<c>>)
      <3> HIDE DEF ec, c
      <3> QED BY <2>1 DEF Optional
    <2>4. trap # <<>> => /\ trap[1].cause \in Word /\ trap[1].addr \in Word /\ trap[1].access \in Word
                         /\ trap[1].pc \in Word /\ trap[1].aux \in Word
      BY <2>2 DEF IsTrap
    <2> HIDE DEF ec, c
    <2> QED BY <1>0, <1>2, <2>3, <2>4, SpecialClockWords
  <1>7. /\ entry' # <<>> /\ entry' = <<entry'[1]>> /\ DOMAIN entry'[1] = {"vector", "epc", "phys"}
        /\ entry'[1].epc = regs[15] /\ entry'[1].vector = v
    BY <1>1
  <1>8. Entering'
    BY <1>0, <1>5, <1>7, EntryVector DEF Entering
  <1>9. Words'
    BY <1>0, <1>m, <1>6 DEF Sound, Words
  <1>10. Pending' /\ Walking' /\ Phases' /\ Latches'
    BY <1>1, <1>7 DEF Pending, Walking, Phases, States, Latches
  <1>11. Inv'
    BY <1>m, <1>4, <1>8, <1>9, <1>10 DEF Inv, Sound
  <1>13. DoneRegs' = regs /\ DoneFlags' = flags /\ DoneMemory' = mem /\ DoneReservation' = resv
    BY <1>m DEF Done, DoneRegs, DoneFlags, DoneMemory, DoneReservation
  <1>14. DoneSpecial' = Entered(TrapWritten(Latched(sr, lines), sr[TRAP_CAUSE], trap), v, regs[15], flags)
    BY <1>5, <1>7 DEF DoneSpecial, Saved
  <1>15. Mode' = "entry"
    BY <1>1, <1>7 DEF Mode
  <1> QED BY <1>11, <1>13, <1>14, <1>15

\* The instruction at R15 traps: an entry begins, or the core locks up.
LEMMA TrapStep ==
  ASSUME Inv, Plain, NEW trap, TrapHere(trap), IsTrap(trap), trap.pc = regs[15],
         NEW lines \in SUBSET prog.lines, RaiseSyncTrap(trap, lines), Calm, wb' = wb,
         regs' = regs, flags' = flags, resv' = resv, fetch_phys' = fetch_phys, cur' = cur
  PROVE  Inv' /\ Arch!Next
  <1>0. mem' = mem /\ prog' = prog /\ ~Beaten' /\ wb' = <<>>
    BY DEF Calm, Plain
  <1>1. CASE PreemptLockup(sr[CPU_CONTROL], trap.cause)
    <2>1. locked' = TRUE
      BY <1>1 DEF RaiseSyncTrap, EnterLockup
    <2>2. Inv' /\ Mode' = "locked"
      BY <1>0, <2>1 DEF Inv, Mode
    <2>4. DoneRegs' = regs /\ DoneFlags' = flags /\ DoneMemory' = mem /\ DoneReservation' = resv
      BY <1>0 DEF Done, DoneRegs, DoneFlags, DoneMemory, DoneReservation
    <2> QED BY <1>0, <1>1, <2>2, <2>4, StepFault
  <1>2. CASE ~PreemptLockup(sr[CPU_CONTROL], trap.cause)
    <2>1. BeginInterruptEntry(trap.cause, regs[15], <<trap>>, lines)
      BY <1>2 DEF RaiseSyncTrap
    <2>2. trap.cause \in 0 .. 15 /\ ~locked /\ <<trap>>[1] = trap /\ <<trap>> # <<>>
      BY DEF IsTrap, Plain
    <2>3. /\ Inv' /\ Mode' = "entry"
          /\ DoneSpecial' = Entered(TrapWritten(Latched(sr, lines), sr[TRAP_CAUSE], <<trap>>), trap.cause, regs[15], flags)
          /\ DoneRegs' = regs /\ DoneFlags' = flags /\ DoneMemory' = mem /\ DoneReservation' = resv
      BY <1>0, <2>1, <2>2, BeginSound
    <2>4. DoneSpecial' = Entered(TrapWrite(Latched(sr, lines), sr[TRAP_CAUSE], trap), trap.cause, regs[15], flags)
      BY <2>3 DEF TrapWritten
    <2> QED BY <1>0, <1>2, <2>3, <2>4, StepFault
  <1> QED BY <1>1, <1>2

\* between two instructions
LEMMA FetchPlain ==
  ASSUME Inv, ~locked, ~Beaten, st \in {"FETCH_TRANSLATE", "FETCH_REQUEST", "DECODE", "EXECUTE"}
  PROVE  Plain /\ mo = <<>> /\ entry = <<>> /\ wb = <<>>
  BY DEF Inv, Sound, Phases, Plain

\* A walk starts for an address that passed the checks.
LEMMA WalkStarts ==
  ASSUME Sound, NEW lines, Quiet(lines), NEW va \in Word, NEW access, NEW kind,
         StartWalk(va, access, kind), Paging, EntryFault(va, sr) = <<>>, regs' = regs, wb' = <<>>,
         \/ /\ kind = "fetch" /\ va = regs'[15] /\ access = "X" /\ va % 2 = 0
            /\ fault_pc' = regs'[15] /\ mo' = <<>> /\ entry' = <<>>
         \/ /\ kind = "memory" /\ mo' # <<>> /\ entry' = <<>> /\ va = mo'[1].op.addr
            /\ access = IF mo'[1].op.write THEN "W" ELSE "R"
         \/ /\ kind = "vector" /\ va = TableVa' /\ access = "R"
            /\ mo' = <<>> /\ entry' # <<>>
  PROVE  Walking' /\ Phases' /\ st' = "WALK" /\ locked' = locked
  <1>1. /\ sr \in [Selectors -> Word]
        /\ sr' \in [Selectors -> Word] /\ sr' = Latched(sr, lines)
    BY QuietSound
  <1>2. /\ sr'[PAGE_TABLE_ROOT] = sr[PAGE_TABLE_ROOT]
        /\ EntryFault(va, sr') = EntryFault(va, sr)
        /\ Paging' = Paging
    BY <1>1, LatchedSame
  <1>3. /\ walk' = <<[va |-> va, table |-> PageOf(sr[PAGE_TABLE_ROOT]), level |-> 2,
                     access |-> access, kind |-> kind, pte |-> <<>>]>>
        /\ st' = "WALK" /\ locked' = locked
    BY DEF StartWalk, Goto
  <1> DEFINE w == walk'[1]
  <1>4. /\ walk' = <<w>> /\ DOMAIN w = {"va", "table", "level", "access", "kind", "pte"}
        /\ w.va = va /\ w.table = PageOf(sr[PAGE_TABLE_ROOT]) /\ w.level = 2 /\ w.access = access
        /\ w.kind = kind
    BY <1>3
  <1>5. \A a, user : WalkFrom2(PageOf(sr'[PAGE_TABLE_ROOT]), PageOf(w.va), a, user)
                      = WalkRest(w.table, w.level, PageOf(w.va), a, user)
    BY <1>2, <1>4 DEF WalkRest
  <1>6. Walking'
    <2> HIDE DEF w
    <2>1. w.level \in 0 .. 2
      BY <1>4
    <2>2. /\ walk' = <<w>>
        /\ DOMAIN w = {"va", "table", "level", "access", "kind", "pte"}
        /\ w.va \in Word /\ w.level \in 0 .. 2
        /\ Paging' /\ EntryFault(w.va, sr') = <<>>
      BY <1>2, <1>4, <2>1
    <2>3. \/ /\ w.kind = "fetch" /\ w.va = regs'[15] /\ w.access = "X" /\ w.va % 2 = 0
             /\ fault_pc' = regs'[15] /\ mo' = <<>> /\ entry' = <<>>
          \/ /\ w.kind = "memory" /\ mo' # <<>> /\ entry' = <<>> /\ w.va = mo'[1].op.addr
             /\ w.access = IF mo'[1].op.write THEN "W" ELSE "R"
          \/ /\ w.kind = "vector" /\ w.va = TableVa' /\ w.access = "R"
             /\ mo' = <<>> /\ entry' # <<>>
      BY <1>4
    <2> QED BY <1>3, <1>5, <2>2, <2>3 DEF Walking, w
  <1>7. Phases'
    BY <1>3 DEF Phases, States
  <1> QED BY <1>3, <1>6, <1>7

\* the parts of the invariant that a quiet cycle with nothing in hand keeps
LEMMA QuietRest ==
  ASSUME Inv, ~locked, NEW lines, Quiet(lines), Calm,
         regs' = regs, flags' = flags, resv' = resv, mo' = <<>>, entry' = <<>>, fetch_phys' \in Word,
         IsInstruction(cur', DOMAIN prog.regs), Latches', Walking', Phases'
  PROVE  Inv'
  <1>0. mem' = mem /\ prog' = prog /\ UnitsRight'
    BY DEF Calm
  <1>1. /\ sr' \in [Selectors -> Word]
        /\ GenerationsPast(tlb)' /\ Agrees(tlb, PageOf(sr[PAGE_TABLE_ROOT]))'
    BY QuietSound DEF Inv
  <1>2. Words' /\ Pending' /\ Entering'
    BY <1>0, <1>1 DEF Inv, Sound, Words, Pending, Entering
  <1> QED BY <1>0, <1>1, <1>2 DEF Inv, Sound

-----------------------------------------------------------------------------
\* FETCH_TRANSLATE: an interrupt, a fault, a walk, or an address to fetch.
LEMMA FetchTranslateStep ==
  ASSUME Inv, ~locked, NEW lines \in SUBSET prog.lines, Calm, FetchTranslate(lines)
  PROVE  Inv' /\ Arch!Next
  <1> DEFINE pc == regs[15]
             vector == PendingIrq(sr, lines)
             xl == Translation(pc, "X")
             fault == IF pc % 2 = 1 THEN <<EXEC_ALIGN, EncodeAux(0, 0)>> ELSE EntryFault(pc, sr)
             irq == IrqTaken(vector)
             trap == TrapInfo(fault[1], pc, AccessCode("X"), pc, fault[2])
  <1>m. mem' = mem /\ prog' = prog /\ ~Beaten /\ ~Beaten'
    BY DEF Calm
  <1>0. /\ Plain /\ mo = <<>> /\ entry = <<>> /\ wb = <<>> /\ pc \in Word /\ Sound
        /\ regs' = regs /\ flags' = flags /\ resv' = resv
        /\ cur' = cur /\ wb' = wb /\ st = "FETCH_TRANSLATE"
    BY <1>m, PcWord, FetchPlain DEF FetchTranslate, arch
  <1>1. IF pc % 2 = 1 \/ (~irq /\ xl = "fault")
        THEN RaiseSyncTrap(trap, lines) /\ UNCHANGED <<fetch_phys, fault_pc>>
        ELSE IF irq
        THEN BeginInterruptEntry(vector, pc, <<>>, lines) /\ UNCHANGED <<fetch_phys, fault_pc>>
        ELSE /\ Quiet(lines) /\ UNCHANGED <<mo, entry>>
             /\ IF xl = "done"
                THEN /\ fetch_phys' = Physical(pc)
                     /\ Goto("FETCH_REQUEST") /\ UNCHANGED <<walk, fault_pc>>
                ELSE StartWalk(pc, "X", "fetch") /\ fault_pc' = pc /\ UNCHANGED fetch_phys
    BY DEF FetchTranslate
  <1>p. pc % 2 = 1 \/ pc % 2 = 0
    BY <1>0, WordInt
  <1>x. pc % 2 # 1 =>
        /\ xl \in {"done", "fault", "walk"}
        /\ xl = "done" => Translate(pc, "X", sr) = [phys |-> Physical(pc), fault |-> <<>>]
        /\ xl = "fault" => EntryFault(pc, sr) # <<>> /\ Translate(pc, "X", sr).fault = EntryFault(pc, sr)
        /\ xl = "walk" => Paging /\ EntryFault(pc, sr) = <<>>
    BY <1>0, TranslationMeans DEF Sound
  <1>i. IsInstruction(cur, DOMAIN prog.regs) /\ fetch_phys \in Word
    BY <1>0 DEF Sound, Words
  <1>l. Latches'
    BY <1>0 DEF Latches
  <1> HIDE DEF xl, irq, vector, fault
  <1>2. CASE pc % 2 = 1 \/ (~irq /\ xl = "fault")
    <2>1. RaiseSyncTrap(trap, lines) /\ fetch_phys' = fetch_phys
      BY <1>1, <1>2
    <2>2. fault # <<>> /\ IsFault(fault) /\ Translate(pc, "X", sr).fault = fault
      <3>1. CASE pc % 2 = 1
        <4>1. fault = <<EXEC_ALIGN, EncodeAux(0, 0)>>
          BY <3>1 DEF fault
        <4>2. Translate(pc, "X", sr).fault = <<EXEC_ALIGN, EncodeAux(0, 0)>>
          BY <3>1 DEF Translate
        <4>3. IsFault(<<EXEC_ALIGN, EncodeAux(0, 0)>>)
          BY DEF IsFault, EXEC_ALIGN, EncodeAux, Word
        <4> QED BY <4>1, <4>2, <4>3
      <3>2. CASE pc % 2 # 1
        <4>1. fault = EntryFault(pc, sr) /\ fault # <<>> /\ Translate(pc, "X", sr).fault = fault
          BY <1>2, <1>x, <3>2 DEF fault
        <4> QED BY <4>1, EntryFaultType
      <3> QED BY <3>1, <3>2
    <2>3. IsTrap(trap) /\ trap.pc = regs[15]
      <3>1. AccessCode("X") \in 0 .. 2
        BY AccessCodes
      <3> QED BY <1>0, <2>2, <3>1, TrapInfoType DEF IsFault
    <2>4. TrapHere(trap)
      BY <2>2 DEF TrapHere
    <2> HIDE DEF trap
    <2> QED BY <1>0, <2>1, <2>3, <2>4, TrapStep
  <1>3. CASE pc % 2 # 1 /\ irq
    <2>1. BeginInterruptEntry(vector, regs[15], <<>>, lines) /\ fetch_phys' = fetch_phys
      BY <1>1, <1>3
    <2>2. vector \in 0 .. 15 /\ vector = PendingIrq(sr, lines)
      BY PendingIrqRange DEF vector
    <2>3. vector # 0 /\ IntEnable(sr[CPU_CONTROL]) /\ CanPreempt(sr[CPU_CONTROL], vector)
      BY <1>3 DEF irq, IrqTaken
    <2>4. PICK none : none = <<>>
      OBVIOUS
    <2>5. BeginInterruptEntry(vector, regs[15], none, lines)
      BY <2>1, <2>4
    <2>6. /\ Inv' /\ Mode' = "entry"
          /\ DoneSpecial' = Entered(TrapWritten(Latched(sr, lines), sr[TRAP_CAUSE], none), vector, regs[15], flags)
          /\ DoneRegs' = regs /\ DoneFlags' = flags /\ DoneMemory' = mem /\ DoneReservation' = resv
      BY <1>0, <2>1, <2>2, <2>4, <2>5, BeginSound
    <2>7. DoneSpecial' = Entered(Latched(sr, lines), vector, regs[15], flags)
      BY <2>4, <2>6 DEF TrapWritten
    <2> QED BY <1>0, <1>m, <2>2, <2>3, <2>6, <2>7, StepInterrupt
  <1>4. CASE pc % 2 # 1 /\ ~irq /\ xl = "done"
    <2>1. /\ Quiet(lines) /\ mo' = <<>> /\ entry' = <<>> /\ st' = "FETCH_REQUEST" /\ locked' = locked
          /\ fetch_phys' = Physical(pc) /\ walk' = walk
      BY <1>0, <1>1, <1>4 DEF Goto
    <2>2. Translate(pc, "X", sr) = [phys |-> Physical(pc), fault |-> <<>>]
      BY <1>4, <1>x
    <2>3. Physical(pc) \in Word
      BY <1>0, <2>2, TranslateType
    <2>5. PcMapped' = PcMapped /\ PcPhys' = PcPhys
      BY <1>0, <1>m, <2>1, PcKept, QuietSound
    <2>6. PcMapped /\ PcPhys = Physical(pc)
      BY <2>2 DEF PcMapped, PcPhys
    <2>7. Walking' /\ Phases'
      BY <1>0, <2>1, <2>5, <2>6 DEF Walking, Phases, States
    <2>8. Inv'
      BY <1>0, <1>i, <1>l, <2>1, <2>3, <2>7, QuietRest
    <2>9. SameWork
      BY <1>0, <1>m, <2>1 DEF SameWork
    <2>10. Arch!Next
      BY <1>0, <1>m, <2>1, <2>9, IdleStep
    <2> QED BY <2>8, <2>10
  <1>5. CASE pc % 2 # 1 /\ ~irq /\ xl = "walk"
    <2>1. /\ Quiet(lines) /\ mo' = <<>> /\ entry' = <<>>
          /\ StartWalk(pc, "X", "fetch") /\ fault_pc' = pc /\ fetch_phys' = fetch_phys
      BY <1>0, <1>1, <1>5
    <2>2. Paging /\ EntryFault(pc, sr) = <<>> /\ pc % 2 = 0
      BY <1>5, <1>x, <1>p
    <2>3. Walking' /\ Phases' /\ st' = "WALK" /\ locked' = locked
      BY <1>0, <2>1, <2>2, WalkStarts
    <2>4. Inv'
      BY <1>0, <1>i, <1>l, <2>1, <2>3, QuietRest
    <2>5. SameWork
      BY <1>0, <1>m, <2>1 DEF SameWork
    <2>6. Arch!Next
      BY <1>0, <1>m, <2>1, <2>3, <2>5, IdleStep
    <2> QED BY <2>4, <2>6
  <1> QED BY <1>2, <1>3, <1>4, <1>5, <1>p, <1>x

\* FETCH_REQUEST: the instruction at R15 arrives.
LEMMA FetchRequestStep ==
  ASSUME Inv, ~locked, NEW lines \in SUBSET prog.lines, NEW i, i \in IBus, Calm, FetchRequest(i, lines)
  PROVE  Inv' /\ Arch!Next
  <1>m. mem' = mem /\ prog' = prog /\ ~Beaten /\ ~Beaten' /\ UnitsRight'
    BY DEF Calm
  <1>0. /\ Plain /\ mo = <<>> /\ entry = <<>> /\ wb = <<>> /\ IsProgram(prog) /\ Sound
        /\ regs' = regs /\ flags' = flags /\ resv' = resv
        /\ mo' = mo /\ entry' = entry /\ wb' = wb /\ exe' = exe /\ walk' = walk /\ fault_pc' = fault_pc
        /\ fetch_phys' = fetch_phys /\ st = "FETCH_REQUEST" /\ Quiet(lines)
    BY <1>m, PcWord, FetchPlain DEF FetchRequest, arch
  <1>1. CASE FetchError(fe, i)
    <2>1. locked' = TRUE
      BY <1>1 DEF FetchRequest, EnterLockup
    <2>2. prog.faulty
      BY <1>0, <1>1, FetchBus DEF Sound, UnitsRight
    <2> QED BY <1>0, <1>m, <2>1, <2>2, LockStep
  <1>2. CASE ~FetchError(fe, i) /\ LineHit(fe, LineOf(fetch_phys))
    <2>1. cur' = Fetch(prog.code, fetch_phys) /\ st' = "DECODE" /\ locked' = locked
      BY <1>2 DEF FetchRequest, Goto
    <2>3. PcMapped' = PcMapped /\ PcPhys' = PcPhys /\ Here' = Here
      BY <1>0, <1>m, PcKept, QuietSound
    <2>4. PcMapped /\ fetch_phys = PcPhys /\ fetch_phys \in Word
      BY <1>0 DEF Sound, Phases, Words
    <2>5. IsInstruction(cur', DOMAIN prog.regs)
      BY <1>0, <2>1, FetchType
    <2>6. PcMapped' /\ cur' = Here'
      BY <2>1, <2>3, <2>4 DEF Here
    <2>7. Walking' /\ Phases' /\ Latches'
      BY <1>0, <2>1, <2>6 DEF Walking, Phases, States, Latches
    <2>8. Inv'
      BY <1>0, <2>4, <2>5, <2>7, QuietRest
    <2>9. SameWork
      BY <1>0, <1>m DEF SameWork
    <2>10. Arch!Next
      BY <1>0, <1>m, <2>1, <2>9, IdleStep
    <2> QED BY <2>8, <2>10
  <1>3. CASE ~FetchError(fe, i) /\ ~LineHit(fe, LineOf(fetch_phys))
    <2>1. st' = st /\ locked' = locked /\ cur' = cur
      BY <1>3 DEF FetchRequest
    <2> QED BY <1>0, <1>m, <2>1, StayStep
  <1> QED BY <1>1, <1>2, <1>3

\* DECODE: the operands are those of the instruction at R15.
LEMMA DecodeStep ==
  ASSUME Inv, ~locked, NEW lines \in SUBSET prog.lines, Calm, Decode(lines)
  PROVE  Inv' /\ Arch!Next
  <1>m. mem' = mem /\ prog' = prog /\ ~Beaten /\ ~Beaten'
    BY DEF Calm
  <1>0. /\ Plain /\ mo = <<>> /\ entry = <<>> /\ wb = <<>> /\ Sound
        /\ regs' = regs /\ flags' = flags /\ resv' = resv
        /\ mo' = mo /\ entry' = entry /\ wb' = wb /\ walk' = walk /\ cur' = cur
        /\ fetch_phys' = fetch_phys /\ st = "DECODE" /\ Quiet(lines)
        /\ st' = "EXECUTE" /\ locked' = locked
        /\ exe' = <<[i |-> cur, pc |-> regs[15], a |-> ReadReg(regs, cur.rd), b |-> ReadReg(regs, cur.rs1)]>>
    BY <1>m, PcWord, FetchPlain DEF Decode, arch, Goto
  <1>1. PcMapped' = PcMapped /\ Here' = Here
    BY <1>0, <1>m, PcKept, QuietSound
  <1>2. PcMapped /\ cur = Here /\ fetch_phys \in Word /\ IsInstruction(cur, DOMAIN prog.regs)
    BY <1>0 DEF Sound, Phases, Words
  <1>3. Walking' /\ Phases' /\ Latches'
    BY <1>0, <1>1, <1>2 DEF Walking, Phases, States, Latches
  <1>4. Inv'
    BY <1>0, <1>2, <1>3, QuietRest
  <1>5. SameWork
    BY <1>0, <1>m DEF SameWork
  <1>6. Arch!Next
    BY <1>0, <1>m, <1>5, IdleStep
  <1> QED BY <1>4, <1>6

\* In EXECUTE the core computes what the instruction at R15 asks, but for
\* the reservation that a failed store-conditional keeps.
LEMMA ExecuteOutputs ==
  ASSUME Inv, ~locked, st = "EXECUTE"
  PROVE  /\ PcMapped /\ exe[1].pc = regs[15] /\ exe[1].i = Here
         /\ Outputs.trap = Asked.trap /\ Outputs.memory = Asked.memory
         /\ Outputs.writes = Asked.writes /\ Outputs.flags = Asked.flags
         /\ Outputs.next_pc = Asked.next_pc /\ Outputs.halt = Asked.halt
         /\ Outputs.control = Asked.control /\ Outputs.special = Asked.special
         /\ \/ Outputs.clear_reservation = Asked.clear_reservation
            \/ /\ ~Outputs.clear_reservation
               /\ Asked.clear_reservation => exe[1].i.op = "SCR" /\ resv # <<exe[1].b>>
  <1> DEFINE a == ReadReg(regs, Here.rd)
             b == ReadReg(regs, Here.rs1)
             n == NopOutputs(Plus(regs[15], 2))
             x == ExecuteAtomic(Here, a, b, flags, resv, n)
  <1>1. PcMapped /\ exe = <<[i |-> Here, pc |-> regs[15], a |-> a, b |-> b]>>
    BY DEF Inv, Sound, Phases
  <1> HIDE DEF a, b
  <1>2. exe[1].i = Here /\ exe[1].pc = regs[15] /\ exe[1].a = a /\ exe[1].b = b
    BY <1>1
  <1>3. Asked = Execute(Here, regs[15], a, b, flags, sr, resv)
    BY DEF Asked, a, b
  <1>4. CASE Here.op \notin {"LLR", "SCR"}
    <2>1. Outputs = Asked
      BY <1>2, <1>3, <1>4 DEF Outputs, Execute, V2Ldi, V2Ls, V2LsPc, V2Alu, V2System
    <2> QED BY <1>1, <1>2, <2>1
  <1>5. CASE Here.op \in {"LLR", "SCR"}
    <2>1. Outputs = [x EXCEPT !.clear_reservation = FALSE] /\ Asked = x
      BY <1>2, <1>3, <1>5 DEF Outputs, Execute, V2Atomic
    <2>2. DOMAIN x = {"writes", "flags", "control", "next_pc", "halt", "trap", "clear_reservation",
                      "special", "memory"}
      BY DEF ExecuteAtomic, NopOutputs
    <2>3. x.clear_reservation => Here.op = "SCR" /\ resv # <<b>>
      BY <1>5 DEF ExecuteAtomic, NopOutputs
    <2> HIDE DEF x
    <2>4. /\ Outputs.trap = Asked.trap /\ Outputs.memory = Asked.memory
          /\ Outputs.writes = Asked.writes /\ Outputs.flags = Asked.flags
          /\ Outputs.next_pc = Asked.next_pc /\ Outputs.halt = Asked.halt
          /\ Outputs.control = Asked.control /\ Outputs.special = Asked.special
          /\ ~Outputs.clear_reservation
      BY <2>1, <2>2
    <2> QED BY <1>1, <1>2, <2>1, <2>3, <2>4
  <1> QED BY <1>4, <1>5

\* EXECUTE: the instruction is refused.
LEMMA ExecuteTrapStep ==
  ASSUME Inv, ~locked, NEW lines \in SUBSET prog.lines, Calm, st = "EXECUTE", ExecuteTrap(Outputs, lines)
  PROVE  Inv' /\ Arch!Next
  <1>0. /\ Plain /\ regs[15] \in Word /\ Sound
        /\ regs' = regs /\ flags' = flags /\ resv' = resv
        /\ fetch_phys' = fetch_phys /\ cur' = cur /\ wb' = wb
    BY PcWord, FetchPlain DEF ExecuteTrap, arch, Calm
  <1>2. IsResult(Asked) /\ Outputs.trap = Asked.trap /\ PcMapped /\ exe[1].pc = regs[15]
    BY AskedResult, ExecuteOutputs
  <1> DEFINE trap == TrapInfo(Asked.trap, 0, 0, regs[15], 0)
  <1>3. RaiseSyncTrap(trap, lines) /\ Asked.trap # 0
    BY <1>2 DEF ExecuteTrap
  <1>4. IsTrap(trap) /\ trap.pc = regs[15]
    <2>1. Asked.trap \in 0 .. 15 /\ 0 \in Word
      BY <1>2 DEF IsResult, Word
    <2> QED BY <1>0, <2>1, TrapInfoType
  <1>5. TrapHere(trap)
    BY <1>2, <1>3 DEF TrapHere
  <1> HIDE DEF trap
  <1> QED BY <1>0, <1>3, <1>4, <1>5, TrapStep

\* Only IRET and STOP write the control word or halt, and they write no
\* register.
LEMMA HaltWrites ==
  ASSUME NEW D, NEW i, IsInstruction(i, D), NEW pc, NEW a, NEW b, NEW f, NEW s, NEW res,
         NEW o, o = Execute(i, pc, a, b, f, s, res), o.halt \/ o.control # <<>>
  PROVE  o.writes = <<>>
  <1> DEFINE n == NopOutputs(Plus(pc, 2))
  <1>0. /\ ~n.halt /\ n.control = <<>> /\ n.writes = <<>>
        /\ DOMAIN n = {"writes", "flags", "control", "next_pc", "halt", "trap", "clear_reservation",
                       "special", "memory"}
    BY DEF NopOutputs
  <1>1. CASE i.op = "LDI"
    <2>1. o = ExecuteLdi(i, a, n)
      BY <1>1 DEF Execute
    <2> HIDE DEF n
    <2> QED BY <1>0, <2>1 DEF ExecuteLdi
  <1>2. CASE i.op = "UJMP"
    <2>1. o = [n EXCEPT !.next_pc = Plus(@, i.imm)]
      BY <1>2 DEF Execute
    <2> HIDE DEF n
    <2> QED BY <1>0, <2>1
  <1>3. CASE i.op = "ALU"
    <2>1. o = ExecuteAlu(i, a, b, n)
      BY <1>3 DEF Execute
    <2> HIDE DEF n
    <2> QED BY <1>0, <2>1 DEF ExecuteAlu
  <1>4. CASE i.op \in {"LLR", "SCR"}
    <2>1. o = ExecuteAtomic(i, a, b, f, res, n)
      BY <1>4 DEF Execute
    <2> HIDE DEF n
    <2> QED BY <1>0, <2>1 DEF ExecuteAtomic
  <1>5. CASE i.op \in LsOps
    <2>1. o = IF i.pcrel THEN ExecuteLsPc(i, a, f, n) ELSE ExecuteLs(i, a, b, f, n)
      BY <1>5 DEF Execute, LsOps
    <2> HIDE DEF n
    <2>2. ~ExecuteLsPc(i, a, f, n).halt /\ ExecuteLsPc(i, a, f, n).control = <<>>
      BY <1>0, <1>5 DEF ExecuteLsPc, LsOps
    <2>3. ~ExecuteLs(i, a, b, f, n).halt /\ ExecuteLs(i, a, b, f, n).control = <<>>
      BY <1>0, <1>5 DEF ExecuteLs, LsOps
    <2> QED BY <2>1, <2>2, <2>3
  <1>6. CASE i.op \in {"LSR", "SSR", "SYSCALL", "IRET", "STOP", "ILLEGAL"}
    <2>1. o = ExecuteSystem(i, a, b, s, n)
      BY <1>6 DEF Execute
    <2> HIDE DEF n
    <2> QED BY <1>0, <1>6, <2>1 DEF ExecuteSystem
  <1> QED BY <1>1, <1>2, <1>3, <1>4, <1>5, <1>6 DEF IsInstruction, Opcodes, LsOps

\* Writing back a new PC alone
LEMMA WriteBackPc ==
  ASSUME NEW D, NEW g, g \in [D -> Word], 15 \in D, 0 \in D => g[0] = 0, NEW next, NEW w, w = <<>>
  PROVE  WriteBack(g, w, next) = [g EXCEPT ![15] = next]
  <1>1. \A r, old : LastWrite(w, r, old) = old
    BY DEF LastWrite
  <1> DEFINE h == [g EXCEPT ![15] = next]
  <1>2. WriteBack(g, w, next) = [r \in D |-> CASE r = 0 -> 0 [] r = 15 -> next [] r \notin {0, 15} -> g[r]]
    BY <1>1 DEF WriteBack
  <1>3. h = [r \in D |-> CASE r = 0 -> 0 [] r = 15 -> next [] r \notin {0, 15} -> g[r]]
    <2>1. DOMAIN h = D /\ h = [r \in DOMAIN h |-> h[r]]
      OBVIOUS
    <2>2. \A r \in D : h[r] = CASE r = 0 -> 0 [] r = 15 -> next [] r \notin {0, 15} -> g[r]
      OBVIOUS
    <2> HIDE DEF h
    <2> QED BY <2>1, <2>2
  <1> QED BY <1>2, <1>3

\* EXECUTE: the instruction needs the registers only.
LEMMA ExecuteRegisterStep ==
  ASSUME Inv, ~locked, NEW lines \in SUBSET prog.lines, Calm, st = "EXECUTE",
         ExecuteRegister(Outputs, lines)
  PROVE  Inv' /\ (ScrClears => Arch!Next)
  <1>m. mem' = mem /\ prog' = prog /\ ~Beaten /\ ~Beaten' /\ UnitsRight'
    BY DEF Calm
  <1>1. PICK o : o = Outputs
    OBVIOUS
  <1>a. PICK r : r = Asked
    OBVIOUS
  <1>0. /\ Plain /\ mo = <<>> /\ entry = <<>> /\ wb = <<>> /\ Sound
        /\ o.trap = 0 /\ o.memory = <<>>
        /\ resv' = (IF o.clear_reservation THEN <<>> ELSE resv)
        /\ Clock(o.control, <<>>, <<>>, <<>>, o.special, <<>>, lines)
        /\ mo' = <<>> /\ entry' = <<>> /\ fetch_phys' = fetch_phys /\ cur' = cur
    BY <1>1, <1>m, PcWord, FetchPlain DEF ExecuteRegister
  <1>b. IF o.halt \/ o.control # <<>>
        THEN /\ regs' = [regs EXCEPT ![15] = o.next_pc]
             /\ flags' = IF o.flags = <<>> THEN flags ELSE o.flags[1]
             /\ wb' = <<>> /\ locked' = locked
             /\ st' = IF o.halt THEN "HALTED" ELSE "FETCH_TRANSLATE"
        ELSE /\ wb' = <<[writes |-> o.writes, flags |-> o.flags, next_pc |-> o.next_pc]>>
             /\ st' \in {"EXECUTE_COMPLETE", "WRITEBACK"} /\ locked' = locked
             /\ regs' = regs /\ flags' = flags
    BY <1>1 DEF ExecuteRegister, Goto
  <1>2. /\ Words /\ sr \in [Selectors -> Word] /\ regs \in [DOMAIN prog.regs -> Word]
        /\ 15 \in DOMAIN prog.regs /\ (0 \in DOMAIN prog.regs => regs[0] = 0)
    BY <1>0, PcWord DEF Sound, Words
  <1>3. /\ PcMapped /\ o.trap = r.trap /\ o.memory = r.memory /\ o.writes = r.writes
        /\ o.flags = r.flags /\ o.next_pc = r.next_pc /\ o.halt = r.halt
        /\ o.control = r.control /\ o.special = r.special
        /\ \/ o.clear_reservation = r.clear_reservation
           \/ /\ ~o.clear_reservation
              /\ r.clear_reservation => exe[1].i.op = "SCR" /\ resv # <<exe[1].b>>
    BY <1>1, <1>a, ExecuteOutputs
  <1>4. IsResult(r)
    BY <1>a, AskedResult
  <1>5. r.halt \/ r.control # <<>> => r.writes = <<>>
    <2>1. IsInstruction(Here, DOMAIN prog.regs)
      BY HereType
    <2> QED BY <1>a, <2>1, HaltWrites DEF Asked
  <1> DEFINE hides == o.special # <<>> /\ o.special[1].sel = INTERRUPT_STATES_HIGH
             set == IF hides THEN {} ELSE lines
  <1>6. set \in SUBSET prog.lines
    OBVIOUS
  <1> HIDE DEF hides
  <1>7. /\ sr' = SpecialClock(sr, o.control, <<>>, <<>>, <<>>, o.special, set)
        /\ tlb' = TlbClock(tlb, TlbFlush(o.control, o.special), <<>>)
    BY <1>0 DEF Clock, V2SpecialClock, V2TlbClock, hides
  <1> HIDE DEF set
  <1>8. sr' \in [Selectors -> Word]
    <2>1. Optional(o.control) /\ (o.special # <<>> => o.special[1].data \in Word)
      BY <1>3, <1>4 DEF IsResult, Optional
    <2>2. PICK none : none = <<>>
      OBVIOUS
    <2>3. sr' = SpecialClock(sr, o.control, none, none, none, o.special, set)
      BY <1>7, <2>2
    <2>4. Optional(none)
      BY <2>2 DEF Optional
    <2> QED BY <1>2, <2>1, <2>2, <2>3, <2>4, SpecialClockWords
  <1>9. GenerationsPast(tlb') /\ Agrees(tlb', PageOf(sr'[PAGE_TABLE_ROOT]))
    <2> DEFINE flush == TlbFlush(o.control, o.special)
               root == PageOf(sr[PAGE_TABLE_ROOT])
               new == PageOf(sr'[PAGE_TABLE_ROOT])
    <2>1. flush \in BOOLEAN
      BY DEF TlbFlush
    <2>2. flush \/ new = root
      BY <1>2, <1>7, SpecialClockFile DEF IsFile
    <2>3. GenerationsPast(tlb) /\ Agrees(tlb, root)
      BY <1>0 DEF Sound
    <2> HIDE DEF flush, root
    <2>4. tlb' = TlbClock(tlb, flush, <<>>)
      BY <1>7 DEF flush
    <2>5. GenerationsPast(tlb')
      BY <2>1, <2>3, <2>4, ClockPast
    <2> HIDE DEF new
    <2>6. Agrees(tlb', new)
      BY <2>1, <2>2, <2>3, <2>4, ClockAgrees
    <2> QED BY <2>5, <2>6 DEF new
  <1>10. \A q, old : old \in Word => LastWrite(r.writes, q, old) \in Word
    BY <1>4, LastWord DEF IsResult
  <1>11. r.next_pc \in Word
    BY <1>4 DEF IsResult
  \* what the machine sees is the same on both ways
  <1>12. /\ DoneRegs' = WriteBack(regs, r.writes, r.next_pc)
         /\ DoneFlags' = IF r.flags = <<>> THEN flags ELSE r.flags[1]
         /\ DoneMemory' = mem /\ DoneReservation' = resv' /\ DoneSpecial' = sr'
         /\ Mode' = IF r.halt THEN "halted" ELSE "run"
         /\ regs' \in [DOMAIN prog.regs -> Word] /\ (0 \in DOMAIN prog.regs => regs'[0] = 0)
         /\ Latches' /\ Walking' /\ Phases'
    <2>0. DoneMemory' = mem /\ DoneReservation' = resv' /\ DoneSpecial' = sr'
      BY <1>0, <1>m DEF DoneMemory, DoneReservation, DoneSpecial
    <2>1. CASE o.halt \/ o.control # <<>>
      <3>1. /\ regs' = [regs EXCEPT ![15] = r.next_pc]
            /\ flags' = (IF r.flags = <<>> THEN flags ELSE r.flags[1])
            /\ wb' = <<>> /\ locked' = locked
            /\ st' = (IF r.halt THEN "HALTED" ELSE "FETCH_TRANSLATE")
        BY <1>b, <1>3, <2>1
      <3>2. regs' = WriteBack(regs, r.writes, r.next_pc)
        <4>1. r.writes = <<>>
          BY <1>3, <1>5, <2>1
        <4>2. WriteBack(regs, r.writes, r.next_pc) = [regs EXCEPT ![15] = r.next_pc]
          BY <1>2, <4>1, WriteBackPc, ZenonT(60)
        <4> QED BY <3>1, <4>2
      <3>3. DoneRegs' = regs' /\ DoneFlags' = flags'
        BY <1>m, <3>1 DEF Done, DoneRegs, DoneFlags
      <3>4. Mode' = IF r.halt THEN "halted" ELSE "run"
        BY <1>0, <3>1 DEF Mode
      <3>5. Latches' /\ Walking' /\ Phases'
        BY <1>0, <3>1 DEF Latches, Walking, Phases, States
      <3>6. regs' \in [DOMAIN prog.regs -> Word] /\ (0 \in DOMAIN prog.regs => regs'[0] = 0)
        BY <1>2, <1>10, <1>11, <3>2, WriteBackType
      <3> QED BY <2>0, <3>1, <3>2, <3>3, <3>4, <3>5, <3>6
    <2>2. CASE ~(o.halt \/ o.control # <<>>)
      <3>1. /\ wb' = <<[writes |-> r.writes, flags |-> r.flags, next_pc |-> r.next_pc]>>
            /\ st' \in {"EXECUTE_COMPLETE", "WRITEBACK"} /\ locked' = locked
            /\ regs' = regs /\ flags' = flags /\ ~r.halt
        BY <1>b, <1>3, <2>2
      <3>2. /\ wb' # <<>> /\ wb' = <<wb'[1]>> /\ DOMAIN wb'[1] = {"writes", "flags", "next_pc"}
            /\ wb'[1].writes = r.writes /\ wb'[1].flags = r.flags /\ wb'[1].next_pc = r.next_pc
        BY <3>1
      <3>3. /\ DoneRegs' = WriteBack(regs, r.writes, r.next_pc)
            /\ DoneFlags' = IF r.flags = <<>> THEN flags ELSE r.flags[1]
        BY <1>m, <3>1, <3>2 DEF Done, DoneRegs, DoneFlags
      <3>4. Mode' = IF r.halt THEN "halted" ELSE "run"
        BY <1>0, <3>1 DEF Mode
      <3>5. Latches'
        BY <1>10, <1>11, <3>2 DEF Latches
      <3>6. Walking' /\ Phases'
        <4>1. PICK s : s = st' /\ s \in {"EXECUTE_COMPLETE", "WRITEBACK"}
          BY <3>1
        <4> QED BY <1>0, <3>2, <4>1 DEF Walking, Phases, States
      <3> QED BY <1>2, <2>0, <3>1, <3>3, <3>4, <3>5, <3>6
    <2> QED BY <2>1, <2>2
  <1>13. Inv'
    <2>1. Words'
      BY <1>m, <1>0, <1>2, <1>8, <1>12 DEF Words
    <2>2. Pending' /\ Entering'
      BY <1>0 DEF Pending, Entering
    <2> QED BY <1>m, <1>9, <1>12, <2>1, <2>2 DEF Inv, Sound
  <1>14. ASSUME ScrClears PROVE Arch!Next
    <2>1. resv' = IF r.clear_reservation THEN <<>> ELSE resv
      BY <1>0, <1>3, <1>14 DEF ScrClears
    <2> QED BY <1>m, <1>0, <1>a, <1>3, <1>6, <1>7, <1>12, <2>1, StepRegister
  <1> QED BY <1>13, <1>14

\* EXECUTE: the memory operation the instruction asks for is latched.
LEMMA ExecuteMemoryStep ==
  ASSUME Inv, ~locked, NEW lines \in SUBSET prog.lines, Calm, st = "EXECUTE",
         ExecuteMemory(Outputs, lines)
  PROVE  Inv' /\ Arch!Next
  <1>m. mem' = mem /\ prog' = prog /\ ~Beaten /\ ~Beaten' /\ UnitsRight'
    BY DEF Calm
  <1>1. /\ PcMapped /\ exe[1].pc = regs[15] /\ Outputs.memory = Asked.memory
        /\ Outputs.next_pc = Asked.next_pc
    BY ExecuteOutputs
  <1>0. /\ Plain /\ mo = <<>> /\ entry = <<>> /\ wb = <<>> /\ Sound
        /\ Asked.memory # <<>>
        /\ mo' = <<[op |-> Asked.memory[1], addr |-> Asked.memory[1].addr, next_pc |-> Asked.next_pc]>>
        /\ fault_pc' = regs[15]
        /\ Quiet(lines) /\ st' = "MEM_TRANSLATE" /\ locked' = locked
        /\ regs' = regs /\ flags' = flags /\ resv' = resv /\ fetch_phys' = fetch_phys /\ cur' = cur
        /\ wb' = wb /\ entry' = entry
    BY <1>1, <1>m, PcWord, FetchPlain DEF ExecuteMemory, Goto, arch
  <1>2. PICK op : Asked.memory = <<op>> /\ IsOperation(op, Here, resv)
    BY <1>0, AskedResult DEF Asks
  <1>3. Asked.next_pc \in Word /\ op.addr \in Word
    BY <1>0, <1>2, AskedResult DEF Asks, IsOperation
  <1>4. sr \in [Selectors -> Word] /\ sr' \in [Selectors -> Word] /\ sr' = Latched(sr, lines)
        /\ GenerationsPast(tlb)' /\ Agrees(tlb, PageOf(sr[PAGE_TABLE_ROOT]))'
    BY <1>0, QuietSound
  <1>5. Asked' = Asked
    BY <1>0, <1>m, <1>4, AskedKept
  <1>6. PcMapped' = PcMapped /\ Here' = Here
    BY <1>0, <1>m, <1>4, PcKept
  <1>7. /\ mo' # <<>> /\ mo' = <<mo'[1]>> /\ DOMAIN mo'[1] = {"op", "addr", "next_pc"}
        /\ mo'[1].op = op /\ mo'[1].addr = op.addr /\ mo'[1].next_pc = Asked.next_pc
    BY <1>0, <1>2
  <1>8. Pending'
    <2>1. Chosen(op, op)'
      BY <1>0, <1>2, <1>5, <1>6 DEF Chosen
    <2>2. Asked'.memory[1] = op /\ Asked'.memory # <<>>
      BY <1>2, <1>5
    <2> QED BY <1>0, <1>1, <1>2, <1>3, <1>5, <1>6, <1>7, <2>1, <2>2 DEF Pending
  <1>9. Words' /\ Latches' /\ Walking' /\ Entering' /\ Phases'
    <2>1. Words'
      BY <1>0, <1>m, <1>4 DEF Sound, Words
    <2> QED BY <1>0, <1>7, <2>1 DEF Latches, Walking, Entering, Phases, States
  <1>10. Inv'
    BY <1>m, <1>4, <1>8, <1>9 DEF Inv, Sound
  <1>11. SameWork
    BY <1>0, <1>m DEF SameWork
  <1>12. Arch!Next
    BY <1>0, <1>m, <1>11, IdleStep
  <1> QED BY <1>10, <1>12

\* EXECUTE_COMPLETE: the latch moves on.
LEMMA ExecuteCompleteStep ==
  ASSUME Inv, ~locked, NEW lines \in SUBSET prog.lines, Calm, ExecuteComplete(lines)
  PROVE  Inv' /\ Arch!Next
  <1>m. mem' = mem /\ prog' = prog /\ ~Beaten /\ ~Beaten'
    BY DEF Calm
  <1>0. /\ Sound /\ st = "EXECUTE_COMPLETE" /\ st' = "WRITEBACK" /\ locked' = locked /\ Quiet(lines)
        /\ regs' = regs /\ flags' = flags /\ resv' = resv /\ fetch_phys' = fetch_phys /\ cur' = cur
        /\ wb' = wb /\ mo' = mo /\ entry' = entry
    BY PcWord DEF ExecuteComplete, Goto, arch
  <1>1. /\ wb # <<>> /\ mo = <<>> /\ entry = <<>> /\ Latches /\ fetch_phys \in Word
        /\ IsInstruction(cur, DOMAIN prog.regs)
    BY <1>0 DEF Sound, Phases, Words
  <1>2. Latches' /\ Walking' /\ Phases'
    BY <1>0, <1>1 DEF Latches, Walking, Phases, States
  <1>3. Inv'
    BY <1>0, <1>1, <1>2, QuietRest
  <1>4. SameWork
    BY <1>0, <1>m DEF SameWork
  <1>5. Arch!Next
    BY <1>0, <1>m, <1>1, <1>4, IdleStep
  <1> QED BY <1>3, <1>5

\* WRITEBACK: the registers become what the machine already sees.
LEMMA WritebackStep ==
  ASSUME Inv, ~locked, NEW lines \in SUBSET prog.lines, Calm, Writeback(lines)
  PROVE  Inv' /\ Arch!Next
  <1>m. mem' = mem /\ prog' = prog /\ ~Beaten /\ ~Beaten' /\ UnitsRight'
    BY DEF Calm
  <1>0. /\ Sound /\ st = "WRITEBACK" /\ st' = "FETCH_TRANSLATE" /\ locked' = locked /\ Quiet(lines)
        /\ regs' = WriteBack(regs, wb[1].writes, wb[1].next_pc)
        /\ flags' = (IF wb[1].flags = <<>> THEN flags ELSE wb[1].flags[1])
        /\ resv' = resv /\ fetch_phys' = fetch_phys /\ cur' = cur
        /\ wb' = <<>> /\ mo' = mo /\ entry' = entry
    BY PcWord DEF Writeback, Goto
  <1>1. /\ wb # <<>> /\ mo = <<>> /\ entry = <<>> /\ wb[1].next_pc \in Word /\ Words
        /\ \A r, old : old \in Word => LastWrite(wb[1].writes, r, old) \in Word
    BY <1>0 DEF Sound, Phases, Latches
  <1>2. sr \in [Selectors -> Word] /\ sr' \in [Selectors -> Word] /\ sr' = Latched(sr, lines)
        /\ GenerationsPast(tlb)' /\ Agrees(tlb, PageOf(sr[PAGE_TABLE_ROOT]))'
    BY <1>0, QuietSound
  <1>3. regs' \in [DOMAIN prog.regs -> Word] /\ (0 \in DOMAIN prog.regs => regs'[0] = 0)
    <2>1. regs \in [DOMAIN prog.regs -> Word]
      BY <1>1 DEF Words
    <2> QED BY <1>0, <1>1, <2>1, WriteBackType
  <1>4. Words'
    BY <1>m, <1>0, <1>1, <1>2, <1>3 DEF Words
  <1>5. Pending' /\ Latches' /\ Walking' /\ Entering' /\ Phases'
    BY <1>0, <1>1 DEF Pending, Latches, Walking, Entering, Phases, States
  <1>6. Inv'
    BY <1>m, <1>2, <1>4, <1>5 DEF Inv, Sound
  <1>7. DoneRegs' = regs' /\ DoneFlags' = flags' /\ DoneMemory' = mem' /\ DoneReservation' = resv'
        /\ DoneSpecial' = sr' /\ Mode' = "run"
    BY <1>m, <1>0, <1>1 DEF Done, DoneRegs, DoneFlags, DoneMemory, DoneReservation, DoneSpecial, Mode
  <1>8. DoneRegs = regs' /\ DoneFlags = flags' /\ DoneMemory = mem /\ DoneReservation = resv
        /\ DoneSpecial = sr /\ Mode = "run"
    BY <1>m, <1>0, <1>1 DEF Done, DoneRegs, DoneFlags, DoneMemory, DoneReservation, DoneSpecial, Mode
  <1>9. Arch!Next
    BY <1>m, <1>0, <1>2, <1>7, <1>8, StepIdle
  <1> QED BY <1>6, <1>9

\* A halted core stays halted.
LEMMA StoppedStep ==
  ASSUME Inv, ~locked, NEW lines \in SUBSET prog.lines, Calm, Stopped(lines)
  PROVE  Inv' /\ Arch!Next
  BY StayStep DEF Stopped, arch, Calm

-----------------------------------------------------------------------------
\* The core goes on with the operation or the entry it has in hand.
LEMMA GoOn ==
  ASSUME Inv, ~locked, st # "HALTED", NEW lines \in SUBSET prog.lines, sr' = Latched(sr, lines),
         GenerationsPast(tlb)', Agrees(tlb, PageOf(sr[PAGE_TABLE_ROOT]))', Calm,
         regs' = regs, flags' = flags, resv' = resv, cur' = cur, fault_pc' = fault_pc, wb' = wb,
         fetch_phys' \in Word,
         NEW addr,
         \/ mo' = mo
         \/ mo # <<>> /\ addr \in Word /\ mo' = <<[mo[1] EXCEPT !.addr = addr]>>,
         NEW phys,
         \/ entry' = entry
         \/ entry # <<>> /\ entry' = <<[entry[1] EXCEPT !.phys = phys]>>,
         Walking', Phases', st' # "HALTED", locked' = locked
  PROVE  Inv' /\ Arch!Next
  <1>m. mem' = mem /\ prog' = prog /\ ~Beaten /\ ~Beaten' /\ UnitsRight'
    BY DEF Calm
  <1>0. Sound /\ Words /\ Entering /\ Latches /\ sr \in [Selectors -> Word]
    BY DEF Inv, Sound, Words
  <1>1. sr' \in [Selectors -> Word] /\ sr'[CPU_CONTROL] = sr[CPU_CONTROL]
    BY <1>0, LatchedType, LatchedSame
  <1>2. Pending'
    BY <1>m, PendingKept
  <1>3. /\ Entering'
        /\ entry # <<>> => /\ entry' # <<>> /\ entry'[1].epc = entry[1].epc
        /\ entry = <<>> => entry' = <<>>
    BY <1>0, <1>1, EnteringKept
  <1>4. Words' /\ Latches'
    BY <1>m, <1>0, <1>1 DEF Words, Latches
  <1>5. Inv'
    BY <1>m, <1>1, <1>2, <1>3, <1>4 DEF Inv, Sound
  <1>6. SameWork
    BY <1>m, <1>3 DEF SameWork
  <1>7. entry # <<>> => entry[1].epc \in Word
    BY <1>0 DEF Entering
  <1>8. /\ DoneRegs' = DoneRegs /\ DoneFlags' = DoneFlags
        /\ DoneMemory' = DoneMemory /\ DoneReservation' = DoneReservation
        /\ DoneSpecial' = Latched(DoneSpecial, lines)
    BY <1>m, <1>0, <1>6, <1>7, SameDone
  <1>9. Mode' = Mode
    BY <1>3 DEF Mode
  <1>10. Arch!Next
    BY <1>m, <1>8, <1>9, StepIdle
  <1> QED BY <1>5, <1>10

\* the store an operation is chained to
LEMMA ChainedFields ==
  ASSUME NEW op, NEW loaded, NEW c, c = ChainedStore(op, loaded)
  PROVE  /\ DOMAIN c = {"addr", "width", "write", "value", "dest", "post", "chain", "flags", "reserve"}
         /\ c.addr = op.chain[1] /\ c.width = WordBytes /\ c.write /\ c.write \in BOOLEAN /\ c.value = loaded
         /\ c.dest = <<>> /\ c.post = op.post /\ c.chain = <<>> /\ c.flags = <<>>
         /\ ~c.reserve /\ c.reserve \in BOOLEAN
  <1> DEFINE m == MemoryOp(op.chain[1], WordBytes, TRUE, loaded)
  <1>1. /\ DOMAIN m = {"addr", "width", "write", "value", "dest", "post", "chain", "flags", "reserve"}
        /\ m.addr = op.chain[1] /\ m.width = WordBytes /\ m.write /\ m.write \in BOOLEAN /\ m.value = loaded
        /\ m.dest = <<>> /\ m.chain = <<>> /\ m.flags = <<>>
        /\ ~m.reserve /\ m.reserve \in BOOLEAN
    BY DEF MemoryOp
  <1>2. c = [m EXCEPT !.post = op.post]
    BY DEF ChainedStore
  <1> HIDE DEF m
  <1> QED BY <1>1, <1>2

\* An access that faults traps: the operation's, or its chained store's.
LEMMA AccessTraps ==
  ASSUME Inv, ~locked, st # "HALTED", NEW lines \in SUBSET prog.lines, mo # <<>>, entry = <<>>, wb = <<>>,
         NEW op, op = mo[1].op, NEW access, access = (IF op.write THEN "W" ELSE "R"),
         NEW fault, fault # <<>>, IsFault(fault), Translate(op.addr, access, sr).fault = fault,
         RaiseSyncTrap(TrapInfo(fault[1], op.addr, AccessCode(access), fault_pc, fault[2]), lines),
         Calm, regs' = regs, flags' = flags, resv' = resv, fetch_phys' = fetch_phys, cur' = cur, wb' = wb
  PROVE  Inv' /\ Arch!Next
  <1>1. ~Beaten
    BY DEF Calm
  <1>2. /\ PcMapped /\ fault_pc = regs[15] /\ op.addr \in Word /\ op.write \in BOOLEAN
        /\ Chosen(Asked.memory[1], op)
    BY <1>1 DEF Inv, Sound, Pending, IsOperation
  <1>3. PICK first : first = Asked.memory[1]
    OBVIOUS
  <1>4. Plain
    BY <1>1 DEF Plain
  <1> DEFINE code == IF op.write THEN 1 ELSE 0
             trap == TrapInfo(fault[1], op.addr, code, regs[15], fault[2])
  <1>5. AccessCode(access) = code /\ code \in 0 .. 2
    BY AccessCodes
  <1>6. RaiseSyncTrap(trap, lines)
    BY <1>2, <1>5
  <1>7. IsTrap(trap) /\ trap.pc = regs[15]
    <2>1. regs[15] \in Word
      BY PcWord
    <2> HIDE DEF code
    <2> QED BY <1>2, <1>5, <2>1, TrapInfoType DEF IsFault
  <1>8. TrapHere(trap)
    <2>1. CASE op = first
      <3>1. FirstAccess(op).fault = fault
        BY DEF FirstAccess
      <3> QED BY <1>2, <1>3, <2>1, <3>1 DEF TrapHere, Chosen
    <2>2. CASE op # first
      <3>0. /\ Asked.memory = <<first>> /\ first.chain # <<>> /\ FirstAccess(first).fault = <<>>
            /\ op = ChainedStore(first, LoadBytes(mem, FirstAccess(first).phys, first.width))
        BY <1>2, <1>3, <2>2 DEF Chosen
      <3>1. op.addr = first.chain[1] /\ op.write
        BY <3>0, ChainedFields
      <3>2. ChainAccess(first).fault = fault
        BY <3>1 DEF ChainAccess
      <3>3. trap = TrapInfo(fault[1], first.chain[1], 1, regs[15], fault[2])
        BY <3>1
      <3> QED BY <1>2, <3>0, <3>2, <3>3 DEF TrapHere
    <2> QED BY <2>1, <2>2
  <1> HIDE DEF trap
  <1> QED BY <1>4, <1>6, <1>7, <1>8, TrapStep

\* MEM_TRANSLATE: the address of the operation.
LEMMA MemTranslateStep ==
  ASSUME Inv, ~locked, NEW lines \in SUBSET prog.lines, Calm, MemTranslate(lines)
  PROVE  Inv' /\ Arch!Next
  <1> DEFINE op == mo[1].op
             access == IF op.write THEN "W" ELSE "R"
             xl == Translation(op.addr, access)
             fault == EntryFault(op.addr, sr)
  <1>0. /\ st = "MEM_TRANSLATE" /\ regs' = regs /\ flags' = flags /\ resv' = resv
        /\ fetch_phys' = fetch_phys /\ cur' = cur /\ wb' = wb /\ fault_pc' = fault_pc
    BY DEF MemTranslate, arch
  <1>1. /\ Sound /\ mo # <<>> /\ entry = <<>> /\ wb = <<>> /\ op.addr \in Word /\ op.write \in BOOLEAN
        /\ mo = <<mo[1]>> /\ DOMAIN mo[1] = {"op", "addr", "next_pc"}
        /\ fetch_phys \in Word
    BY <1>0 DEF Inv, Sound, Phases, Pending, IsOperation, Words
  <1>x. /\ xl \in {"done", "fault", "walk"}
        /\ xl = "done" => Translate(op.addr, access, sr) = [phys |-> Physical(op.addr), fault |-> <<>>]
        /\ xl = "fault" => fault # <<>> /\ Translate(op.addr, access, sr).fault = fault
        /\ xl = "walk" => Paging /\ fault = <<>>
    BY <1>1, TranslationMeans DEF Sound
  <1>2. CASE xl = "fault"
    <2>1. RaiseSyncTrap(TrapInfo(fault[1], op.addr, AccessCode(access), fault_pc, fault[2]), lines)
      BY <1>2 DEF MemTranslate
    <2>2. fault # <<>> /\ IsFault(fault) /\ Translate(op.addr, access, sr).fault = fault
      BY <1>2, <1>x, EntryFaultType
    <2> HIDE DEF fault
    <2> QED BY <1>0, <1>1, <2>1, <2>2, AccessTraps
  <1>3. CASE xl = "done"
    <2>1. /\ mo' = <<[mo[1] EXCEPT !.addr = Physical(op.addr)]>>
          /\ Quiet(lines) /\ st' = "MEMORY" /\ locked' = locked /\ walk' = walk /\ entry' = entry
      BY <1>3 DEF MemTranslate, Goto
    <2>2. Translate(op.addr, access, sr) = [phys |-> Physical(op.addr), fault |-> <<>>]
      BY <1>3, <1>x
    <2>w. Physical(op.addr) \in Word
      <3>1. PICK va : va = op.addr /\ va \in Word
        BY <1>1
      <3>2. Translate(va, access, sr).fault = <<>> /\ Translate(va, access, sr).phys = Physical(op.addr)
        BY <2>2, <3>1
      <3> QED BY <3>1, <3>2, TranslateType
    <2>3. /\ sr \in [Selectors -> Word] /\ sr' = Latched(sr, lines)
          /\ GenerationsPast(tlb)' /\ Agrees(tlb, PageOf(sr[PAGE_TABLE_ROOT]))'
      BY <1>1, <2>1, QuietSound
    <2>4. \A va, a : Translate(va, a, sr') = Translate(va, a, sr)
      BY <2>3, LatchedSame
    <2>5. mo' # <<>> /\ mo'[1].op = op /\ mo'[1].addr = Physical(op.addr)
      <3> DEFINE p == mo[1]
                 q == [p EXCEPT !.addr = Physical(op.addr)]
      <3>1. q.op = p.op /\ q.addr = Physical(op.addr)
        BY <1>1
      <3>2. mo' = <<q>>
        BY <2>1
      <3> HIDE DEF q
      <3> QED BY <3>1, <3>2
    <2>6. FirstAccess(mo[1].op)' = [phys |-> mo'[1].addr, fault |-> <<>>]
      BY <2>2, <2>4, <2>5 DEF FirstAccess
    <2>7. Phases' /\ Walking'
      BY <1>0, <1>1, <2>1, <2>5, <2>6 DEF Phases, Walking, States
    <2>8. st # "HALTED" /\ st' # "HALTED"
      BY <1>0, <2>1
    <2>9. PICK addr : addr \in Word /\ mo' = <<[mo[1] EXCEPT !.addr = addr]>>
      BY <2>1, <2>w
    <2> HIDE DEF op
    <2> QED BY <1>0, <1>1, <2>1, <2>3, <2>7, <2>8, <2>9, GoOn
  <1>4. CASE xl = "walk"
    <2>1. /\ Quiet(lines) /\ StartWalk(op.addr, access, "memory") /\ mo' = mo /\ entry' = entry
      BY <1>4 DEF MemTranslate
    <2>2. Paging /\ EntryFault(op.addr, sr) = <<>>
      BY <1>4, <1>x
    <2>3. /\ sr \in [Selectors -> Word] /\ sr' = Latched(sr, lines)
          /\ GenerationsPast(tlb)' /\ Agrees(tlb, PageOf(sr[PAGE_TABLE_ROOT]))'
      BY <1>1, <2>1, QuietSound
    <2>4. Walking' /\ Phases' /\ st' = "WALK" /\ locked' = locked
      BY <1>0, <1>1, <2>1, <2>2, WalkStarts
    <2>5. st # "HALTED" /\ st' # "HALTED"
      BY <1>0, <2>4
    <2> HIDE DEF op
    <2> QED BY <1>0, <1>1, <2>1, <2>3, <2>4, <2>5, GoOn
  <1> QED BY <1>2, <1>3, <1>4, <1>x

\* the interrupt table entry of the entry under way is at a word address
LEMMA TableWord ==
  ASSUME sr \in [Selectors -> Word], Entering, entry # <<>>
  PROVE  TableVa \in Word
  <1>1. sr[INTERRUPT_TABLE_BASE] \in Word /\ sr[CPU_CONTROL] \in Word
    BY DEF INTERRUPT_TABLE_BASE, CPU_CONTROL, Selectors
  <1>2. sr[INTERRUPT_TABLE_BASE] \in Int /\ sr[CPU_CONTROL] \in Int
    BY <1>1, WordInt
  <1>3. entry[1].vector \in Int
    BY <1>2 DEF Entering, CurInt
  <1> QED BY <1>2, <1>3, PlusWord DEF TableVa

\* A vector that cannot be reached locks the core up.
LEMMA VectorLocks ==
  ASSUME Inv, ~locked, st # "HALTED", entry # <<>>, locked' = TRUE, prog' = prog,
         TableEntry.fault # <<>> \/ HandlerAt(TableEntry.phys) = 0
  PROVE  Inv' /\ Arch!Next
  <1>1. Inv'
    BY DEF Inv
  <1>2. Mode' = "locked" /\ Mode = "entry"
    BY DEF Mode
  <1>3. sr \in [Selectors -> Word] /\ Entering
    BY DEF Inv, Sound, Words
  <1>4. Arch!Next
    BY <1>2, <1>3, StepLockup
  <1> QED BY <1>1, <1>4

\* INTERRUPT_VECTOR_TRANSLATE: the address of the table entry.
LEMMA InterruptVectorTranslateStep ==
  ASSUME Inv, ~locked, NEW lines \in SUBSET prog.lines, Calm, InterruptVectorTranslate(lines)
  PROVE  Inv' /\ Arch!Next
  <1> DEFINE va == TableVa
             xl == Translation(va, "R")
  <1>0. /\ st = "INTERRUPT_VECTOR_TRANSLATE" /\ Quiet(lines)
        /\ regs' = regs /\ flags' = flags /\ resv' = resv
        /\ fetch_phys' = fetch_phys /\ cur' = cur /\ wb' = wb /\ fault_pc' = fault_pc /\ mo' = mo
    BY DEF InterruptVectorTranslate, arch
  <1>1. /\ Sound /\ mo = <<>> /\ entry # <<>> /\ Entering /\ wb = <<>>
        /\ fetch_phys \in Word /\ prog' = prog
    BY <1>0 DEF Inv, Sound, Phases, Words, Calm
  <1>2. /\ sr \in [Selectors -> Word] /\ sr' = Latched(sr, lines)
        /\ GenerationsPast(tlb)' /\ Agrees(tlb, PageOf(sr[PAGE_TABLE_ROOT]))'
    BY <1>0, <1>1, QuietSound
  <1>3. va \in Word
    BY <1>1, <1>2, TableWord
  <1>4. /\ \A a, x : Translate(a, x, sr') = Translate(a, x, sr)
        /\ sr'[CPU_CONTROL] = sr[CPU_CONTROL] /\ sr'[INTERRUPT_TABLE_BASE] = sr[INTERRUPT_TABLE_BASE]
    BY <1>2, LatchedSame
  <1>c. /\ xl = "fault" => EnterLockup /\ UNCHANGED <<entry, walk>>
        /\ xl = "done" => /\ entry' = <<[entry[1] EXCEPT !.phys = Physical(va)]>>
                          /\ Goto("INTERRUPT_VECTOR_LOAD") /\ UNCHANGED walk
        /\ xl = "walk" => StartWalk(va, "R", "vector") /\ UNCHANGED entry
    BY DEF InterruptVectorTranslate, TableVa
  <1>x. /\ xl \in {"done", "fault", "walk"}
        /\ xl = "done" => Translate(va, "R", sr) = [phys |-> Physical(va), fault |-> <<>>]
        /\ xl = "fault" => EntryFault(va, sr) # <<>> /\ Translate(va, "R", sr).fault = EntryFault(va, sr)
        /\ xl = "walk" => Paging /\ EntryFault(va, sr) = <<>>
    BY <1>1, <1>3, TranslationMeans DEF Sound
  <1> HIDE DEF xl
  <1>5. CASE xl = "fault"
    <2>1. locked' = TRUE
      BY <1>5, <1>c DEF EnterLockup
    <2>2. TableEntry.fault # <<>>
      BY <1>5, <1>x DEF TableEntry
    <2> QED BY <1>0, <1>1, <2>1, <2>2, VectorLocks
  <1>6. CASE xl = "done"
    <2>1. /\ entry' = <<[entry[1] EXCEPT !.phys = Physical(va)]>>
          /\ st' = "INTERRUPT_VECTOR_LOAD" /\ locked' = locked
      BY <1>6, <1>c DEF Goto
    <2>2. /\ entry' # <<>> /\ entry'[1].vector = entry[1].vector /\ entry'[1].phys = Physical(va)
      <3>1. DOMAIN entry[1] = {"vector", "epc", "phys"}
        BY <1>1 DEF Entering
      <3> DEFINE p == entry[1]
                 q == [p EXCEPT !.phys = Physical(va)]
      <3>2. q.vector = p.vector /\ q.phys = Physical(va)
        BY <3>1
      <3>3. entry' = <<q>>
        BY <2>1
      <3> HIDE DEF q
      <3> QED BY <3>2, <3>3
    <2>3. TableVa' = va
      BY <1>4, <2>2 DEF TableVa
    <2>4. Translate(TableVa', "R", sr') = [phys |-> entry'[1].phys, fault |-> <<>>]
      BY <1>4, <1>6, <1>x, <2>2, <2>3
    <2>5. Walking' /\ Phases'
      BY <1>0, <1>1, <2>1, <2>2, <2>4 DEF Walking, Phases, States
    <2>6. PICK phys : entry' = <<[entry[1] EXCEPT !.phys = phys]>>
      BY <2>1
    <2>7. st # "HALTED" /\ st' # "HALTED"
      BY <1>0, <2>1
    <2> QED BY <1>0, <1>1, <1>2, <2>1, <2>5, <2>6, <2>7, GoOn
  <1>7. CASE xl = "walk"
    <2>1. StartWalk(va, "R", "vector") /\ entry' = entry
      BY <1>7, <1>c
    <2>2. Paging /\ EntryFault(va, sr) = <<>>
      BY <1>7, <1>x
    <2>3. TableVa' = va
      BY <1>4, <2>1 DEF TableVa
    <2>4. Walking' /\ Phases' /\ st' = "WALK" /\ locked' = locked
      BY <1>0, <1>1, <1>3, <2>1, <2>2, <2>3, WalkStarts
    <2> QED BY <1>0, <1>1, <1>2, <2>1, <2>4, GoOn
  <1> QED BY <1>5, <1>6, <1>7, <1>x

-----------------------------------------------------------------------------
\* The answer a waiting state gets is that of its own request.
LEMMA OwnAnswer ==
  ASSUME Sound, BusFree, Requesting, NEW d, LsuDone(lsu, d)
  PROVE  /\ started /\ lsu.req = Request
         /\ st = "WALK" => LsuLoad(lsu, mem) = WalkEntry(walk[1].table, walk[1].level, PageOf(walk[1].va))
         /\ st = "INTERRUPT_VECTOR_LOAD" => LsuLoad(lsu, mem) = HandlerAt(entry[1].phys)
  <1>1. LsuActive(lsu)
    BY DEF LsuDone, LsuError, BeatTaken
  <1>2. started
    BY <1>1 DEF BusFree, LsuActive
  <1>3. lsu.req = Request
    BY <1>2 DEF Sound, UnitsRight, Bus
  <1>4. CASE st = "WALK"
    BY <1>2, <1>3, <1>4, RequestFields DEF LsuLoad, WalkEntry
  <1>5. CASE st = "INTERRUPT_VECTOR_LOAD"
    BY <1>2, <1>3, <1>5, RequestFields DEF LsuLoad
  <1> QED BY <1>2, <1>3, <1>4, <1>5

\* A walk or a vector load that waits or has its answer leaves the units to
\* themselves.
LEMMA CalmWaits ==
  ASSUME Sound, BusFree, NEW i, i \in IBus, NEW d, d \in DBus, Units(i, d),
         st \in {"WALK", "INTERRUPT_VECTOR_LOAD"}, dcache' = dcache,
         IF LsuDone(lsu, d) THEN st' # st ELSE st' = st /\ walk' = walk /\ entry' = entry
  PROVE  Calm
  <1>1. Requesting /\ st # "MEMORY"
    BY DEF Requesting
  <1>2. st' = st => ~LsuDone(lsu, d) /\ Request' = Request
    BY DEF Request
  <1> QED BY <1>1, <1>2, UnitsQuiet DEF Calm

\* The handler's address is in the table: the handler starts.
LEMMA HandlerStarts ==
  ASSUME Inv, ~locked, NEW lines \in SUBSET prog.lines, st = "INTERRUPT_VECTOR_LOAD", Calm,
         NEW handler, handler = HandlerAt(entry[1].phys), handler # 0,
         Clock(<<>>, <<>>, <<entry[1].epc, FlagsWord(flags)>>, <<>>, <<>>, <<>>, lines),
         regs' = [regs EXCEPT ![15] = handler], entry' = <<>>, st' = "FETCH_TRANSLATE", locked' = locked,
         flags' = flags, resv' = resv, fetch_phys' = fetch_phys, cur' = cur, wb' = wb, mo' = mo
  PROVE  Inv' /\ Arch!Next
  <1>m. mem' = mem /\ prog' = prog /\ ~Beaten /\ ~Beaten' /\ UnitsRight'
    BY DEF Calm
  <1>0. /\ Sound /\ mo = <<>> /\ wb = <<>> /\ entry # <<>> /\ Entering /\ Words /\ sr \in [Selectors -> Word]
        /\ Translate(TableVa, "R", sr) = [phys |-> entry[1].phys, fault |-> <<>>]
    BY DEF Inv, Sound, Phases, Words
  <1>1. TableEntry.fault = <<>> /\ TableEntry.phys = entry[1].phys
    BY <1>0 DEF TableEntry
  <1>2. PICK e, f : e = entry[1].epc /\ f = FlagsWord(flags)
    OBVIOUS
  <1>3. e \in Word /\ f \in Word
    BY <1>0, <1>2, FlagsWordType DEF Entering
  <1>4. sr' = Latched(Saved(sr, e, f), lines)
    <2>1. sr' = SpecialClock(sr, <<>>, <<>>, <<e, f>>, <<>>, <<>>, lines)
      BY <1>2 DEF Clock, V2SpecialClock
    <2> QED BY <2>1 DEF SpecialClock, Latched, Saved
  <1>5. tlb' = tlb
    <2>1. ~TlbFlush(<<>>, <<>>)
      BY DEF TlbFlush
    <2> QED BY <2>1 DEF Clock, V2TlbClock, TlbClock
  <1>6. PICK s : s = Saved(sr, e, f)
    OBVIOUS
  <1>7. s \in [Selectors -> Word] /\ s[PAGE_TABLE_ROOT] = sr[PAGE_TABLE_ROOT]
    <2>1. s \in [Selectors -> Word]
      BY <1>0, <1>3, <1>6, SavedType
    <2>2. DOMAIN sr = Selectors
      BY <1>0
    <2> QED BY <1>6, <2>1, <2>2, SavedFile DEF PAGE_TABLE_ROOT, INTERRUPT_EPC, INTERRUPT_EFLAGS, Selectors
  <1>8. sr' \in [Selectors -> Word]
    BY <1>4, <1>6, <1>7, LatchedType
  <1>9. sr'[PAGE_TABLE_ROOT] = sr[PAGE_TABLE_ROOT]
    BY <1>4, <1>6, <1>7, LatchedFile DEF PAGE_TABLE_ROOT, INTERRUPT_STATES_HIGH, Selectors
  <1>10. GenerationsPast(tlb)' /\ Agrees(tlb, PageOf(sr[PAGE_TABLE_ROOT]))'
    BY <1>0, <1>5, <1>9, SMTT(30) DEF Sound
  <1>11. handler \in Word
    <2>1. entry[1].phys \in Word
      <3>1. Translate(TableVa, "R", sr).phys \in Word
        BY <1>0, TableWord, TranslateType
      <3> QED BY <1>0, <3>1
    <2>2. entry[1].phys % 16 \in 0 .. 15
      <3>1. entry[1].phys \in Int
        BY <2>1, WordInt
      <3> QED BY <3>1
    <2> QED BY <2>2, L64Assumption DEF HandlerAt, PageBytes, Word
  <1>12. Words'
    <2>1. regs \in [DOMAIN prog.regs -> Word] /\ (0 \in DOMAIN regs => regs[0] = 0)
      BY <1>0 DEF Words
    <2>2. regs' \in [DOMAIN prog.regs -> Word] /\ (0 \in DOMAIN regs' => regs'[0] = 0)
      <3>1. PICK g, h, D : g = regs /\ h = handler /\ D = DOMAIN prog.regs
        OBVIOUS
      <3>2. g \in [D -> Word] /\ (0 \in D => g[0] = 0) /\ h \in Word
        BY <1>11, <2>1, <3>1
      <3>3. PICK n : n = [g EXCEPT ![15] = h]
        OBVIOUS
      <3>5. n \in [D -> Word]
        BY <3>2, <3>3
      <3>6. 0 \in D => n[0] = 0
        BY <3>2, <3>3
      <3>4. regs' = [g EXCEPT ![15] = h] /\ DOMAIN regs' = D
        BY <3>1, <3>2
      <3> QED BY <3>1, <3>3, <3>4, <3>5, <3>6
    <2> QED BY <1>m, <1>0, <1>8, <2>2 DEF Words
  <1>13. Pending' /\ Entering' /\ Walking' /\ Phases' /\ Latches'
    BY <1>0 DEF Pending, Entering, Walking, Phases, States, Latches
  <1>14. Inv'
    BY <1>m, <1>10, <1>12, <1>13 DEF Inv, Sound
  <1>16. /\ DoneRegs = regs /\ DoneRegs' = regs' /\ DoneMemory' = DoneMemory /\ DoneFlags' = DoneFlags
         /\ DoneReservation' = DoneReservation
    BY <1>m, <1>0 DEF Done, DoneRegs, DoneFlags, DoneMemory, DoneReservation
  <1>17. Mode = "entry" /\ Mode' = "run"
    BY <1>0 DEF Mode
  <1>18. DoneSpecial = Saved(sr, e, f) /\ DoneSpecial' = sr'
    BY <1>0, <1>2 DEF DoneSpecial, Saved
  <1>19. HandlerAt(TableEntry.phys) = handler
    BY <1>1
  <1>20. Arch!Next
    BY <1>m, <1>0, <1>1, <1>4, <1>16, <1>17, <1>18, <1>19, StepHandler
  <1> QED BY <1>14, <1>20

\* INTERRUPT_VECTOR_LOAD: the handler's address.
LEMMA InterruptVectorLoadStep ==
  ASSUME Inv, ~locked, BusFree, NEW i, i \in IBus, NEW d, d \in DBus, NEW lines \in SUBSET prog.lines,
         InterruptVectorLoad(d, lines), Units(i, d)
  PROVE  Inv' /\ Arch!Next
  <1>0. /\ st = "INTERRUPT_VECTOR_LOAD" /\ flags' = flags /\ resv' = resv
        /\ fetch_phys' = fetch_phys /\ cur' = cur /\ exe' = exe /\ wb' = wb /\ mo' = mo
        /\ fault_pc' = fault_pc /\ walk' = walk /\ dcache' = dcache
    BY DEF InterruptVectorLoad
  <1>s. Sound /\ Requesting /\ prog' = prog
    BY <1>0 DEF Inv, Requesting, Units
  <1>1. PICK handler : handler = HandlerAt(entry[1].phys)
    OBVIOUS
  <1>a. LsuDone(lsu, d) => LsuLoad(lsu, mem) = handler
    BY <1>0, <1>s, <1>1, OwnAnswer
  <1>2. CASE ~LsuDone(lsu, d)
    <2>1. Quiet(lines) /\ regs' = regs /\ st' = st /\ locked' = locked /\ entry' = entry
      BY <1>2 DEF InterruptVectorLoad
    <2>2. Calm
      BY <1>0, <1>s, <1>2, <2>1, CalmWaits
    <2> QED BY <1>0, <2>1, <2>2, StayStep DEF Calm
  <1>3. CASE LsuError(lsu, d)
    <2>1. locked' = TRUE
      BY <1>3 DEF InterruptVectorLoad, EnterLockup, LsuDone
    <2>2. prog.faulty /\ st # "HALTED"
      BY <1>0, <1>s, <1>3, DataBus DEF Sound, UnitsRight
    <2> QED BY <1>s, <2>1, <2>2, LockStep
  <1>4. CASE LsuDone(lsu, d) /\ handler = 0
    <2>1. locked' = TRUE
      BY <1>a, <1>4 DEF InterruptVectorLoad, EnterLockup
    <2>2. entry # <<>> /\ Translate(TableVa, "R", sr) = [phys |-> entry[1].phys, fault |-> <<>>]
      BY <1>0, <1>s DEF Sound, Phases
    <2>3. HandlerAt(TableEntry.phys) = 0 /\ st # "HALTED"
      <3>1. TableEntry.phys = entry[1].phys
        BY <2>2 DEF TableEntry
      <3> QED BY <1>0, <1>1, <1>4, <3>1
    <2> QED BY <1>s, <2>1, <2>2, <2>3, VectorLocks
  <1>5. CASE LsuDone(lsu, d) /\ ~LsuError(lsu, d) /\ handler # 0
    <2>1. /\ Clock(<<>>, <<>>, <<entry[1].epc, FlagsWord(flags)>>, <<>>, <<>>, <<>>, lines)
          /\ regs' = [regs EXCEPT ![15] = handler] /\ entry' = <<>> /\ st' = "FETCH_TRANSLATE"
          /\ locked' = locked
      BY <1>a, <1>5 DEF InterruptVectorLoad, Goto
    <2>2. Calm
      BY <1>0, <1>s, <1>5, <2>1, CalmWaits
    <2> QED BY <1>0, <1>1, <1>5, <2>1, <2>2, HandlerStarts
  <1> QED BY <1>2, <1>3, <1>4, <1>5

\* what a walk is for
WalkFor(w) ==
    \/ /\ w.kind = "fetch" /\ w.va = regs[15] /\ w.access = "X" /\ w.va % 2 = 0
       /\ fault_pc = regs[15] /\ mo = <<>> /\ entry = <<>>
    \/ /\ w.kind = "memory" /\ mo # <<>> /\ entry = <<>> /\ w.va = mo[1].op.addr
       /\ w.access = IF mo[1].op.write THEN "W" ELSE "R"
    \/ /\ w.kind = "vector" /\ w.va = TableVa /\ w.access = "R"
       /\ mo = <<>> /\ entry # <<>>

\* The state a walk is in.
LEMMA WalkFacts ==
  ASSUME Inv, ~locked, st \in {"WALK", "WALK_PROCESS"}, NEW w, w = walk[1]
  PROVE  /\ Sound /\ walk = <<w>>
         /\ DOMAIN w = {"va", "table", "level", "access", "kind", "pte"}
         /\ w.va \in Word /\ w.level \in 0 .. 2
         /\ Paging /\ EntryFault(w.va, sr) = <<>> /\ WalkFor(w)
         /\ \A access, user :
               WalkFrom2(PageOf(sr[PAGE_TABLE_ROOT]), PageOf(w.va), access, user)
                   = WalkRest(w.table, w.level, PageOf(w.va), access, user)
         /\ st = "WALK_PROCESS" => w.pte = WalkEntry(w.table, w.level, PageOf(w.va))
  BY DEF Inv, Sound, Walking, WalkFor

\* n is a walk that has as much left as w
SameRest(w, n) ==
    \A access, user : WalkRest(w.table, w.level, PageOf(w.va), access, user)
                      = WalkRest(n.table, n.level, PageOf(w.va), access, user)

\* A walk that goes on is for what it was for.
LEMMA WalkGoesOn ==
  ASSUME Inv, ~locked, st \in {"WALK", "WALK_PROCESS"}, NEW w, w = walk[1], NEW lines, sr' = Latched(sr, lines),
         regs' = regs, mo' = mo, entry' = entry, fault_pc' = fault_pc, wb' = wb,
         NEW n, walk' = <<n>>, DOMAIN n = {"va", "table", "level", "access", "kind", "pte"},
         n.va = w.va, n.access = w.access, n.kind = w.kind, n.level \in 0 .. 2,
         SameRest(w, n),
         NEW s, s = st', s \in {"WALK", "WALK_PROCESS"},
         s = "WALK_PROCESS" => n.pte = WalkEntry(n.table, n.level, PageOf(w.va))
  PROVE  Walking' /\ Phases'
  <1>0. /\ Sound /\ w.va \in Word /\ Paging /\ EntryFault(w.va, sr) = <<>> /\ WalkFor(w)
        /\ \A access, user :
              WalkFrom2(PageOf(sr[PAGE_TABLE_ROOT]), PageOf(w.va), access, user)
                  = WalkRest(w.table, w.level, PageOf(w.va), access, user)
    BY WalkFacts
  <1>1. /\ sr'[PAGE_TABLE_ROOT] = sr[PAGE_TABLE_ROOT]
        /\ EntryFault(w.va, sr') = EntryFault(w.va, sr)
        /\ Paging' = Paging /\ sr'[INTERRUPT_TABLE_BASE] = sr[INTERRUPT_TABLE_BASE]
    BY <1>0, LatchedSame DEF Sound, Words
  <1>2. TableVa' = TableVa
    BY <1>1 DEF TableVa
  <1>3. \/ /\ n.kind = "fetch" /\ n.va = regs'[15] /\ n.access = "X" /\ n.va % 2 = 0
           /\ fault_pc' = regs'[15] /\ mo' = <<>> /\ entry' = <<>>
        \/ /\ n.kind = "memory" /\ mo' # <<>> /\ entry' = <<>> /\ n.va = mo'[1].op.addr
           /\ n.access = IF mo'[1].op.write THEN "W" ELSE "R"
        \/ /\ n.kind = "vector" /\ n.va = TableVa' /\ n.access = "R"
           /\ mo' = <<>> /\ entry' # <<>>
    BY <1>0, <1>2 DEF WalkFor
  <1>4. \A access, user :
           WalkFrom2(PageOf(sr'[PAGE_TABLE_ROOT]), PageOf(n.va), access, user)
               = WalkRest(n.table, n.level, PageOf(n.va), access, user)
    BY <1>0, <1>1 DEF SameRest
  <1>5. walk'[1] = n
    OBVIOUS
  <1>6. /\ n.va \in Word /\ Paging' /\ EntryFault(n.va, sr') = <<>>
        /\ st' = "WALK_PROCESS" => n.pte = WalkEntry(n.table, n.level, PageOf(n.va))
    BY <1>0, <1>1
  <1>7. Walking'
    BY <1>3, <1>4, <1>5, <1>6 DEF Walking
  <1>9. wb = <<>>
    BY <1>0 DEF Sound, Phases
  <1>8. Phases'
    BY <1>9 DEF Phases, States
  <1> QED BY <1>7, <1>8

\* WALK: an entry of a page table arrives.
LEMMA WalkStep ==
  ASSUME Inv, ~locked, BusFree, NEW i, i \in IBus, NEW d, d \in DBus, NEW lines \in SUBSET prog.lines,
         Walk(d, lines), Units(i, d)
  PROVE  Inv' /\ Arch!Next
  <1>0. /\ st = "WALK" /\ Quiet(lines) /\ regs' = regs /\ flags' = flags /\ resv' = resv
        /\ fetch_phys' = fetch_phys /\ cur' = cur /\ exe' = exe /\ wb' = wb /\ mo' = mo
        /\ fault_pc' = fault_pc /\ entry' = entry /\ dcache' = dcache
    BY DEF Walk, arch
  <1>s. Sound /\ Requesting /\ prog' = prog
    BY <1>0 DEF Inv, Requesting, Units
  <1>1. CASE ~LsuDone(lsu, d)
    <2>1. st' = st /\ locked' = locked /\ walk' = walk
      BY <1>1 DEF Walk
    <2>2. Calm
      BY <1>0, <1>s, <1>1, <2>1, CalmWaits
    <2> QED BY <1>0, <2>1, <2>2, StayStep DEF Calm
  <1>2. CASE LsuError(lsu, d)
    <2>1. locked' = TRUE
      BY <1>2 DEF Walk, EnterLockup, LsuDone
    <2>2. prog.faulty /\ st # "HALTED"
      BY <1>0, <1>s, <1>2, DataBus DEF Sound, UnitsRight
    <2> QED BY <1>s, <2>1, <2>2, LockStep
  <1>3. CASE LsuDone(lsu, d) /\ ~LsuError(lsu, d)
    <2>0. PICK w : w = walk[1]
      OBVIOUS
    <2>1. PICK n : n = [w EXCEPT !.pte = WalkEntry(w.table, w.level, PageOf(w.va))]
      OBVIOUS
    <2>a. LsuLoad(lsu, mem) = WalkEntry(w.table, w.level, PageOf(w.va))
      BY <1>0, <1>s, <1>3, <2>0, OwnAnswer
    <2>2. walk' = <<n>> /\ st' = "WALK_PROCESS" /\ locked' = locked
      BY <1>3, <2>a, <2>0, <2>1 DEF Walk, Goto
    <2>m. Calm
      BY <1>0, <1>s, <1>3, <2>2, CalmWaits
    <2>3. DOMAIN w = {"va", "table", "level", "access", "kind", "pte"} /\ w.level \in 0 .. 2
      BY <1>0, <2>0, WalkFacts
    <2>4. /\ DOMAIN n = {"va", "table", "level", "access", "kind", "pte"}
          /\ n.va = w.va /\ n.access = w.access /\ n.kind = w.kind /\ n.level = w.level
          /\ n.table = w.table /\ n.pte = WalkEntry(w.table, w.level, PageOf(w.va))
      BY <2>1, <2>3
    <2>5. /\ sr \in [Selectors -> Word] /\ sr' = Latched(sr, lines)
          /\ GenerationsPast(tlb)' /\ Agrees(tlb, PageOf(sr[PAGE_TABLE_ROOT]))'
      BY <1>0, <1>s, QuietSound
    <2>6. SameRest(w, n)
      BY <2>4 DEF SameRest
    <2>7. Walking' /\ Phases'
      <3>1. PICK s : s = st'
        OBVIOUS
      <3>2. s \in {"WALK", "WALK_PROCESS"} /\ n.pte = WalkEntry(n.table, n.level, PageOf(w.va))
        BY <2>2, <2>4, <3>1
      <3> QED BY <1>0, <2>0, <2>2, <2>3, <2>4, <2>5, <2>6, <3>1, <3>2, WalkGoesOn
    <2>8. fetch_phys \in Word
      BY <1>s DEF Sound, Words
    <2>9. st # "HALTED" /\ st' # "HALTED"
      BY <1>0, <2>2
    <2> QED BY <1>0, <2>m, <2>2, <2>5, <2>7, <2>8, <2>9, GoOn
  <1> QED BY <1>1, <1>2, <1>3

\* What the walk of the state machine finds is what the translation means.
LEMMA WalkFinds ==
  ASSUME Inv, ~locked, st = "WALK_PROCESS", NEW w, w = walk[1],
         NEW fault, fault = WalkFault(w.pte, w.level, w.access, User)
  PROVE  /\ fault # <<>> => IsFault(fault) /\ Translate(w.va, w.access, sr).fault = fault
         /\ fault = <<>> /\ WalkIsLeaf(w.pte) =>
               Translate(w.va, w.access, sr) = [phys |-> WalkPhys(w.pte, w.level, w.va), fault |-> <<>>]
  <1>0. /\ w.va \in Word /\ w.level \in 0 .. 2 /\ Paging /\ EntryFault(w.va, sr) = <<>> /\ WalkFor(w)
        /\ WalkFrom2(PageOf(sr[PAGE_TABLE_ROOT]), PageOf(w.va), w.access, User)
               = WalkRest(w.table, w.level, PageOf(w.va), w.access, User)
        /\ w.pte = WalkEntry(w.table, w.level, PageOf(w.va))
    BY WalkFacts
  <1>2. fault # <<>> => IsFault(fault)
    BY <1>0, WalkFaultType
  <1>3. w.access = "X" => w.va % 2 # 1
    BY <1>0 DEF WalkFor
  <1>4. /\ WalkFault(w.pte, w.level, w.access, User) # <<>> =>
              Translate(w.va, w.access, sr).fault = WalkFault(w.pte, w.level, w.access, User)
        /\ WalkFault(w.pte, w.level, w.access, User) = <<>> /\ WalkIsLeaf(w.pte) =>
              Translate(w.va, w.access, sr) = [phys |-> WalkPhys(w.pte, w.level, w.va), fault |-> <<>>]
    BY <1>0, <1>3, WalkMeans DEF Paging, User
  <1> QED BY <1>2, <1>4

\* The walk comes to a fault.
LEMMA WalkFaults ==
  ASSUME Inv, ~locked, st = "WALK_PROCESS", NEW w, w = walk[1], Calm,
         NEW lines \in SUBSET prog.lines,
         NEW fault, fault = WalkFault(w.pte, w.level, w.access, User), fault # <<>>,
         IF w.kind = "vector"
         THEN EnterLockup
         ELSE RaiseSyncTrap(TrapInfo(fault[1], w.va, AccessCode(w.access), fault_pc, fault[2]), lines),
         regs' = regs, flags' = flags, resv' = resv, fetch_phys' = fetch_phys, cur' = cur, wb' = wb
  PROVE  Inv' /\ Arch!Next
  <1>0. Sound /\ WalkFor(w) /\ w.va \in Word
    BY WalkFacts
  <1>b. wb = <<>> /\ ~Beaten /\ prog' = prog
    BY <1>0 DEF Sound, Phases, Calm
  <1>1. IsFault(fault) /\ Translate(w.va, w.access, sr).fault = fault
    <2>1. fault # <<>> => IsFault(fault) /\ Translate(w.va, w.access, sr).fault = fault
      BY WalkFinds
    <2> QED BY <2>1
  <1>2. CASE w.kind = "vector"
    <2>1. w.va = TableVa /\ w.access = "R" /\ entry # <<>>
      BY <1>0, <1>2 DEF WalkFor
    <2>2. TableEntry.fault # <<>>
      BY <1>1, <2>1 DEF TableEntry
    <2>3. locked' = TRUE
      BY <1>2 DEF EnterLockup
    <2> QED BY <1>b, <2>1, <2>2, <2>3, VectorLocks
  <1>3. CASE w.kind = "fetch"
    <2>1. w.va = regs[15] /\ w.access = "X" /\ fault_pc = regs[15] /\ mo = <<>> /\ entry = <<>>
      BY <1>0, <1>3 DEF WalkFor
    <2>2. Plain
      BY <1>b, <2>1 DEF Plain
    <2> DEFINE trap == TrapInfo(fault[1], regs[15], AccessCode("X"), regs[15], fault[2])
    <2>3. RaiseSyncTrap(trap, lines)
      BY <1>3, <2>1
    <2>4. IsTrap(trap) /\ trap.pc = regs[15]
      <3>1. AccessCode("X") \in 0 .. 2
        BY AccessCodes
      <3>2. regs[15] \in Word
        BY PcWord
      <3> QED BY <1>1, <3>1, <3>2, TrapInfoType DEF IsFault
    <2>5. TrapHere(trap)
      BY <1>1, <2>1 DEF TrapHere
    <2> HIDE DEF trap
    <2> QED BY <2>2, <2>3, <2>4, <2>5, TrapStep
  <1>4. CASE w.kind = "memory"
    <2>1. PICK op : op = mo[1].op
      OBVIOUS
    <2>2. mo # <<>> /\ entry = <<>> /\ w.va = op.addr /\ w.access = IF op.write THEN "W" ELSE "R"
      BY <1>0, <1>4, <2>1 DEF WalkFor
    <2>3. PICK access : access = w.access
      OBVIOUS
    <2>4. RaiseSyncTrap(TrapInfo(fault[1], op.addr, AccessCode(access), fault_pc, fault[2]), lines)
      BY <1>4, <2>2, <2>3
    <2>5. access = (IF op.write THEN "W" ELSE "R") /\ Translate(op.addr, access, sr).fault = fault
      BY <1>1, <2>2, <2>3
    <2> QED BY <1>b, <1>1, <2>1, <2>2, <2>4, <2>5, AccessTraps
  <1> QED BY <1>0, <1>2, <1>3, <1>4 DEF WalkFor

\* the TLB after the fill of a walk that found its leaf
LEMMA FillSound ==
  ASSUME Inv, ~locked, st = "WALK_PROCESS", NEW w, w = walk[1],
         NEW a, NEW u, WalkFault(w.pte, w.level, a, u) = <<>>, WalkIsLeaf(w.pte),
         NEW lines, Clock(<<>>, <<>>, <<>>, <<>>, <<>>, WalkFill(w), lines)
  PROVE  /\ sr \in [Selectors -> Word] /\ sr' = Latched(sr, lines)
         /\ GenerationsPast(tlb)' /\ Agrees(tlb, PageOf(sr[PAGE_TABLE_ROOT]))'
  <1>0. /\ Sound /\ w.level \in 0 .. 2
        /\ \A access, user :
               WalkFrom2(PageOf(sr[PAGE_TABLE_ROOT]), PageOf(w.va), access, user)
                   = WalkRest(w.table, w.level, PageOf(w.va), access, user)
        /\ w.pte = WalkEntry(w.table, w.level, PageOf(w.va))
    BY WalkFacts
  <1>1. sr \in [Selectors -> Word]
    BY <1>0 DEF Sound, Words
  <1>2. sr' = Latched(sr, lines)
    BY DEF Clock, V2SpecialClock, SpecialClock, Latched
  <1>3. sr'[PAGE_TABLE_ROOT] = sr[PAGE_TABLE_ROOT]
    BY <1>1, <1>2, LatchedSame
  <1>4. PICK fill : fill = WalkFill(w)
    OBVIOUS
  <1>5. tlb' = TlbClock(tlb, FALSE, fill)
    BY <1>4 DEF Clock, V2TlbClock, TlbFlush
  <1>6. /\ fill[1] = PageOf(w.va) /\ fill[2] = WalkPage(w.pte, w.level, PageOf(w.va)) /\ fill[3] = w.pte
    BY <1>4 DEF WalkFill
  <1>7. \A access, user : WalkAllowed(fill[3], access, user) =>
            WalkFrom2(PageOf(sr[PAGE_TABLE_ROOT]), fill[1], access, user) = Mapped(fill[2])
    BY <1>0, <1>6, LeafRest
  <1>8. GenerationsPast(tlb')
    BY <1>0, <1>5, ClockPast DEF Sound
  <1>9. Agrees(tlb', PageOf(sr[PAGE_TABLE_ROOT]))
    BY <1>0, <1>5, <1>7, ClockAgrees DEF Sound
  <1> QED BY <1>1, <1>2, <1>3, <1>8, <1>9

\* The walk comes to its leaf: the state machine resumes with the address.
LEMMA WalkEnds ==
  ASSUME Inv, ~locked, st = "WALK_PROCESS", NEW w, w = walk[1], Calm,
         NEW lines \in SUBSET prog.lines,
         WalkFault(w.pte, w.level, w.access, User) = <<>>, WalkIsLeaf(w.pte),
         NEW phys, phys = WalkPhys(w.pte, w.level, w.va),
         Clock(<<>>, <<>>, <<>>, <<>>, <<>>, WalkFill(w), lines),
         fetch_phys' = IF w.kind = "fetch" THEN phys ELSE fetch_phys,
         entry' = IF w.kind = "vector" THEN <<[entry[1] EXCEPT !.phys = phys]>> ELSE entry,
         mo' = IF w.kind = "memory" THEN <<[mo[1] EXCEPT !.addr = phys]>> ELSE mo,
         w.kind = "fetch" => st' = "FETCH_REQUEST", w.kind = "vector" => st' = "INTERRUPT_VECTOR_LOAD",
         w.kind = "memory" => st' = "MEMORY", locked' = locked,
         regs' = regs, flags' = flags, resv' = resv, cur' = cur, wb' = wb, fault_pc' = fault_pc
  PROVE  Inv' /\ Arch!Next
  <1>0. /\ Sound /\ WalkFor(w) /\ w.va \in Word
    BY WalkFacts
  <1>c. wb = <<>> /\ fetch_phys \in Word
    BY <1>0 DEF Sound, Phases, Words
  <1>1. Translate(w.va, w.access, sr) = [phys |-> phys, fault |-> <<>>]
    BY WalkFinds
  <1>2. /\ sr \in [Selectors -> Word] /\ sr' = Latched(sr, lines)
        /\ GenerationsPast(tlb)' /\ Agrees(tlb, PageOf(sr[PAGE_TABLE_ROOT]))'
    BY <1>1, FillSound
  <1>3. /\ \A a, x : Translate(a, x, sr') = Translate(a, x, sr)
        /\ sr'[CPU_CONTROL] = sr[CPU_CONTROL] /\ sr'[INTERRUPT_TABLE_BASE] = sr[INTERRUPT_TABLE_BASE]
    BY <1>2, LatchedSame
  <1>4. phys \in Word
    <2>1. Translate(w.va, w.access, sr).phys \in Word
      BY <1>0, TranslateType
    <2> QED BY <1>1, <2>1
  <1>6. CASE w.kind = "fetch"
    <2>1. /\ w.va = regs[15] /\ w.access = "X" /\ mo = <<>> /\ entry = <<>>
      BY <1>0, <1>6 DEF WalkFor
    <2>2. /\ fetch_phys' = phys /\ mo' = mo /\ entry' = entry /\ st' = "FETCH_REQUEST"
      BY <1>6
    <2>4. PcMapped' /\ PcPhys' = phys
      BY <1>1, <1>3, <2>1 DEF PcMapped, PcPhys
    <2>5. Walking' /\ Phases'
      BY <1>c, <2>1, <2>2, <2>4 DEF Walking, Phases, States
    <2>6. st # "HALTED" /\ st' # "HALTED" /\ fetch_phys' \in Word
      BY <1>4, <2>2
    <2> QED BY <1>2, <2>2, <2>5, <2>6, GoOn
  <1>7. CASE w.kind = "memory"
    <2>1. /\ mo # <<>> /\ entry = <<>> /\ w.va = mo[1].op.addr
          /\ w.access = IF mo[1].op.write THEN "W" ELSE "R"
      BY <1>0, <1>7 DEF WalkFor
    <2>2. /\ fetch_phys' = fetch_phys /\ mo' = <<[mo[1] EXCEPT !.addr = phys]>> /\ entry' = entry
          /\ st' = "MEMORY"
      BY <1>7
    <2>3. mo' # <<>> /\ mo'[1].op = mo[1].op /\ mo'[1].addr = phys
      <3>0. DOMAIN mo[1] = {"op", "addr", "next_pc"}
        BY <1>0, <2>1 DEF Sound, Pending
      <3> DEFINE p == mo[1]
                 q == [p EXCEPT !.addr = phys]
      <3>1. q.op = p.op /\ q.addr = phys
        BY <3>0
      <3>2. mo' = <<q>>
        BY <2>2
      <3> HIDE DEF q
      <3> QED BY <3>1, <3>2
    <2>4. FirstAccess(mo[1].op)' = [phys |-> mo'[1].addr, fault |-> <<>>]
      BY <1>1, <1>3, <2>1, <2>3 DEF FirstAccess
    <2>5. Phases' /\ Walking'
      BY <1>c, <2>1, <2>2, <2>3, <2>4 DEF Phases, Walking, States
    <2>6. st # "HALTED" /\ st' # "HALTED" /\ fetch_phys' \in Word
      BY <1>c, <2>2
    <2>7. PICK addr : addr \in Word /\ mo' = <<[mo[1] EXCEPT !.addr = addr]>>
      BY <1>4, <2>2
    <2> QED BY <1>2, <2>1, <2>2, <2>5, <2>6, <2>7, GoOn
  <1>8. CASE w.kind = "vector"
    <2>1. w.va = TableVa /\ w.access = "R" /\ mo = <<>> /\ entry # <<>>
      BY <1>0, <1>8 DEF WalkFor
    <2>2. /\ fetch_phys' = fetch_phys /\ mo' = mo /\ entry' = <<[entry[1] EXCEPT !.phys = phys]>>
          /\ st' = "INTERRUPT_VECTOR_LOAD"
      BY <1>8
    <2>3. /\ entry' # <<>> /\ entry'[1].vector = entry[1].vector /\ entry'[1].phys = phys
      <3>1. DOMAIN entry[1] = {"vector", "epc", "phys"}
        BY <1>0, <2>1 DEF Sound, Entering
      <3> DEFINE p == entry[1]
                 q == [p EXCEPT !.phys = phys]
      <3>2. q.vector = p.vector /\ q.phys = phys
        BY <3>1
      <3>3. entry' = <<q>>
        BY <2>2
      <3> HIDE DEF q
      <3> QED BY <3>2, <3>3
    <2>4. TableVa' = w.va
      BY <1>3, <2>1, <2>3 DEF TableVa
    <2>5. Translate(TableVa', "R", sr') = [phys |-> entry'[1].phys, fault |-> <<>>]
      BY <1>1, <1>3, <2>1, <2>3, <2>4
    <2>6. Walking' /\ Phases'
      BY <1>c, <2>1, <2>2, <2>3, <2>5 DEF Walking, Phases, States
    <2>7. PICK p : entry' = <<[entry[1] EXCEPT !.phys = p]>>
      BY <2>2
    <2>8. st # "HALTED" /\ st' # "HALTED" /\ fetch_phys' \in Word
      BY <1>c, <2>2
    <2> QED BY <1>2, <2>1, <2>2, <2>6, <2>7, <2>8, GoOn
  <1> QED BY <1>0, <1>6, <1>7, <1>8 DEF WalkFor

\* The walk comes to a table of the next level.
LEMMA WalkDescends ==
  ASSUME Inv, ~locked, st = "WALK_PROCESS", NEW w, w = walk[1], Calm,
         NEW lines \in SUBSET prog.lines,
         WalkFault(w.pte, w.level, w.access, User) = <<>>, ~WalkIsLeaf(w.pte), Quiet(lines),
         NEW n, walk' = <<n>>, DOMAIN n = {"va", "table", "level", "access", "kind", "pte"},
         n.va = w.va, n.access = w.access, n.kind = w.kind,
         n.table = w.pte.ppn, n.level = w.level - 1,
         st' = "WALK", locked' = locked, fetch_phys' = fetch_phys, entry' = entry, mo' = mo,
         regs' = regs, flags' = flags, resv' = resv, cur' = cur, wb' = wb, fault_pc' = fault_pc
  PROVE  Inv' /\ Arch!Next
  <1>0. /\ Sound /\ WalkFor(w) /\ w.level \in 0 .. 2
        /\ w.pte = WalkEntry(w.table, w.level, PageOf(w.va))
    BY WalkFacts
  <1>2. /\ sr \in [Selectors -> Word] /\ sr' = Latched(sr, lines)
        /\ GenerationsPast(tlb)' /\ Agrees(tlb, PageOf(sr[PAGE_TABLE_ROOT]))'
    BY <1>0, QuietSound
  <1>3. /\ w.level - 1 \in 0 .. 2
        /\ \A access, user : WalkRest(w.table, w.level, PageOf(w.va), access, user)
                              = WalkRest(w.pte.ppn, w.level - 1, PageOf(w.va), access, user)
    BY <1>0, DescendRest
  <1>6. n.level \in 0 .. 2 /\ SameRest(w, n)
    BY <1>3 DEF SameRest
  <1>8. Walking' /\ Phases'
    <2>1. PICK s : s = st'
      OBVIOUS
    <2>2. s \in {"WALK", "WALK_PROCESS"} /\ s # "WALK_PROCESS"
      BY <2>1
    <2> QED BY <1>2, <1>6, <2>1, <2>2, WalkGoesOn
  <1>9. fetch_phys \in Word
    BY <1>0 DEF Sound, Words
  <1>10. st # "HALTED" /\ st' # "HALTED"
    OBVIOUS
  <1> QED BY <1>2, <1>8, <1>9, <1>10, GoOn

\* WALK_PROCESS: a fault, a leaf, or the next table.
LEMMA WalkProcessStep ==
  ASSUME Inv, ~locked, NEW lines \in SUBSET prog.lines, Calm, WalkProcess(lines)
  PROVE  Inv' /\ Arch!Next
  <1>0. /\ st = "WALK_PROCESS" /\ regs' = regs /\ flags' = flags /\ resv' = resv
        /\ cur' = cur /\ wb' = wb /\ fault_pc' = fault_pc
    BY DEF WalkProcess, arch
  <1>1. PICK w, fault, phys :
          /\ w = walk[1] /\ fault = WalkFault(w.pte, w.level, w.access, User)
          /\ phys = WalkPhys(w.pte, w.level, w.va)
    OBVIOUS
  <1>2. CASE fault # <<>>
    <2>1. /\ fetch_phys' = fetch_phys
          /\ IF w.kind = "vector"
             THEN EnterLockup
             ELSE RaiseSyncTrap(TrapInfo(fault[1], w.va, AccessCode(w.access), fault_pc, fault[2]), lines)
      BY <1>1, <1>2 DEF WalkProcess
    <2> QED BY <1>0, <1>1, <1>2, <2>1, WalkFaults
  <1>3. CASE fault = <<>> /\ WalkIsLeaf(w.pte)
    <2>1. /\ Clock(<<>>, <<>>, <<>>, <<>>, <<>>, WalkFill(w), lines)
          /\ fetch_phys' = IF w.kind = "fetch" THEN phys ELSE fetch_phys
          /\ entry' = IF w.kind = "vector" THEN <<[entry[1] EXCEPT !.phys = phys]>> ELSE entry
          /\ mo' = IF w.kind = "memory" THEN <<[mo[1] EXCEPT !.addr = phys]>> ELSE mo
          /\ locked' = locked
          /\ w.kind = "fetch" => st' = "FETCH_REQUEST"
          /\ w.kind = "vector" => st' = "INTERRUPT_VECTOR_LOAD"
          /\ w.kind = "memory" => st' = "MEMORY"
      BY <1>1, <1>3 DEF WalkProcess, Goto
    <2> QED BY <1>0, <1>1, <1>3, <2>1, WalkEnds
  <1>4. CASE fault = <<>> /\ ~WalkIsLeaf(w.pte)
    <2>0. PICK n : n = [w EXCEPT !.table = w.pte.ppn, !.level = @ - 1, !.pte = <<>>]
      OBVIOUS
    <2>2. DOMAIN w = {"va", "table", "level", "access", "kind", "pte"}
      BY <1>0, <1>1, WalkFacts
    <2>3. /\ DOMAIN n = {"va", "table", "level", "access", "kind", "pte"}
          /\ n.va = w.va /\ n.access = w.access /\ n.kind = w.kind
          /\ n.table = w.pte.ppn /\ n.level = w.level - 1
      BY <2>0, <2>2
    <2>1. /\ Quiet(lines)
          /\ walk' = <<n>>
          /\ st' = "WALK" /\ locked' = locked /\ fetch_phys' = fetch_phys /\ entry' = entry /\ mo' = mo
      BY <1>1, <1>4, <2>0 DEF WalkProcess, Goto
    <2> QED BY <1>0, <1>1, <1>4, <2>1, <2>3, WalkDescends
  <1> QED BY <1>2, <1>3, <1>4

-----------------------------------------------------------------------------
\* The bytes of a word are the bytes it is made of,
LEMMA BytesOfWord ==
  ASSUME NEW b, \A i \in 0 .. 3 : b[i] \in Byte, NEW i, i \in 0 .. 3
  PROVE  ByteOf(WordOf(b), i) = b[i]
  <1>0. 4^0 = 1 /\ 4^1 = 4 /\ 4^2 = 16 /\ 4^3 = 64
    OBVIOUS
  <1>1. PICK w, x, y, z : w = b[0] /\ x = b[1] /\ y = b[2] /\ z = b[3]
    OBVIOUS
  <1>2. w \in 0 .. 3 /\ x \in 0 .. 3 /\ y \in 0 .. 3 /\ z \in 0 .. 3
    BY <1>1 DEF Byte
  <1>3. WordOf(b) = w + 4 * x + 16 * y + 64 * z
    BY <1>1 DEF WordOf
  <1>4. /\ ((w + 4 * x + 16 * y + 64 * z) \div 1) % 4 = w
        /\ ((w + 4 * x + 16 * y + 64 * z) \div 4) % 4 = x
        /\ ((w + 4 * x + 16 * y + 64 * z) \div 16) % 4 = y
        /\ ((w + 4 * x + 16 * y + 64 * z) \div 64) % 4 = z
    BY <1>2
  <1>5. i = 0 \/ i = 1 \/ i = 2 \/ i = 3
    OBVIOUS
  <1> QED BY <1>0, <1>1, <1>3, <1>4, <1>5, ZenonT(40) DEF ByteOf

\* and those of a line are the bytes of memory.
LEMMA LineByte ==
  ASSUME NEW m, NEW D, m \in [D -> Byte], NEW a, NEW i, i \in 0 .. 3
  PROVE  ByteOf(LoadBytes(m, a, WordBytes), i) = ByteAt(m, a + i)
  <1> DEFINE b == [k \in 0 .. 3 |-> IF k < WordBytes THEN ByteAt(m, a + k) ELSE 0]
  <1>1. \A k \in 0 .. 3 : b[k] = ByteAt(m, a + k) /\ b[k] \in Byte
    <2>1. \A x : ByteAt(m, x) \in Byte
      BY DEF ByteAt, Byte
    <2> QED BY <2>1 DEF WordBytes
  <1>2. LoadBytes(m, a, WordBytes) = WordOf(b)
    BY DEF LoadBytes
  <1> HIDE DEF b
  <1>3. ByteOf(WordOf(b), i) = b[i]
    BY <1>1, BytesOfWord
  <1> QED BY <1>1, <1>2, <1>3

\* the bus word an address is in
LEMMA LineBounds ==
  ASSUME NEW a, a \in Word
  PROVE  /\ LineOf(a) \in 0 .. 63 /\ a % WordBytes \in 0 .. 3 /\ a \in Int
         /\ a = LineOf(a) * WordBytes + (a % WordBytes)
         /\ CacheLines > 0 => LineIndex(a) \in 0 .. (CacheLines - 1)
  <1>1. /\ LineOf(a) \in 0 .. 63 /\ a % WordBytes \in 0 .. 3 /\ a \in Int
        /\ a = LineOf(a) * WordBytes + (a % WordBytes)
    BY DEF LineOf, WordBytes, Word
  <1>2. PICK t : t = LineOf(a)
    OBVIOUS
  <1>3. CacheLines > 0 => t % CacheLines \in 0 .. (CacheLines - 1)
    BY <1>1, <1>2, LineCacheAssumption
  <1> QED BY <1>1, <1>2, <1>3 DEF LineIndex

\* A line that answers for an address is the memory of the address's word.
LEMMA HitLine ==
  ASSUME NEW c, NEW m, IsCache(c, m), NEW a, a \in Word, CacheHit(c, a)
  PROVE  /\ LineIndex(a) \in 0 .. (CacheLines - 1)
         /\ c[LineIndex(a)] = <<[tag |-> LineOf(a), data |-> LoadBytes(m, LineOf(a) * WordBytes, WordBytes)]>>
  <1>1. PICK k : k = LineIndex(a)
    OBVIOUS
  <1>2. k \in 0 .. (CacheLines - 1) /\ c[k] # <<>> /\ c[k][1].tag = LineOf(a)
    BY <1>1, LineBounds DEF CacheHit
  <1>3. PICK tag \in 0 .. 63 : c[k] = <<[tag |-> tag, data |-> LoadBytes(m, tag * WordBytes, WordBytes)]>>
    BY <1>2 DEF IsCache, IsLine
  <1>4. tag = LineOf(a)
    BY <1>2, <1>3
  <1> QED BY <1>1, <1>2, <1>3, <1>4

\* What the cache answers is what memory holds.
LEMMA CacheLoads ==
  ASSUME NEW c, NEW m, IsCache(c, m), NEW D, m \in [D -> Byte], NEW a, a \in Word, CacheHit(c, a),
         NEW width, width \in 0 .. WordBytes, (a % WordBytes) + width <= WordBytes
  PROVE  CacheLoad(c, a, width) = LoadBytes(m, a, width)
  <1>1. PICK t, o, data : t = LineOf(a) /\ o = a % WordBytes /\ data = LoadBytes(m, t * WordBytes, WordBytes)
    OBVIOUS
  <1>2. t \in 0 .. 63 /\ o \in 0 .. 3 /\ a \in Int /\ a = t * WordBytes + o
    BY <1>1, LineBounds
  <1>3. c[LineIndex(a)][1].data = data
    <2>1. c[LineIndex(a)] = <<[tag |-> t, data |-> data]>>
      BY <1>1, HitLine
    <2> QED BY <2>1
  <1>4. \A i \in 0 .. 3 : i < width => ByteOf(data, o + i) = ByteAt(m, a + i)
    <2> SUFFICES ASSUME NEW i \in 0 .. 3, i < width PROVE ByteOf(data, o + i) = ByteAt(m, a + i)
      OBVIOUS
    <2>0. o + width <= 4 /\ width \in 0 .. 4
      BY <1>1 DEF WordBytes
    <2>3. o + i \in 0 .. 3
      BY <1>2, <2>0
    <2>4. a = t * 4 + o
      BY <1>2 DEF WordBytes
    <2>5. t * 4 + (o + i) = a + i
      BY <1>2, <2>4
    <2>1. o + i \in 0 .. 3 /\ t * WordBytes + (o + i) = a + i
      BY <2>3, <2>5 DEF WordBytes
    <2>2. ByteOf(data, o + i) = ByteAt(m, t * WordBytes + (o + i))
      BY <1>1, <2>1, LineByte
    <2> QED BY <2>1, <2>2
  <1>5. [i \in 0 .. 3 |-> IF i < width THEN ByteOf(data, o + i) ELSE 0]
          = [i \in 0 .. 3 |-> IF i < width THEN ByteAt(m, a + i) ELSE 0]
    BY <1>4
  <1>6. CacheLoad(c, a, width) = WordOf([i \in 0 .. 3 |-> IF i < width THEN ByteOf(data, o + i) ELSE 0])
    BY <1>1, <1>3 DEF CacheLoad
  <1> QED BY <1>5, <1>6 DEF LoadBytes

\* n differs from m in the line of a only
Apart(m, n, a) ==
  DOMAIN n = DOMAIN m
  /\ \A x \in DOMAIN m : x \in Int /\ (\A i \in 0 .. 3 : x # LineOf(a) * 4 + i) => n[x] = m[x]

\* A store into one bus word changes no other line.
LEMMA StoreApart ==
  ASSUME NEW m, NEW a, a \in Word, NEW width, width \in 0 .. WordBytes, NEW v,
         (a % WordBytes) + width <= WordBytes, NEW n, n = StoreBytes(m, a, 0 .. (width - 1), v)
  PROVE  Apart(m, n, a)
  <1>1. PICK l, o : l = LineOf(a) /\ o = a % WordBytes
    OBVIOUS
  <1>2. l \in 0 .. 63 /\ o \in 0 .. 3 /\ a \in Int /\ a = l * 4 + o /\ o + width <= 4 /\ width \in 0 .. 4
    BY <1>1, LineBounds DEF WordBytes
  <1>3. DOMAIN n = DOMAIN m
        /\ \A x \in DOMAIN m : n[x] = IF x - a \in 0 .. (width - 1) THEN ByteOf(v, x - a) ELSE m[x]
    BY DEF StoreBytes
  <1>4. ASSUME NEW x \in DOMAIN m, x \in Int, \A i \in 0 .. 3 : x # l * 4 + i PROVE n[x] = m[x]
    <2>1. CASE x - a \in 0 .. (width - 1)
      <3>1. PICK j : j = x - a
        OBVIOUS
      <3>2. j \in 0 .. 3 /\ j < width
        BY <1>2, <2>1, <3>1
      <3> QED BY <1>2, <1>3, <1>4, <3>1, <3>2
    <2> QED BY <1>3, <2>1
  <1> QED BY <1>1, <1>3, <1>4 DEF Apart

\* s is the address of a line that does not hold a
Elsewhere(s, a) == \E t \in 0 .. 63 : t # LineOf(a) /\ s = t * WordBytes

\* Such a store leaves what another line reads.
LEMMA OtherLine ==
  ASSUME NEW m, NEW n, NEW a, Apart(m, n, a), a \in Word, NEW s, Elsewhere(s, a)
  PROVE  LoadBytes(n, s, WordBytes) = LoadBytes(m, s, WordBytes)
  <1>1. PICK l : l = LineOf(a)
    OBVIOUS
  <1>t. PICK t \in 0 .. 63 : t # l /\ s = t * 4
    BY <1>1 DEF Elsewhere, WordBytes
  <1>2. l \in 0 .. 63 /\ s = t * 4
    BY <1>1, <1>t, LineBounds
  <1>3. \A i \in 0 .. 3 : \A k \in 0 .. 3 : s + i # l * 4 + k
    BY <1>2, <1>t
  <1>4. \A i \in 0 .. 3 : ByteAt(n, s + i) = ByteAt(m, s + i)
    <2> SUFFICES ASSUME NEW i \in 0 .. 3 PROVE ByteAt(n, s + i) = ByteAt(m, s + i)
      OBVIOUS
    <2>1. PICK x : x = s + i
      OBVIOUS
    <2>2. x \in Int
      BY <1>2, <2>1
    <2>3. \A k \in 0 .. 3 : x # LineOf(a) * 4 + k
      BY <1>1, <1>3, <2>1
    <2>4. ByteAt(n, x) = ByteAt(m, x)
      BY <2>2, <2>3 DEF ByteAt, Apart
    <2> QED BY <2>1, <2>4
  <1>5. [i \in 0 .. 3 |-> IF i < 4 THEN ByteAt(n, s + i) ELSE 0]
          = [i \in 0 .. 3 |-> IF i < 4 THEN ByteAt(m, s + i) ELSE 0]
    BY <1>4
  <1>6. LoadBytes(n, s, 4) = LoadBytes(m, s, 4)
    BY <1>5 DEF LoadBytes
  <1> QED BY <1>6 DEF WordBytes

\* A line that a store updates is the memory the store leaves.
LEMMA OwnLine ==
  ASSUME NEW m, NEW D, m \in [D -> Byte], NEW a, a \in Word, NEW width, width \in 0 .. WordBytes,
         NEW v, v \in Word, (a % WordBytes) + width <= WordBytes,
         \A i \in 0 .. (width - 1) : a + i \in D,
         NEW o, o = a % WordBytes, NEW t, t = LineOf(a),
         NEW old, old = LoadBytes(m, t * WordBytes, WordBytes)
  PROVE  WordOf([i \in 0 .. 3 |-> IF i - o \in 0 .. (width - 1) THEN ByteOf(v, i - o) ELSE ByteOf(old, i)])
           = LoadBytes(StoreBytes(m, a, 0 .. (width - 1), v), t * WordBytes, WordBytes)
  <1>1. t \in 0 .. 63 /\ o \in 0 .. 3 /\ a \in Int /\ a = t * 4 + o /\ width \in 0 .. 4
    BY LineBounds DEF WordBytes
  <1> DEFINE n == StoreBytes(m, a, 0 .. (width - 1), v)
  <1>2. /\ DOMAIN n = D /\ DOMAIN m = D
        /\ \A x \in D : n[x] = IF x - a \in 0 .. (width - 1) THEN ByteOf(v, x - a) ELSE m[x]
    BY DEF StoreBytes
  <1> HIDE DEF n
  <1>3. \A i \in 0 .. 3 :
          (IF i - o \in 0 .. (width - 1) THEN ByteOf(v, i - o) ELSE ByteOf(old, i)) = ByteAt(n, t * 4 + i)
    <2> SUFFICES ASSUME NEW i \in 0 .. 3
                 PROVE (IF i - o \in 0 .. (width - 1) THEN ByteOf(v, i - o) ELSE ByteOf(old, i))
                          = ByteAt(n, t * 4 + i)
      OBVIOUS
    <2>1. PICK x, j : x = t * 4 + i /\ j = i - o
      OBVIOUS
    <2>b. a = t * 4 + o /\ t \in Int /\ o \in Int /\ i \in Int
      <3>1. t \in 0 .. 63 /\ o \in 0 .. 3
        BY <1>1
      <3>2. t \in Int /\ o \in Int
        BY <3>1
      <3>3. i \in Int
        OBVIOUS
      <3> QED BY <1>1, <3>2, <3>3
    <2>a. x \in Int /\ j \in Int
      BY <2>1, <2>b
    <2>2. x - a = j /\ j \in Int /\ x = a + j
      BY <2>1, <2>a, <2>b
    <2>3. CASE j \in 0 .. (width - 1)
      <3>1. x \in D
        BY <2>2, <2>3
      <3>2. n[x] = ByteOf(v, j)
        BY <1>2, <2>2, <2>3, <3>1
      <3> QED BY <1>2, <2>1, <2>3, <3>1, <3>2 DEF ByteAt
    <2>4. CASE j \notin 0 .. (width - 1)
      <3>1. ByteOf(old, i) = ByteAt(m, x)
        <4>1. ByteOf(old, i) = ByteAt(m, t * WordBytes + i)
          BY LineByte
        <4> QED BY <2>1, <4>1 DEF WordBytes
      <3>2. x \in D => n[x] = m[x]
        BY <1>2, <2>2, <2>4
      <3>3. ByteAt(n, x) = ByteAt(m, x)
        BY <1>2, <3>2 DEF ByteAt
      <3> QED BY <2>1, <2>4, <3>1, <3>3
    <2> QED BY <2>3, <2>4
  <1>4. [i \in 0 .. 3 |-> IF i - o \in 0 .. (width - 1) THEN ByteOf(v, i - o) ELSE ByteOf(old, i)]
          = [i \in 0 .. 3 |-> IF i < 4 THEN ByteAt(n, t * 4 + i) ELSE 0]
    BY <1>3
  <1>5. LoadBytes(n, t * 4, 4) = WordOf([i \in 0 .. 3 |-> IF i < 4 THEN ByteAt(n, t * 4 + i) ELSE 0])
    BY DEF LoadBytes
  <1> QED BY <1>4, <1>5 DEF n, WordBytes

\* The cache follows a store into one bus word.
LEMMA CacheStores ==
  ASSUME NEW c, NEW m, IsCache(c, m), NEW D, m \in [D -> Byte], NEW a, a \in Word,
         NEW width, width \in 0 .. WordBytes, NEW v, v \in Word, (a % WordBytes) + width <= WordBytes,
         CacheHit(c, a) => \A i \in 0 .. (width - 1) : a + i \in D,
         NEW n, n = StoreBytes(m, a, 0 .. (width - 1), v),
         NEW c2, c2 = IF CacheHit(c, a) THEN CacheUpdated(c, a, width, v) ELSE c
  PROVE  IsCache(c2, n)
  <1>0. DOMAIN c = 0 .. (CacheLines - 1) /\ \A k \in 0 .. (CacheLines - 1) : IsLine(c[k], k, m)
    BY DEF IsCache
  <1>1. ASSUME NEW k \in 0 .. (CacheLines - 1), ~(CacheHit(c, a) /\ k = LineIndex(a))
        PROVE  IsLine(c[k], k, n)
    <2>1. CASE c[k] = <<>>
      BY <2>1 DEF IsLine
    <2>2. CASE c[k] # <<>>
      <3>1. PICK tag \in 0 .. 63 :
              /\ tag % CacheLines = k
              /\ c[k] = <<[tag |-> tag, data |-> LoadBytes(m, tag * WordBytes, WordBytes)]>>
        BY <1>0, <2>2 DEF IsLine
      <3>2. tag # LineOf(a)
        <4> SUFFICES ASSUME tag = LineOf(a) PROVE FALSE
          OBVIOUS
        <4>1. k = LineIndex(a)
          BY <3>1 DEF LineIndex
        <4>2. c[k][1].tag = tag
          BY <3>1
        <4>3. CacheLines > 0
          BY LineCacheAssumption
        <4> QED BY <1>1, <2>2, <4>1, <4>2, <4>3 DEF CacheHit
      <3>3. LoadBytes(n, tag * WordBytes, WordBytes) = LoadBytes(m, tag * WordBytes, WordBytes)
        <4>1. Apart(m, n, a)
          BY StoreApart
        <4>2. PICK s : s = tag * WordBytes
          OBVIOUS
        <4>3. LoadBytes(n, s, WordBytes) = LoadBytes(m, s, WordBytes)
          <5>1. Elsewhere(s, a)
            BY <3>1, <3>2, <4>2 DEF Elsewhere
          <5> QED BY <4>1, <5>1, OtherLine
        <4> QED BY <4>2, <4>3
      <3> QED BY <3>1, <3>3 DEF IsLine
    <2> QED BY <2>1, <2>2
  <1>2. CASE ~CacheHit(c, a)
    BY <1>0, <1>1, <1>2 DEF IsCache
  <1>3. CASE CacheHit(c, a)
    <2>1. PICK h, o, t, old : /\ h = LineIndex(a) /\ o = a % WordBytes /\ t = LineOf(a)
                              /\ old = LoadBytes(m, t * WordBytes, WordBytes)
      OBVIOUS
    <2>2. h \in 0 .. (CacheLines - 1) /\ c[h] = <<[tag |-> t, data |-> old]>>
      BY <1>3, <2>1, HitLine
    <2>3. PICK data : data = WordOf([i \in 0 .. 3 |-> IF i - o \in 0 .. (width - 1) THEN ByteOf(v, i - o)
                                                      ELSE ByteOf(old, i)])
      OBVIOUS
    <2>4. data = LoadBytes(n, t * WordBytes, WordBytes)
      BY <1>3, <2>1, <2>3, OwnLine, SMTT(30)
    <2>5. c[h][1].data = old
      BY <2>2
    <2>6. c2 = [c EXCEPT ![h][1].data = data]
      BY <1>3, <2>1, <2>3, <2>5 DEF CacheUpdated
    <2>7. DOMAIN c2 = 0 .. (CacheLines - 1) /\ \A k \in 0 .. (CacheLines - 1) : k # h => c2[k] = c[k]
      BY <1>0, <2>6
    <2>8. c2[h] = <<[tag |-> t, data |-> data]>>
      <3>1. PICK e : e = c[h]
        OBVIOUS
      <3>2. c2[h] = [e EXCEPT ![1].data = data]
        BY <1>0, <2>2, <2>6, <3>1
      <3>3. PICK r : r = [tag |-> t, data |-> old]
        OBVIOUS
      <3>4. e = <<r>> /\ [r EXCEPT !.data = data] = [tag |-> t, data |-> data]
        BY <2>2, <3>1, <3>3
      <3> QED BY <3>2, <3>4
    <2>9. IsLine(c2[h], h, n)
      <3>1. t \in 0 .. 63 /\ t % CacheLines = h
        BY <2>1, LineBounds DEF LineIndex
      <3> QED BY <2>4, <2>8, <3>1 DEF IsLine
    <2>10. \A k \in 0 .. (CacheLines - 1) : IsLine(c2[k], k, n)
      BY <1>1, <2>1, <2>7, <2>9
    <2> QED BY <2>7, <2>10 DEF IsCache
  <1> QED BY <1>2, <1>3

\* The cache takes an aligned word that was loaded.
LEMMA CacheFills ==
  ASSUME NEW c, NEW m, IsCache(c, m), NEW a, a \in Word, a % WordBytes = 0,
         NEW c2, c2 = IF CacheLines > 0
                      THEN [c EXCEPT ![LineIndex(a)] =
                              <<[tag |-> LineOf(a), data |-> LoadBytes(m, a, WordBytes)]>>]
                      ELSE c
  PROVE  IsCache(c2, m)
  <1>1. CASE CacheLines > 0
    <2>1. PICK h, t : h = LineIndex(a) /\ t = LineOf(a)
      OBVIOUS
    <2>2. h \in 0 .. (CacheLines - 1) /\ t \in 0 .. 63 /\ a = t * WordBytes /\ t % CacheLines = h
      <3>1. h \in 0 .. (CacheLines - 1) /\ t \in 0 .. 63 /\ a = t * WordBytes + 0 /\ t \in Int
        BY <1>1, <2>1, LineBounds
      <3>2. t % CacheLines = h
        BY <2>1 DEF LineIndex
      <3> QED BY <3>1, <3>2 DEF WordBytes
    <2>3. PICK e : e = <<[tag |-> t, data |-> LoadBytes(m, t * WordBytes, WordBytes)]>>
      OBVIOUS
    <2>4. c2 = [c EXCEPT ![h] = e]
      BY <1>1, <2>1, <2>2, <2>3
    <2>5. IsLine(e, h, m)
      BY <2>2, <2>3 DEF IsLine
    <2> QED BY <2>2, <2>4, <2>5 DEF IsCache
  <1>2. CASE ~(CacheLines > 0)
    BY <1>2
  <1> QED BY <1>1, <1>2

\* A flush leaves nothing.
LEMMA CacheFlushes == \A m : IsCache(CacheReset, m)
  BY DEF IsCache, IsLine, CacheReset

-----------------------------------------------------------------------------
\* the state an access is in: at an address that translates
LEMMA MemoryFacts ==
  ASSUME Inv, ~locked, st = "MEMORY", NEW op, op = mo[1].op
  PROVE  /\ Sound /\ mo # <<>> /\ entry = <<>> /\ wb = <<>> /\ Requesting
         /\ IsOperation(op, Here, resv) /\ op.width \in 0 .. WordBytes /\ op.value \in Word
         /\ op.write \in BOOLEAN
         /\ mo[1].addr \in Word /\ mo[1].next_pc \in Word
         /\ PcMapped /\ Asked.memory # <<>> /\ Asked.next_pc = mo[1].next_pc
         /\ FirstAccess(op).fault = <<>> /\ FirstAccess(op).phys = mo[1].addr
         /\ sr \in [Selectors -> Word] /\ mem \in [DOMAIN prog.mem -> Byte]
         /\ ~Beaten => Plain /\ Chosen(Asked.memory[1], op)
  <1>1. /\ Sound /\ mo # <<>> /\ entry = <<>> /\ wb = <<>> /\ Requesting
        /\ sr \in [Selectors -> Word] /\ mem \in [DOMAIN prog.mem -> Byte]
        /\ FirstAccess(op) = [phys |-> mo[1].addr, fault |-> <<>>]
    BY DEF Inv, Sound, Phases, Words, Requesting
  <1>2. /\ IsOperation(op, Here, resv) /\ mo[1].addr \in Word /\ mo[1].next_pc \in Word
        /\ PcMapped /\ Asked.memory # <<>> /\ Asked.next_pc = mo[1].next_pc
        /\ ~Beaten => Chosen(Asked.memory[1], op)
    BY <1>1 DEF Sound, Pending
  <1>3. op.width \in 0 .. WordBytes /\ op.value \in Word /\ op.write \in BOOLEAN
    BY <1>2 DEF IsOperation
  <1>4. ~Beaten => Plain
    BY <1>1 DEF Plain
  <1> QED BY <1>1, <1>2, <1>3, <1>4

\* An access crosses a bus word when the LSU splits its request.
LEMMA SplitLine ==
  ASSUME Inv, ~locked, st = "MEMORY"
  PROVE  /\ SplitNeeded(Request) <=> ~SingleLine
         /\ Room(Request) = WordBytes - (mo[1].addr % WordBytes) /\ Room(Request) \in 1 .. 4
  <1>1. PICK a, w : a = mo[1].addr /\ w = mo[1].op.width
    OBVIOUS
  <1>2. a \in 0 .. 255 /\ w \in 0 .. 4
    BY <1>1, MemoryFacts DEF Word, WordBytes
  <1>3. Request.kind = "data" /\ Request.addr = a /\ Request.width = w
    BY <1>1, RequestFields
  <1>4. /\ Room(Request) = 4 - (a % 4) /\ (SplitNeeded(Request) <=> w > Room(Request))
        /\ SingleLine <=> (a % 4) + w <= 4
    BY <1>1, <1>3 DEF Room, SplitNeeded, SingleLine, WordBytes
  <1>5. 4 - (a % 4) \in 1 .. 4 /\ (w > 4 - (a % 4) <=> ~((a % 4) + w <= 4))
    BY <1>2
  <1> QED BY <1>1, <1>4, <1>5 DEF WordBytes

\* What an access that loads no register writes does not depend on the word
\* it brings.
LEMMA PostOnly ==
  ASSUME NEW op, NEW c, op.dest = <<>>, c.dest = <<>>, c.post = op.post,
         op.post # <<>> => ~op.post[1].alias, NEW x, NEW y, NEW n
  PROVE  MemoryWrites(op, x) = MemoryWrites(c, y) /\ MemoryNextPc(op, x, n) = MemoryNextPc(c, y, n)
  <1>1. MemoryWrites(op, x) = MemoryWrites(c, y)
    BY DEF MemoryWrites
  <1> QED BY <1>1 DEF MemoryNextPc

\* what a store asks of the registers does not depend on what was read
Constant(op) == op.dest = <<>> /\ (op.post # <<>> => ~op.post[1].alias)

\* A store writes back the same whatever the bus has returned.
LEMMA StorePost ==
  ASSUME NEW op, Constant(op), NEW x, NEW y, NEW n
  PROVE  MemoryWrites(op, x) = MemoryWrites(op, y) /\ MemoryNextPc(op, x, n) = MemoryNextPc(op, y, n)
  BY PostOnly DEF Constant

\* The memory instruction takes effect as a whole: by its only access, or by
\* the store that its load is chained to.
LEMMA CommitStep ==
  ASSUME Inv, ~locked, st = "MEMORY", ~Beaten, NEW lines \in SUBSET prog.lines,
         NEW op, op = mo[1].op, op.write \/ op.chain = <<>>,
         NEW loaded, ~op.write => loaded = LoadBytes(mem, mo[1].addr, op.width), prog' = prog,
         DoneRegs' = WriteBack(regs, MemoryWrites(op, loaded), MemoryNextPc(op, loaded, mo[1].next_pc)),
         DoneFlags' = IF op.flags = <<>> THEN flags ELSE op.flags[1],
         DoneMemory' = IF op.write THEN StoreBytes(mem, mo[1].addr, 0 .. (op.width - 1), op.value) ELSE mem,
         DoneReservation' = Reserved(op), DoneSpecial' = Latched(sr, lines), Mode' = "run"
  PROVE  Arch!Next
  <1>0. /\ IsOperation(op, Here, resv) /\ op.write \in BOOLEAN
        /\ PcMapped /\ Asked.memory # <<>> /\ Asked.next_pc = mo[1].next_pc
        /\ FirstAccess(op).fault = <<>> /\ FirstAccess(op).phys = mo[1].addr
        /\ Plain /\ Chosen(Asked.memory[1], op)
    BY MemoryFacts
  <1>1. PICK first : first = Asked.memory[1]
    OBVIOUS
  <1>2. /\ Asked.memory = <<first>> /\ IsOperation(first, Here, resv)
        /\ \/ op = first
           \/ /\ first.chain # <<>> /\ FirstAccess(first).fault = <<>>
              /\ op = ChainedStore(first, LoadBytes(mem, FirstAccess(first).phys, first.width))
    BY <1>0, <1>1 DEF Chosen
  <1>3. op.write => ~op.reserve /\ op.dest = <<>> /\ op.chain = <<>> /\ (op.post # <<>> => ~op.post[1].alias)
    BY <1>0 DEF IsOperation
  <1>4. DoneReservation' = IF op.write THEN Unreserved(resv, op.addr, op.width)
                           ELSE IF op.reserve THEN <<op.addr>> ELSE resv
    BY <1>3 DEF Reserved, AfterStore, Unreserved
  <1>5. CASE op = first
    <2>1. PICK v : v = LoadBytes(mem, FirstAccess(op).phys, op.width)
      OBVIOUS
    <2>2. /\ MemoryWrites(op, loaded) = MemoryWrites(op, v)
          /\ MemoryNextPc(op, loaded, Asked.next_pc) = MemoryNextPc(op, v, Asked.next_pc)
      <3>1. CASE op.write
        <4>1. Constant(op)
          BY <1>3, <3>1 DEF Constant
        <4> QED BY <4>1, StorePost
      <3>2. CASE ~op.write
        BY <1>0, <2>1, <3>2
      <3> QED BY <3>1, <3>2
    <2>3. op.chain = <<>>
      BY <1>3
    <2>4. /\ DoneRegs' = WriteBack(regs, MemoryWrites(op, v), MemoryNextPc(op, v, Asked.next_pc))
          /\ DoneMemory' = IF op.write THEN StoreBytes(mem, FirstAccess(op).phys, 0 .. (op.width - 1), op.value)
                           ELSE mem
      BY <1>0, <2>2
    <2> QED BY <1>0, <1>2, <1>4, <1>5, <2>1, <2>3, <2>4, StepMemory
  <1>6. CASE /\ first.chain # <<>> /\ FirstAccess(first).fault = <<>>
             /\ op = ChainedStore(first, LoadBytes(mem, FirstAccess(first).phys, first.width))
    <2>1. PICK v : v = LoadBytes(mem, FirstAccess(first).phys, first.width)
      OBVIOUS
    <2>2. /\ op.addr = first.chain[1] /\ op.width = WordBytes /\ op.write /\ op.value = v
          /\ op.dest = <<>> /\ op.post = first.post /\ op.flags = <<>>
      BY <1>6, <2>1, ChainedFields
    <2>3. /\ ~first.write /\ first.dest = <<>> /\ ~first.post[1].alias /\ first.flags = <<>>
      BY <1>2, <1>6 DEF IsOperation
    <2>4. FirstAccess(op) = ChainAccess(first)
      BY <2>2 DEF FirstAccess, ChainAccess
    <2>5. /\ MemoryWrites(first, v) = MemoryWrites(op, loaded)
          /\ MemoryNextPc(first, v, Asked.next_pc) = MemoryNextPc(op, loaded, Asked.next_pc)
      BY <2>2, <2>3, PostOnly
    <2>6. /\ DoneRegs' = WriteBack(regs, MemoryWrites(first, v), MemoryNextPc(first, v, Asked.next_pc))
          /\ DoneMemory' = StoreBytes(mem, ChainAccess(first).phys, 0 .. (WordBytes - 1), v)
          /\ DoneReservation' = Unreserved(resv, first.chain[1], WordBytes)
          /\ DoneFlags' = flags /\ ChainAccess(first).fault = <<>>
      BY <1>0, <1>4, <2>2, <2>4, <2>5
    <2> QED BY <1>0, <1>2, <1>6, <2>1, <2>3, <2>6, StepMemory
  <1> QED BY <1>2, <1>5, <1>6

\* The access is done: its result waits in the writeback latch, where the
\* machine sees it.
LEMMA LatchSound ==
  ASSUME Inv, ~locked, st = "MEMORY", NEW lines, Quiet(lines), prog' = prog, NEW op, op = mo[1].op,
         NEW v, v \in Word, wb' = <<MemoryResult(op, v)>>, mo' = <<>>, st' = "WRITEBACK", locked' = locked,
         regs' = regs, flags' = flags, fetch_phys' = fetch_phys, cur' = cur, entry' = entry,
         UnitsRight', ~Beaten', mem' \in [DOMAIN prog.mem -> Byte]
  PROVE  /\ Inv'
         /\ DoneRegs' = WriteBack(regs, MemoryWrites(op, v), MemoryNextPc(op, v, mo[1].next_pc))
         /\ DoneFlags' = IF op.flags = <<>> THEN flags ELSE op.flags[1]
         /\ DoneMemory' = mem' /\ DoneReservation' = resv'
         /\ DoneSpecial' = Latched(sr, lines) /\ Mode' = "run"
  <1>0. Sound /\ entry = <<>> /\ IsOperation(op, Here, resv) /\ mo[1].next_pc \in Word
    BY MemoryFacts
  <1>1. /\ sr' \in [Selectors -> Word] /\ sr' = Latched(sr, lines)
        /\ GenerationsPast(tlb)' /\ Agrees(tlb, PageOf(sr[PAGE_TABLE_ROOT]))'
    BY <1>0, QuietSound
  <1>2. PICK w, n : w = MemoryWrites(op, v) /\ n = MemoryNextPc(op, v, mo[1].next_pc)
    OBVIOUS
  <1>3. \A r, old : old \in Word => LastWrite(w, r, old) \in Word
    BY <1>0, <1>2, MemoryWord
  <1>4. n \in Word
    BY <1>0, <1>2, <1>3 DEF MemoryNextPc
  <1>5. /\ wb' = <<wb'[1]>> /\ DOMAIN wb'[1] = {"writes", "flags", "next_pc"} /\ wb' # <<>>
        /\ wb'[1].writes = w /\ wb'[1].flags = op.flags /\ wb'[1].next_pc = n
    <2>1. wb' = <<[writes |-> w, flags |-> op.flags, next_pc |-> n]>>
      BY <1>2 DEF MemoryResult
    <2> QED BY <2>1
  <1>6. Latches'
    BY <1>3, <1>4, <1>5 DEF Latches
  <1>7. Words' /\ Pending' /\ Walking' /\ Entering' /\ Phases'
    <2>1. Words'
      BY <1>0, <1>1 DEF Sound, Words
    <2> QED BY <1>0, <1>5, <2>1 DEF Pending, Walking, Entering, Phases, States
  <1>8. Inv'
    BY <1>1, <1>6, <1>7 DEF Inv, Sound
  <1>9. Done' = wb'
    BY DEF Done
  <1>10. DoneRegs' = WriteBack(regs, w, n) /\ DoneFlags' = IF op.flags = <<>> THEN flags ELSE op.flags[1]
    BY <1>5, <1>9 DEF DoneRegs, DoneFlags
  <1>11. DoneMemory' = mem' /\ DoneReservation' = resv' /\ DoneSpecial' = Latched(sr, lines) /\ Mode' = "run"
    BY <1>0, <1>1 DEF DoneMemory, DoneReservation, DoneSpecial, Mode
  <1> QED BY <1>2, <1>8, <1>10, <1>11

\* What the LSU answers a load is what memory holds at its address.
LEMMA LoadReturns ==
  ASSUME Inv, ~locked, BusFree, st = "MEMORY", NEW d, LsuDone(lsu, d), ~LsuError(lsu, d), ~mo[1].op.write
  PROVE  LsuLoad(lsu, mem) = LoadBytes(mem, mo[1].addr, mo[1].op.width)
  <1>0. Sound /\ Requesting /\ mo[1].addr \in Word
    BY MemoryFacts
  <1>1. started /\ lsu.req = Request
    BY <1>0, OwnAnswer
  <1>2. PICK a, width, l : a = mo[1].addr /\ width = mo[1].op.width /\ l = lsu
    OBVIOUS
  <1>3. l.req.kind = "data" /\ l.req.addr = a /\ l.req.width = width /\ ~l.req.write
    BY <1>1, <1>2, RequestFields
  <1>4. CASE ~SplitNeeded(l.req)
    <2>1. LsuLoad(l, mem) = LoadBytes(mem, a, width)
      BY <1>3, <1>4 DEF LsuLoad
    <2> QED BY <1>2, <2>1
  <1>5. CASE SplitNeeded(l.req)
    <2>1. l.st = "SECOND"
      BY <1>2, <1>5 DEF LsuDone
    <2>2. l.first = BusWord(mem, a)
      BY <1>0, <1>1, <1>2, <1>3, <2>1 DEF Sound, UnitsRight, Bus
    <2>3. LsuLoad(l, mem) = WordOf([i \in 0 .. 3 |->
                IF i < width THEN Joined(l, BusWord(mem, a + Room(l.req)), i) ELSE 0])
      BY <1>3, <1>5 DEF LsuLoad
    <2>4. \A i \in 0 .. 3 : SplitByte(l, mem, i) = MemoryByte(mem, a, i)
      BY <1>0, <1>2, <1>3, <2>2, JoinedLoad
    <2>5. [i \in 0 .. 3 |-> IF i < width THEN Joined(l, BusWord(mem, a + Room(l.req)), i) ELSE 0]
            = [i \in 0 .. 3 |-> IF i < width THEN ByteAt(mem, a + i) ELSE 0]
      BY <1>3, <2>4 DEF SplitByte, MemoryByte
    <2>6. LsuLoad(l, mem) = LoadBytes(mem, a, width)
      BY <2>3, <2>5 DEF LoadBytes
    <2> QED BY <1>2, <2>6
  <1> QED BY <1>4, <1>5

\* After the last beat of a store all its bytes are in memory; a load leaves
\* memory alone.
LEMMA StoreWhole ==
  ASSUME Inv, ~locked, BusFree, st = "MEMORY", NEW i, NEW d, Units(i, d), LsuDone(lsu, d), ~LsuError(lsu, d),
         NEW op, op = mo[1].op
  PROVE  /\ mem' = IF op.write THEN StoreBytes(mem, mo[1].addr, 0 .. (op.width - 1), op.value) ELSE mem
         /\ mem' \in [DOMAIN prog.mem -> Byte]
  <1>0. /\ Sound /\ Requesting /\ mo[1].addr \in Word /\ op.width \in 0 .. WordBytes /\ op.value \in Word
        /\ op.write \in BOOLEAN /\ mem \in [DOMAIN prog.mem -> Byte]
    BY MemoryFacts
  <1>1. started /\ lsu.req = Request
    BY <1>0, OwnAnswer
  <1>2. PICK a, r, w, v : a = mo[1].addr /\ r = Room(Request) /\ w = op.width /\ v = op.value
    OBVIOUS
  <1>3. /\ Request.kind = "data" /\ Request.addr = a /\ Request.width = w /\ Request.value = v
        /\ Request.write = op.write
    BY <1>2, RequestFields
  <1>4. CASE ~op.write
    <2>1. mem' = mem
      BY <1>0, <1>3, <1>4, BeatWrites
    <2> QED BY <1>0, <1>4, <2>1
  <1>5. CASE op.write
    <2>1. BeatTaken(lsu, d) /\ (lsu.st = "SECOND" \/ ~SplitNeeded(Request))
      BY <1>1 DEF LsuDone
    <2>2. mem' = StoreBytes(mem, a, BeatLanes(lsu), v)
      BY <1>0, <1>1, <1>3, <1>5, <2>1, BeatWrites
    <2>3. r \in 1 .. 4 /\ (SplitNeeded(Request) <=> w > r) /\ w \in 0 .. 4
      BY <1>0, <1>2, <1>3, SplitLine DEF SplitNeeded, WordBytes
    <2>4. PICK one, all, rest : one = 0 .. (r - 1) /\ all = 0 .. (w - 1) /\ rest = r .. (w - 1)
      OBVIOUS
    <2>5. mem' = StoreBytes(mem, a, all, v)
      <3>1. CASE ~SplitNeeded(Request)
        <4>1. BeatLanes(lsu) = all
          BY <1>1, <1>3, <2>4, <3>1 DEF BeatLanes
        <4> QED BY <2>2, <4>1
      <3>2. CASE SplitNeeded(Request)
        <4>1. lsu.st = "SECOND" /\ BeatLanes(lsu) = rest
          BY <1>1, <1>2, <1>3, <2>1, <2>4, <3>2 DEF BeatLanes
        <4>2. mem = StoreBytes(mem, a, one, v)
          BY <1>0, <1>1, <1>2, <1>3, <1>5, <2>4, <4>1 DEF Sound, UnitsRight, Bus
        <4>3. all = one \cup rest
          BY <2>3, <2>4, <3>2
        <4>4. StoreBytes(StoreBytes(mem, a, one, v), a, rest, v) = StoreBytes(mem, a, all, v)
          BY <4>3, StoreTwice
        <4> QED BY <2>2, <4>1, <4>2, <4>4
      <3> QED BY <3>1, <3>2
    <2>6. all \subseteq 0 .. 3
      BY <2>3, <2>4
    <2>7. PICK D : D = DOMAIN prog.mem
      OBVIOUS
    <2>8. StoreBytes(mem, a, all, v) \in [D -> Byte]
      <3>1. mem \in [D -> Byte] /\ v \in Word
        BY <1>0, <1>2, <2>7
      <3> QED BY <2>6, <3>1, StoreBytesType
    <2> QED BY <1>2, <1>5, <2>4, <2>5, <2>7, <2>8
  <1> QED BY <1>0, <1>4, <1>5

\* The cache has followed memory when the access ends.
LEMMA AnswerUnits ==
  ASSUME Inv, ~locked, BusFree, HitsMemory, st = "MEMORY", NEW i, i \in IBus, NEW d, d \in DBus, Units(i, d),
         LsuDone(lsu, d), ~LsuError(lsu, d), NEW op, op = mo[1].op, st' # st,
         dcache' = V2CacheClock(dcache, op.write /\ ~SingleLine, <<>>,
                                IF op.write THEN <<mo[1].addr, op.width, op.value>> ELSE <<>>,
                                IF ~op.write /\ op.width = WordBytes /\ mo[1].addr % WordBytes = 0
                                THEN <<mo[1].addr, LsuLoad(lsu, mem)>> ELSE <<>>)
  PROVE  UnitsRight' /\ ~Beaten'
  <1>0. /\ Sound /\ Requesting /\ mo[1].addr \in Word /\ op.width \in 0 .. WordBytes /\ op.value \in Word
        /\ op.write \in BOOLEAN /\ mem \in [DOMAIN prog.mem -> Byte]
    BY MemoryFacts
  <1>1. started /\ lsu.req = Request
    BY <1>0, OwnAnswer
  <1>2. Bus' /\ ~Beaten'
    BY <1>0, UnitsLeave
  <1>3. Watchdogs'
    BY <1>0, WatchdogsKept DEF Sound, UnitsRight
  <1>4. PICK a, w, v, D : a = mo[1].addr /\ w = op.width /\ v = op.value /\ D = DOMAIN prog.mem
    OBVIOUS
  <1>5. /\ a \in Word /\ w \in 0 .. WordBytes /\ v \in Word /\ mem \in [D -> Byte] /\ DOMAIN mem = D
        /\ SingleLine <=> (a % WordBytes) + w <= WordBytes
    BY <1>0, <1>4 DEF SingleLine
  <1>6. mem' = IF op.write THEN StoreBytes(mem, a, 0 .. (w - 1), v) ELSE mem
    BY <1>4, StoreWhole
  <1>7. ~op.write \/ SingleLine => IsCache(dcache, mem)
    <2>1. CASE ~op.write
      <3>1. ~lsu.req.write
        BY <1>1, <2>1, RequestFields
      <3> QED BY <1>0, <3>1 DEF Sound, UnitsRight, Beaten
    <2>2. CASE SingleLine
      <3>1. lsu.st # "SECOND"
        BY <1>0, <1>1, <2>2, SplitLine DEF Sound, UnitsRight, Bus
      <3> QED BY <1>0, <3>1 DEF Sound, UnitsRight, Beaten
    <2> QED BY <2>1, <2>2
  <1>8. PICK c, m : c = dcache' /\ m = mem'
    OBVIOUS
  <1>9. CASE op.write /\ ~SingleLine
    <2>1. c = CacheReset
      BY <1>8, <1>9 DEF V2CacheClock, CacheClock
    <2>2. IsCache(c, m)
      BY <2>1, CacheFlushes
    <2> QED BY <1>2, <1>3, <1>8, <2>2 DEF UnitsRight
  <1>10. CASE op.write /\ SingleLine
    <2>1. c = IF CacheHit(dcache, a) THEN CacheUpdated(dcache, a, w, v) ELSE dcache
      BY <1>4, <1>8, <1>10 DEF V2CacheClock, CacheClock
    <2>2. CacheHit(dcache, a) => \A k \in 0 .. (w - 1) : a + k \in D
      BY <1>4, <1>5, <1>10 DEF HitsMemory
    <2>3. IsCache(dcache, mem) /\ (a % WordBytes) + w <= WordBytes /\ m = StoreBytes(mem, a, 0 .. (w - 1), v)
      BY <1>5, <1>6, <1>7, <1>8, <1>10
    <2>4. IsCache(c, m)
      BY <1>5, <2>1, <2>2, <2>3, CacheStores
    <2> QED BY <1>2, <1>3, <1>8, <2>4 DEF UnitsRight
  <1>11. CASE ~op.write /\ op.width = WordBytes /\ mo[1].addr % WordBytes = 0
    <2>1. LsuLoad(lsu, mem) = LoadBytes(mem, a, WordBytes)
      BY <1>4, <1>11, LoadReturns
    <2>2. c = IF CacheLines > 0
              THEN [dcache EXCEPT ![LineIndex(a)] =
                      <<[tag |-> LineOf(a), data |-> LoadBytes(mem, a, WordBytes)]>>]
              ELSE dcache
      BY <1>4, <1>8, <1>11, <2>1 DEF V2CacheClock, CacheClock
    <2>3. IsCache(dcache, mem) /\ a % WordBytes = 0 /\ m = mem
      BY <1>4, <1>6, <1>7, <1>8, <1>11
    <2>4. IsCache(c, m)
      BY <1>5, <2>2, <2>3, CacheFills
    <2> QED BY <1>2, <1>3, <1>8, <2>4 DEF UnitsRight
  <1>12. CASE ~op.write /\ ~(op.width = WordBytes /\ mo[1].addr % WordBytes = 0)
    <2>1. c = dcache
      BY <1>8, <1>12 DEF V2CacheClock, CacheClock
    <2>2. IsCache(c, m)
      BY <1>6, <1>7, <1>8, <1>12, <2>1
    <2> QED BY <1>2, <1>3, <1>8, <2>2 DEF UnitsRight
  <1> QED BY <1>0, <1>9, <1>10, <1>11, <1>12

\* The access ends its instruction.
LEMMA AccessEnds ==
  ASSUME Inv, ~locked, BusFree, HitsMemory, st = "MEMORY", NEW i, i \in IBus, NEW d, d \in DBus, Units(i, d),
         LsuDone(lsu, d), ~LsuError(lsu, d), NEW lines \in SUBSET prog.lines, Quiet(lines),
         NEW op, op = mo[1].op, op.chain = <<>>, MemoryAnswer(op, LsuLoad(lsu, mem)),
         regs' = regs, flags' = flags, fetch_phys' = fetch_phys, cur' = cur, entry' = entry
  PROVE  Inv' /\ Arch!Next
  <1>0. /\ Sound /\ Requesting /\ mo # <<>> /\ entry = <<>> /\ wb = <<>> /\ IsOperation(op, Here, resv)
        /\ op.write \in BOOLEAN /\ sr \in [Selectors -> Word] /\ mem \in [DOMAIN prog.mem -> Byte]
        /\ ~Beaten => Plain
    BY MemoryFacts
  <1>1. /\ resv' = Reserved(op) /\ wb' = <<MemoryResult(op, LsuLoad(lsu, mem))>> /\ mo' = <<>>
        /\ st' = "WRITEBACK" /\ locked' = locked /\ st' # st
    BY DEF MemoryAnswer, Goto
  <1>2. UnitsRight' /\ ~Beaten'
    BY <1>1, AnswerUnits DEF MemoryAnswer
  <1>3. prog' = prog
    BY DEF Units
  <1>4. /\ mem' = IF op.write THEN StoreBytes(mem, mo[1].addr, 0 .. (op.width - 1), op.value) ELSE mem
        /\ mem' \in [DOMAIN prog.mem -> Byte]
    BY StoreWhole
  <1>5. op.write => ~op.reserve /\ op.dest = <<>> /\ (op.post # <<>> => ~op.post[1].alias)
    BY <1>0 DEF IsOperation
  <1>6. PICK v : v = IF op.write THEN 0 ELSE LoadBytes(mem, mo[1].addr, op.width)
    OBVIOUS
  <1>7. v \in Word
    <2>1. 0 \in Word
      BY DEF Word
    <2>2. LoadBytes(mem, mo[1].addr, op.width) \in Word
      BY <1>0, LoadWord
    <2> QED BY <1>6, <2>1, <2>2
  <1>8. wb' = <<MemoryResult(op, v)>>
    <2>1. CASE op.write
      <3>1. PICK x, n : x = LsuLoad(lsu, mem) /\ n = mo[1].next_pc
        OBVIOUS
      <3>2. MemoryWrites(op, x) = MemoryWrites(op, v) /\ MemoryNextPc(op, x, n) = MemoryNextPc(op, v, n)
        <4>1. Constant(op)
          BY <1>5, <2>1 DEF Constant
        <4> QED BY <4>1, StorePost
      <3> QED BY <1>1, <3>1, <3>2 DEF MemoryResult
    <2>2. CASE ~op.write
      <3>1. LsuLoad(lsu, mem) = v
        BY <1>6, <2>2, LoadReturns
      <3> QED BY <1>1, <3>1
    <2> QED BY <1>0, <2>1, <2>2
  <1>9. /\ Inv'
        /\ DoneRegs' = WriteBack(regs, MemoryWrites(op, v), MemoryNextPc(op, v, mo[1].next_pc))
        /\ DoneFlags' = IF op.flags = <<>> THEN flags ELSE op.flags[1]
        /\ DoneMemory' = mem' /\ DoneReservation' = resv'
        /\ DoneSpecial' = Latched(sr, lines) /\ Mode' = "run"
    BY <1>1, <1>2, <1>3, <1>4, <1>7, <1>8, LatchSound
  <1>10. CASE ~Beaten
    <2>1. Arch!Next
      BY <1>1, <1>3, <1>4, <1>6, <1>9, <1>10, CommitStep
    <2> QED BY <1>9, <2>1
  <1>11. CASE Beaten
    <2>1. op.write
      BY <1>0, <1>11, BeatenFacts
    <2>2. Done # <<>> /\ Done[1] = MemoryResult(op, 0)
      BY <1>11 DEF Done
    <2>3. PICK r : r = MemoryResult(op, 0)
      OBVIOUS
    <2>4. /\ r.writes = MemoryWrites(op, v) /\ r.flags = op.flags
          /\ r.next_pc = MemoryNextPc(op, v, mo[1].next_pc)
      BY <1>6, <2>1, <2>3 DEF MemoryResult
    <2>5. DoneRegs = WriteBack(regs, r.writes, r.next_pc)
          /\ DoneFlags = IF r.flags = <<>> THEN flags ELSE r.flags[1]
      BY <2>2, <2>3 DEF DoneRegs, DoneFlags
    <2>6. DoneRegs' = DoneRegs /\ DoneFlags' = DoneFlags
      BY <1>9, <2>4, <2>5
    <2>7. DoneMemory' = DoneMemory
      BY <1>4, <1>9, <1>11, <2>1 DEF DoneMemory
    <2>8. DoneReservation' = DoneReservation
      BY <1>1, <1>5, <1>9, <1>11, <2>1 DEF DoneReservation, Reserved
    <2>9. DoneSpecial = sr /\ Mode = "run"
      BY <1>0 DEF DoneSpecial, Mode
    <2>10. Arch!Next
      BY <1>3, <1>9, <2>6, <2>7, <2>8, <2>9, StepIdle
    <2> QED BY <1>9, <2>10
  <1> QED BY <1>10, <1>11

\* The load of a PC-relative PUSH or POP ends: its store is next.
LEMMA AccessChains ==
  ASSUME Inv, ~locked, BusFree, HitsMemory, st = "MEMORY", NEW i, i \in IBus, NEW d, d \in DBus, Units(i, d),
         LsuDone(lsu, d), ~LsuError(lsu, d), NEW lines \in SUBSET prog.lines, Quiet(lines),
         NEW op, op = mo[1].op, op.chain # <<>>, MemoryAnswer(op, LsuLoad(lsu, mem)),
         regs' = regs, flags' = flags, fetch_phys' = fetch_phys, cur' = cur, entry' = entry,
         fault_pc' = fault_pc
  PROVE  Inv' /\ Arch!Next
  <1>0. /\ Sound /\ Requesting /\ mo # <<>> /\ entry = <<>> /\ wb = <<>> /\ IsOperation(op, Here, resv)
        /\ op.write \in BOOLEAN /\ sr \in [Selectors -> Word] /\ mem \in [DOMAIN prog.mem -> Byte]
        /\ mo[1].next_pc \in Word /\ PcMapped /\ Asked.memory # <<>> /\ Asked.next_pc = mo[1].next_pc
        /\ FirstAccess(op).fault = <<>> /\ FirstAccess(op).phys = mo[1].addr
        /\ ~Beaten => Chosen(Asked.memory[1], op)
    BY MemoryFacts
  <1>1. /\ ~op.write /\ ~op.reserve /\ op.chain[1] \in Word /\ op.post # <<>> /\ op.post = <<op.post[1]>>
        /\ op.post[1].value \in Word /\ op.post[1].index = Here.rd /\ MovesStack(Here) /\ ~op.post[1].alias
        /\ Here.op # "STORE"
    BY <1>0 DEF IsOperation
  <1>2. ~Beaten
    BY <1>0, <1>1, BeatenFacts
  <1>3. PICK v, c : v = LoadBytes(mem, mo[1].addr, op.width) /\ c = ChainedStore(op, v)
    OBVIOUS
  <1>4. LsuLoad(lsu, mem) = v
    BY <1>1, <1>3, LoadReturns
  <1>5. /\ resv' = Reserved(op) /\ st' = "MEM_TRANSLATE" /\ locked' = locked /\ wb' = wb /\ st' # st
        /\ mo' = <<[mo[1] EXCEPT !.op = c, !.addr = op.chain[1]]>>
    BY <1>3, <1>4 DEF MemoryAnswer, Goto
  <1>6. resv' = resv
    BY <1>1, <1>5 DEF Reserved, AfterStore
  <1>7. UnitsRight' /\ ~Beaten'
    BY <1>5, AnswerUnits DEF MemoryAnswer
  <1>8. prog' = prog
    BY DEF Units
  <1>9. mem' = mem
    BY <1>1, StoreWhole
  <1>10. /\ sr' \in [Selectors -> Word] /\ sr' = Latched(sr, lines)
         /\ GenerationsPast(tlb)' /\ Agrees(tlb, PageOf(sr[PAGE_TABLE_ROOT]))'
    BY <1>0, QuietSound
  <1>11. /\ mo' # <<>> /\ mo' = <<mo'[1]>> /\ DOMAIN mo'[1] = {"op", "addr", "next_pc"}
         /\ mo'[1].op = c /\ mo'[1].addr = op.chain[1] /\ mo'[1].next_pc = mo[1].next_pc
    <2>1. mo = <<mo[1]>> /\ DOMAIN mo[1] = {"op", "addr", "next_pc"}
      BY <1>0 DEF Sound, Pending
    <2>2. PICK p, q : p = mo[1] /\ q = [p EXCEPT !.op = c, !.addr = op.chain[1]]
      OBVIOUS
    <2>3. DOMAIN q = {"op", "addr", "next_pc"} /\ q.op = c /\ q.addr = op.chain[1] /\ q.next_pc = p.next_pc
      BY <2>1, <2>2
    <2>4. mo' = <<q>>
      BY <1>5, <2>2
    <2> QED BY <2>2, <2>3, <2>4
  <1>12. Asked' = Asked
    BY <1>0, <1>6, <1>8, <1>10, AskedKept
  <1>13. PcMapped' = PcMapped /\ Here' = Here
    BY <1>0, <1>8, <1>10, PcKept
  <1>14. /\ DOMAIN c = {"addr", "width", "write", "value", "dest", "post", "chain", "flags", "reserve"}
         /\ c.addr = op.chain[1] /\ c.width = WordBytes /\ c.write /\ c.write \in BOOLEAN /\ c.value = v
         /\ c.dest = <<>> /\ c.post = op.post /\ c.chain = <<>> /\ c.flags = <<>>
         /\ ~c.reserve /\ c.reserve \in BOOLEAN
    BY <1>3, ChainedFields
  <1>15. v \in Word
    BY <1>0, <1>3, LoadWord
  <1>16. IsOperation(c, Here, resv)
    <2>1. WordBytes \in 0 .. WordBytes
      BY DEF WordBytes
    <2> QED BY <1>1, <1>14, <1>15, <2>1 DEF IsOperation
  <1>17. PICK first : first = Asked.memory[1]
    OBVIOUS
  <1>18. Asked.memory = <<first>> /\ IsOperation(first, Here, resv) /\ op = first
    <2>1. /\ Asked.memory = <<first>> /\ IsOperation(first, Here, resv)
          /\ \/ op = first
             \/ op = ChainedStore(first, LoadBytes(mem, FirstAccess(first).phys, first.width))
      BY <1>0, <1>2, <1>17 DEF Chosen
    <2>2. ASSUME NEW x, op = ChainedStore(first, x) PROVE FALSE
      BY <2>2, ChainedFields
    <2> QED BY <2>1, <2>2
  <1>19. FirstAccess(first)' = FirstAccess(first)
    BY <1>0, <1>10, LatchedSame DEF FirstAccess
  <1>20. Chosen(first, c)'
    <2>1. c = ChainedStore(first, LoadBytes(mem', FirstAccess(first)'.phys, first.width))
      BY <1>0, <1>3, <1>9, <1>18, <1>19
    <2> QED BY <1>0, <1>6, <1>12, <1>13, <1>18, <1>19, <2>1 DEF Chosen
  <1>21. Pending'
    <2>1. Asked'.memory[1] = first /\ Asked'.memory # <<>> /\ Asked'.next_pc = mo'[1].next_pc
      BY <1>0, <1>11, <1>12, <1>17
    <2>2. fault_pc = regs[15]
      BY <1>0 DEF Sound, Pending
    <2> QED BY <1>0, <1>1, <1>6, <1>11, <1>13, <1>16, <1>20, <2>1, <2>2 DEF Pending
  <1>22. Words' /\ Latches' /\ Walking' /\ Entering' /\ Phases'
    <2>1. Words'
      BY <1>0, <1>8, <1>9, <1>10 DEF Sound, Words
    <2> QED BY <1>0, <1>5, <1>11, <2>1 DEF Latches, Walking, Entering, Phases, States
  <1>23. Inv'
    BY <1>7, <1>8, <1>10, <1>21, <1>22 DEF Inv, Sound
  <1>24. SameWork
    BY <1>2, <1>5, <1>7 DEF SameWork
  <1>25. Arch!Next
    BY <1>0, <1>5, <1>6, <1>8, <1>9, <1>24, IdleStep
  <1> QED BY <1>23, <1>25

\* The data cache answers a load.
LEMMA CacheAnswers ==
  ASSUME Inv, ~locked, BusFree, st = "MEMORY", NEW i, i \in IBus, NEW d, d \in DBus, Units(i, d),
         ~LsuDone(lsu, d), Cached, NEW lines \in SUBSET prog.lines, Quiet(lines),
         NEW op, op = mo[1].op, resv' = IF op.reserve THEN <<op.addr>> ELSE resv,
         wb' = <<MemoryResult(op, CacheLoad(dcache, mo[1].addr, op.width))>>, mo' = <<>>,
         st' = "WRITEBACK", locked' = locked, dcache' = dcache,
         regs' = regs, flags' = flags, fetch_phys' = fetch_phys, cur' = cur, entry' = entry
  PROVE  Inv' /\ (CachedWhole => Arch!Next)
  <1>0. /\ Sound /\ Requesting /\ mo[1].addr \in Word /\ op.width \in 0 .. WordBytes
        /\ mem \in [DOMAIN prog.mem -> Byte]
    BY MemoryFacts
  <1>1. ~op.write /\ SingleLine /\ CacheHit(dcache, mo[1].addr) /\ ~started
    BY DEF Cached
  <1>2. lsu.st = "IDLE" /\ ~Beaten
    BY <1>0, <1>1 DEF BusFree, Beaten
  <1>3. ~Request.write
    BY <1>1, RequestFields
  <1>4. Bus' /\ ~Beaten'
    BY <1>0, <1>3, UnitsLeave
  <1>5. mem' = mem /\ prog' = prog
    BY <1>0, <1>1, BeatWrites
  <1>6. Watchdogs'
    BY <1>0, WatchdogsKept DEF Sound, UnitsRight
  <1>7. IsCache(dcache, mem)
    BY <1>0, <1>2 DEF Sound, UnitsRight
  <1>8. UnitsRight'
    BY <1>4, <1>5, <1>6, <1>7 DEF UnitsRight
  <1>9. PICK v : v = LoadBytes(mem, mo[1].addr, op.width)
    OBVIOUS
  <1>10. CacheLoad(dcache, mo[1].addr, op.width) = v
    <2>1. PICK a, w, D : a = mo[1].addr /\ w = op.width /\ D = DOMAIN prog.mem
      OBVIOUS
    <2>2. /\ a \in Word /\ w \in 0 .. WordBytes /\ mem \in [D -> Byte] /\ (a % WordBytes) + w <= WordBytes
          /\ CacheHit(dcache, a)
      BY <1>0, <1>1, <2>1 DEF SingleLine
    <2>3. CacheLoad(dcache, a, w) = LoadBytes(mem, a, w)
      BY <1>7, <2>2, CacheLoads
    <2> QED BY <1>9, <2>1, <2>3
  <1>11. v \in Word
    BY <1>0, <1>9, LoadWord
  <1>12. wb' = <<MemoryResult(op, v)>>
    BY <1>10
  <1>13. /\ Inv'
         /\ DoneRegs' = WriteBack(regs, MemoryWrites(op, v), MemoryNextPc(op, v, mo[1].next_pc))
         /\ DoneFlags' = IF op.flags = <<>> THEN flags ELSE op.flags[1]
         /\ DoneMemory' = mem' /\ DoneReservation' = resv'
         /\ DoneSpecial' = Latched(sr, lines) /\ Mode' = "run"
    BY <1>0, <1>4, <1>5, <1>8, <1>11, <1>12, LatchSound
  <1>14. ASSUME CachedWhole PROVE Arch!Next
    <2>1. op.chain = <<>>
      BY <1>14 DEF CachedWhole
    <2>2. resv' = Reserved(op)
      BY <1>1 DEF Reserved, AfterStore
    <2> QED BY <1>1, <1>2, <1>5, <1>9, <1>13, <2>1, <2>2, CommitStep
  <1> QED BY <1>13, <1>14

\* The first beat of a store that crosses a bus word: the instruction counts
\* as done.
LEMMA StoreBegins ==
  ASSUME Inv, ~locked, BusFree, st = "MEMORY", NEW i, i \in IBus, NEW d, d \in DBus, Units(i, d),
         ~LsuDone(lsu, d), BeatTaken(lsu, d), NEW op, op = mo[1].op, op.write,
         NEW lines \in SUBSET prog.lines, Quiet(lines),
         st' = st, locked' = locked, resv' = resv, wb' = wb, mo' = mo, dcache' = dcache,
         regs' = regs, flags' = flags, fetch_phys' = fetch_phys, cur' = cur, exe' = exe,
         fault_pc' = fault_pc, walk' = walk, entry' = entry
  PROVE  Inv' /\ Arch!Next
  <1>0. /\ Sound /\ Requesting /\ mo # <<>> /\ entry = <<>> /\ wb = <<>> /\ IsOperation(op, Here, resv)
        /\ mo[1].addr \in Word /\ op.width \in 0 .. WordBytes /\ op.value \in Word
        /\ op.write \in BOOLEAN /\ sr \in [Selectors -> Word] /\ mem \in [DOMAIN prog.mem -> Byte]
    BY MemoryFacts
  <1>1. Request' = Request
    BY DEF Request
  <1>2. /\ Bus' /\ started' /\ lsu'.req = Request
        /\ started /\ lsu.st = "FIRST" /\ lsu.req = Request /\ SplitNeeded(Request)
        /\ lsu'.st = "SECOND" /\ BeatLanes(lsu) = 0 .. (Room(Request) - 1)
    BY <1>0, <1>1, UnitsStay
  <1>3. PICK a, r, w, v : a = mo[1].addr /\ r = Room(Request) /\ w = op.width /\ v = op.value
    OBVIOUS
  <1>4. /\ Request.kind = "data" /\ Request.addr = a /\ Request.width = w /\ Request.value = v
        /\ Request.write
    BY <1>3, RequestFields
  <1>5. r \in 1 .. 4 /\ w > r /\ w \in 0 .. 4
    BY <1>0, <1>2, <1>3, <1>4, SplitLine DEF SplitNeeded, WordBytes
  <1>6. PICK one, all : one = 0 .. (r - 1) /\ all = 0 .. (w - 1)
    OBVIOUS
  <1>7. mem' = StoreBytes(mem, a, one, v) /\ prog' = prog
    BY <1>0, <1>2, <1>3, <1>4, <1>6, BeatWrites
  <1>8. mem' \in [DOMAIN prog.mem -> Byte]
    <2>1. PICK D : D = DOMAIN prog.mem
      OBVIOUS
    <2>2. mem \in [D -> Byte] /\ one \subseteq 0 .. 3 /\ v \in Word
      BY <1>0, <1>3, <1>5, <1>6, <2>1
    <2>3. StoreBytes(mem, a, one, v) \in [D -> Byte]
      BY <2>2, StoreBytesType
    <2> QED BY <1>7, <2>1, <2>3
  <1>9. ~Beaten /\ Beaten'
    BY <1>2, <1>4 DEF Beaten
  <1>10. Watchdogs'
    BY <1>0, WatchdogsKept DEF Sound, UnitsRight
  <1>11. UnitsRight'
    BY <1>2, <1>9, <1>10 DEF UnitsRight
  <1>12. Inv'
    <2>1. Sound'
      BY <1>7, <1>8, <1>9, <1>11, KeptSound
    <2> QED BY <1>7, <2>1 DEF Inv
  <1>13. /\ DoneRegs' = WriteBack(regs, MemoryWrites(op, 0), MemoryNextPc(op, 0, mo[1].next_pc))
         /\ DoneFlags' = IF op.flags = <<>> THEN flags ELSE op.flags[1]
    <2>1. PICK q : q = MemoryResult(op, 0)
      OBVIOUS
    <2>2. /\ q.writes = MemoryWrites(op, 0) /\ q.flags = op.flags
          /\ q.next_pc = MemoryNextPc(op, 0, mo[1].next_pc)
      BY <2>1 DEF MemoryResult
    <2>3. Done' # <<>> /\ Done'[1] = q
      BY <1>9, <2>1 DEF Done, MemoryResult
    <2> QED BY <2>2, <2>3 DEF DoneRegs, DoneFlags
  <1>14. DoneMemory' = StoreBytes(mem, mo[1].addr, 0 .. (op.width - 1), op.value)
    <2>1. DoneMemory' = StoreBytes(mem', a, all, v)
      BY <1>3, <1>6, <1>9 DEF DoneMemory
    <2>2. all = one \cup all
      BY <1>5, <1>6
    <2>3. StoreBytes(StoreBytes(mem, a, one, v), a, all, v) = StoreBytes(mem, a, all, v)
      BY <2>2, StoreTwice
    <2> QED BY <1>3, <1>6, <1>7, <2>1, <2>3
  <1>15. DoneReservation' = Reserved(op)
    <2>1. ~op.reserve
      BY <1>0 DEF IsOperation
    <2>2. DoneReservation' = AfterStore(resv, op)
      BY <1>9 DEF DoneReservation
    <2> QED BY <2>1, <2>2 DEF Reserved
  <1>16. DoneSpecial' = Latched(sr, lines) /\ Mode' = "run"
    <2>1. sr' = Latched(sr, lines)
      BY <1>0, QuietSound
    <2> QED BY <1>0, <2>1 DEF DoneSpecial, Mode
  <1>17. Arch!Next
    BY <1>0, <1>7, <1>9, <1>13, <1>14, <1>15, <1>16, CommitStep
  <1> QED BY <1>12, <1>17

\* The access waits for the bus.
LEMMA AccessWaits ==
  ASSUME Inv, ~locked, BusFree, st = "MEMORY", NEW i, i \in IBus, NEW d, d \in DBus, Units(i, d),
         ~LsuDone(lsu, d), NEW lines \in SUBSET prog.lines, Quiet(lines),
         st' = st, locked' = locked, resv' = resv, wb' = wb, mo' = mo, dcache' = dcache,
         regs' = regs, flags' = flags, fetch_phys' = fetch_phys, cur' = cur, exe' = exe,
         fault_pc' = fault_pc, walk' = walk, entry' = entry
  PROVE  Inv' /\ Arch!Next
  <1>0. Sound /\ Requesting /\ mo[1].op.write \in BOOLEAN
    BY MemoryFacts
  <1>1. CASE BeatTaken(lsu, d) /\ mo[1].op.write
    BY <1>1, StoreBegins
  <1>2. CASE ~(BeatTaken(lsu, d) /\ mo[1].op.write)
    <2>1. Request' = Request
      BY DEF Request
    <2>2. /\ Bus' /\ lsu'.req = Request
          /\ BeatTaken(lsu, d) => started /\ lsu.st = "FIRST" /\ lsu.req = Request
          /\ ~BeatTaken(lsu, d) => mem' = mem /\ (lsu'.st = "SECOND" <=> lsu.st = "SECOND")
      BY <1>0, <2>1, UnitsStay
    <2>3. Request.write = mo[1].op.write
      BY RequestFields
    <2>4. mem' = mem /\ prog' = prog
      BY <1>0, <1>2, <2>2, <2>3, BeatWrites
    <2>5. lsu.st = "SECOND" => lsu.req = Request
      BY <1>0 DEF BusFree, Sound, UnitsRight, Bus
    <2>6. Beaten' <=> Beaten
      BY <1>2, <2>2, <2>3, <2>5 DEF Beaten
    <2>7. Watchdogs'
      BY <1>0, WatchdogsKept DEF Sound, UnitsRight
    <2>8. UnitsRight'
      BY <1>0, <2>2, <2>4, <2>6, <2>7 DEF Sound, UnitsRight
    <2> QED BY <2>4, <2>6, <2>8, StayStep
  <1> QED BY <1>1, <1>2

\* MEMORY: the cache or the LSU answers, or neither yet.
LEMMA MemoryStep ==
  ASSUME Inv, ~locked, BusFree, HitsMemory, NEW i, i \in IBus, NEW d, d \in DBus,
         NEW lines \in SUBSET prog.lines, Memory(d, lines), Units(i, d)
  PROVE  Inv' /\ (CachedWhole => Arch!Next)
  <1>0. /\ st = "MEMORY" /\ Quiet(lines) /\ regs' = regs /\ flags' = flags
        /\ fetch_phys' = fetch_phys /\ cur' = cur /\ exe' = exe
        /\ fault_pc' = fault_pc /\ walk' = walk /\ entry' = entry
    BY DEF Memory
  <1>1. Sound /\ Requesting /\ prog' = prog
    BY <1>0 DEF Inv, Requesting, Units
  <1>2. PICK op : op = mo[1].op
    OBVIOUS
  <1>3. CASE LsuError(lsu, d)
    <2>1. locked' = TRUE
      BY <1>3 DEF Memory, EnterLockup, LsuDone
    <2>2. prog.faulty /\ st # "HALTED"
      BY <1>0, <1>1, <1>3, DataBus DEF Sound, UnitsRight
    <2> QED BY <1>1, <2>1, <2>2, LockStep
  <1>4. CASE LsuDone(lsu, d) /\ ~LsuError(lsu, d)
    <2>1. started
      BY <1>1, <1>4, OwnAnswer
    <2>2. ~Cached
      BY <2>1 DEF Cached
    <2>3. MemoryAnswer(op, LsuLoad(lsu, mem))
      BY <1>2, <1>4, <2>2 DEF Memory
    <2>4. CASE op.chain = <<>>
      BY <1>0, <1>2, <1>4, <2>3, <2>4, AccessEnds
    <2>5. CASE op.chain # <<>>
      BY <1>0, <1>2, <1>4, <2>3, <2>5, AccessChains
    <2> QED BY <2>4, <2>5
  <1>5. CASE ~LsuDone(lsu, d) /\ Cached
    <2>1. /\ resv' = IF op.reserve THEN <<op.addr>> ELSE resv
          /\ wb' = <<MemoryResult(op, CacheLoad(dcache, mo[1].addr, op.width))>> /\ mo' = <<>>
          /\ st' = "WRITEBACK" /\ locked' = locked /\ dcache' = dcache
      BY <1>2, <1>5 DEF Memory, Goto
    <2> QED BY <1>0, <1>2, <1>5, <2>1, CacheAnswers
  <1>6. CASE ~LsuDone(lsu, d) /\ ~Cached
    <2>1. st' = st /\ locked' = locked /\ resv' = resv /\ wb' = wb /\ mo' = mo /\ dcache' = dcache
      BY <1>6 DEF Memory
    <2> QED BY <1>0, <1>6, <2>1, AccessWaits
  <1> QED BY <1>3, <1>4, <1>5, <1>6

-----------------------------------------------------------------------------
\* a core that is locked stays locked
Locking == locked' = locked \/ locked' = TRUE

\* Every transfer of control leaves a locked core locked.
LEMMA TransferLocks ==
  /\ locked' = locked => Locking
  /\ EnterLockup => Locking
  /\ \A s : Goto(s) => Locking
  BY DEF Locking, EnterLockup, Goto

\* So does every trap, entry and walk that starts.
LEMMA EntryLocks ==
  /\ \A v, e, t, l : BeginInterruptEntry(v, e, t, l) => Locking
  /\ \A va, access, kind : StartWalk(va, access, kind) => Locking
  /\ \A t, l : RaiseSyncTrap(t, l) => Locking
  <1>1. \A v, e, t, l : BeginInterruptEntry(v, e, t, l) => Locking
    BY TransferLocks DEF BeginInterruptEntry
  <1>2. \A va, access, kind : StartWalk(va, access, kind) => Locking
    BY TransferLocks DEF StartWalk
  <1>3. \A t, l : RaiseSyncTrap(t, l) => Locking
    <2> SUFFICES ASSUME NEW t, NEW l, RaiseSyncTrap(t, l) PROVE Locking
      OBVIOUS
    <2>1. CASE PreemptLockup(sr[CPU_CONTROL], t.cause)
      BY <2>1, TransferLocks DEF RaiseSyncTrap
    <2>2. CASE ~PreemptLockup(sr[CPU_CONTROL], t.cause)
      BY <2>2, <1>1 DEF RaiseSyncTrap
    <2> QED BY <2>1, <2>2
  <1> QED BY <1>1, <1>2, <1>3

\* The three outcomes of a translation.
LEMMA TranslationCases ==
  ASSUME NEW va, NEW access
  PROVE  Translation(va, access) \in {"fault", "done", "walk"}
  BY DEF Translation

\* Every action leaves the program and a locked core alone.
LEMMA StepLocks ==
  ASSUME Next
  PROVE  prog' = prog /\ Locking
  <1>0. PICK i \in IBus, d \in DBus, lines \in SUBSET prog.lines :
          /\ \/ FetchTranslate(lines) \/ FetchRequest(i, lines) \/ Decode(lines)
             \/ /\ st = "EXECUTE"
                /\ \E o \in {Outputs} :
                      ExecuteRegister(o, lines) \/ ExecuteTrap(o, lines) \/ ExecuteMemory(o, lines)
             \/ ExecuteComplete(lines) \/ Writeback(lines)
             \/ MemTranslate(lines) \/ Memory(d, lines)
             \/ Walk(d, lines) \/ WalkProcess(lines)
             \/ InterruptVectorTranslate(lines) \/ InterruptVectorLoad(d, lines)
             \/ Stopped(lines)
          /\ Units(i, d)
    BY DEF Next
  <1>p. prog' = prog
    BY <1>0 DEF Units
  <1> SUFFICES Locking
    BY <1>p
  <1>1. CASE FetchTranslate(lines)
    <2> DEFINE odd == regs[15] % 2 = 1
               irq == IrqTaken(PendingIrq(sr, lines))
               xl == Translation(regs[15], "X")
    <2>1. CASE odd \/ (~irq /\ xl = "fault")
      BY <1>1, <2>1, EntryLocks DEF FetchTranslate
    <2>2. CASE ~(odd \/ (~irq /\ xl = "fault")) /\ irq
      BY <1>1, <2>2, EntryLocks DEF FetchTranslate
    <2>3. CASE ~(odd \/ (~irq /\ xl = "fault")) /\ ~irq /\ xl = "done"
      BY <1>1, <2>3, TransferLocks DEF FetchTranslate
    <2>4. CASE ~(odd \/ (~irq /\ xl = "fault")) /\ ~irq /\ xl # "done"
      BY <1>1, <2>4, EntryLocks DEF FetchTranslate
    <2> QED BY <2>1, <2>2, <2>3, <2>4
  <1>2. CASE FetchRequest(i, lines)
    <2>1. CASE FetchError(fe, i)
      BY <1>2, <2>1, TransferLocks DEF FetchRequest
    <2>2. CASE ~FetchError(fe, i) /\ LineHit(fe, LineOf(fetch_phys))
      BY <1>2, <2>2, TransferLocks DEF FetchRequest
    <2>3. CASE ~FetchError(fe, i) /\ ~LineHit(fe, LineOf(fetch_phys))
      <3>1. locked' = locked
        BY <1>2, <2>3 DEF FetchRequest
      <3> QED BY <3>1, TransferLocks
    <2> QED BY <2>1, <2>2, <2>3
  <1>3. CASE Decode(lines) \/ ExecuteComplete(lines) \/ Writeback(lines) \/ Stopped(lines)
    <2>1. CASE Decode(lines)
      BY <2>1, TransferLocks DEF Decode
    <2>2. CASE ExecuteComplete(lines)
      BY <2>2, TransferLocks DEF ExecuteComplete
    <2>3. CASE Writeback(lines)
      BY <2>3, TransferLocks DEF Writeback
    <2>4. CASE Stopped(lines)
      BY <2>4 DEF Stopped, Locking
    <2> QED BY <1>3, <2>1, <2>2, <2>3, <2>4
  <1>4. ASSUME NEW o, ExecuteRegister(o, lines) \/ ExecuteTrap(o, lines) \/ ExecuteMemory(o, lines)
        PROVE  Locking
    <2>1. CASE ExecuteRegister(o, lines)
      BY <2>1, TransferLocks DEF ExecuteRegister
    <2>2. CASE ExecuteTrap(o, lines)
      BY <2>2, EntryLocks DEF ExecuteTrap
    <2>3. CASE ExecuteMemory(o, lines)
      BY <2>3, TransferLocks DEF ExecuteMemory
    <2> QED BY <1>4, <2>1, <2>2, <2>3
  <1>5. CASE MemTranslate(lines)
    <2>1. Translation(mo[1].op.addr, IF mo[1].op.write THEN "W" ELSE "R") \in {"fault", "done", "walk"}
      BY TranslationCases
    <2> DEFINE xl == Translation(mo[1].op.addr, IF mo[1].op.write THEN "W" ELSE "R")
    <2>2. CASE xl = "fault"
      BY <1>5, <2>2, EntryLocks DEF MemTranslate
    <2>3. CASE xl = "done"
      BY <1>5, <2>3, TransferLocks DEF MemTranslate
    <2>4. CASE xl = "walk"
      BY <1>5, <2>4, EntryLocks DEF MemTranslate
    <2> QED BY <2>1, <2>2, <2>3, <2>4
  <1>6. CASE Memory(d, lines)
    <2>1. \A op, l : MemoryAnswer(op, l) => Locking
      <3> SUFFICES ASSUME NEW op, NEW l, MemoryAnswer(op, l) PROVE Locking
        OBVIOUS
      <3>1. CASE op.chain # <<>>
        BY <3>1, TransferLocks DEF MemoryAnswer
      <3>2. CASE op.chain = <<>>
        BY <3>2, TransferLocks DEF MemoryAnswer
      <3> QED BY <3>1, <3>2
    <2>2. CASE LsuDone(lsu, d) /\ LsuError(lsu, d)
      BY <1>6, <2>2, TransferLocks DEF Memory
    <2>3. CASE LsuDone(lsu, d) /\ ~LsuError(lsu, d)
      BY <1>6, <2>1, <2>3 DEF Memory
    <2>4. CASE ~LsuDone(lsu, d) /\ Cached
      BY <1>6, <2>4, TransferLocks DEF Memory
    <2>5. CASE ~LsuDone(lsu, d) /\ ~Cached
      <3>1. locked' = locked
        BY <1>6, <2>5 DEF Memory
      <3> QED BY <3>1, TransferLocks
    <2> QED BY <2>2, <2>3, <2>4, <2>5
  <1>7. CASE Walk(d, lines)
    <2>1. CASE ~LsuDone(lsu, d)
      <3>1. locked' = locked
        BY <1>7, <2>1 DEF Walk
      <3> QED BY <3>1, TransferLocks
    <2>2. CASE LsuDone(lsu, d) /\ LsuError(lsu, d)
      BY <1>7, <2>2, TransferLocks DEF Walk
    <2>3. CASE LsuDone(lsu, d) /\ ~LsuError(lsu, d)
      BY <1>7, <2>3, TransferLocks DEF Walk
    <2> QED BY <2>1, <2>2, <2>3
  <1>8. CASE WalkProcess(lines)
    <2> DEFINE fault == WalkFault(walk[1].pte, walk[1].level, walk[1].access, User)
    <2>1. CASE fault # <<>> /\ walk[1].kind = "vector"
      BY <1>8, <2>1, TransferLocks DEF WalkProcess
    <2>2. CASE fault # <<>> /\ walk[1].kind # "vector"
      BY <1>8, <2>2, EntryLocks DEF WalkProcess
    <2>3. CASE fault = <<>> /\ WalkIsLeaf(walk[1].pte)
      BY <1>8, <2>3, TransferLocks DEF WalkProcess
    <2>4. CASE fault = <<>> /\ ~WalkIsLeaf(walk[1].pte)
      BY <1>8, <2>4, TransferLocks DEF WalkProcess
    <2> QED BY <2>1, <2>2, <2>3, <2>4
  <1>9. CASE InterruptVectorTranslate(lines)
    <2>1. Translation(Plus(sr[INTERRUPT_TABLE_BASE], entry[1].vector), "R") \in {"fault", "done", "walk"}
      BY TranslationCases
    <2> DEFINE xl == Translation(Plus(sr[INTERRUPT_TABLE_BASE], entry[1].vector), "R")
    <2>2. CASE xl = "fault"
      BY <1>9, <2>2, TransferLocks DEF InterruptVectorTranslate
    <2>3. CASE xl = "done"
      BY <1>9, <2>3, TransferLocks DEF InterruptVectorTranslate
    <2>4. CASE xl = "walk"
      BY <1>9, <2>4, EntryLocks DEF InterruptVectorTranslate
    <2> QED BY <2>1, <2>2, <2>3, <2>4
  <1>10. CASE InterruptVectorLoad(d, lines)
    <2>1. CASE ~LsuDone(lsu, d)
      <3>1. locked' = locked
        BY <1>10, <2>1 DEF InterruptVectorLoad
      <3> QED BY <3>1, TransferLocks
    <2>2. CASE LsuDone(lsu, d) /\ (LsuError(lsu, d) \/ LsuLoad(lsu, mem) = 0)
      BY <1>10, <2>2, TransferLocks DEF InterruptVectorLoad
    <2>3. CASE LsuDone(lsu, d) /\ ~(LsuError(lsu, d) \/ LsuLoad(lsu, mem) = 0)
      BY <1>10, <2>3, TransferLocks DEF InterruptVectorLoad
    <2> QED BY <2>1, <2>2, <2>3
  <1> QED BY <1>0, <1>1, <1>2, <1>3, <1>4, <1>5, <1>6, <1>7, <1>8, <1>9, <1>10

\* One step of the core keeps it sound, and is one step of the machine.
LEMMA StepImplements ==
  ASSUME Inv, Next, BusFree, HitsMemory
  PROVE  Inv' /\ (CachedWhole /\ ScrClears => Arch!Next)
  <1>1. CASE locked
    BY <1>1, StepLocks, LockedStep DEF Locking
  <1>2. CASE ~locked
    <2>0. PICK i \in IBus, d \in DBus, lines \in SUBSET prog.lines :
          /\ \/ FetchTranslate(lines) \/ FetchRequest(i, lines) \/ Decode(lines)
             \/ /\ st = "EXECUTE"
                /\ \E o \in {Outputs} :
                      ExecuteRegister(o, lines) \/ ExecuteTrap(o, lines) \/ ExecuteMemory(o, lines)
             \/ ExecuteComplete(lines) \/ Writeback(lines)
             \/ MemTranslate(lines) \/ Memory(d, lines)
             \/ Walk(d, lines) \/ WalkProcess(lines)
             \/ InterruptVectorTranslate(lines) \/ InterruptVectorLoad(d, lines)
             \/ Stopped(lines)
          /\ Units(i, d)
      BY DEF Next
    <2>s. Sound
      BY <1>2 DEF Inv
    <2>c. ~Requesting /\ dcache' = dcache => Calm
      BY <2>0, <2>s, CalmUnits
    <2>1. CASE FetchTranslate(lines)
      <3>1. Calm
        BY <2>1, <2>c DEF FetchTranslate, Requesting
      <3> QED BY <1>2, <2>1, <3>1, FetchTranslateStep
    <2>2. CASE FetchRequest(i, lines)
      <3>1. Calm
        BY <2>2, <2>c DEF FetchRequest, Requesting
      <3> QED BY <1>2, <2>0, <2>2, <3>1, FetchRequestStep
    <2>3. CASE Decode(lines)
      <3>1. Calm
        BY <2>3, <2>c DEF Decode, Requesting
      <3> QED BY <1>2, <2>3, <3>1, DecodeStep
    <2>4. CASE st = "EXECUTE" /\ ExecuteRegister(Outputs, lines)
      <3>1. Calm
        BY <2>4, <2>c DEF ExecuteRegister, Requesting
      <3> QED BY <1>2, <2>4, <3>1, ExecuteRegisterStep
    <2>5. CASE st = "EXECUTE" /\ ExecuteTrap(Outputs, lines)
      <3>1. Calm
        BY <2>5, <2>c DEF ExecuteTrap, Requesting
      <3> QED BY <1>2, <2>5, <3>1, ExecuteTrapStep
    <2>6. CASE st = "EXECUTE" /\ ExecuteMemory(Outputs, lines)
      <3>1. Calm
        BY <2>6, <2>c DEF ExecuteMemory, Requesting
      <3> QED BY <1>2, <2>6, <3>1, ExecuteMemoryStep
    <2>7. CASE ExecuteComplete(lines)
      <3>1. Calm
        BY <2>7, <2>c DEF ExecuteComplete, Requesting
      <3> QED BY <1>2, <2>7, <3>1, ExecuteCompleteStep
    <2>8. CASE Writeback(lines)
      <3>1. Calm
        BY <2>8, <2>c DEF Writeback, Requesting
      <3> QED BY <1>2, <2>8, <3>1, WritebackStep
    <2>9. CASE MemTranslate(lines)
      <3>1. Calm
        BY <2>9, <2>c DEF MemTranslate, Requesting
      <3> QED BY <1>2, <2>9, <3>1, MemTranslateStep
    <2>10. CASE Memory(d, lines)
      BY <1>2, <2>0, <2>10, MemoryStep
    <2>11. CASE Walk(d, lines)
      BY <1>2, <2>0, <2>11, WalkStep
    <2>12. CASE WalkProcess(lines)
      <3>1. Calm
        BY <2>12, <2>c DEF WalkProcess, Requesting
      <3> QED BY <1>2, <2>12, <3>1, WalkProcessStep
    <2>13. CASE InterruptVectorTranslate(lines)
      <3>1. Calm
        BY <2>13, <2>c DEF InterruptVectorTranslate, Requesting
      <3> QED BY <1>2, <2>13, <3>1, InterruptVectorTranslateStep
    <2>14. CASE InterruptVectorLoad(d, lines)
      BY <1>2, <2>0, <2>14, InterruptVectorLoadStep
    <2>15. CASE Stopped(lines)
      <3>1. Calm
        BY <2>15, <2>c DEF Stopped, Requesting
      <3> QED BY <1>2, <2>15, <3>1, StoppedStep
    <2> QED BY <2>0, <2>1, <2>2, <2>3, <2>4, <2>5, <2>6, <2>7, <2>8, <2>9, <2>10, <2>11, <2>12, <2>13, <2>14, <2>15
  <1> QED BY <1>1, <1>2

\* The core starts sound, and as the machine does.
LEMMA InitSound ==
  ASSUME Init
  PROVE  Inv /\ Arch!Init
  <1>0. /\ prog \in Programs /\ IsProgram(prog)
        /\ regs = prog.regs /\ mem = prog.mem /\ sr = prog.sr /\ tlb = TlbReset
        /\ st = "FETCH_TRANSLATE" /\ locked = FALSE /\ mo = <<>> /\ entry = <<>> /\ walk = <<>>
        /\ wb = <<>> /\ fetch_phys = regs[15] /\ cur = Unassigned /\ ~started /\ started \in BOOLEAN
        /\ fe = FrontendReset /\ lsu = LsuReset /\ dcache = CacheReset
    BY ProgramsAssumption DEF Init
  <1>1. /\ regs \in [DOMAIN prog.regs -> Word] /\ (0 \in DOMAIN regs => regs[0] = 0) /\ regs[15] \in Word
        /\ sr \in [Selectors -> Word] /\ mem \in [DOMAIN prog.mem -> Byte]
    BY <1>0 DEF IsProgram
  <1>2. IsInstruction(cur, DOMAIN prog.regs)
    <2>1. Unassigned.op = "ILLEGAL" /\ Unassigned.rd = 0 /\ Unassigned.rs1 = 0 /\ Unassigned.imm = 0
          /\ Unassigned.width = 0 /\ Unassigned.pcrel \in BOOLEAN
      BY DEF Unassigned
    <2> QED BY <1>0, <2>1 DEF IsInstruction, Opcodes, Word, WordBytes
  <1>3. Words
    BY <1>0, <1>1, <1>2 DEF Words
  <1>4. Pending /\ Latches /\ Walking /\ Entering /\ Phases
    BY <1>0 DEF Pending, Latches, Walking, Entering, Phases, States
  <1>5. GenerationsPast(tlb) /\ Agrees(tlb, PageOf(sr[PAGE_TABLE_ROOT]))
    BY <1>0, ResetPast DEF Agrees, Live
  <1>6. /\ DOMAIN lsu = {"st", "started", "req", "first", "wd"} /\ lsu.st = "IDLE" /\ ~lsu.started
        /\ lsu.started \in BOOLEAN /\ lsu.wd = 0 /\ ~lsu.req.write
    BY <1>0 DEF LsuReset, NoRequest
  <1>7. /\ DOMAIN fe = {"valid", "base", "req", "cancelled", "rbase", "wd"} /\ ~fe.req
        /\ fe.req \in BOOLEAN /\ fe.wd = 0
    BY <1>0 DEF FrontendReset
  <1>8. UnitsRight
    <2>1. Bus
      BY <1>0, <1>6 DEF Bus
    <2>2. Watchdogs
      BY <1>6, <1>7, V2Assumption DEF Watchdogs
    <2>3. IsCache(dcache, mem)
      BY <1>0, CacheFlushes
    <2> QED BY <2>1, <2>2, <2>3 DEF UnitsRight
  <1>9. Inv
    BY <1>0, <1>3, <1>4, <1>5, <1>8 DEF Inv, Sound
  <1>10. Plain
    BY <1>0, <1>6 DEF Plain, Beaten
  <1>11. DoneRegs = regs /\ DoneFlags = flags /\ DoneMemory = mem /\ DoneReservation = resv
         /\ DoneSpecial = sr /\ Mode = "run"
    BY <1>10, PlainDone
  <1>12. Arch!Init
    BY <1>11 DEF Init, Arch!Init
  <1> QED BY <1>9, <1>12

\* A step that changes nothing
LEMMA StutterSame ==
  ASSUME Inv, UNCHANGED vars
  PROVE  Inv' /\ UNCHANGED Arch!vars
  <1>0. /\ prog' = prog /\ regs' = regs /\ flags' = flags /\ resv' = resv /\ mem' = mem /\ sr' = sr
        /\ st' = st /\ locked' = locked /\ fetch_phys' = fetch_phys /\ cur' = cur /\ exe' = exe
        /\ wb' = wb /\ mo' = mo /\ fault_pc' = fault_pc /\ walk' = walk /\ entry' = entry
        /\ started' = started /\ fe' = fe /\ lsu' = lsu /\ dcache' = dcache /\ tlb' = tlb
    BY DEF vars, arch
  <1>1. Words' = Words /\ Latches' = Latches
    BY <1>0 DEF Words, Latches
  <1>2. PcMapped' = PcMapped /\ PcPhys' = PcPhys /\ Here' = Here
    BY <1>0 DEF PcMapped, PcPhys, Here
  <1>3. Asked' = Asked /\ (Beaten' <=> Beaten) /\ Request' = Request
    BY <1>0, <1>2 DEF Asked, Beaten, Request
  <1>4. \A op : FirstAccess(op)' = FirstAccess(op)
    BY <1>0 DEF FirstAccess
  <1>5. \A first, op : Chosen(first, op)' <=> Chosen(first, op)
    BY <1>0, <1>2, <1>3, <1>4 DEF Chosen
  <1>6. Pending' <=> Pending
    BY <1>0, <1>2, <1>3, <1>5 DEF Pending
  <1>7. Walking' = Walking /\ Entering' = Entering
    BY <1>0 DEF Walking, Entering, TableVa, Paging
  <1>8. Phases' = Phases
    BY <1>0, <1>2, <1>4 DEF Phases, TableVa
  <1>9. UnitsRight' <=> UnitsRight
    <2>1. Bus' <=> Bus
      BY <1>0, <1>3 DEF Bus, Requesting
    <2>2. Watchdogs' <=> Watchdogs
      BY <1>0 DEF Watchdogs
    <2> QED BY <1>0, <1>3, <2>1, <2>2 DEF UnitsRight
  <1>10. Inv'
    BY <1>0, <1>1, <1>6, <1>7, <1>8, <1>9 DEF Inv, Sound
  <1>11. Done' = Done
    BY <1>0, <1>3 DEF Done, MemoryResult
  <1>12. /\ DoneRegs' = DoneRegs /\ DoneFlags' = DoneFlags /\ DoneMemory' = DoneMemory
         /\ DoneReservation' = DoneReservation /\ DoneSpecial' = DoneSpecial /\ Mode' = Mode
    BY <1>0, <1>3, <1>11 DEF DoneRegs, DoneFlags, DoneMemory, DoneReservation, DoneSpecial, Mode
  <1>13. UNCHANGED Arch!vars
    BY <1>0, <1>12 DEF Arch!vars
  <1> QED BY <1>10, <1>13

\* A cache whose lines are memory agrees with it.
LEMMA SoundAgrees == Inv => CacheAgrees
  <1> SUFFICES ASSUME Inv, lsu.st = "IDLE", ~locked,
                      NEW k \in DOMAIN dcache, dcache[k] # <<>>
               PROVE  dcache[k][1].data = LoadBytes(mem, dcache[k][1].tag * WordBytes, WordBytes)
    BY DEF CacheAgrees
  <1>1. IsCache(dcache, mem)
    BY DEF Inv, Sound, UnitsRight, Beaten
  <1>2. PICK tag \in 0 .. 63 : dcache[k] = <<[tag |-> tag, data |-> LoadBytes(mem, tag * WordBytes, WordBytes)]>>
    BY <1>1 DEF IsCache, IsLine
  <1> QED BY <1>2

\* The data cache never disagrees with memory, for every program, number of
\* lines, bus and watchdog, whatever is stored, filled or flushed and however
\* the accesses interleave with walks, traps and interrupts.  The core keeps
\* that for itself only while it waits for its own bus accesses (BusFree) and
\* caches memory only (HitsMemory).
THEOREM V2CacheAgrees == Spec /\ []BusFree /\ []HitsMemory => []CacheAgrees
  <1>1. Init => Inv
    BY InitSound
  <1>2. Inv /\ [Next]_vars /\ BusFree /\ HitsMemory => Inv'
    BY StepImplements, StutterSame
  <1>3. Inv => CacheAgrees
    BY SoundAgrees
  <1> QED BY <1>1, <1>2, <1>3, PTL DEF Spec

\* Every translation the TLB can answer with is the walk of the tables from
\* the present root, for every program, page table, bus and unit size: a walk
\* reads its own answers, and nothing writes the root under it.
THEOREM V2TlbAgrees == Spec /\ []BusFree /\ []HitsMemory => []TlbAgrees
  <1>1. Init => Inv
    BY InitSound
  <1>2. Inv /\ [Next]_vars /\ BusFree /\ HitsMemory => Inv'
    BY StepImplements, StutterSame
  <1>3. Inv => TlbAgrees
    BY AgreesLive DEF Inv, Sound, TlbAgrees
  <1> QED BY <1>1, <1>2, <1>3, PTL DEF Spec

\* The V2 core implements the machine: every cycle, with the frontend, the
\* LSU, the cache and the watchdogs running beside the switch, accesses in
\* one beat or two, walks and hits in the TLB, traps, interrupts and lockups,
\* is one step of Isa or none.  What the core does otherwise is excluded: a
\* request left behind on the bus answers for the next one (BusFree), the
\* cache forgets the store of a PC-relative PUSH or POP (CachedWhole), a
\* store-conditional that fails keeps the reservation (ScrClears), and a
\* device would be cached (HitsMemory).
THEOREM V2Implements ==
  Spec /\ []BusFree /\ []HitsMemory /\ []CachedWhole /\ []ScrClears => ImplementsIsa
  <1>1. Init => Inv /\ Arch!Init
    BY InitSound
  <1>2. /\ Inv /\ [Next]_vars /\ BusFree /\ HitsMemory /\ CachedWhole /\ ScrClears
        => Inv' /\ [Arch!Next]_(Arch!vars)
    BY StepImplements, StutterSame
  <1> QED BY <1>1, <1>2, PTL DEF Spec, ImplementsIsa, Arch!Spec

-----------------------------------------------------------------------------
\* the LSU works only for a state that waits for it
Awaited == (started => Requesting) /\ (~started => lsu.st = "IDLE")

\* A state waits until the LSU is done, unless the cache answers.
LEMMA StepAwaited ==
  ASSUME CacheLines = 0, Awaited, Next
  PROVE  Awaited'
  <1>0. PICK i \in IBus, d \in DBus, lines \in SUBSET prog.lines :
          /\ \/ FetchTranslate(lines) \/ FetchRequest(i, lines) \/ Decode(lines)
             \/ /\ st = "EXECUTE"
                /\ \E o \in {Outputs} :
                      ExecuteRegister(o, lines) \/ ExecuteTrap(o, lines) \/ ExecuteMemory(o, lines)
             \/ ExecuteComplete(lines) \/ Writeback(lines)
             \/ MemTranslate(lines) \/ Memory(d, lines)
             \/ Walk(d, lines) \/ WalkProcess(lines)
             \/ InterruptVectorTranslate(lines) \/ InterruptVectorLoad(d, lines)
             \/ Stopped(lines)
          /\ Units(i, d)
    BY DEF Next
  <1>1. lsu' = LsuClock(lsu, d, LsuRequest, mem) /\ started' = (Requesting /\ st' = st)
    BY <1>0 DEF Units, V2LsuClock
  <1>2. ~Cached
    BY DEF Cached, CacheHit
  <1>3. Requesting /\ ~LsuDone(lsu, d) => st' = st
    BY <1>0, <1>2 DEF Requesting, FetchTranslate, FetchRequest, Decode, ExecuteComplete, Writeback, MemTranslate,
                      Memory, Walk, WalkProcess, InterruptVectorTranslate, InterruptVectorLoad, Stopped
  <1>4. LsuDone(lsu, d) => lsu'.st = "IDLE"
    <2>1. LsuDone(lsu, d) => lsu.st # "IDLE" /\ lsu.started
      BY DEF LsuDone, LsuError, BeatTaken, LsuActive
    <2>2. LsuReset.st = "IDLE"
      BY DEF LsuReset
    <2> QED BY <1>1, <2>1, <2>2 DEF LsuClock, LsuReady
  <1>5. ~Requesting /\ lsu.st = "IDLE" => lsu'.st = "IDLE"
    BY <1>1 DEF LsuClock, LsuReady, LsuRequest
  <1>6. started' => Requesting'
    BY <1>1 DEF Requesting
  <1>7. ~started' => lsu'.st = "IDLE"
    <2>1. CASE ~Requesting
      BY <1>5, <2>1 DEF Awaited
    <2>2. CASE Requesting
      BY <1>1, <1>3, <1>4, <2>2
    <2> QED BY <2>1, <2>2
  <1> QED BY <1>6, <1>7 DEF Awaited

\* Without a cache every access waits for its answer, so the next one finds
\* the LSU idle and no answer comes from a line.
LEMMA UncachedFree ==
  ASSUME CacheLines = 0, Awaited
  PROVE  BusFree /\ HitsMemory /\ CachedWhole
  <1>1. \A c, a : ~CacheHit(c, a)
    BY DEF CacheHit
  <1>2. ~Cached
    BY <1>1 DEF Cached
  <1> QED BY <1>1, <1>2 DEF Awaited, BusFree, HitsMemory, CachedWhole

\* What holds of such a core in every state.
LEMMA UncachedStep ==
  ASSUME CacheLines = 0, Inv, Awaited, [Next]_vars
  PROVE  Inv' /\ Awaited' /\ (ScrClears => [Arch!Next]_(Arch!vars))
  <1>1. BusFree /\ HitsMemory /\ CachedWhole
    BY UncachedFree
  <1>2. CASE Next
    BY <1>1, <1>2, StepAwaited, StepImplements
  <1>3. CASE UNCHANGED vars
    <2>1. Awaited'
      BY <1>3 DEF vars, Awaited, Requesting
    <2> QED BY <1>3, <2>1, StutterSame
  <1> QED BY <1>2, <1>3

\* It starts so.
LEMMA UncachedInit == Init => Inv /\ Arch!Init /\ Awaited
  <1>1. Init => Awaited
    BY DEF Init, Awaited, LsuReset
  <1> QED BY <1>1, InitSound

\* A core built without a data cache (cache_topology none) needs no
\* hypothesis on its bus: its TLB answers with the walk of the tables from the
\* present root whatever the program, the buses and the lines do.
THEOREM V2UncachedTlbAgrees ==
  ASSUME CacheLines = 0
  PROVE  Spec => []TlbAgrees
  <1>1. Inv /\ Awaited /\ [Next]_vars => Inv' /\ Awaited'
    BY UncachedStep
  <1>2. Inv => TlbAgrees
    BY AgreesLive DEF Inv, Sound, TlbAgrees
  <1> QED BY UncachedInit, <1>1, <1>2, PTL DEF Spec

\* Such a core implements the machine of Isa whatever the buses do, as long
\* as a store-conditional fails only when there is no reservation.
THEOREM V2UncachedImplements ==
  ASSUME CacheLines = 0
  PROVE  Spec /\ []ScrClears => ImplementsIsa
  <1>1. Inv /\ Awaited /\ [Next]_vars /\ ScrClears => Inv' /\ Awaited' /\ [Arch!Next]_(Arch!vars)
    BY UncachedStep
  <1> QED BY UncachedInit, <1>1, PTL DEF Spec, ImplementsIsa, Arch!Spec
=============================================================================
