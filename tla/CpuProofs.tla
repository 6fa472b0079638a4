----------------------------- MODULE CpuProofs -----------------------------
(***************************************************************************)
(* For any address space, vector table, guest and set of devices: no       *)
(* exception is lost, no IRQ overlooked, nesting descends, trap frames     *)
(* are exact and user mode is left only through a trap entry.              *)
(***************************************************************************)
EXTENDS Cpu, TLAPS, WellFoundedInduction, NaturalsInduction

-----------------------------------------------------------------------------
(* Types. *)

\* The parameters: addresses wrap around at PcSize.
LEMMA PcFacts ==
    /\ PcSize \in Nat /\ PcSize > 2
    /\ \A i \in Int : i % PcSize \in Pc
    /\ Pc \subseteq Int /\ 0 \in Pc
  BY CpuAssumption DEF Pc

\* The vectors: page faults are exceptions, IRQs are vectors above them.
LEMMA VectorFacts ==
    /\ PageFaults \subseteq Exceptions /\ Exceptions \subseteq Vectors
    /\ Irqs \subseteq Vectors /\ Irqs \subseteq Nat
<1>1. PageFaults \subseteq 5 .. 8 /\ Irqs \subseteq IrqVectors
  BY CpuAssumption
<1>2. QED
  BY <1>1 DEF Exceptions, Vectors, IrqVectors

\* registers = {} is well typed.
LEMMA PowerOnType ==
    ASSUME NEW entry \in Pc
    PROVE  PowerOn(entry) \in Registers
<1>1. [ie |-> FALSE, inInt |-> FALSE, cur |-> NoTrap, paging |-> FALSE,
       user |-> FALSE] \in Control
  BY DEF Control, NoTrap, Vectors
<1>2. QED
  BY <1>1, PcFacts DEF PowerOn, Registers, NoTrap, Vectors

\* Registers field by field, so that a step need only look at what it sets.
LEMMA RegistersFields ==
    ASSUME NEW s \in Registers
    PROVE  /\ s.pc \in Pc /\ s.epc \in Pc /\ s.tpc \in Pc
           /\ s.ctl \in Control /\ s.ictl \in Control
           /\ s.cause \in Vectors /\ s.run \in BOOLEAN
           /\ s.pend \in SUBSET Irqs /\ s.mask \in SUBSET Irqs
  BY DEF Registers

\* Writing a well-typed value into a field keeps the registers well typed.
LEMMA RegistersSet ==
    ASSUME NEW s \in Registers
    PROVE  /\ \A v \in Pc : /\ [s EXCEPT !.pc = v] \in Registers
                            /\ [s EXCEPT !.epc = v] \in Registers
                            /\ [s EXCEPT !.tpc = v] \in Registers
           /\ \A v \in Control : /\ [s EXCEPT !.ctl = v] \in Registers
                                 /\ [s EXCEPT !.ictl = v] \in Registers
           /\ \A v \in Vectors : [s EXCEPT !.cause = v] \in Registers
           /\ \A v \in SUBSET Irqs : /\ [s EXCEPT !.pend = v] \in Registers
                                     /\ [s EXCEPT !.mask = v] \in Registers
           /\ [s EXCEPT !.run = FALSE] \in Registers
  BY DEF Registers

\* Trap entry keeps the registers well typed.
LEMMA EnteredType ==
    ASSUME NEW s \in Registers, NEW num \in Vectors
    PROVE  Entered(s, num) \in Registers
<1>1. [s.ctl EXCEPT !.user = FALSE, !.inInt = TRUE, !.ie = FALSE, !.cur = num]
         \in Control
  BY RegistersFields DEF Control
<1>2. QED
  BY <1>1, RegistersFields DEF Entered, Registers

\* The words of a vector table are addresses, or the table is not mapped.
LEMMA EntriesType ==
    ASSUME NEW s, NEW h \in Entries(s)
    PROVE  h = NoMapping \/ h = 0 \/ (h \in Handlers /\ h \in Pc /\ h # 0)
  BY CpuAssumption DEF Entries

\* _raiseInterrupt from the vector table on.
LEMMA VectorType ==
    ASSUME NEW s \in Registers, NEW num \in Vectors, NEW epc \in Pc,
           NEW h, NEW t, h \in Entries(t)
    PROVE  Vector(s, num, epc, h) \in Registers
<1>1. Entered(s, num) \in Registers
  BY EnteredType
<1>2. CASE h = NoMapping
  BY <1>1, <1>2, RegistersSet DEF Vector
<1>3. CASE h = 0 /\ h # NoMapping
  BY <1>3, RegistersSet DEF Vector
<1>4. CASE h # NoMapping /\ h # 0
  <2>1. h \in Pc
    BY <1>4, EntriesType
  <2>2. [Entered(s, num) EXCEPT !.epc = epc, !.pc = h] \in Registers
    BY <1>1, <2>1 DEF Registers
  <2>3. QED
    BY <1>4, <2>2 DEF Vector
<1>5. QED
  BY <1>2, <1>3, <1>4

\* Raising an exception keeps the registers well typed, ...
LEMMA ExceptType ==
    ASSUME NEW s \in Registers, NEW num \in Vectors, NEW opc \in Pc,
           NEW h, NEW t, h \in Entries(t)
    PROVE  Except(s, num, opc, h) \in Registers
<1> DEFINE r == [s EXCEPT !.cause = num, !.tpc = opc]
<1>1. r \in Registers
  BY DEF Registers
<1>2. Vector(r, num, opc, h) \in Registers
  BY <1>1, VectorType
<1>3. [r EXCEPT !.run = FALSE] \in Registers
  BY <1>1, RegistersSet
<1> HIDE DEF r
<1>4. RaiseException(r, num, opc, h) \in Registers
  BY <1>1, <1>2, <1>3 DEF RaiseException
<1>5. QED
  BY <1>4 DEF Except, r

\* Outcomes of a translation: none, or a page fault and a table word.
LEMMA DataFaultsType ==
    ASSUME NEW t, NEW x \in DataFaults(t)
    PROVE  \/ x = NoFault /\ x.v = NoTrap
           \/ x.v \in PageFaults /\ x.v \in Exceptions /\ x.h \in Entries(t)
<1>1. CASE x = NoFault
  BY <1>1 DEF NoFault
<1>2. CASE x # NoFault
  <2>1. x \in [v : PageFaults, h : Entries(t)]
    BY <1>2 DEF DataFaults
  <2>2. x.v \in PageFaults /\ x.h \in Entries(t)
    BY <2>1
  <2>3. QED
    BY <2>2, VectorFacts
<1>3. QED
  BY <1>1, <1>2

\* ... and so does an access to memory.
LEMMA AccessType ==
    ASSUME NEW s \in Registers, NEW t, NEW x \in DataFaults(t), NEW opc \in Pc
    PROVE  AccessMemory(s, x, opc) \in Registers
<1>1. CASE x.v = NoTrap
  BY <1>1 DEF AccessMemory
<1>2. CASE x.v # NoTrap
  <2>1. x.v \in Vectors /\ x.h \in Entries(t)
    BY <1>2, DataFaultsType DEF Exceptions, Vectors
  <2>2. QED
    BY <1>2, <2>1, ExceptType DEF AccessMemory
<1>3. QED
  BY <1>1, <1>2

\* The odd-address fetch trap has the shape of a page fault.
LEMMA FetchFaultsType ==
    ASSUME NEW x \in FetchFaults(cpu), x # NoFault
    PROVE  x.v \in Exceptions /\ x.h \in Entries(cpu)
<1>1. CASE cpu.pc % 2 = 1
  <2>1. x \in [v : {1}, h : Entries(cpu)]
    BY <1>1 DEF FetchFaults
  <2>2. QED
    BY <2>1 DEF Exceptions
<1>2. CASE cpu.pc % 2 # 1
  BY <1>2, DataFaultsType DEF FetchFaults
<1>3. QED
  BY <1>1, <1>2

-----------------------------------------------------------------------------
(* What raising an exception establishes. *)

\* The state of a CPU that has entered the handler of exception num.
Trapped(s, num) ==
    /\ s.ctl.inInt /\ ~s.ctl.user /\ ~s.ctl.ie
    /\ s.ctl.cur = num /\ s.cause = num

\* The control word an entry leaves of c.
HandlerControl(c, num) ==
    [c EXCEPT !.user = FALSE, !.inInt = TRUE, !.ie = FALSE, !.cur = num]

\* A second entry changes only the vector, and so leaves a trace of the first.
LEMMA SecondEntry ==
    ASSUME NEW c \in Control, NEW v \in Vectors, NEW w \in Vectors
    PROVE  HandlerControl(c, v)
              = [HandlerControl(HandlerControl(c, v), w) EXCEPT !.cur = v]
  BY DEF HandlerControl, Control

\* If the CPU still runs after an exception was raised in state s, the
\* handler has been entered: a refused entry always stops it, because only
\* exceptions rank as high as an exception.
LEMMA ExceptEnters ==
    ASSUME NEW s \in Registers, NEW num \in Exceptions, NEW opc \in Pc,
           NEW h, NEW t, h \in Entries(t), Except(s, num, opc, h).run
    PROVE  /\ Trapped(Except(s, num, opc, h), num)
           /\ Except(s, num, opc, h).pc \in Handlers
           /\ Except(s, num, opc, h).epc = opc
           /\ Except(s, num, opc, h).tpc = opc
           /\ Except(s, num, opc, h).ictl = s.ctl
           /\ Except(s, num, opc, h).ctl = HandlerControl(s.ctl, num)
           /\ s.run
           /\ s.ctl.inInt /\ s.ctl.cur # NoTrap => num < s.ctl.cur
<1> DEFINE r == [s EXCEPT !.cause = num, !.tpc = opc]
<1>0. num \in Vectors
  BY DEF Exceptions, Vectors
<1>1. /\ r \in Registers /\ r.ctl = s.ctl /\ r.cause = num /\ r.tpc = opc
      /\ r.run = s.run
  <2>1. r \in Registers
    BY <1>0 DEF Registers
  <2>2. r.ctl = s.ctl /\ r.cause = num /\ r.tpc = opc /\ r.run = s.run
    BY DEF Registers
  <2>3. QED
    BY <2>1, <2>2
<1>2. s.ctl \in Control /\ s.ctl.cur \in Vectors
  BY RegistersFields DEF Control
<1>3. Except(s, num, opc, h) = RaiseException(r, num, opc, h)
  BY DEF Except
<1> HIDE DEF r
<1>4. CASE Blocked(r, num)
  <2>1. r.ctl.cur \in Exceptions
    BY <1>1, <1>2, <1>4 DEF Blocked, Exceptions, Vectors, NoTrap
  <2>2. RaiseException(r, num, opc, h) = [r EXCEPT !.run = FALSE]
    BY <1>4, <2>1 DEF RaiseException
  <2>3. ~[r EXCEPT !.run = FALSE].run
    BY <1>1 DEF Registers
  <2>4. QED
    BY <2>2, <2>3, <1>3
<1>5. CASE ~Blocked(r, num)
  <2>1. ~(h = NoMapping /\ ~r.run)
    BY <1>3, <1>5 DEF RaiseException
  <2>2. Except(s, num, opc, h) = Vector(r, num, opc, h)
    BY <1>3, <1>5, <2>1 DEF RaiseException
  <2>3. Entered(r, num) \in Registers
    BY <1>1, EnteredType DEF Exceptions, Vectors
  <2>4. ~[r EXCEPT !.run = FALSE].run /\ ~[Entered(r, num) EXCEPT !.run = FALSE].run
    BY <1>1, <2>3 DEF Registers
  <2>5. h # NoMapping /\ h # 0
    BY <2>2, <2>4 DEF Vector
  <2>6. Except(s, num, opc, h) = [Entered(r, num) EXCEPT !.epc = opc, !.pc = h]
    BY <2>2, <2>5 DEF Vector
  <2>7. /\ Entered(r, num).ctl.inInt /\ ~Entered(r, num).ctl.user
        /\ ~Entered(r, num).ctl.ie /\ Entered(r, num).ctl.cur = num
        /\ Entered(r, num).ictl = s.ctl
        /\ Entered(r, num).cause = num /\ Entered(r, num).tpc = opc
        /\ Entered(r, num).run = s.run
        /\ Entered(r, num).ctl = HandlerControl(s.ctl, num)
    BY <1>1, <1>2 DEF Entered, Registers, Control, HandlerControl
  <2>8. h \in Handlers
    BY <2>5, EntriesType
  <2>9. s.ctl.inInt /\ s.ctl.cur # NoTrap => num < s.ctl.cur
    BY <1>1, <1>2, <1>5 DEF Blocked, Exceptions, Vectors
  <2>10. QED
    BY <2>3, <2>6, <2>7, <2>8, <2>9 DEF Trapped, Registers
<1>6. QED
  BY <1>4, <1>5

-----------------------------------------------------------------------------
(* The tail of cycle(). *)

\* A set of vectors that is not empty has a least element, so the selection
\* of the pending vector is well defined and finds it.
LEMMA SelectedLeast ==
    ASSUME NEW s \in Registers, Deliverable(s) # {}
    PROVE  /\ Selected(s) \in Deliverable(s)
           /\ Selected(s) \in Irqs
           /\ \A w \in Deliverable(s) : Selected(s) <= w
<1>1. Deliverable(s) \subseteq Nat /\ Deliverable(s) \subseteq Irqs
  BY VectorFacts, RegistersFields DEF Deliverable
<1>2. PICK v \in Deliverable(s) : \A w \in Deliverable(s) : v <= w
  <2>1. IsWellFoundedOn(OpToRel(<, Nat), Nat)
    BY NatLessThanWellFounded
  <2>2. PICK v \in Deliverable(s) :
             \A w \in Deliverable(s) : ~(<<w, v>> \in OpToRel(<, Nat))
    BY <2>1, <1>1, WFMin
  <2>3. \A w, v2 \in Nat : ~(<<w, v2>> \in OpToRel(<, Nat)) => v2 <= w
    BY DEF OpToRel
  <2>4. QED
    BY <2>2, <2>3, <1>1
<1>3. QED
  BY <1>1, <1>2 DEF Selected

\* Delivering the selected IRQ keeps the registers well typed.
LEMMA RaiseIrqType ==
    ASSUME NEW s \in Registers, NEW num \in Irqs, NEW h \in Entries(s)
    PROVE  RaiseIrq(s, num, h) \in Registers
<1>1. num \in Vectors /\ s.pc \in Pc
  BY VectorFacts, RegistersFields
<1>2. Vector(s, num, s.pc, h) \in Registers
  BY <1>1, VectorType
<1>3. QED
  BY <1>2 DEF RaiseIrq

\* The tail of cycle() keeps the state well typed.
LEMMA TailType ==
    ASSUME NEW s \in Registers, NEW kind \in Kinds, NEW exc \in Vectors,
           Tail(s, kind, exc)
    PROVE  TypeOK'
<1>1. NoTrap \in Vectors /\ Irqs \subseteq Vectors
  BY VectorFacts DEF NoTrap, Vectors
<1>2. \A i \in Vectors : Did(kind, exc, i) \in Cycle
  BY DEF Did, Cycle
<1>3. CASE SelfLoop(cpu.pc, s)
  <2>1. cpu' = [s EXCEPT !.run = FALSE] /\ last' = Did(kind, exc, NoTrap)
    BY <1>3 DEF Tail
  <2>2. QED
    BY <2>1, <1>1, <1>2, RegistersSet DEF TypeOK
<1>4. CASE ~SelfLoop(cpu.pc, s) /\ Deliverable(s) = {}
  <2>1. cpu' = s /\ last' = Did(kind, exc, NoTrap)
    BY <1>4 DEF Tail
  <2>2. QED
    BY <2>1, <1>1, <1>2 DEF TypeOK
<1>5. CASE ~SelfLoop(cpu.pc, s) /\ Deliverable(s) # {}
  <2>1. PICK h \in Entries(s) : cpu' = RaiseIrq(s, Selected(s), h)
    BY <1>5 DEF Tail
  <2>2. last' = Did(kind, exc, Selected(s))
    BY <1>5 DEF Tail
  <2>3. Selected(s) \in Irqs
    BY <1>5, SelectedLeast
  <2>4. QED
    BY <2>1, <2>2, <2>3, <1>1, <1>2, RaiseIrqType DEF TypeOK
<1>6. QED
  BY <1>3, <1>4, <1>5

\* What the tail leaves of a CPU that still runs: the instruction's own
\* state, or the entry of the IRQ that outranked everything.
LEMMA TailCases ==
    ASSUME NEW s \in Registers, NEW kind, NEW exc, Tail(s, kind, exc), cpu'.run
    PROVE  /\ s.run /\ last'.kind = kind /\ last'.exc = exc
           /\ \/ /\ cpu' = s
                 /\ s.ctl.ie => \A v \in s.pend \cap s.mask : Blocked(s, v)
              \/ /\ s.ctl.ie /\ ~Blocked(s, last'.irq)
                 /\ cpu'.ctl.inInt /\ ~cpu'.ctl.user /\ ~cpu'.ctl.ie
                 /\ cpu'.ctl.cur = last'.irq /\ last'.irq \in Irqs
                 /\ cpu'.pc \in Handlers
<1>0. /\ ~[s EXCEPT !.run = FALSE].run
      /\ \A i : /\ Did(kind, exc, i).kind = kind /\ Did(kind, exc, i).exc = exc
                /\ Did(kind, exc, i).irq = i
  BY DEF Did, Registers
<1>1. ~SelfLoop(cpu.pc, s)
  BY <1>0 DEF Tail
<1>2. CASE Deliverable(s) = {}
  <2>1. cpu' = s /\ last' = Did(kind, exc, NoTrap)
    BY <1>1, <1>2 DEF Tail
  <2>2. s.ctl.ie => \A v \in s.pend \cap s.mask : FALSE
    BY <1>2 DEF Deliverable
  <2>3. QED
    BY <2>1, <2>2, <1>0
<1>3. CASE Deliverable(s) # {}
  <2> DEFINE n == Selected(s)
  <2>1. PICK h \in Entries(s) : cpu' = RaiseIrq(s, n, h)
    BY <1>1, <1>3 DEF Tail
  <2>2. last' = Did(kind, exc, n)
    BY <1>1, <1>3 DEF Tail
  <2>3. n \in Irqs /\ n \in Nat /\ n \in Deliverable(s)
    BY <1>3, SelectedLeast, VectorFacts
  <2>4. s.ctl.ie /\ n \in s.mask /\ s.ctl.cur \in Nat /\ s.ctl \in Control
    BY <2>3, RegistersFields DEF Deliverable, Control, Vectors
  <2>5. \A w \in s.pend \cap s.mask : w \in Nat /\ n <= w
    <3>1. \A w \in s.pend \cap s.mask : w \in Deliverable(s)
      BY <2>4 DEF Deliverable
    <3>2. \A w \in Irqs : w \in Nat
      BY CpuAssumption DEF IrqVectors
    <3>3. QED
      BY <1>3, <3>1, <3>2, SelectedLeast, RegistersFields
  <2> HIDE DEF n
  <2>6. CASE Blocked(s, n)
    <3>1. cpu' = s
      BY <2>1, <2>6 DEF RaiseIrq
    <3>2. \A w \in s.pend \cap s.mask : Blocked(s, w)
      BY <2>3, <2>4, <2>5, <2>6 DEF Blocked
    <3>3. QED
      BY <3>1, <3>2, <2>2, <1>0
  <2>7. CASE ~Blocked(s, n)
    <3>1. cpu' = Vector(s, n, s.pc, h)
      BY <2>1, <2>4, <2>7 DEF RaiseIrq
    <3>2. n \in Vectors
      BY <2>3, VectorFacts
    <3>3. Entered(s, n) \in Registers
      BY <3>2, EnteredType
    <3>4. ~[Entered(s, n) EXCEPT !.run = FALSE].run
      BY <3>3 DEF Registers
    <3>5. h # NoMapping /\ h # 0
      BY <3>1, <3>4, <1>0 DEF Vector
    <3>6. cpu' = [Entered(s, n) EXCEPT !.epc = s.pc, !.pc = h]
      BY <3>1, <3>5 DEF Vector
    <3>7. h \in Handlers
      BY <3>5, EntriesType
    <3>8. /\ Entered(s, n).ctl.inInt /\ ~Entered(s, n).ctl.user
          /\ ~Entered(s, n).ctl.ie /\ Entered(s, n).ctl.cur = n
          /\ Entered(s, n).run = s.run
      BY <2>4 DEF Entered, Registers, Control
    <3>9. /\ cpu'.ctl = Entered(s, n).ctl /\ cpu'.pc = h
          /\ cpu'.run = Entered(s, n).run
      BY <3>3, <3>6 DEF Registers
    <3>10. QED
      BY <3>7, <3>8, <3>9, <2>2, <2>3, <2>4, <2>7, <1>0
  <2>8. QED
    BY <2>6, <2>7
<1>4. QED
  BY <1>2, <1>3

-----------------------------------------------------------------------------
(* Every cycle is an instruction followed by the tail. *)

\* What an instruction of class k that raised exception e, or none, hands to
\* the tail of cycle().
Instruction(s, k, e) ==
    /\ s \in Registers /\ k \in Kinds \ {"event", "reset"} /\ e \in Vectors
    /\ e = NoTrap => \/ s.ctl = cpu.ctl
                     \/ k \in {"ssr", "iret"} /\ ~cpu.ctl.user
    /\ e # NoTrap /\ s.run =>
          /\ Trapped(s, e)
          /\ cpu.ctl.inInt /\ cpu.ctl.cur # NoTrap => e < cpu.ctl.cur
          /\ k # "write_pc" => s.pc \in Handlers
          /\ k = "double_fault" => Preempted(s)
          /\ k \notin Irregular =>
                s.epc = cpu.pc /\ s.tpc = cpu.pc /\ s.ictl = cpu.ctl

\* A step that is not an instruction with its tail: a device, reset, or a
\* fetch that stopped the CPU.
Otherwise ==
    /\ TypeOK'
    /\ \/ ~cpu'.run
       \/ last'.kind = "event" /\ last'.exc = NoTrap /\ cpu'.ctl = cpu.ctl
       \/ last'.kind = "reset" /\ last'.exc = NoTrap

\* PC moves on before dispatch.
LEMMA FetchedType ==
    ASSUME TypeOK
    PROVE  /\ Fetched \in Registers /\ Fetched.ctl = cpu.ctl
           /\ Fetched.pc \in Pc /\ cpu.pc \in Pc /\ cpu \in Registers
<1>1. cpu \in Registers /\ cpu.pc \in Pc
  BY RegistersFields DEF TypeOK
<1>2. cpu.pc \in Int
  BY <1>1, PcFacts
<1>3. cpu.pc + 2 \in Int
  BY <1>2
<1>4. (cpu.pc + 2) % PcSize \in Pc
  BY <1>3, PcFacts
<1>5. QED
  BY <1>1, <1>4 DEF Fetched, Registers

\* An instruction that raises an exception directly.
LEMMA TrapInstruction ==
    ASSUME TypeOK, NEW num \in Exceptions, NEW h \in Entries(cpu)
    PROVE  Instruction(Except(Fetched, num, cpu.pc, h), "trap", num)
<1>1. num \in Vectors /\ num # NoTrap
  BY DEF Exceptions, Vectors, NoTrap
<1>2. Except(Fetched, num, cpu.pc, h) \in Registers
  BY <1>1, FetchedType, ExceptType
<1>3. Except(Fetched, num, cpu.pc, h).run =>
          /\ Trapped(Except(Fetched, num, cpu.pc, h), num)
          /\ Except(Fetched, num, cpu.pc, h).pc \in Handlers
          /\ Except(Fetched, num, cpu.pc, h).epc = cpu.pc
          /\ Except(Fetched, num, cpu.pc, h).tpc = cpu.pc
          /\ Except(Fetched, num, cpu.pc, h).ictl = cpu.ctl
          /\ cpu.ctl.inInt /\ cpu.ctl.cur # NoTrap => num < cpu.ctl.cur
  BY FetchedType, ExceptEnters
<1>4. QED
  BY <1>1, <1>2, <1>3 DEF Instruction, Kinds

\* One access to memory: the state after it, fault or not.
LEMMA AccessEnters ==
    ASSUME NEW s \in Registers, NEW t, NEW x \in DataFaults(t), NEW opc \in Pc
    PROVE  /\ AccessMemory(s, x, opc) \in Registers
           /\ x.v \in Vectors
           /\ x.v = NoTrap => AccessMemory(s, x, opc) = s
           /\ x.v # NoTrap /\ AccessMemory(s, x, opc).run =>
                 /\ Trapped(AccessMemory(s, x, opc), x.v)
                 /\ AccessMemory(s, x, opc).pc \in Handlers
                 /\ AccessMemory(s, x, opc).epc = opc
                 /\ AccessMemory(s, x, opc).tpc = opc
                 /\ AccessMemory(s, x, opc).ictl = s.ctl
                 /\ AccessMemory(s, x, opc).ctl = HandlerControl(s.ctl, x.v)
                 /\ s.run
                 /\ s.ctl.inInt /\ s.ctl.cur # NoTrap => x.v < s.ctl.cur
<1>1. AccessMemory(s, x, opc) \in Registers
  BY AccessType
<1>2. CASE x.v = NoTrap
  BY <1>1, <1>2 DEF AccessMemory, NoTrap, Vectors
<1>3. CASE x.v # NoTrap
  <2>1. x.v \in Exceptions /\ x.h \in Entries(t) /\ x.v \in Vectors
    BY <1>3, DataFaultsType, VectorFacts
  <2>2. AccessMemory(s, x, opc) = Except(s, x.v, opc, x.h)
    BY <1>3 DEF AccessMemory
  <2>3. QED
    BY <1>1, <1>3, <2>1, <2>2, ExceptEnters
<1>4. QED
  BY <1>2, <1>3

\* Moving PC afterwards changes nothing but PC.
LEMMA MovedPc ==
    ASSUME NEW s \in Registers, NEW p \in Pc
    PROVE  /\ [s EXCEPT !.pc = p] \in Registers
           /\ [s EXCEPT !.pc = p].ctl = s.ctl /\ [s EXCEPT !.pc = p].run = s.run
           /\ [s EXCEPT !.pc = p].cause = s.cause /\ [s EXCEPT !.pc = p].pc = p
           /\ [s EXCEPT !.pc = p].epc = s.epc /\ [s EXCEPT !.pc = p].tpc = s.tpc
           /\ [s EXCEPT !.pc = p].ictl = s.ictl
  BY DEF Registers

\* An instruction of one access, whether or not it then writes R15: its class
\* is irregular if it does, or if it reports another PC than its own.
LEMMA AccessInstruction ==
    ASSUME TypeOK, NEW b \in Registers, b.ctl = cpu.ctl,
           NEW x \in DataFaults(cpu), NEW opc \in Pc, NEW p \in Pc,
           NEW k \in Kinds \ {"event", "reset", "double_fault"},
           k \notin Irregular => opc = cpu.pc,
           k # "write_pc" => p = AccessMemory(b, x, opc).pc
    PROVE  Instruction([AccessMemory(b, x, opc) EXCEPT !.pc = p], k, x.v)
<1> DEFINE s == AccessMemory(b, x, opc)
<1>1. /\ s \in Registers /\ x.v \in Vectors
      /\ x.v = NoTrap => s.ctl = cpu.ctl
      /\ x.v # NoTrap /\ s.run =>
            /\ Trapped(s, x.v) /\ s.pc \in Handlers
            /\ s.epc = opc /\ s.tpc = opc /\ s.ictl = cpu.ctl
            /\ cpu.ctl.inInt /\ cpu.ctl.cur # NoTrap => x.v < cpu.ctl.cur
  BY AccessEnters
<1> HIDE DEF s
<1>2. Trapped(s, x.v) => Trapped([s EXCEPT !.pc = p], x.v)
  BY <1>1, MovedPc DEF Trapped
<1>3. Instruction([s EXCEPT !.pc = p], k, x.v)
  BY <1>1, <1>2, MovedPc DEF Instruction, s
<1>4. QED
  BY <1>3 DEF s

\* The PC an instruction can load or be given is an address.
LEMMA TargetsType ==
    /\ Targets \subseteq Pc /\ FailedLoads \subseteq Pc
    /\ \A x : Loaded(x) \subseteq Pc
<1>1. Targets \subseteq Pc /\ FailedLoads \subseteq Pc
  BY CpuAssumption
<1>2. QED
  BY <1>1 DEF Loaded

\* An instruction of two accesses.  If the first failed the second is made in
\* its handler, which it can only preempt.
LEMMA PairInstruction ==
    ASSUME TypeOK, NEW x \in DataFaults(cpu), NEW y \in DataFaults(cpu),
           NEW d \in {-8, 0, 8}
    PROVE  LET s == AccessMemory(Fetched, x, cpu.pc)
               t == [s EXCEPT !.pc = (@ + d) % PcSize]
               u == AccessMemory(t, y, cpu.pc)
               k == IF x = NoFault THEN "push_pop_pcrel"
                    ELSE IF y # NoFault THEN "double_fault"
                    ELSE IF d = 0 THEN "push_pop_pcrel" ELSE "write_pc"
           IN  Instruction(u, k, IF x # NoFault /\ y = NoFault THEN x.v ELSE y.v)
<1> DEFINE s == AccessMemory(Fetched, x, cpu.pc)
           t == [s EXCEPT !.pc = (@ + d) % PcSize]
           u == AccessMemory(t, y, cpu.pc)
           k == IF x = NoFault THEN "push_pop_pcrel"
                ELSE IF y # NoFault THEN "double_fault"
                ELSE IF d = 0 THEN "push_pop_pcrel" ELSE "write_pc"
<1>0. /\ Fetched \in Registers /\ Fetched.ctl = cpu.ctl /\ cpu.pc \in Pc
      /\ cpu \in Registers
  BY FetchedType
<1>1. /\ s \in Registers /\ x.v \in Vectors
      /\ x.v = NoTrap => s = Fetched
      /\ x.v # NoTrap /\ s.run =>
            /\ Trapped(s, x.v) /\ s.pc \in Handlers
            /\ s.epc = cpu.pc /\ s.tpc = cpu.pc /\ s.ictl = cpu.ctl
            /\ s.ctl = HandlerControl(cpu.ctl, x.v)
            /\ cpu.ctl.inInt /\ cpu.ctl.cur # NoTrap => x.v < cpu.ctl.cur
  BY <1>0, AccessEnters
<1>2. s.pc \in 0 .. (PcSize - 1) /\ PcSize \in Nat
  BY <1>1, RegistersFields, PcFacts DEF Pc
<1>3. /\ t = [s EXCEPT !.pc = (s.pc + d) % PcSize]
      /\ (s.pc + d) % PcSize \in Pc
      /\ d = 0 => (s.pc + d) % PcSize = s.pc
  <2>1. s.pc + d \in Int
    BY <1>2
  <2>2. d = 0 => (s.pc + d) % PcSize = s.pc
    BY <1>2
  <2>3. QED
    BY <2>1, <2>2, PcFacts
<1> HIDE DEF s
<1>4. /\ t \in Registers /\ t.ctl = s.ctl /\ t.run = s.run /\ t.cause = s.cause
      /\ t.epc = s.epc /\ t.tpc = s.tpc /\ t.ictl = s.ictl
      /\ d = 0 => t.pc = s.pc
  BY <1>1, <1>3, MovedPc
<1> HIDE DEF t
<1>5. /\ u \in Registers /\ y.v \in Vectors
      /\ y.v = NoTrap => u = t
      /\ y.v # NoTrap /\ u.run =>
            /\ Trapped(u, y.v) /\ u.pc \in Handlers
            /\ u.epc = cpu.pc /\ u.tpc = cpu.pc /\ u.ictl = t.ctl /\ t.run
            /\ u.ctl = HandlerControl(t.ctl, y.v)
            /\ t.ctl.inInt /\ t.ctl.cur # NoTrap => y.v < t.ctl.cur
  BY <1>0, <1>4, AccessEnters
<1>6. /\ x.v = NoTrap <=> x = NoFault
      /\ y.v = NoTrap <=> y = NoFault
  <2>1. NoTrap \notin Exceptions
    BY DEF Exceptions, NoTrap
  <2>2. NoFault.v = NoTrap
    BY DEF NoFault
  <2>3. QED
    BY <2>1, <2>2, DataFaultsType
<1> HIDE DEF u
<1>7. CASE x = NoFault
  <2>1. t.ctl = cpu.ctl
    BY <1>0, <1>1, <1>4, <1>6, <1>7
  <2>2. Instruction(u, "push_pop_pcrel", y.v)
    BY <1>5, <2>1 DEF Instruction, Kinds, Irregular
  <2>3. QED
    BY <1>7, <2>2 DEF s, t, u
<1>8. CASE x # NoFault /\ y = NoFault
  <2>1. u = t /\ x.v # NoTrap
    BY <1>5, <1>6, <1>8
  <2>2. u.run =>
            /\ Trapped(u, x.v)
            /\ u.epc = cpu.pc /\ u.tpc = cpu.pc /\ u.ictl = cpu.ctl
            /\ d = 0 => u.pc \in Handlers
            /\ cpu.ctl.inInt /\ cpu.ctl.cur # NoTrap => x.v < cpu.ctl.cur
    BY <1>1, <1>4, <2>1 DEF Trapped
  <2>3. d = 0 => Instruction(u, "push_pop_pcrel", x.v)
    BY <1>1, <1>5, <2>1, <2>2 DEF Instruction, Kinds, Irregular
  <2>4. Instruction(u, "write_pc", x.v)
    BY <1>1, <1>5, <2>1, <2>2 DEF Instruction, Kinds, Irregular
  <2>5. QED
    BY <1>8, <2>3, <2>4 DEF s, t, u
<1>9. CASE x # NoFault /\ y # NoFault
  <2>1. x.v # NoTrap /\ y.v # NoTrap
    BY <1>6, <1>9
  <2>2. ASSUME u.run
        PROVE  /\ Trapped(u, y.v) /\ u.pc \in Handlers /\ Preempted(u)
               /\ cpu.ctl.inInt /\ cpu.ctl.cur # NoTrap => y.v < cpu.ctl.cur
    <3>1. Trapped(u, y.v) /\ u.pc \in Handlers /\ u.ictl = s.ctl /\ s.run
      BY <1>4, <1>5, <2>1, <2>2
    <3>2. Trapped(s, x.v)
      BY <1>1, <2>1, <3>1
    <3>3. s.ctl.inInt /\ s.ctl.cur = x.v
      BY <3>2 DEF Trapped
    <3>4. y.v < x.v
      BY <1>4, <1>5, <2>1, <2>2, <3>3
    <3>5. x.v \in PageFaults
      BY <2>1, <1>9 DEF DataFaults
    <3>6. Preempted(u)
      <4>1. /\ s.ctl = HandlerControl(cpu.ctl, x.v)
            /\ u.ctl = HandlerControl(HandlerControl(cpu.ctl, x.v), y.v)
        BY <1>1, <1>4, <1>5, <2>1, <2>2, <3>1
      <4>2. cpu.ctl \in Control
        BY <1>0, RegistersFields
      <4>3. s.ctl = [u.ctl EXCEPT !.cur = x.v]
        BY <1>1, <1>5, <4>1, <4>2, SecondEntry
      <4>4. u.ctl.cur = y.v
        BY <3>1 DEF Trapped
      <4>5. QED
        BY <3>1, <3>4, <3>5, <4>3, <4>4 DEF Preempted
    <3>7. x.v \in Int /\ y.v \in Int /\ cpu.ctl.cur \in Int
      BY <1>0, <1>1, <1>5, RegistersFields, SMTT(30) DEF Vectors, Control
    <3>8. cpu.ctl.inInt /\ cpu.ctl.cur # NoTrap => x.v < cpu.ctl.cur
      BY <1>1, <2>1, <3>1
    <3>9. QED
      BY <3>1, <3>4, <3>6, <3>7, <3>8
  <2>3. Instruction(u, "double_fault", y.v)
    BY <1>5, <2>1, <2>2 DEF Instruction, Kinds, Irregular
  <2>4. QED
    BY <1>9, <2>3 DEF s, t, u
<1>10. QED
  BY <1>7, <1>8, <1>9

\* A step of the CPU is one of the two.
LEMMA NextShape ==
    ASSUME TypeOK, Next
    PROVE  Otherwise \/ \E s, k, e : Instruction(s, k, e) /\ Tail(s, k, e)
<1> DEFINE Goal == Otherwise \/ \E s, k, e : Instruction(s, k, e) /\ Tail(s, k, e)
<1>0. /\ cpu \in Registers /\ cpu.pc \in Pc /\ Fetched \in Registers
      /\ Fetched.pc \in Pc /\ Fetched.ctl = cpu.ctl /\ NoTrap \in Vectors
  BY FetchedType DEF NoTrap, Vectors
<1> HIDE DEF Goal
<1>1. ASSUME FetchFault PROVE Goal
  <2>1. PICK x \in FetchFaults(cpu) \ {NoFault} :
           \/ /\ ~AccessMemory(cpu, x, cpu.pc).run
              /\ cpu' = AccessMemory(cpu, x, cpu.pc)
              /\ last' = Did("fetch", x.v, NoTrap)
           \/ /\ AccessMemory(cpu, x, cpu.pc).run
              /\ Tail(JumpBack(AccessMemory(cpu, x, cpu.pc)), "fetch", x.v)
    BY <1>1 DEF FetchFault
  <2> DEFINE s == AccessMemory(cpu, x, cpu.pc)
  <2>2. x.v \in Exceptions /\ x.h \in Entries(cpu)
    BY FetchFaultsType
  <2>3. x.v # NoTrap /\ x.v \in Vectors
    BY <2>2 DEF Exceptions, NoTrap, Vectors
  <2>4. s = Except(cpu, x.v, cpu.pc, x.h)
    BY <2>3 DEF AccessMemory
  <2>5. s \in Registers
    BY <1>0, <2>2, <2>3, <2>4, ExceptType
  <2>6. s.run => /\ Trapped(s, x.v) /\ s.pc \in Handlers
                 /\ s.epc = cpu.pc /\ s.tpc = cpu.pc /\ s.ictl = cpu.ctl
                 /\ cpu.ctl.inInt /\ cpu.ctl.cur # NoTrap => x.v < cpu.ctl.cur
    BY <1>0, <2>2, <2>4, ExceptEnters
  <2> HIDE DEF s
  <2>7. JumpBack(s) = [s EXCEPT !.pc = s.pc]
    <3>1. s.pc \in 0 .. (PcSize - 1) /\ PcSize \in Nat
      BY <2>5, RegistersFields, PcFacts DEF Pc
    <3>2. (s.pc + 2 - 2) % PcSize = s.pc
      BY <3>1
    <3>3. QED
      BY <3>2 DEF JumpBack
  <2>8. JumpBack(s) = s
    BY <2>5, <2>7 DEF Registers
  <2>9. CASE ~s.run /\ cpu' = s /\ last' = Did("fetch", x.v, NoTrap)
    BY <2>9, <2>5, <2>3, <1>0 DEF Goal, Otherwise, TypeOK, Did, Cycle, Kinds
  <2>10. CASE s.run /\ Tail(s, "fetch", x.v)
    <3>1. Instruction(s, "fetch", x.v)
      BY <2>3, <2>5, <2>6 DEF Instruction, Kinds
    <3>2. QED
      BY <3>1, <2>10 DEF Goal
  <2>11. QED
    BY <2>1, <2>8, <2>9, <2>10 DEF s
<1>2. ASSUME Plain PROVE Goal
  <2>1. Instruction(Fetched, "plain", NoTrap)
    BY <1>0 DEF Instruction, Kinds
  <2>2. QED
    BY <2>1, <1>2 DEF Plain, Goal
<1>3. ASSUME Jump PROVE Goal
  <2>1. PICK t \in Targets : Tail([Fetched EXCEPT !.pc = t], "plain", NoTrap)
    BY <1>3 DEF Jump
  <2>2. Instruction([Fetched EXCEPT !.pc = t], "plain", NoTrap)
    BY <1>0, TargetsType, MovedPc DEF Instruction, Kinds
  <2>3. QED
    BY <2>1, <2>2 DEF Goal
<1>4. ASSUME LoadStore PROVE Goal
  <2>1. PICK x \in DataFaults(cpu), d \in {-8, 0} :
             Tail(AccessMemory([Fetched EXCEPT !.pc = (@ + d) % PcSize],
                               x, cpu.pc), "load_store", x.v)
    BY <1>4 DEF LoadStore
  <2> DEFINE b == [Fetched EXCEPT !.pc = (@ + d) % PcSize]
             s == AccessMemory(b, x, cpu.pc)
  <2>2. Fetched.pc + d \in Int
    <3>1. Fetched.pc \in Int
      BY <1>0, PcFacts
    <3>2. QED
      BY <3>1
  <2>3. (Fetched.pc + d) % PcSize \in Pc
    BY <2>2, PcFacts
  <2>4. b \in Registers /\ b.ctl = cpu.ctl
    BY <1>0, <2>3, MovedPc
  <2> HIDE DEF b
  <2>5. s \in Registers /\ s.pc \in Pc
    BY <1>0, <2>4, AccessEnters, RegistersFields
  <2>6. s = [s EXCEPT !.pc = s.pc]
    BY <2>5 DEF Registers
  <2>7. Instruction([s EXCEPT !.pc = s.pc], "load_store", x.v)
    BY <1>0, <2>4, <2>5, AccessInstruction DEF Kinds, Irregular
  <2>8. Tail(s, "load_store", x.v)
    BY <2>1 DEF b
  <2>9. QED
    BY <2>6, <2>7, <2>8 DEF Goal
<1>5. ASSUME LoadPc PROVE Goal
  <2>1. PICK x \in DataFaults(cpu) :
          \E t \in Loaded(x) \cup {(p + 8) % PcSize :
                       p \in {AccessMemory(Fetched, x, cpu.pc).pc} \cup Loaded(x)} :
              Tail([AccessMemory(Fetched, x, cpu.pc) EXCEPT !.pc = t], "write_pc", x.v)
    BY <1>5 DEF LoadPc
  <2> DEFINE s == AccessMemory(Fetched, x, cpu.pc)
  <2>2. PICK t \in Loaded(x) \cup {(p + 8) % PcSize : p \in {s.pc} \cup Loaded(x)} :
              Tail([s EXCEPT !.pc = t], "write_pc", x.v)
    BY <2>1
  <2>3. s.pc \in Pc /\ Loaded(x) \subseteq Pc
    BY <1>0, AccessEnters, RegistersFields, TargetsType
  <2> HIDE DEF s
  <2>4. ASSUME NEW p \in Pc PROVE (p + 8) % PcSize \in Pc
    <3>1. p + 8 \in Int
      BY PcFacts
    <3>2. QED
      BY <3>1, PcFacts
  <2>5. t \in Pc
    BY <2>3, <2>4
  <2>6. Instruction([s EXCEPT !.pc = t], "write_pc", x.v)
    BY <1>0, <2>5, AccessInstruction DEF Kinds, Irregular, s
  <2>7. QED
    BY <2>2, <2>6 DEF Goal
<1>6. ASSUME PushPopPcRel PROVE Goal
  <2> DEFINE s(x) == AccessMemory(Fetched, x, cpu.pc)
             t(x, d) == [s(x) EXCEPT !.pc = (@ + d) % PcSize]
             u(x, y, d) == AccessMemory(t(x, d), y, cpu.pc)
             k(x, y, d) == IF x = NoFault THEN "push_pop_pcrel"
                           ELSE IF y # NoFault THEN "double_fault"
                           ELSE IF d = 0 THEN "push_pop_pcrel" ELSE "write_pc"
             e(x, y) == IF x # NoFault /\ y = NoFault THEN x.v ELSE y.v
  <2>1. PICK x \in DataFaults(cpu), y \in DataFaults(cpu), d \in {-8, 0, 8} :
            \/ x = NoFault /\ Tail(u(x, y, d), "push_pop_pcrel", y.v)
            \/ x # NoFault /\ y # NoFault /\ Tail(u(x, y, d), "double_fault", y.v)
            \/ /\ x # NoFault /\ y = NoFault
               /\ Tail(u(x, y, d), IF d = 0 THEN "push_pop_pcrel" ELSE "write_pc", x.v)
    BY <1>6 DEF PushPopPcRel
  <2> HIDE DEF s, t, u
  <2>2. Tail(u(x, y, d), k(x, y, d), e(x, y))
    BY <2>1
  <2> HIDE DEF k, e
  <2>3. Instruction(u(x, y, d), k(x, y, d), e(x, y))
    BY <1>0, PairInstruction DEF s, t, u, k, e
  <2>4. QED
    BY <2>2, <2>3 DEF Goal
<1>7. ASSUME LoadLinkedStoreConditional PROVE Goal
  <2>1. PICK x \in DataFaults(cpu) :
          LET s == AccessMemory(Fetched, x, Fetched.pc) IN
          \/ Tail(s, "ll_sc", x.v)
          \/ \E t \in Loaded(x) : Tail([s EXCEPT !.pc = t], "write_pc", x.v)
    BY <1>7 DEF LoadLinkedStoreConditional
  <2> DEFINE s == AccessMemory(Fetched, x, Fetched.pc)
  <2>2. s \in Registers /\ s.pc \in Pc
    BY <1>0, AccessEnters, RegistersFields
  <2>3. CASE Tail(s, "ll_sc", x.v)
    <3>1. Instruction([s EXCEPT !.pc = s.pc], "ll_sc", x.v)
      BY <1>0, <2>2, AccessInstruction DEF Kinds, Irregular
    <3>2. [s EXCEPT !.pc = s.pc] = s
      BY <2>2 DEF Registers
    <3>3. QED
      BY <2>3, <3>1, <3>2 DEF Goal
  <2>4. ASSUME NEW t \in Loaded(x), Tail([s EXCEPT !.pc = t], "write_pc", x.v)
        PROVE  Goal
    <3>1. Instruction([s EXCEPT !.pc = t], "write_pc", x.v)
      BY <1>0, TargetsType, AccessInstruction DEF Kinds, Irregular
    <3>2. QED
      BY <2>4, <3>1 DEF Goal
  <2>5. QED
    BY <2>1, <2>3, <2>4 DEF s
<1>8. ASSUME Syscall PROVE Goal
  <2>1. PICK h \in Entries(cpu) :
          Tail(Except(Fetched, IF cpu.ctl.user THEN 3 ELSE 4, cpu.pc, h),
               "trap", IF cpu.ctl.user THEN 3 ELSE 4)
    BY <1>8 DEF Syscall
  <2>2. (IF cpu.ctl.user THEN 3 ELSE 4) \in Exceptions
    BY DEF Exceptions
  <2>3. QED
    BY <2>1, <2>2, TrapInstruction DEF Goal
<1>9. ASSUME Privileged PROVE Goal
  <2>1. PICK h \in Entries(cpu) : Tail(Except(Fetched, 2, cpu.pc, h), "trap", 2)
    BY <1>9 DEF Privileged
  <2>2. 2 \in Exceptions
    BY DEF Exceptions
  <2>3. QED
    BY <2>1, <2>2, TrapInstruction DEF Goal
<1>10. ASSUME InvalidInstruction PROVE Goal
  <2>1. PICK h \in Entries(cpu) : Tail(Except(Fetched, 9, cpu.pc, h), "trap", 9)
    BY <1>10 DEF InvalidInstruction
  <2>2. 9 \in Exceptions
    BY DEF Exceptions
  <2>3. QED
    BY <2>1, <2>2, TrapInstruction DEF Goal
<1>11. ASSUME Iret PROVE Goal
  <2> DEFINE s == [Fetched EXCEPT !.pc = cpu.epc, !.ctl = cpu.ictl]
  <2>1. ~cpu.ctl.user /\ Tail(s, "iret", NoTrap)
    BY <1>11 DEF Iret
  <2>2. cpu.epc \in Pc /\ cpu.ictl \in Control
    BY <1>0, RegistersFields
  <2>3. s \in Registers
    BY <1>0, <2>2 DEF Registers
  <2>4. Instruction(s, "iret", NoTrap)
    BY <1>0, <2>1, <2>3 DEF Instruction, Kinds
  <2>5. QED
    BY <2>1, <2>4 DEF Goal
<1>12. ASSUME Stop PROVE Goal
  <2> DEFINE s == [Fetched EXCEPT !.run = FALSE]
  <2>1. Tail(s, "plain", NoTrap)
    BY <1>12 DEF Stop
  <2>2. s \in Registers /\ s.ctl = cpu.ctl
    BY <1>0 DEF Registers
  <2>3. Instruction(s, "plain", NoTrap)
    BY <1>0, <2>2 DEF Instruction, Kinds
  <2>4. QED
    BY <2>1, <2>3 DEF Goal
<1>13. ASSUME Ssr PROVE Goal
  <2>1. ~cpu.ctl.user
    BY <1>13 DEF Ssr
  <2>2. PICK s \in {[Fetched EXCEPT !.ctl = c] : c \in CtlValues}
           \cup {[Fetched EXCEPT !.ictl = c] : c \in CtlValues}
           \cup {[Fetched EXCEPT !.epc = t] : t \in Targets}
           \cup {[Fetched EXCEPT !.tpc = t] : t \in Targets}
           \cup {[Fetched EXCEPT !.cause = NoTrap]}
           \cup {[Fetched EXCEPT !.mask = m] : m \in MaskValues}
           \cup {[Fetched EXCEPT !.pend = p] : p \in SUBSET Irqs} :
          Tail(s, "ssr", NoTrap)
    BY <1>13 DEF Ssr
  <2>3. /\ \A c \in CtlValues : c \in Control
        /\ \A m \in MaskValues : m \in SUBSET Irqs
        /\ \A t \in Targets : t \in Pc
    BY CpuAssumption
  <2>4. s \in Registers
    BY <1>0, <2>3, RegistersSet, ZenonT(40)
  <2>5. Instruction(s, "ssr", NoTrap)
    BY <1>0, <2>1, <2>4 DEF Instruction, Kinds
  <2>6. QED
    BY <2>2, <2>5 DEF Goal
<1>14. ASSUME NEW v \in Irqs, AssertInterrupt(v) \/ ClearInterrupt(v) PROVE Goal
  <2>1. cpu.pend \cup {v} \in SUBSET Irqs /\ cpu.pend \ {v} \in SUBSET Irqs
    BY <1>0, RegistersFields
  <2>2. cpu' \in Registers /\ cpu'.ctl = cpu.ctl
    BY <1>0, <1>14, <2>1 DEF AssertInterrupt, ClearInterrupt, Registers
  <2>3. last' \in Cycle /\ last'.kind = "event" /\ last'.exc = NoTrap
    BY <1>0, <1>14 DEF AssertInterrupt, ClearInterrupt, Did, Cycle, Kinds
  <2>4. QED
    BY <2>2, <2>3 DEF Goal, Otherwise, TypeOK
<1>15. ASSUME Reset PROVE Goal
  <2>1. PowerOn(0) \in Registers
    BY PowerOnType, PcFacts
  <2>2. cpu' \in Registers
    BY <1>15, <2>1 DEF Reset
  <2>3. last' \in Cycle /\ last'.kind = "reset" /\ last'.exc = NoTrap
    BY <1>0, <1>15 DEF Reset, Did, Cycle, Kinds
  <2>4. QED
    BY <2>2, <2>3 DEF Goal, Otherwise, TypeOK
<1>16. QED
  BY <1>1, <1>2, <1>3, <1>4, <1>5, <1>6, <1>7, <1>8, <1>9, <1>10, <1>11, <1>12,
     <1>13, <1>14, <1>15 DEF Next, Goal

-----------------------------------------------------------------------------
(* The theorems. *)

\* The initial state is well typed, with no exception behind it.
LEMMA InitHolds == Init => TypeOK /\ ExceptionNotDropped
<1> SUFFICES ASSUME Init PROVE TypeOK /\ ExceptionNotDropped
  OBVIOUS
<1>1. PICK entry \in Targets : cpu = PowerOn(entry)
  BY DEF Init
<1>2. last = Did("reset", NoTrap, NoTrap)
  BY DEF Init
<1>3. last \in Cycle /\ last.exc = NoTrap
  BY <1>2 DEF Did, Cycle, Kinds, NoTrap, Vectors
<1>4. QED
  BY <1>1, <1>3, TargetsType, PowerOnType DEF TypeOK, ExceptionNotDropped

\* Every step keeps the types and lets no exception go unnoticed.
LEMMA NextHolds == TypeOK /\ ExceptionNotDropped /\ [Next]_vars
                      => TypeOK' /\ ExceptionNotDropped'
<1> SUFFICES ASSUME TypeOK, ExceptionNotDropped, [Next]_vars
             PROVE  TypeOK' /\ ExceptionNotDropped'
  OBVIOUS
<1>1. CASE UNCHANGED vars
  BY <1>1 DEF vars, TypeOK, ExceptionNotDropped, Preempted
<1>2. CASE Next /\ Otherwise
  BY <1>2 DEF Otherwise, ExceptionNotDropped
<1>3. CASE \E s, k, e : Instruction(s, k, e) /\ Tail(s, k, e)
  <2>1. PICK s, k, e : Instruction(s, k, e) /\ Tail(s, k, e)
    BY <1>3
  <2>2. s \in Registers /\ k \in Kinds /\ e \in Vectors
    BY <2>1 DEF Instruction
  <2>3. TypeOK'
    BY <2>1, <2>2, TailType
  <2>4. ASSUME last'.exc # NoTrap, cpu'.run
        PROVE  /\ Trapped(cpu', last'.exc)
               /\ last'.kind # "write_pc" => cpu'.pc \in Handlers
               /\ last'.kind = "double_fault" => Preempted(cpu')
    <3>1. /\ e = last'.exc /\ k = last'.kind /\ s.run /\ Trapped(s, e)
          /\ k # "write_pc" => s.pc \in Handlers
          /\ k = "double_fault" => Preempted(s)
      BY <2>1, <2>2, <2>4, TailCases DEF Instruction
    <3>2. ~s.ctl.ie
      BY <3>1 DEF Trapped
    <3>3. cpu' = s
      BY <2>1, <2>2, <2>4, <3>2, TailCases
    <3>4. QED
      BY <3>1, <3>3
  <2>5. QED
    BY <2>3, <2>4 DEF ExceptionNotDropped, Trapped, Preempted
<1>4. QED
  BY <1>1, <1>2, <1>3, NextShape

\* The registers keep their types, whatever the guest does.
THEOREM CpuTypeCorrect == Spec => []TypeOK
<1>1. QED
  BY InitHolds, NextHolds, PTL DEF Spec

\* No exception goes unnoticed: it stops the CPU or starts its own handler, at
\* its first instruction unless the failed access wrote R15; and of two faults
\* of one instruction the second one preempts the first, whose handler the
\* saved control word names.
THEOREM NoExceptionLost == Spec => []ExceptionNotDropped
<1>1. QED
  BY InitHolds, NextHolds, PTL DEF Spec

\* No IRQ is overlooked at the end of a cycle.
THEOREM NoIrqMissed == Spec => NoMissedIrq
<1> DEFINE A == last'.kind \notin {"event", "reset"} /\ cpu'.run /\ cpu'.ctl.ie =>
            \A v \in cpu'.pend \cap cpu'.mask : Blocked(cpu', v)
<1>1. ASSUME TypeOK, Next PROVE A
  <2>1. CASE Otherwise
    BY <2>1 DEF Otherwise
  <2>2. ASSUME NEW s, NEW k, NEW e, Instruction(s, k, e), Tail(s, k, e),
               last'.kind \notin {"event", "reset"} /\ cpu'.run /\ cpu'.ctl.ie
        PROVE  \A v \in cpu'.pend \cap cpu'.mask : Blocked(cpu', v)
    <3>0. s \in Registers
      BY <2>2 DEF Instruction
    <3>1. \/ cpu' = s /\ (s.ctl.ie => \A v \in s.pend \cap s.mask : Blocked(s, v))
          \/ ~cpu'.ctl.ie
      BY <2>2, <3>0, TailCases
    <3>2. QED
      BY <3>1, <2>2
  <2>3. QED
    BY <1>1, <2>1, <2>2, NextShape
<1>2. TypeOK /\ [Next]_vars => [A]_vars
  BY <1>1
<1>3. QED
  BY <1>2, CpuTypeCorrect, PTL DEF Spec, NoMissedIrq

\* Handlers are preempted only by strictly lower vectors.
THEOREM NestingIsBounded == Spec => NestingDescends
<1> DEFINE A == /\ last'.kind \notin {"ssr", "iret", "event", "reset"}
         /\ cpu'.run /\ cpu.ctl.inInt /\ cpu.ctl.cur # NoTrap
         => \/ last'.exc = NoTrap /\ cpu'.ctl = cpu.ctl
            \/ cpu'.ctl.cur < cpu.ctl.cur
<1>1. ASSUME TypeOK, Next PROVE A
  <2>1. CASE Otherwise
    BY <2>1 DEF Otherwise
  <2>2. ASSUME NEW s, NEW k, NEW e, Instruction(s, k, e), Tail(s, k, e),
               last'.kind \notin {"ssr", "iret", "event", "reset"},
               cpu'.run /\ cpu.ctl.inInt /\ cpu.ctl.cur # NoTrap
        PROVE  \/ last'.exc = NoTrap /\ cpu'.ctl = cpu.ctl
               \/ cpu'.ctl.cur < cpu.ctl.cur
    <3>0. s \in Registers
      BY <2>2 DEF Instruction
    <3>1. /\ s.run /\ k = last'.kind /\ e = last'.exc
          /\ \/ cpu' = s
             \/ /\ s.ctl.ie /\ ~Blocked(s, last'.irq)
                /\ cpu'.ctl.cur = last'.irq /\ last'.irq \in Irqs
      BY <2>2, <3>0, TailCases
    <3>2. cpu.ctl.cur \in Nat /\ \A i \in Irqs : i \in Nat
      BY <1>1, RegistersFields, VectorFacts DEF TypeOK, Control, Vectors
    <3>3. CASE e = NoTrap
      <4>1. s.ctl = cpu.ctl
        BY <2>2, <3>1, <3>3 DEF Instruction
      <4>2. CASE cpu' = s
        BY <3>1, <3>3, <4>1, <4>2
      <4>3. CASE ~Blocked(s, last'.irq) /\ cpu'.ctl.cur = last'.irq /\ last'.irq \in Irqs
        BY <2>2, <3>2, <4>1, <4>3 DEF Blocked
      <4>4. QED
        BY <3>1, <4>2, <4>3
    <3>4. CASE e # NoTrap
      <4>1. Trapped(s, e) /\ e < cpu.ctl.cur
        BY <2>2, <3>1, <3>4 DEF Instruction
      <4>2. cpu' = s /\ s.ctl.cur = e
        BY <3>1, <4>1 DEF Trapped
      <4>3. QED
        BY <4>1, <4>2
    <3>5. QED
      BY <3>3, <3>4
  <2>3. QED
    BY <1>1, <2>1, <2>2, NextShape
<1>2. TypeOK /\ [Next]_vars => [A]_vars
  BY <1>1
<1>3. QED
  BY <1>2, CpuTypeCorrect, PTL DEF Spec, NestingDescends

\* A trap taken by a regular instruction or a fetch can be returned from.
THEOREM TrapFrameExact == Spec => TrapFrame
<1> DEFINE A == last'.exc # NoTrap /\ last'.kind \notin Irregular /\ cpu'.run =>
            /\ cpu'.pc \in Handlers
            /\ cpu'.epc = cpu.pc /\ cpu'.tpc = cpu.pc
            /\ cpu'.ictl = cpu.ctl
<1>1. ASSUME TypeOK, Next PROVE A
  <2>1. CASE Otherwise
    BY <2>1 DEF Otherwise
  <2>2. ASSUME NEW s, NEW k, NEW e, Instruction(s, k, e), Tail(s, k, e),
               last'.exc # NoTrap /\ last'.kind \notin Irregular /\ cpu'.run
        PROVE  /\ cpu'.pc \in Handlers
               /\ cpu'.epc = cpu.pc /\ cpu'.tpc = cpu.pc
               /\ cpu'.ictl = cpu.ctl
    <3>0. s \in Registers
      BY <2>2 DEF Instruction
    <3>1. /\ s.run /\ k = last'.kind /\ e = last'.exc
          /\ cpu' = s \/ s.ctl.ie
      BY <2>2, <3>0, TailCases
    <3>2. /\ Trapped(s, e) /\ (k # "write_pc" => s.pc \in Handlers)
          /\ s.epc = cpu.pc /\ s.tpc = cpu.pc /\ s.ictl = cpu.ctl
      BY <2>2, <3>1 DEF Instruction
    <3>3. k # "write_pc"
      BY <2>2, <3>1 DEF Irregular
    <3>4. QED
      BY <3>1, <3>2, <3>3 DEF Trapped
  <2>3. QED
    BY <1>1, <2>1, <2>2, NextShape
<1>2. TypeOK /\ [Next]_vars => [A]_vars
  BY <1>1
<1>3. QED
  BY <1>2, CpuTypeCorrect, PTL DEF Spec, TrapFrame

\* User mode ends only where a handler begins.
THEOREM UserModeGate == Spec => UserLeftByTrap
<1> DEFINE A == cpu.ctl.user /\ ~cpu'.ctl.user /\ cpu'.run /\ last'.kind # "reset" =>
            /\ cpu'.ctl.inInt /\ ~cpu'.ctl.ie
            /\ cpu'.ctl.cur \in {last'.exc, last'.irq} \ {NoTrap}
            /\ \/ cpu'.pc \in Handlers
               \/ last'.kind = "write_pc" /\ last'.exc # NoTrap
<1>1. ASSUME TypeOK, Next PROVE A
  <2>1. CASE Otherwise
    BY <2>1 DEF Otherwise
  <2>2. ASSUME NEW s, NEW k, NEW e, Instruction(s, k, e), Tail(s, k, e),
               cpu.ctl.user /\ ~cpu'.ctl.user /\ cpu'.run /\ last'.kind # "reset"
        PROVE  /\ cpu'.ctl.inInt /\ ~cpu'.ctl.ie
               /\ cpu'.ctl.cur \in {last'.exc, last'.irq} \ {NoTrap}
               /\ \/ cpu'.pc \in Handlers
                  \/ last'.kind = "write_pc" /\ last'.exc # NoTrap
    <3>0. s \in Registers
      BY <2>2 DEF Instruction
    <3>1. /\ s.run /\ k = last'.kind /\ e = last'.exc
          /\ \/ cpu' = s
             \/ /\ s.ctl.ie /\ cpu'.ctl.inInt /\ ~cpu'.ctl.ie
                /\ cpu'.ctl.cur = last'.irq /\ last'.irq \in Irqs
                /\ cpu'.pc \in Handlers
      BY <2>2, <3>0, TailCases
    <3>2. NoTrap \notin Irqs
      BY CpuAssumption DEF NoTrap, IrqVectors
    <3>3. CASE e = NoTrap
      <4>1. s.ctl = cpu.ctl
        BY <2>2, <3>3 DEF Instruction
      <4>2. cpu' # s
        BY <2>2, <4>1
      <4>3. QED
        BY <3>1, <3>2, <4>2
    <3>4. CASE e # NoTrap
      <4>1. Trapped(s, e) /\ (k # "write_pc" => s.pc \in Handlers)
        BY <2>2, <3>1, <3>4 DEF Instruction
      <4>2. cpu' = s
        BY <3>1, <4>1 DEF Trapped
      <4>3. QED
        BY <3>1, <3>4, <4>1, <4>2 DEF Trapped
    <3>5. QED
      BY <3>3, <3>4
  <2>3. QED
    BY <1>1, <2>1, <2>2, NextShape
<1>2. TypeOK /\ [Next]_vars => [A]_vars
  BY <1>1
<1>3. QED
  BY <1>2, CpuTypeCorrect, PTL DEF Spec, UserLeftByTrap
=============================================================================
