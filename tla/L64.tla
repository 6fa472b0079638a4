-------------------------------- MODULE L64 --------------------------------
(***************************************************************************)
(* The data of the Little-64 hardware cores at a reduced width: what an    *)
(* instruction, a register, a special register and a memory byte are.      *)
(*                                                                         *)
(*             model      hardware                                         *)
(*   byte      2 bits     8 bits                                           *)
(*   word      4 bytes    8 bytes    (registers, bus words, PUSH and POP)  *)
(*   page      16 bytes   4096 bytes                                       *)
(*   fetch     4 bytes    8 bytes    (two instructions of two bytes)       *)
(*                                                                         *)
(* An instruction is its decoded fields.  Page-table entries and interrupt *)
(* table entries are one address unit long.  Code, data, page tables and   *)
(* the interrupt table lie in separate parts of the physical space.        *)
(***************************************************************************)
EXTENDS Integers, Sequences, FiniteSets, FiniteSetsExt

CONSTANTS
    Tables,     \* page tables: frame -> entry index -> PTE
    Handlers    \* interrupt table: vector -> handler address, 0 when none

ASSUME L64Assumption ==
    /\ \A f \in DOMAIN Tables : \A i \in DOMAIN Tables[f] :
          Tables[f][i] \in [V : BOOLEAN, perm : SUBSET {"R", "W", "X"}, U : BOOLEAN,
                           rsv : BOOLEAN, ppn : 0 .. 15]
    /\ Handlers \in [0 .. 15 -> 0 .. 255]

WordBytes == 4
PageBytes == 16
Word      == 0 .. 255
Byte      == 0 .. 3
Access    == {"R", "W", "X"}

P == INSTANCE Paging WITH NIdx <- 2, Ram <- DOMAIN Tables

Plus(a, b)  == (a + b) % 256
Minus(a, b) == (a - b) % 256
Bit(w, i)   == (w \div 2^i) % 2 = 1
ByteOf(w, i) == (w \div 4^i) % 4

\* w with the bits in S set
SetBits(w, S) ==
    LET new(i) == IF i \in S /\ ~Bit(w, i) THEN 2^i ELSE 0
    IN w + new(0) + new(1) + new(2) + new(3) + new(4) + new(5) + new(6) + new(7)

-----------------------------------------------------------------------------
\* cpu_control: CPU_CONTROL_INT_ENABLE, _IN_INTERRUPT, _CUR_INT (4 bits here,
\* 7 in the code), _PAGING_ENABLE and _USER_MODE
IntEnable(c)   == Bit(c, 0)
InInterrupt(c) == Bit(c, 1)
CurInt(c)      == (c \div 4) % 16
PagingOn(c)    == Bit(c, 6)
UserMode(c)    == Bit(c, 7)

\* trap_cpu_control_value: enable, user and current vector cleared, the
\* in-interrupt bit and the new vector set, paging kept
EntryControl(c, vector) == 2 + 4 * vector + (IF PagingOn(c) THEN 64 ELSE 0)

\* TrapVector
EXEC_ALIGN == 1
PRIVILEGED_INSTRUCTION == 2
SYSCALL == 3
SYSCALL_FROM_SUPERVISOR == 4
PAGE_FAULT_NOT_PRESENT == 5
PAGE_FAULT_PERMISSION == 6
PAGE_FAULT_RESERVED == 7
PAGE_FAULT_CANONICAL == 8
INVALID_INSTRUCTION == 9
FIRST_HW_IRQ == 11

\* SpecialRegister: the selectors the core reads or writes itself.  The
\* plain storage behind selectors 12 to 15, 17 and 19 is left out.
CPU_CONTROL == 0
PAGE_TABLE_ROOT == 11
INTERRUPT_TABLE_BASE == 16
INTERRUPT_MASK_HIGH == 18
INTERRUPT_STATES_HIGH == 20
INTERRUPT_EPC == 21
INTERRUPT_EFLAGS == 22
INTERRUPT_CPU_CONTROL == 23
TRAP_CAUSE == 24
TRAP_FAULT_ADDR == 25
TRAP_ACCESS == 26
TRAP_PC == 27
TRAP_AUX == 28
THREAD_POINTER == 128
Selectors == {0, 11, 16, 18, 20, 21, 22, 23, 24, 25, 26, 27, 28, 128}

EncodeAux(subtype, level) == subtype + 8 * level
AccessCode(access) == CASE access = "R" -> 0 [] access = "W" -> 1 [] access = "X" -> 2

-----------------------------------------------------------------------------
\* flag_value: <<zero, carry, sign>>
FlagValue(result, carry) == <<result = 0, carry, result >= 128>>
FlagsWord(f) == (IF f[1] THEN 1 ELSE 0) + (IF f[2] THEN 2 ELSE 0) + (IF f[3] THEN 4 ELSE 0)
WordFlags(w) == <<Bit(w, 0), Bit(w, 1), Bit(w, 2)>>

\* ls_condition
LsCondition(f, cond) ==
    CASE cond = "Z"  -> f[1]
      [] cond = "C"  -> f[2]
      [] cond = "S"  -> f[3]
      [] cond = "GT" -> ~f[1] /\ ~f[3]
      [] cond = "LT" -> f[3]

\* The shift tables, for amounts from 0 to the width of a word
ShiftLeft(a, n) ==
    [value |-> (a * 2^n) % 256, carry |-> n \in 1 .. 7 /\ a \div 2^(8 - n) # 0]
ShiftRight(a, n) ==
    [value |-> a \div 2^n, carry |-> n \in 1 .. 7 /\ Bit(a, n - 1)]
ShiftArithmetic(a, n) ==
    [ShiftRight(a, n) EXCEPT !.value = IF a >= 128 THEN 255 - ((255 - a) \div 2^n) ELSE @]

\* The value and the carry of the GP operations
Alu(fn, a, b, imm) ==
    LET amount == IF b >= 8 THEN 8 ELSE b
        logic(S) == [value |-> SetBits(0, S), carry |-> FALSE]
    IN CASE fn = "ADD" -> [value |-> Plus(a, b), carry |-> a + b > 255]
         [] fn \in {"SUB", "TEST"} -> [value |-> Minus(a, b), carry |-> b > a]
         [] fn = "AND" -> logic({k \in 0 .. 7 : Bit(a, k) /\ Bit(b, k)})
         [] fn = "OR" -> logic({k \in 0 .. 7 : Bit(a, k) \/ Bit(b, k)})
         [] fn = "XOR" -> logic({k \in 0 .. 7 : Bit(a, k) # Bit(b, k)})
         [] fn = "SLL" -> ShiftLeft(a, amount)
         [] fn = "SRL" -> ShiftRight(a, amount)
         [] fn = "SRA" -> ShiftArithmetic(a, amount)
         [] fn = "SLLI" -> ShiftLeft(a, imm)
         [] fn = "SRLI" -> ShiftRight(a, imm)
         [] fn = "SRAI" -> ShiftArithmetic(a, imm)

-----------------------------------------------------------------------------
PageOf(a)   == a \div PageBytes
OffsetOf(a) == a % PageBytes
LineOf(a)   == a \div WordBytes

Canonical(a) == P!Canonical(PageOf(a))
RootAligned(root) == root % PageBytes = 0

\* Physical memory as the data bus sees it: bytes of data, entries of the
\* page tables, entries of the interrupt table.  Where nothing is, it reads
\* as zero.
ByteAt(mem, a) == IF a \in DOMAIN mem THEN mem[a] ELSE 0
WordOf(b) == b[0] + 4 * b[1] + 16 * b[2] + 64 * b[3]
LoadBytes(mem, a, width) ==
    WordOf([i \in 0 .. 3 |-> IF i < width THEN ByteAt(mem, a + i) ELSE 0])
\* the bytes of the bus word around a
BusWord(mem, a) == [i \in 0 .. 3 |-> ByteAt(mem, (a - (a % WordBytes)) + i)]
StoreBytes(mem, a, lanes, value) ==
    [x \in DOMAIN mem |-> IF x - a \in lanes THEN ByteOf(value, x - a) ELSE mem[x]]
HandlerAt(entry) == Handlers[entry % PageBytes]
ZeroPte == [V |-> FALSE, perm |-> {}, U |-> FALSE, rsv |-> FALSE, ppn |-> 0]
PteAt(entry) ==
    IF PageOf(entry) \in DOMAIN Tables /\ OffsetOf(entry) \in DOMAIN Tables[PageOf(entry)]
    THEN Tables[PageOf(entry)][OffsetOf(entry)] ELSE ZeroPte
=============================================================================
