------------------------------ MODULE V3Stages ------------------------------
(***************************************************************************)
(* The combinational stages of the V3 pipeline, which V4 shares: register  *)
(* read with bypass, execute, memory result, retire.                       *)
(*                                                                         *)
(* An instruction is [op, fn, rd, rs1, imm, width, pcrel].  An optional    *)
(* value is the empty sequence or a sequence of one element; register      *)
(* writes are a sequence of <<index, value>> pairs.                        *)
(***************************************************************************)
EXTENDS PageWalk

\* Memory outside a program holds an unassigned opcode.
Unassigned == [op |-> "ILLEGAL", fn |-> "", rd |-> 0, rs1 |-> 0, imm |-> 0,
               width |-> 0, pcrel |-> FALSE]
\* the slot of the fetch line that bits 1 and up of the address select
Fetch(code, a) == LET slot == a - (a % 2) IN IF slot \in DOMAIN code THEN code[slot] ELSE Unassigned

\* What a program may hold: its instructions name its registers, and all
\* its values are words.
AluFunctions == {"ADD", "SUB", "TEST", "AND", "OR", "XOR", "SLL", "SRL", "SRA", "SLLI", "SRLI", "SRAI"}
Opcodes == {"LDI", "UJMP", "ALU", "LLR", "SCR", "LOAD", "STORE", "PUSH", "POP", "MOVE", "JUMP",
            "LSR", "SSR", "SYSCALL", "IRET", "STOP", "ILLEGAL"}
IsInstruction(i, registers) ==
    /\ i.op \in Opcodes
    /\ i.rd \in registers \cup {0} /\ i.rs1 \in registers \cup {0}
    /\ i.imm \in Word /\ i.width \in 0 .. WordBytes /\ i.pcrel \in BOOLEAN
    /\ i.op = "ALU" => i.fn \in AluFunctions /\ i.imm \in 0 .. 8
IsProgram(p) ==
    /\ p.regs \in [DOMAIN p.regs -> Word] /\ 15 \in DOMAIN p.regs
    /\ 0 \in DOMAIN p.regs => p.regs[0] = 0
    /\ p.mem \in [DOMAIN p.mem -> Byte]
    /\ p.sr \in [Selectors -> Word]
    /\ \A a \in DOMAIN p.code : IsInstruction(p.code[a], DOMAIN p.regs)

NopOutputs(next_pc) ==
    [writes |-> <<>>, flags |-> <<>>, control |-> <<>>, next_pc |-> next_pc,
     halt |-> FALSE, trap |-> 0, clear_reservation |-> FALSE,
     special |-> <<>>, memory |-> <<>>]

\* A memory operation: the access, the register the load writes, the write
\* that follows it (PUSH, POP), the chained store of the PC-relative PUSH
\* and POP, the flags and the reservation.
MemoryOp(addr, width, write, value) ==
    [addr |-> addr, width |-> width, write |-> write, value |-> value,
     dest |-> <<>>, post |-> <<>>, chain |-> <<>>, flags |-> <<>>, reserve |-> FALSE]

-----------------------------------------------------------------------------
\* LDI: shift 0 replaces the register, the others or the byte into it
ExecuteLdi(i, a, n) ==
    LET value == IF i.fn = 0 THEN i.imm
                 ELSE SetBits(a, {k \in 0 .. 7 : Bit((i.imm * 4^i.fn) % 256, k)})
    IN [n EXCEPT !.writes = <<<<i.rd, value>>>>]

\* The register-form load and store space (top2 = 00).  R15 reads as the
\* incremented PC.
ExecuteLs(i, a, b, f, n) ==
    LET post == n.next_pc
        rd   == IF i.rd = 15 THEN post ELSE a
        rs1  == IF i.rs1 = 15 THEN post ELSE b
        addr == Plus(rs1, i.imm)
        taken == i.op = "MOVE" \/ LsCondition(f, i.fn)
    IN CASE i.op = "LOAD" ->
              [n EXCEPT !.memory = <<[MemoryOp(addr, i.width, FALSE, 0) EXCEPT !.dest = <<i.rd>>]>>]
         [] i.op = "STORE" ->
              [n EXCEPT !.memory = <<MemoryOp(addr, i.width, TRUE, rd)>>]
         [] i.op = "PUSH" ->
              LET sp == Minus(rd, WordBytes) IN
              [n EXCEPT !.memory = <<[MemoryOp(sp, WordBytes, TRUE, rs1) EXCEPT
                                        !.post = <<[index |-> i.rd, value |-> sp, alias |-> FALSE]>>]>>]
         [] i.op = "POP" ->
              [n EXCEPT !.memory = <<[MemoryOp(rd, WordBytes, FALSE, 0) EXCEPT
                                        !.dest = <<i.rs1>>,
                                        !.post = <<[index |-> i.rd, value |-> Plus(rd, WordBytes),
                                                    alias |-> i.rd = i.rs1]>>]>>]
         [] i.op \in {"MOVE", "JUMP"} ->
              [n EXCEPT !.writes = IF taken THEN <<<<i.rd, addr>>>> ELSE <<>>,
                        !.next_pc = IF taken /\ i.rd = 15 THEN addr ELSE post]

\* The PC-relative space (top2 = 01).  PUSH loads from the target and pushes
\* the value, POP pops a value and stores it there.
ExecuteLsPc(i, a, f, n) ==
    LET post   == n.next_pc
        target == Plus(post, i.imm)
        sp     == Minus(a, WordBytes)
    IN CASE i.op = "LOAD" ->
              [n EXCEPT !.memory = <<[MemoryOp(target, i.width, FALSE, 0) EXCEPT !.dest = <<i.rd>>]>>]
         [] i.op = "STORE" ->
              [n EXCEPT !.memory = <<MemoryOp(target, i.width, TRUE, a)>>]
         [] i.op = "PUSH" ->
              [n EXCEPT !.memory = <<[MemoryOp(target, WordBytes, FALSE, 0) EXCEPT
                                        !.post = <<[index |-> i.rd, value |-> sp, alias |-> FALSE]>>,
                                        !.chain = <<sp>>]>>]
         [] i.op = "POP" ->
              [n EXCEPT !.memory = <<[MemoryOp(a, WordBytes, FALSE, 0) EXCEPT
                                        !.post = <<[index |-> i.rd, value |-> Plus(a, WordBytes),
                                                    alias |-> FALSE]>>,
                                        !.chain = <<target>>]>>]
         [] i.op = "MOVE" ->
              [n EXCEPT !.writes = <<<<i.rd, target>>>>,
                        !.next_pc = IF i.rd = 15 THEN target ELSE post]
         [] i.op = "JUMP" ->
              [n EXCEPT !.next_pc = IF LsCondition(f, i.fn) THEN target ELSE post]

ExecuteAlu(i, a, b, n) ==
    LET r == Alu(i.fn, a, b, i.imm) IN
    [n EXCEPT !.writes = IF i.fn = "TEST" THEN <<>> ELSE <<<<i.rd, r.value>>>>,
              !.flags = <<FlagValue(r.value, r.carry)>>]

\* LLR and SCR: a store-conditional writes memory only under a reservation
\* of its own address; Z reports the outcome.
ExecuteAtomic(i, a, b, f, resv, n) ==
    IF i.op = "LLR"
    THEN [n EXCEPT !.memory = <<[MemoryOp(b, WordBytes, FALSE, 0) EXCEPT
                                   !.dest = <<i.rd>>, !.reserve = TRUE]>>]
    ELSE IF resv = <<b>>
         THEN [n EXCEPT !.memory = <<[MemoryOp(b, WordBytes, TRUE, a) EXCEPT
                                        !.flags = <<<<TRUE, f[2], f[3]>>>>]>>]
         ELSE [n EXCEPT !.flags = <<<<FALSE, f[2], f[3]>>>>, !.clear_reservation = TRUE]

\* The system instructions of the GP space and its unassigned opcodes
ExecuteSystem(i, a, b, sr, n) ==
    LET user == UserMode(sr[CPU_CONTROL]) IN
    CASE i.op = "LSR" ->
           IF ReadAccessFault(sr, b) THEN [n EXCEPT !.trap = PRIVILEGED_INSTRUCTION]
           ELSE [n EXCEPT !.writes = <<<<i.rd, SpecialRead(sr, b)>>>>]
      [] i.op = "SSR" ->
           IF WriteAccessFault(sr, b) THEN [n EXCEPT !.trap = PRIVILEGED_INSTRUCTION]
           ELSE [n EXCEPT !.special = <<[sel |-> b, data |-> a]>>]
      [] i.op = "SYSCALL" ->
           [n EXCEPT !.trap = IF user THEN SYSCALL ELSE SYSCALL_FROM_SUPERVISOR]
      [] i.op = "IRET" ->
           IF user THEN [n EXCEPT !.trap = PRIVILEGED_INSTRUCTION]
           ELSE [n EXCEPT !.flags = <<WordFlags(sr[INTERRUPT_EFLAGS])>>,
                          !.control = <<sr[INTERRUPT_CPU_CONTROL]>>,
                          !.next_pc = sr[INTERRUPT_EPC]]
      [] i.op = "STOP" ->
           IF user THEN [n EXCEPT !.trap = PRIVILEGED_INSTRUCTION] ELSE [n EXCEPT !.halt = TRUE]
      [] i.op = "ILLEGAL" -> [n EXCEPT !.trap = INVALID_INSTRUCTION]

\* Little64V3ExecuteStage
Execute(i, pc, a, b, f, sr, resv) ==
    LET n == NopOutputs(Plus(pc, 2)) IN
    CASE i.op = "LDI" -> ExecuteLdi(i, a, n)
      [] i.op = "UJMP" -> [n EXCEPT !.next_pc = Plus(@, i.imm)]
      [] i.op = "ALU" -> ExecuteAlu(i, a, b, n)
      [] i.op \in {"LLR", "SCR"} -> ExecuteAtomic(i, a, b, f, resv, n)
      [] i.op \in {"LOAD", "STORE", "PUSH", "POP", "MOVE", "JUMP"} ->
            IF i.pcrel THEN ExecuteLsPc(i, a, f, n) ELSE ExecuteLs(i, a, b, f, n)
      [] OTHER -> ExecuteSystem(i, a, b, sr, n)

-----------------------------------------------------------------------------
\* A register as an instruction reads it: R0 is zero.
ReadReg(regs, r) == IF r = 0 THEN 0 ELSE regs[r]

\* The decode stage's bypass: the youngest write to the register among the
\* stages ahead, in the order execute, memory result, retire; then the file.
Operand(regs, r, bypass) ==
    LET hits == SelectSeq(bypass, LAMBDA w : w[1] = r) IN
    IF r = 0 \/ hits = <<>> THEN ReadReg(regs, r) ELSE hits[1][2]

\* mutant: the second source register is not compared
LoadUseHazardRd(i, pending) == {i.rd} \cap (pending \ {0}) # {}

\* load_use_hazard: a register whose value is not known yet
LoadUseHazard(i, pending) == {i.rd, i.rs1} \cap (pending \ {0}) # {}

\* the registers a memory operation will write
PendingWrites(op) ==
    (IF op.dest # <<>> /\ ~op.write THEN {op.dest[1]} ELSE {})
        \cup (IF op.post # <<>> THEN {op.post[1].index} ELSE {})

\* Little64V3MemoryStage: the register writes of a finished access; POP into
\* its own pointer keeps the loaded value plus the increment
MemoryWrites(op, loaded) ==
    LET post == IF op.post = <<>> THEN <<>>
                ELSE <<<<op.post[1].index,
                         IF op.post[1].alias THEN Plus(loaded, WordBytes) ELSE op.post[1].value>>>>
        dest == IF op.dest = <<>> THEN <<>> ELSE <<<<op.dest[1], loaded>>>>
    IN IF post = <<>> THEN dest
       ELSE IF dest = <<>> \/ post[1][1] = dest[1][1] THEN post ELSE <<dest[1], post[1]>>

\* What at most two writes leave in register r: the second wins
LastWrite(writes, r, old) ==
    IF Len(writes) > 1 /\ writes[2][1] = r THEN writes[2][2]
    ELSE IF Len(writes) > 0 /\ writes[1][1] = r THEN writes[1][2]
    ELSE old

\* response_next_pc: an access that writes R15 is a jump
MemoryNextPc(op, loaded, next_pc) ==
    LastWrite(MemoryWrites(op, loaded), 15, next_pc)

\* Little64V3RetireStage and the write-back of the core: the register pair,
\* then R15 on a commit or a halt
WriteBack(regs, writes, next_pc) ==
    [r \in DOMAIN regs |->
        CASE r = 0 -> 0
          [] r = 15 -> next_pc
          [] r \notin {0, 15} -> LastWrite(writes, r, regs[r])]
=============================================================================
