----------------------------- MODULE BpfMachine -----------------------------
(***************************************************************************)
(* The filter machine of libpcap: bpf_filter and bpf_validate of           *)
(* bpf/net/bpf_filter.c.  It runs the programs that pcap_compile makes.    *)
(*                                                                         *)
(* The machine is scaled down and otherwise kept: a byte has ByteBits      *)
(* bits, a half-word two bytes, a word four, and all arithmetic is modulo  *)
(* the word.  A code is a triple <<class, operation or mode, size or       *)
(* operand>>, so <<"LD", "ABS", "H">> is BPF_LD|BPF_ABS|BPF_H.             *)
(*                                                                         *)
(* An instruction that stops the program (a load past the end of the       *)
(* packet, a division by an X that is zero) leaves "stop" in the state.    *)
(* What C leaves undefined leaves "undef": a load of a cell of mem[],      *)
(* which the code does not initialise, before any store to it, and a       *)
(* division by a constant zero, which has no test.                         *)
(***************************************************************************)
EXTENDS Integers, Sequences, Bitwise

CONSTANTS
    ByteBits,    \* bits of a byte; 8 in the code
    MemWords     \* BPF_MEMWORDS; 16 in the code

ASSUME MachineAssumption ==
    /\ ByteBits \in Nat \ {0}
    /\ MemWords \in Nat \ {0}

WordBits == 4 * ByteBits
WordSize == 2 ^ WordBits
AllOnes == WordSize - 1

SizeOf(sz) == CASE sz = "B" -> 1 [] sz = "H" -> 2 [] sz = "W" -> 4

(* EXTRACT_SHORT, EXTRACT_LONG and p[k], all in network order.             *)
Extract(p, off, sz) ==
    LET Byte(i) == p[off + 1 + i] * 2 ^ (ByteBits * (SizeOf(sz) - 1 - i))
    IN  CASE sz = "B" -> Byte(0)
          [] sz = "H" -> Byte(0) + Byte(1)
          [] sz = "W" -> Byte(0) + Byte(1) + Byte(2) + Byte(3)

(* The offset is not reduced modulo the word before it is compared: the    *)
(* tests subtract from buflen.                                             *)
InPacket(p, off, sz) == off + SizeOf(sz) =< Len(p)

(* Shifts by the word's width or more are undefined in C; the processors   *)
(* the library is built for use the count modulo the width.                *)
ALU(op, a, v) ==
    CASE op = "ADD" -> (a + v) % WordSize
      [] op = "SUB" -> (a - v) % WordSize
      [] op = "MUL" -> (a * v) % WordSize
      [] op = "DIV" -> a \div v
      [] op = "MOD" -> a % v
      [] op = "AND" -> a & v
      [] op = "OR"  -> a | v
      [] op = "XOR" -> a ^^ v
      [] op = "LSH" -> (a * 2 ^ (v % WordBits)) % WordSize
      [] op = "RSH" -> a \div 2 ^ (v % WordBits)

Holds(op, a, v) ==
    CASE op = "JEQ" -> a = v
      [] op = "JGT" -> a > v
      [] op = "JGE" -> a >= v
      [] op = "JSET" -> (a & v) # 0

Undef == -1
Start == [A |-> 0, X |-> 0, mem |-> [i \in 0..(MemWords - 1) |-> Undef],
          st |-> "run"]

LoadMem(m, reg, k) ==
    IF m.mem[k] = Undef THEN [m EXCEPT !.st = "undef"]
                        ELSE [m EXCEPT ![reg] = m.mem[k]]

LoadPacket(m, p, off, sz) ==
    IF InPacket(p, off, sz) THEN [m EXCEPT !.A = Extract(p, off, sz)]
                            ELSE [m EXCEPT !.st = "stop"]

(* One instruction that is neither a jump nor a return.                    *)
Execute(m, i, p) ==
    LET cl == i.code[1]
        op == i.code[2]
        v  == IF i.code[3] = "X" THEN m.X ELSE i.k
    IN  CASE cl = "NOP" -> m
          [] cl = "LD" /\ op = "ABS" -> LoadPacket(m, p, i.k, i.code[3])
          [] cl = "LD" /\ op = "IND" -> LoadPacket(m, p, m.X + i.k, i.code[3])
          [] cl = "LD" /\ op = "LEN" -> [m EXCEPT !.A = Len(p)]
          [] cl = "LD" /\ op = "IMM" -> [m EXCEPT !.A = i.k]
          [] cl = "LD" /\ op = "MEM" -> LoadMem(m, "A", i.k)
          [] cl = "LDX" /\ op = "IMM" -> [m EXCEPT !.X = i.k]
          [] cl = "LDX" /\ op = "MEM" -> LoadMem(m, "X", i.k)
          [] cl = "LDX" /\ op = "MSH" ->
                IF InPacket(p, i.k, "B")
                THEN [m EXCEPT !.X = (Extract(p, i.k, "B") % 16) * 4]
                ELSE [m EXCEPT !.st = "stop"]
          [] cl = "ST"  -> [m EXCEPT !.mem[i.k] = m.A]
          [] cl = "STX" -> [m EXCEPT !.mem[i.k] = m.X]
          [] cl = "ALU" /\ op = "NEG" -> [m EXCEPT !.A = (-m.A) % WordSize]
          [] cl = "ALU" /\ op # "NEG" ->
                IF op \in {"DIV", "MOD"} /\ v = 0
                THEN [m EXCEPT !.st = IF i.code[3] = "X" THEN "stop" ELSE "undef"]
                ELSE [m EXCEPT !.A = ALU(op, m.A, v)]
          [] cl = "MISC" /\ op = "TAX" -> [m EXCEPT !.X = m.A]
          [] cl = "MISC" /\ op = "TXA" -> [m EXCEPT !.A = m.X]

JumpsTo(m, i) == Holds(i.code[2], m.A, IF i.code[3] = "X" THEN m.X ELSE i.k)

(* bpf_filter: the value returned, 0 for a program that is stopped and     *)
(* Undef for one that reaches an undefined operation.                      *)
RECURSIVE RunFrom(_, _, _, _)
RunFrom(prog, pc, m, p) ==
    LET i == prog[pc]
        n == Execute(m, i, p)
    IN  CASE i.code[1] = "RET" -> i.k
          [] i.code[1] = "JMP" /\ i.code[2] = "JA" ->
                RunFrom(prog, pc + 1 + i.k, m, p)
          [] i.code[1] = "JMP" /\ i.code[2] # "JA" ->
                RunFrom(prog, pc + 1 + (IF JumpsTo(m, i) THEN i.jt ELSE i.jf),
                        m, p)
          [] i.code[1] \notin {"RET", "JMP"} ->
                CASE n.st = "run"   -> RunFrom(prog, pc + 1, n, p)
                  [] n.st = "stop"  -> 0
                  [] n.st = "undef" -> Undef

bpf_filter(prog, p) == RunFrom(prog, 1, Start, p)

bpf_validate(prog) ==
    /\ Len(prog) > 0
    /\ \A j \in 1..Len(prog) :
          LET i == prog[j]
              InProgram(d) == j + 1 + d =< Len(prog)
          IN  CASE i.code[1] \in {"LD", "LDX"} ->
                      i.code[2] = "MEM" => i.k < MemWords
                [] i.code[1] \in {"ST", "STX"} -> i.k < MemWords
                [] i.code[1] = "ALU" ->
                      ~(i.code[2] \in {"DIV", "MOD"} /\ i.code[3] = "K" /\ i.k = 0)
                [] i.code[1] = "JMP" ->
                      IF i.code[2] = "JA" THEN InProgram(i.k)
                                          ELSE InProgram(i.jt) /\ InProgram(i.jf)
                [] OTHER -> TRUE
    /\ prog[Len(prog)].code[1] = "RET"
=============================================================================
