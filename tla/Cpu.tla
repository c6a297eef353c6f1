-------------------------------- MODULE Cpu ---------------------------------
(***************************************************************************)
(* The Python simulator (pytools/sim.py): a CPU on a bus of memory banks,  *)
(* from the start of main() to the end of run().  tools/src/RRISC/Sim is   *)
(* its port.  One action is one instruction, with the fetch before it and  *)
(* the counters and the --maxcycle check after it.                         *)
(*                                                                         *)
(* The terminal is a device of its own (module Terminal); here the bus     *)
(* holds the banks of --mem.                                               *)
(***************************************************************************)
EXTENDS Isa, Sequences

CONSTANTS Banks,      \* the banks of --mem, in order
          Files,      \* the binaries considered, as sequences of words
          PowerUps,   \* what --randomize may leave, or the one cleared state
          Starts,     \* --start
          MaxCycle    \* --maxcycle; 0 is no limit

Types == {"ram", "rom", "io"}
Bank == [type : Types, base : Word, size : Nat]

\* The backing store of bank k; an io bank has none.
Cells(k) == IF Banks[k].type = "io" THEN {} ELSE 0..(Banks[k].size - 1)

\* A bank that reaches over the end of the address space is left out: Python's
\* negative list indices would make its cells alias one another.
ASSUME BankAssumption ==
  /\ Banks \in Seq(Bank)
  /\ \A k \in 1..Len(Banks) : Banks[k].base + Banks[k].size <= Space
ASSUME FileAssumption == Files \subseteq Seq(Word)
ASSUME StartAssumption == Starts \subseteq Word
ASSUME MaxCycleAssumption == MaxCycle \in Nat
\* randomize() leaves r0, r7 and the ROMs alone.
ASSUME PowerUpAssumption ==
  \A p \in PowerUps :
    /\ p.reg \in [Reg -> Word] /\ p.reg[0] = 0 /\ p.reg[7] = Space - 1
    /\ p.T \in {0, 1}
    /\ DOMAIN p.data = 1..Len(Banks)
    /\ \A k \in 1..Len(Banks) : p.data[k] \in [Cells(k) -> Word]

VARIABLES
  args,       \* the command line: the binary and the start address
  outcome,    \* "loading", "running", "halted", "maxcycle", "conflict"
  reg, T, pc,
  data,       \* bank.data
  retired, cycles

vars == <<args, outcome, reg, T, pc, data, retired, cycles>>
-----------------------------------------------------------------------------
(* The bus. *)

Covers(k, a) == Banks[k].base <= a /\ a < Banks[k].base + Banks[k].size
Drivers(a) == {k \in 1..Len(Banks) : Covers(k, a)}

\* More than one bank answers a read.
Conflict(a) == \E j, k \in Drivers(a) : j # k

\* No bank answers: the bus floats high.
Read(a) ==
  IF Drivers(a) = {} THEN Space - 1
  ELSE LET k == CHOOSE k \in Drivers(a) : TRUE
       IN  IF Banks[k].type = "io" THEN 0 ELSE data[k][a - Banks[k].base]

Takes_Any(k, a) == Banks[k].type # "io" /\ Covers(k, a)    \* fault: writes to ROM
Takes(k, a) == Banks[k].type = "ram" /\ Covers(k, a)

\* A write goes to every RAM at the address.
Stored(a, v) == [k \in 1..Len(Banks) |->
                   IF Takes(k, a) THEN [data[k] EXCEPT ![a - Banks[k].base] = v]
                   ELSE data[k]]
-----------------------------------------------------------------------------
(* The registers and the end of step() and of the loop in run(). *)

Put_R7(rd, v) == [reg EXCEPT ![rd] = IF rd = 0 THEN @ ELSE v % Space]   \* fault
Put(rd, v) == [reg EXCEPT ![rd] = IF rd = 0 \/ rd = 7 THEN @ ELSE v % Space]

Continue(n, next) ==
  IF MaxCycle > 0 /\ cycles + n >= MaxCycle THEN "maxcycle" ELSE next

Retire_Exact(n, next) ==     \* fault: the limit is missed by a two-cycle step
  /\ retired' = retired + 1
  /\ cycles' = cycles + n
  /\ outcome' = IF MaxCycle > 0 /\ cycles + n = MaxCycle THEN "maxcycle" ELSE next
Retire(n, next) ==
  /\ retired' = retired + 1
  /\ cycles' = cycles + n
  /\ outcome' = Continue(n, next)

IR == Read(pc)
Executes(op) == outcome = "running" /\ ~Conflict(pc) /\ Op(IR) = op
Special(rb) == Executes(SPEC) /\ Rb(IR) = rb
IsBranch == Rd(IR) = 0 \/ Rd(IR) = 7
NextPc == (pc + 1) % Space

\* An instruction that writes val to rd and t to the flag, and goes on.
Computes(val, t) ==
  /\ reg' = Put(Rd(IR), val) /\ T' = t
  /\ pc' = NextPc /\ Retire(1, "running")
  /\ UNCHANGED <<args, data>>

Flag(condition) == IF condition THEN 1 ELSE 0
-----------------------------------------------------------------------------
Init == /\ args \in [file : Files, start : Starts]
        /\ outcome = "loading"
        /\ \E p \in PowerUps : reg = p.reg /\ T = p.T /\ data = p.data
        /\ pc = 0 /\ retired = 0 /\ cycles = 0

(* load_mem and the rest of main(): word n of the file goes to the first bank
   with a store that has address n modulo 4096, over what an earlier word left
   there; words no bank has are dropped. *)
Home(a) == {k \in Drivers(a) : /\ Banks[k].type # "io"
                               /\ \A j \in Drivers(a) : j < k => Banks[j].type = "io"}
Loads(f, a) == a < Len(f)
Last(f, a) == f[a + 1 + Space * ((Len(f) - 1 - a) \div Space)]

Load ==
  /\ outcome = "loading"
  /\ LET f == args.file
     IN  data' = [k \in 1..Len(Banks) |->
                    [o \in Cells(k) |->
                       LET a == Banks[k].base + o
                       IN  IF k \in Home(a) /\ Loads(f, a)
                           THEN Last(f, a) ELSE data[k][o]]]
  /\ pc' = args.start
  /\ outcome' = "running"
  /\ UNCHANGED <<args, reg, T, retired, cycles>>

(* step() *)
ExecAnd == Executes(AND) /\ Computes(And(reg[Ra(IR)], reg[Rb(IR)]), T)

ExecSub == Executes(SUB) /\ LET a == reg[Ra(IR)]
                                b == reg[Rb(IR)]
                            IN  Computes(a - b, Flag(a < b))

ExecAdd == Executes(ADD) /\ LET val == reg[Ra(IR)] + reg[Rb(IR)]
                            IN  Computes(val, Flag(val >= Space))

ExecAddc_Dropped ==    \* fault: the carry in is added, the carry out is not seen
  Executes(ADDC) /\ LET val == reg[Ra(IR)] + reg[Rb(IR)]
                    IN  Computes(val + T, Flag(val >= Space))
ExecAddc == Executes(ADDC) /\ LET val == reg[Ra(IR)] + reg[Rb(IR)] + T
                              IN  Computes(val, Flag(val >= Space))

ExecLui == Executes(LUI) /\ ~IsBranch /\ Computes(Imm6(IR) * 64, T)

ExecAddi == Executes(ADDI) /\ ~IsBranch /\ Computes(reg[Rd(IR)] + Imm6(IR), T)

ExecSubi == Executes(SUBI) /\ LET a == reg[Rd(IR)]
                              IN  Computes(a - Imm6(IR), Flag(a < Imm6(IR)))

\* bf and bt.  Fault: a taken branch leaves step() before the counters.
Branch_Early ==
  /\ \/ Executes(LUI) /\ IsBranch
     \/ Executes(ADDI) /\ IsBranch
  /\ LET taken == T = (IF Op(IR) = LUI THEN 0 ELSE 1)
     IN  IF taken THEN /\ pc' = (pc + BranchOffset(Rd(IR), Imm6(IR))) % Space
                       /\ UNCHANGED <<retired, cycles, outcome>>
                  ELSE pc' = NextPc /\ Retire(1, "running")
  /\ UNCHANGED <<args, reg, T, data>>
Branch ==
  /\ \/ Executes(LUI) /\ IsBranch
     \/ Executes(ADDI) /\ IsBranch
  /\ LET taken == T = (IF Op(IR) = LUI THEN 0 ELSE 1)
     IN  pc' = IF taken THEN (pc + BranchOffset(Rd(IR), Imm6(IR))) % Space ELSE NextPc
  /\ Retire(1, "running")
  /\ UNCHANGED <<args, reg, T, data>>

Jalr_LinkFirst ==      \* fault: jalr r5, r5 jumps to its own return address
  /\ Special(JALR)
  /\ reg' = Put(Rd(IR), NextPc)
  /\ pc' = reg'[Ra(IR)]
  /\ Retire(1, "running")
  /\ UNCHANGED <<args, T, data>>
Jalr ==
  /\ Special(JALR)
  /\ reg' = Put(Rd(IR), NextPc)
  /\ pc' = reg[Ra(IR)]
  /\ Retire(1, "running")
  /\ UNCHANGED <<args, T, data>>

Ror == Special(ROR) /\ LET v == reg[Ra(IR)]
                       IN  Computes(v \div 2 + T * 2048, v % 2)
Rol_Shift == Special(ROL) /\ LET v == reg[Ra(IR)]      \* fault: fills with zero
                             IN  Computes((v * 2) % Space, Bit(v, 2048))
Rol == Special(ROL) /\ LET v == reg[Ra(IR)]
                       IN  Computes(((v * 2) % Space) + T, Bit(v, 2048))

Lwr ==
  /\ Special(LWR) /\ ~Conflict(reg[Ra(IR)])
  /\ reg' = Put(Rd(IR), Read(reg[Ra(IR)]))
  /\ pc' = NextPc /\ Retire(2, "running")
  /\ UNCHANGED <<args, T, data>>

Swr ==
  /\ Special(SWR)
  /\ data' = Stored(reg[Ra(IR)], reg[Rd(IR)])
  /\ pc' = NextPc /\ Retire(2, "running")
  /\ UNCHANGED <<args, reg, T>>

HaltStep ==
  /\ Executes(SPEC) /\ IR = Halt
  /\ pc' = NextPc /\ Retire(1, "halted")
  /\ UNCHANGED <<args, reg, T, data>>

\* The undefined sub-opcodes do nothing.
Unknown ==
  /\ Executes(SPEC) /\ Rb(IR) > SWR /\ IR # Halt
  /\ pc' = NextPc /\ Retire(1, "running")
  /\ UNCHANGED <<args, reg, T, data>>

\* BusConflict, from the fetch and from lwr, which has advanced the pc.
FetchConflict ==
  /\ outcome = "running" /\ Conflict(pc)
  /\ outcome' = "conflict"
  /\ UNCHANGED <<args, reg, T, pc, data, retired, cycles>>
LwrConflict ==
  /\ Special(LWR) /\ Conflict(reg[Ra(IR)])
  /\ outcome' = "conflict" /\ pc' = NextPc
  /\ UNCHANGED <<args, reg, T, data, retired, cycles>>

Step == \/ ExecAnd \/ ExecSub \/ ExecAdd \/ ExecAddc \/ ExecLui \/ ExecAddi
        \/ ExecSubi \/ Branch \/ Jalr \/ Ror \/ Rol \/ Lwr \/ Swr \/ HaltStep
        \/ Unknown \/ FetchConflict \/ LwrConflict

Next == Load \/ Step

Spec == Init /\ [][Next]_vars /\ WF_vars(Next)
-----------------------------------------------------------------------------
\* Registers, flag, pc and memory hold words; r0 and r7 are hardwired.
TypeOK ==
  /\ args \in [file : Files, start : Starts]
  /\ outcome \in {"loading", "running", "halted", "maxcycle", "conflict"}
  /\ reg \in [Reg -> Word] /\ reg[0] = 0 /\ reg[7] = Space - 1
  /\ T \in {0, 1} /\ pc \in Word
  /\ DOMAIN data = 1..Len(Banks)
  /\ \A k \in 1..Len(Banks) : data[k] \in [Cells(k) -> Word]
  /\ retired \in Nat /\ cycles \in Nat

\* A program cannot change a ROM, by no store and through no overlapping RAM
\* bank: what the loader put there stays.
RomKeeps ==
  [][outcome = "running" =>
       \A k \in 1..Len(Banks) : Banks[k].type = "rom" => data'[k] = data[k]]_vars

\* A run under --maxcycle stops in the cycle of the limit or, when a two-cycle
\* instruction steps over it, one later.
CyclesInTime == MaxCycle > 0 => cycles <= MaxCycle + 1

\* Whatever the program is, a run with a limit stops.
Stops == MaxCycle > 0 => <>(outcome \in {"halted", "maxcycle", "conflict"})
=============================================================================
