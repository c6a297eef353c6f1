-------------------------------- MODULE Sim2 --------------------------------
(***************************************************************************)
(* The C simulator (sim2.c), which was written from Arch.md on its own and *)
(* is run against the Python one on every test.  It takes the flag of a    *)
(* subtraction from bit 12 of the difference, takes the first bank that    *)
(* matches an address, tests for the halt word before it decodes, and      *)
(* masks the numbers of --mem to twelve bits.  It implements module Cpu    *)
(* where no two banks meet.                                                *)
(*                                                                         *)
(* One action is one turn of the loop in main().                           *)
(***************************************************************************)
EXTENDS Isa, Sequences

CONSTANTS Specs,      \* --mem, in order; the default bank if there was none
          Files, Starts, MaxCycle

Types == {"ram", "rom", "io"}
MaxBanks == 16

ASSUME SpecAssumption == Specs \in Seq([type : Types, base : Nat, size : Nat])
ASSUME FileAssumption == Files \subseteq Seq(Word)
ASSUME StartAssumption == Starts \subseteq Word
ASSUME MaxCycleAssumption == MaxCycle \in Nat

\* parse_bank_spec: a bank too many is reported and dropped.
Banks == [k \in 1..(IF Len(Specs) > MaxBanks THEN MaxBanks ELSE Len(Specs)) |->
            [type |-> Specs[k].type,
             base |-> Specs[k].base % Space, size |-> Specs[k].size % Space]]
Cells(k) == IF Banks[k].type = "io" THEN {} ELSE 0..(Banks[k].size - 1)

VARIABLES args, outcome, reg, T, pc, data, retired, cycles

vars == <<args, outcome, reg, T, pc, data, retired, cycles>>
-----------------------------------------------------------------------------
(* rdmem and wrmem *)

\* uint16_t end
Matches(k, a) == Banks[k].base <= a /\ a < (Banks[k].base + Banks[k].size) % 65536
First(k, a) == Matches(k, a) /\ \A j \in 1..(k - 1) : ~Matches(j, a)

RdMem(a) ==
  IF \E k \in 1..Len(Banks) : Matches(k, a)
  THEN LET k == CHOOSE k \in 1..Len(Banks) : First(k, a)
       IN  IF Banks[k].type = "io" THEN 0 ELSE data[k][a - Banks[k].base]
  ELSE Space - 1

WrMem(a, v) ==
  [k \in 1..Len(Banks) |->
     IF First(k, a) /\ Banks[k].type = "ram"
     THEN [data[k] EXCEPT ![a - Banks[k].base] = v] ELSE data[k]]

WrReg(r, val) == [reg EXCEPT ![r] = IF r # 0 /\ r # 7 THEN val % Space ELSE @]
-----------------------------------------------------------------------------
(* The switch.  A difference is a C int; bit 12 of it tells its sign. *)

Difference(ir) == IF Op(ir) = SUB THEN reg[Ra(ir)] - reg[Rb(ir)]
                                  ELSE reg[Rd(ir)] - Imm6(ir)
Sum(ir) == reg[Ra(ir)] + reg[Rb(ir)] + (IF Op(ir) = ADDC THEN T ELSE 0)

Does(ir, rb) == Op(ir) = SPEC /\ Rb(ir) = rb
IsBranch(ir) == Op(ir) \in {LUI, ADDI} /\ Rd(ir) \in {0, 7}

WritesReg(ir) == \/ Op(ir) # SPEC /\ ~IsBranch(ir)
                 \/ Op(ir) = SPEC /\ Rb(ir) \in {JALR, ROR, ROL, LWR}

Value(ir) ==
  CASE Op(ir) = AND            -> And(reg[Ra(ir)], reg[Rb(ir)])
    [] Op(ir) \in {SUB, SUBI}  -> Difference(ir)
    [] Op(ir) \in {ADD, ADDC}  -> Sum(ir)
    [] Op(ir) = LUI            -> Imm6(ir) * 64
    [] Op(ir) = ADDI           -> reg[Rd(ir)] + Imm6(ir)
    [] Does(ir, JALR)          -> (pc + 1) % Space
    [] Does(ir, ROR)           -> reg[Ra(ir)] \div 2 + T * 2048
    [] Does(ir, ROL)           -> ((reg[Ra(ir)] * 2) % Space) + T
    [] Does(ir, LWR)           -> RdMem(reg[Ra(ir)])

\* Fault: bit 11 for bit 12, the sign of a twelve-bit difference.
NewT_Sign(ir) ==
  CASE Op(ir) \in {SUB, SUBI} -> Bit(Difference(ir), 2048)
    [] Op(ir) \in {ADD, ADDC} -> IF Sum(ir) > Space - 1 THEN 1 ELSE 0
    [] Does(ir, ROR)          -> reg[Ra(ir)] % 2
    [] Does(ir, ROL)          -> Bit(reg[Ra(ir)], 2048)
    [] OTHER                  -> T
NewT(ir) ==
  CASE Op(ir) \in {SUB, SUBI} -> Bit(Difference(ir), 4096)
    [] Op(ir) \in {ADD, ADDC} -> IF Sum(ir) > Space - 1 THEN 1 ELSE 0
    [] Does(ir, ROR)          -> reg[Ra(ir)] % 2
    [] Does(ir, ROL)          -> Bit(reg[Ra(ir)], 2048)
    [] OTHER                  -> T

\* Fault: the link register is written before the target is read.
NewPc_LinkFirst(ir) ==
  IF IsBranch(ir) /\ (T = 0 <=> Op(ir) = LUI)
  THEN (pc + BranchOffset(Rd(ir), Imm6(ir))) % Space
  ELSE IF Does(ir, JALR) THEN WrReg(Rd(ir), Value(ir))[Ra(ir)] ELSE (pc + 1) % Space
NewPc(ir) ==
  IF IsBranch(ir) /\ (T = 0 <=> Op(ir) = LUI)
  THEN (pc + BranchOffset(Rd(ir), Imm6(ir))) % Space
  ELSE IF Does(ir, JALR) THEN reg[Ra(ir)] ELSE (pc + 1) % Space
-----------------------------------------------------------------------------
\* memset(reg) and init_banks
Cleared == [reg |-> [r \in Reg |-> IF r = 7 THEN Space - 1 ELSE 0], T |-> 0,
            data |-> [k \in 1..Len(Banks) |-> [o \in Cells(k) |-> 0]]]

Init == /\ args \in [file : Files, start : Starts]
        /\ outcome = "loading"
        /\ reg = Cleared.reg /\ T = Cleared.T /\ data = Cleared.data
        /\ pc = 0 /\ retired = 0 /\ cycles = 0

\* load_bin, which stops at the first match even if that is an io bank; words
\* after the 4096th overwrite the first ones.
Loads(f, a) == a < Len(f)
Last(f, a) == f[a + 1 + Space * ((Len(f) - 1 - a) \div Space)]

LoadBin ==
  /\ outcome = "loading"
  /\ LET f == args.file
     IN  data' = [k \in 1..Len(Banks) |->
                    [o \in Cells(k) |->
                       LET a == Banks[k].base + o
                       IN  IF First(k, a) /\ Loads(f, a)
                           THEN Last(f, a) ELSE data[k][o]]]
  /\ pc' = args.start
  /\ outcome' = "running"
  /\ UNCHANGED <<args, reg, T, retired, cycles>>

\* The end of a turn: the counters and max_cycles.
Turn(n, next) ==
  /\ retired' = retired + 1 /\ cycles' = cycles + n
  /\ outcome' = IF MaxCycle > 0 /\ cycles + n >= MaxCycle THEN "maxcycle" ELSE next

HaltStep ==
  /\ outcome = "running" /\ RdMem(pc) = Halt
  /\ pc' = (pc + 1) % Space
  /\ Turn(1, "halted")
  /\ UNCHANGED <<args, reg, T, data>>

Execute ==
  /\ outcome = "running" /\ RdMem(pc) # Halt
  /\ LET ir == RdMem(pc)
     IN  /\ reg' = IF WritesReg(ir) THEN WrReg(Rd(ir), Value(ir)) ELSE reg
         /\ T' = NewT(ir) /\ pc' = NewPc(ir)
         /\ data' = IF Does(ir, SWR) THEN WrMem(reg[Ra(ir)], reg[Rd(ir)]) ELSE data
         /\ Turn(IF Does(ir, LWR) \/ Does(ir, SWR) THEN 2 ELSE 1, "running")
  /\ UNCHANGED args

Next == LoadBin \/ HaltStep \/ Execute

Spec == Init /\ [][Next]_vars /\ WF_vars(Next)
-----------------------------------------------------------------------------
\* No address belongs to two banks, and every number of --mem fits twelve bits.
Apart ==
  /\ Len(Specs) <= MaxBanks
  /\ \A k \in 1..Len(Specs) : /\ Specs[k].base < Space /\ Specs[k].size < Space
                              /\ Specs[k].base + Specs[k].size <= Space
  /\ \A j, k \in 1..Len(Specs) :
       j # k => \/ Specs[j].base + Specs[j].size <= Specs[k].base
                \/ Specs[k].base + Specs[k].size <= Specs[j].base

Python == INSTANCE Cpu WITH Banks <- Specs, PowerUps <- {Cleared}

\* The two simulators agree if the banks are apart: every step of sim2 is a step of the Python machine
\* with the same banks, down to the flag, the counters and the way it stops.
ImplementsPython == Python!Init /\ [][Python!Next]_vars
=============================================================================
