----------------------------- MODULE CpuProofs ------------------------------
(* Proofs about module Cpu, for all banks, binaries and cycle limits.        *)
EXTENDS Idioms, SequenceTheorems, TLAPS

LEMMA WordInt == \A v \in Word : v \in Int
BY DEF Word

LEMMA WordNat == \A v \in Word : v \in Nat
BY DEF Word

LEMMA WordRange == ASSUME NEW v \in Word PROVE v \in Nat /\ v < 4096
BY DEF Word

LEMMA InWord == \A v \in Nat : v < 4096 => v \in Word
BY DEF Word

LEMMA ModWord == \A v \in Int : v % Space \in Word
BY DEF Word, Space

LEMMA FlagType == ASSUME NEW c PROVE Flag(c) \in {0, 1}
BY DEF Flag

LEMMA FieldTypes ==
  ASSUME NEW ir \in Word
  PROVE  /\ Op(ir) \in 0..7 /\ Rd(ir) \in Reg /\ Ra(ir) \in Reg /\ Rb(ir) \in 0..7
         /\ Imm6(ir) \in 0..63
BY DEF Word, Op, Rd, Ra, Rb, Imm6, Reg

LEMMA BitType == ASSUME NEW v \in Int, NEW p \in Nat \ {0} PROVE Bit(v, p) \in {0, 1}
<1>1. v \div p \in Int
  OBVIOUS
<1>. QED BY <1>1 DEF Bit

LEMMA AndWord == ASSUME NEW a \in Word, NEW b \in Word PROVE And(a, b) \in Word
<1>. DEFINE both(p) == Bit(a, p) * Bit(b, p) * p
<1>1. ASSUME NEW p \in Nat \ {0} PROVE both(p) \in {0, p}
  <2>1. Bit(a, p) \in {0, 1} /\ Bit(b, p) \in {0, 1}
    BY BitType DEF Word
  <2>2. Bit(a, p) * Bit(b, p) \in {0, 1}
    BY <2>1
  <2>. QED BY <2>2
<1>2. /\ both(1) \in {0, 1} /\ both(2) \in {0, 2} /\ both(4) \in {0, 4} /\ both(8) \in {0, 8}
      /\ both(16) \in {0, 16} /\ both(32) \in {0, 32} /\ both(64) \in {0, 64}
      /\ both(128) \in {0, 128} /\ both(256) \in {0, 256} /\ both(512) \in {0, 512}
      /\ both(1024) \in {0, 1024} /\ both(2048) \in {0, 2048}
  BY <1>1
<1>3. And(a, b) = both(1) + both(2) + both(4) + both(8) + both(16) + both(32) + both(64)
                  + both(128) + both(256) + both(512) + both(1024) + both(2048)
  BY DEF And
<1>. HIDE DEF both
<1>. DEFINE p0 == both(1)
            p1 == both(2)
            p2 == both(4)
            p3 == both(8)
            p4 == both(16)
            p5 == both(32)
            p6 == both(64)
            p7 == both(128)
            p8 == both(256)
            p9 == both(512)
            p10 == both(1024)
            p11 == both(2048)
            v == And(a, b)
<1>4. /\ p0 \in Nat /\ p0 <= 1 /\ p1 \in Nat /\ p1 <= 2 /\ p2 \in Nat /\ p2 <= 4
      /\ p3 \in Nat /\ p3 <= 8 /\ p4 \in Nat /\ p4 <= 16 /\ p5 \in Nat /\ p5 <= 32
      /\ p6 \in Nat /\ p6 <= 64 /\ p7 \in Nat /\ p7 <= 128 /\ p8 \in Nat /\ p8 <= 256
      /\ p9 \in Nat /\ p9 <= 512 /\ p10 \in Nat /\ p10 <= 1024 /\ p11 \in Nat /\ p11 <= 2048
  BY <1>2
<1>5. v = p0 + p1 + p2 + p3 + p4 + p5 + p6 + p7 + p8 + p9 + p10 + p11
  BY <1>3
<1>. HIDE DEF both, v, p0, p1, p2, p3, p4, p5, p6, p7, p8, p9, p10, p11
<1>6. v \in Nat /\ v < 4096
  BY <1>4, <1>5
<1>7. v \in Word
  BY <1>6, InWord
<1>. QED BY <1>7 DEF v

LEMMA ReadWord ==
  ASSUME TypeOK, NEW a \in Word
  PROVE  Read(a) \in Word
<1>1. CASE Drivers(a) = {}
  BY <1>1 DEF Read, Word, Space
<1>2. CASE Drivers(a) # {}
  <2>. DEFINE k == CHOOSE k \in Drivers(a) : TRUE
  <2>1. k \in 1..Len(Banks) /\ Covers(k, a)
    BY <1>2 DEF Drivers
  <2>. HIDE DEF k
  <2>2. CASE Banks[k].type = "io"
    BY <1>2, <2>2 DEF Read, Word, k
  <2>3. CASE Banks[k].type # "io"
    <3>1. Banks[k] \in Bank
      BY <2>1, BankAssumption, ElementOfSeq
    <3>2. a - Banks[k].base \in Cells(k)
      <4>1. Banks[k].base \in Int /\ Banks[k].size \in Nat /\ a \in Int
        BY <3>1, WordInt DEF Bank
      <4>2. Banks[k].base <= a /\ a < Banks[k].base + Banks[k].size
        BY <2>1 DEF Covers
      <4>3. a - Banks[k].base \in 0..(Banks[k].size - 1)
        BY <4>1, <4>2
      <4>. QED BY <2>3, <4>3 DEF Cells
    <3>3. data[k] \in [Cells(k) -> Word]
      BY <2>1 DEF TypeOK
    <3>4. Read(a) = data[k][a - Banks[k].base]
      BY <1>2, <2>3 DEF Read, k
    <3>. QED BY <3>2, <3>3, <3>4
  <2>. QED BY <2>2, <2>3
<1>. QED BY <1>1, <1>2

LEMMA PutType ==
  ASSUME TypeOK, NEW rd \in Reg, NEW v \in Int
  PROVE  /\ Put(rd, v) \in [Reg -> Word]
         /\ Put(rd, v)[0] = 0 /\ Put(rd, v)[7] = Space - 1
<1>1. v % Space \in Word
  BY DEF Space, Word
<1>2. reg \in [Reg -> Word] /\ reg[0] = 0 /\ reg[7] = Space - 1
  BY DEF TypeOK
<1>. QED BY <1>1, <1>2 DEF Put, Reg

LEMMA StoredType ==
  ASSUME TypeOK, NEW a \in Word, NEW v \in Word
  PROVE  /\ DOMAIN Stored(a, v) = 1..Len(Banks)
         /\ \A k \in 1..Len(Banks) : Stored(a, v)[k] \in [Cells(k) -> Word]
<1>1. DOMAIN Stored(a, v) = 1..Len(Banks)
  BY DEF Stored
<1>2. ASSUME NEW k \in 1..Len(Banks) PROVE Stored(a, v)[k] \in [Cells(k) -> Word]
  <2>1. data[k] \in [Cells(k) -> Word]
    BY DEF TypeOK
  <2>. QED BY <2>1 DEF Stored
<1>. QED BY <1>1, <1>2

\* The types of what step() reads before it computes.
LEMMA Operands ==
  ASSUME TypeOK
  PROVE  /\ IR \in Word /\ Rd(IR) \in Reg /\ Imm6(IR) \in 0..63
         /\ reg[Ra(IR)] \in Word /\ reg[Rb(IR)] \in Word /\ reg[Rd(IR)] \in Word
         /\ NextPc \in Word /\ T \in {0, 1}
<1>1. IR \in Word
  BY ReadWord DEF IR, TypeOK
<1>2. Rd(IR) \in Reg /\ Ra(IR) \in Reg /\ Rb(IR) \in Reg /\ Imm6(IR) \in 0..63
  BY <1>1, FieldTypes DEF Reg
<1>3. reg \in [Reg -> Word] /\ T \in {0, 1} /\ pc \in Word
  BY DEF TypeOK
<1>4. NextPc \in Word
  BY <1>3 DEF NextPc, Word, Space
<1>. QED BY <1>1, <1>2, <1>3, <1>4

LEMMA RetireType ==
  ASSUME TypeOK, NEW n \in Nat, NEW next \in {"running", "halted"}, Retire(n, next)
  PROVE  /\ outcome' \in {"loading", "running", "halted", "maxcycle", "conflict"}
         /\ retired' \in Nat /\ cycles' \in Nat
BY DEF TypeOK, Retire, Continue

LEMMA ComputesType ==
  ASSUME TypeOK, NEW val \in Int, NEW t \in {0, 1}, Computes(val, t)
  PROVE  TypeOK'
<1>1. reg' = Put(Rd(IR), val) /\ T' = t /\ pc' = NextPc /\ Retire(1, "running")
      /\ args' = args /\ data' = data
  BY DEF Computes
<1>2. reg' \in [Reg -> Word] /\ reg'[0] = 0 /\ reg'[7] = Space - 1
  BY <1>1, Operands, PutType
<1>3. pc' \in Word /\ T' \in {0, 1}
  BY <1>1, Operands
<1>4. /\ outcome' \in {"loading", "running", "halted", "maxcycle", "conflict"}
      /\ retired' \in Nat /\ cycles' \in Nat
  BY <1>1, RetireType
<1>. QED BY <1>1, <1>2, <1>3, <1>4 DEF TypeOK

LEMMA LoadType ==
  ASSUME TypeOK, Load
  PROVE  TypeOK'
<1>1. args \in [file : Files, start : Starts]
  BY DEF TypeOK
<1>2. args.file \in Seq(Word) /\ args.start \in Word
  BY <1>1, FileAssumption, StartAssumption
<1>3. ASSUME NEW k \in 1..Len(Banks), NEW o \in Cells(k)
      PROVE  data'[k][o] \in Word
  <2>. DEFINE f == args.file
              a == Banks[k].base + o
  <2>1. data'[k][o] = IF k \in Home(a) /\ Loads(f, a) THEN Last(f, a) ELSE data[k][o]
    BY DEF Load
  <2>2. data[k][o] \in Word
    BY DEF TypeOK
  <2>3. Banks[k] \in Bank
    BY BankAssumption, ElementOfSeq
  <2>4. a \in Nat
    <3>1. Banks[k].base \in Nat
      <4>1. Banks[k].base \in Word
        BY <2>3 DEF Bank
      <4>. QED BY <4>1, WordNat
    <3>2. o \in Nat
      BY DEF Cells
    <3>. QED BY <3>1, <3>2
  <2>. HIDE DEF a, f
  <2>5. ASSUME Loads(f, a) PROVE Last(f, a) \in Word
    <3>. DEFINE n == a + 1 + Space * ((Len(f) - 1 - a) \div Space)
    <3>1. f \in Seq(Word) /\ Len(f) \in Nat
      BY <1>2 DEF f
    <3>2. n \in 1..Len(f)
      BY <2>4, <2>5, <3>1 DEF Loads, Space
    <3>. QED BY <3>1, <3>2, ElementOfSeq DEF Last
  <2>. QED BY <2>1, <2>2, <2>5
<1>4. ASSUME NEW k \in 1..Len(Banks) PROVE data'[k] \in [Cells(k) -> Word]
  <2>1. DOMAIN data'[k] = Cells(k) /\ data'[k] = [o \in Cells(k) |-> data'[k][o]]
    BY DEF Load
  <2>. QED BY <1>3, <2>1
<1>5. DOMAIN data' = 1..Len(Banks)
  BY DEF Load
<1>6. /\ UNCHANGED <<args, reg, T, retired, cycles>>
      /\ outcome' = "running" /\ pc' = args.start
  BY DEF Load
<1>. QED BY <1>2, <1>4, <1>5, <1>6 DEF TypeOK
-----------------------------------------------------------------------------
LEMMA InitType == Init => TypeOK
<1>. SUFFICES ASSUME Init PROVE TypeOK
  OBVIOUS
<1>1. PICK p \in PowerUps : reg = p.reg /\ T = p.T /\ data = p.data
  BY DEF Init
<1>2. /\ reg \in [Reg -> Word] /\ reg[0] = 0 /\ reg[7] = Space - 1 /\ T \in {0, 1}
      /\ DOMAIN data = 1..Len(Banks)
      /\ \A k \in 1..Len(Banks) : data[k] \in [Cells(k) -> Word]
  BY <1>1, PowerUpAssumption
<1>3. pc \in Word /\ retired \in Nat /\ cycles \in Nat
  BY DEF Init, Word
<1>4. args \in [file : Files, start : Starts] /\ outcome = "loading"
  BY DEF Init
<1>. QED BY <1>2, <1>3, <1>4 DEF TypeOK

LEMMA StepType == TypeOK /\ [Next]_vars => TypeOK'
<1>. SUFFICES ASSUME TypeOK, [Next]_vars PROVE TypeOK'
  OBVIOUS
<1>o. /\ IR \in Word /\ Rd(IR) \in Reg /\ Imm6(IR) \in 0..63
      /\ reg[Ra(IR)] \in Word /\ reg[Rb(IR)] \in Word /\ reg[Rd(IR)] \in Word
      /\ NextPc \in Word /\ T \in {0, 1}
  BY Operands
<1>i. /\ Rd(IR) \in Int /\ Imm6(IR) \in Int /\ T \in Int /\ NextPc \in Int
      /\ reg[Ra(IR)] \in Int /\ reg[Rb(IR)] \in Int /\ reg[Rd(IR)] \in Int
  BY <1>o, WordInt DEF Reg
<1>1. CASE Load
  BY <1>1, LoadType
<1>2. CASE ExecAnd
  <2>1. And(reg[Ra(IR)], reg[Rb(IR)]) \in Int
    BY <1>o, AndWord, WordInt
  <2>. QED BY <1>2, <1>o, <2>1, ComputesType DEF ExecAnd
<1>3. CASE ExecSub
  <2>1. reg[Ra(IR)] - reg[Rb(IR)] \in Int
    BY <1>i
  <2>2. Flag(reg[Ra(IR)] < reg[Rb(IR)]) \in {0, 1}
    BY FlagType
  <2>. QED BY <1>3, <2>1, <2>2, ComputesType DEF ExecSub
<1>4. CASE ExecAdd
  <2>1. reg[Ra(IR)] + reg[Rb(IR)] \in Int
    BY <1>i
  <2>2. Flag(reg[Ra(IR)] + reg[Rb(IR)] >= Space) \in {0, 1}
    BY FlagType
  <2>. QED BY <1>4, <2>1, <2>2, ComputesType DEF ExecAdd
<1>5. CASE ExecAddc
  <2>1. reg[Ra(IR)] + reg[Rb(IR)] + T \in Int
    BY <1>i
  <2>2. Flag(reg[Ra(IR)] + reg[Rb(IR)] + T >= Space) \in {0, 1}
    BY FlagType
  <2>. QED BY <1>5, <2>1, <2>2, ComputesType DEF ExecAddc
<1>6. CASE ExecLui
  <2>1. Imm6(IR) * 64 \in Int
    BY <1>i
  <2>. QED BY <1>6, <1>o, <2>1, ComputesType DEF ExecLui
<1>7. CASE ExecAddi
  <2>1. reg[Rd(IR)] + Imm6(IR) \in Int
    BY <1>i
  <2>. QED BY <1>7, <1>o, <2>1, ComputesType DEF ExecAddi
<1>8. CASE ExecSubi
  <2>1. reg[Rd(IR)] - Imm6(IR) \in Int
    BY <1>i
  <2>2. Flag(reg[Rd(IR)] < Imm6(IR)) \in {0, 1}
    BY FlagType
  <2>. QED BY <1>8, <2>1, <2>2, ComputesType DEF ExecSubi
<1>9. CASE Branch
  <2>1. BranchOffset(Rd(IR), Imm6(IR)) \in Int /\ pc \in Int
    BY <1>i, WordInt DEF BranchOffset, TypeOK
  <2>2. (pc + BranchOffset(Rd(IR), Imm6(IR))) % Space \in Word
    <3>1. pc + BranchOffset(Rd(IR), Imm6(IR)) \in Int
      BY <2>1
    <3>. QED BY <3>1, ModWord
  <2>3. pc' \in Word /\ Retire(1, "running") /\ UNCHANGED <<args, reg, T, data>>
    BY <1>9, <1>o, <2>2 DEF Branch
  <2>. QED BY <2>3, RetireType DEF TypeOK
<1>10. CASE Jalr
  <2>2. Put(Rd(IR), NextPc) \in [Reg -> Word] /\ Put(Rd(IR), NextPc)[0] = 0
        /\ Put(Rd(IR), NextPc)[7] = Space - 1
    BY <1>o, <1>i, PutType
  <2>3. /\ reg' = Put(Rd(IR), NextPc) /\ pc' = reg[Ra(IR)] /\ Retire(1, "running")
        /\ UNCHANGED <<args, T, data>>
    BY <1>10 DEF Jalr
  <2>. QED BY <1>o, <2>2, <2>3, RetireType DEF TypeOK
<1>11. CASE Ror
  <2>1. reg[Ra(IR)] \div 2 + T * 2048 \in Int /\ reg[Ra(IR)] % 2 \in {0, 1}
    BY <1>i
  <2>. QED BY <1>11, <2>1, ComputesType DEF Ror
<1>12. CASE Rol
  <2>1. ((reg[Ra(IR)] * 2) % Space) + T \in Int /\ Bit(reg[Ra(IR)], 2048) \in {0, 1}
    BY <1>i, BitType DEF Space
  <2>. QED BY <1>12, <2>1, ComputesType DEF Rol
<1>13. CASE Lwr
  <2>1. Read(reg[Ra(IR)]) \in Int
    BY <1>o, ReadWord, WordInt
  <2>2. /\ Put(Rd(IR), Read(reg[Ra(IR)])) \in [Reg -> Word]
        /\ Put(Rd(IR), Read(reg[Ra(IR)]))[0] = 0
        /\ Put(Rd(IR), Read(reg[Ra(IR)]))[7] = Space - 1
    BY <1>o, <2>1, PutType
  <2>3. /\ reg' = Put(Rd(IR), Read(reg[Ra(IR)])) /\ pc' = NextPc /\ Retire(2, "running")
        /\ UNCHANGED <<args, T, data>>
    BY <1>13 DEF Lwr
  <2>. QED BY <1>o, <2>2, <2>3, RetireType DEF TypeOK
<1>14. CASE Swr
  <2>1. /\ data' = Stored(reg[Ra(IR)], reg[Rd(IR)]) /\ pc' = NextPc /\ Retire(2, "running")
        /\ UNCHANGED <<args, reg, T>>
    BY <1>14 DEF Swr
  <2>2. /\ DOMAIN data' = 1..Len(Banks)
        /\ \A k \in 1..Len(Banks) : data'[k] \in [Cells(k) -> Word]
    BY <1>o, <2>1, StoredType
  <2>. QED BY <1>o, <2>1, <2>2, RetireType DEF TypeOK
<1>15. CASE HaltStep
  <2>1. pc' = NextPc /\ Retire(1, "halted") /\ UNCHANGED <<args, reg, T, data>>
    BY <1>15 DEF HaltStep
  <2>. QED BY <1>o, <2>1, RetireType DEF TypeOK
<1>16. CASE Unknown
  <2>1. pc' = NextPc /\ Retire(1, "running") /\ UNCHANGED <<args, reg, T, data>>
    BY <1>16 DEF Unknown
  <2>. QED BY <1>o, <2>1, RetireType DEF TypeOK
<1>17. CASE FetchConflict
  BY <1>17 DEF FetchConflict, TypeOK
<1>18. CASE LwrConflict
  BY <1>o, <1>18 DEF LwrConflict, TypeOK
<1>19. CASE UNCHANGED vars
  BY <1>19 DEF vars, TypeOK
<1>. QED
  BY <1>1, <1>2, <1>3, <1>4, <1>5, <1>6, <1>7, <1>8, <1>9, <1>10, <1>11, <1>12, <1>13,
     <1>14, <1>15, <1>16, <1>17, <1>18, <1>19
  DEF Next, Step

\* Registers, memory, flag and pc hold words, and r0 and r7 their constants, in
\* every reachable state: no instruction, bank or binary takes them out.
THEOREM TypeCorrect == Spec => []TypeOK
BY InitType, StepType, PTL DEF Spec
-----------------------------------------------------------------------------
LEMMA StepRom == [Next]_vars /\ outcome = "running" =>
                   \A k \in 1..Len(Banks) : Banks[k].type = "rom" => data'[k] = data[k]
<1>. SUFFICES ASSUME [Next]_vars, outcome = "running",
                     NEW k \in 1..Len(Banks), Banks[k].type = "rom"
              PROVE  data'[k] = data[k]
  OBVIOUS
<1>1. CASE Swr
  <2>1. data' = Stored(reg[Ra(IR)], reg[Rd(IR)])
    BY <1>1 DEF Swr
  <2>2. ~Takes(k, reg[Ra(IR)])
    BY DEF Takes
  <2>. QED BY <2>1, <2>2 DEF Stored
<1>2. CASE ~Swr
  <2>1. ~Load
    BY DEF Load
  <2>2. UNCHANGED data
    BY <1>2, <2>1 DEF Next, Step, vars, Computes, ExecAnd, ExecSub, ExecAdd, ExecAddc,
       ExecLui, ExecAddi, ExecSubi, Branch, Jalr, Ror, Rol, Lwr, HaltStep, Unknown,
       FetchConflict, LwrConflict
  <2>. QED BY <2>2
<1>. QED BY <1>1, <1>2

\* No store changes a ROM bank, whatever banks overlap it: what the loader put
\* there stays for the whole run.
THEOREM RomKept == Spec => RomKeeps
<1>1. Spec => [][Next]_vars
  BY PTL DEF Spec
<1>2. [Next]_vars => [outcome = "running" =>
        \A k \in 1..Len(Banks) : Banks[k].type = "rom" => data'[k] = data[k]]_vars
  BY StepRom
<1>. QED BY <1>1, <1>2, PTL DEF RomKeeps
-----------------------------------------------------------------------------
\* A CPU that goes on has not reached the limit; one that stopped passed it by
\* a cycle at most.
InTime == MaxCycle > 0 => /\ outcome \in {"loading", "running"} => cycles < MaxCycle
                          /\ cycles <= MaxCycle + 1

LEMMA RetireInTime ==
  ASSUME TypeOK, InTime, outcome = "running", NEW n \in {1, 2},
         NEW next \in {"running", "halted"}, Retire(n, next)
  PROVE  InTime'
<1>1. cycles \in Nat /\ MaxCycle \in Nat
  BY MaxCycleAssumption DEF TypeOK
<1>2. /\ cycles' = cycles + n
      /\ outcome' = IF MaxCycle > 0 /\ cycles + n >= MaxCycle THEN "maxcycle" ELSE next
  BY DEF Retire, Continue
<1>. SUFFICES ASSUME MaxCycle > 0
              PROVE  /\ outcome' \in {"loading", "running"} => cycles' < MaxCycle
                     /\ cycles' <= MaxCycle + 1
  BY DEF InTime
<1>3. cycles < MaxCycle
  BY DEF InTime
<1>. QED BY <1>1, <1>2, <1>3

LEMMA StepInTime == TypeOK /\ InTime /\ [Next]_vars => InTime'
<1>. SUFFICES ASSUME TypeOK, InTime, [Next]_vars PROVE InTime'
  OBVIOUS
<1>1. CASE \E n \in {1, 2} : \E next \in {"running", "halted"} :
             outcome = "running" /\ Retire(n, next)
  BY <1>1, RetireInTime
<1>2. CASE UNCHANGED cycles /\ (outcome' = outcome \/ outcome' = "conflict")
  BY <1>2 DEF InTime
<1>3. CASE Load
  BY <1>3 DEF Load, InTime
<1>4. CASE Step
  <2>1. (\E val, t : Computes(val, t)) => Retire(1, "running")
    BY DEF Computes
  <2>2. ExecAnd \/ ExecSub \/ ExecAdd \/ ExecAddc \/ ExecLui \/ ExecAddi \/ ExecSubi
        => outcome = "running" /\ \E val, t : Computes(val, t)
    BY Zenon DEF ExecAnd, ExecSub, ExecAdd, ExecAddc, ExecLui, ExecAddi, ExecSubi, Executes
  <2>3. Ror \/ Rol => outcome = "running" /\ \E val, t : Computes(val, t)
    <3>1. Special(ROR) \/ Special(ROL) => outcome = "running"
      BY DEF Special, Executes
    <3>2. Ror => Special(ROR) /\ \E val, t : Computes(val, t)
      BY DEF Ror
    <3>3. Rol => Special(ROL) /\ \E val, t : Computes(val, t)
      BY DEF Rol
    <3>. QED BY <3>1, <3>2, <3>3
  <2>4. Branch \/ Jalr \/ Unknown => outcome = "running" /\ Retire(1, "running")
    BY Zenon DEF Branch, Jalr, Unknown, Special, Executes
  <2>5. Lwr \/ Swr => outcome = "running" /\ Retire(2, "running")
    BY Zenon DEF Lwr, Swr, Special, Executes
  <2>6. HaltStep => outcome = "running" /\ Retire(1, "halted")
    BY Zenon DEF HaltStep, Executes
  <2>7. FetchConflict \/ LwrConflict => UNCHANGED cycles /\ outcome' = "conflict"
    BY Zenon DEF FetchConflict, LwrConflict
  <2>. QED BY <1>1, <1>2, <1>4, <2>1, <2>2, <2>3, <2>4, <2>5, <2>6, <2>7 DEF Step
<1>5. UNCHANGED vars => UNCHANGED cycles /\ outcome' = outcome
  BY DEF vars
<1>. QED BY <1>1, <1>2, <1>3, <1>4, <1>5 DEF Next

\* Under --maxcycle the counter never passes the limit by more than the second
\* cycle of a load or store.
THEOREM InTimeAlways == Spec => []CyclesInTime
<1>1. Init => InTime
  BY MaxCycleAssumption DEF Init, InTime
<1>2. InTime => CyclesInTime
  BY DEF InTime, CyclesInTime
<1>. QED BY <1>1, <1>2, StepInTime, TypeCorrect, PTL DEF Spec
-----------------------------------------------------------------------------
(* The instruction sequences.  Each is followed from its first word to Halt: *)
(* one case per word says what the registers hold before it.                *)

LEMMA WordMod == ASSUME NEW v \in Word PROVE v % Space = v /\ v \in Int
BY DEF Word, Space

LEMMA SubOps == JALR \in Reg /\ ROR \in Reg /\ ROL \in Reg
BY DEF JALR, ROR, ROL, Reg

LEMMA Fields3 ==
  ASSUME NEW op \in 0..7, NEW rd \in Reg, NEW ra \in Reg, NEW rb \in 0..7
  PROVE  /\ Op(R3(op, rd, ra, rb)) = op /\ Rd(R3(op, rd, ra, rb)) = rd
         /\ Ra(R3(op, rd, ra, rb)) = ra /\ Rb(R3(op, rd, ra, rb)) = rb
         /\ R3(op, rd, ra, rb) \in Word
<1>. DEFINE w == R3(op, rd, ra, rb)
<1>1. /\ op \in 0..7 /\ rd \in 0..7 /\ ra \in 0..7 /\ rb \in 0..7
      /\ w = op * 512 + rd * 64 + ra * 8 + rb
  BY DEF Reg, R3
<1>. HIDE DEF w
<1>2. w \in 0..4095
  BY <1>1
<1>3. w \div 512 = op /\ w \div 64 = op * 8 + rd /\ w \div 8 = op * 64 + rd * 8 + ra
  BY <1>1
<1>4. (w \div 512) % 8 = op
  BY <1>1, <1>3
<1>5. (w \div 64) % 8 = rd
  BY <1>1, <1>3
<1>6. (w \div 8) % 8 = ra
  BY <1>1, <1>3
<1>7. w % 8 = rb
  BY <1>1
<1>. QED BY <1>2, <1>4, <1>5, <1>6, <1>7 DEF Op, Rd, Ra, Rb, Word, w

LEMMA FieldsI ==
  ASSUME NEW op \in 0..7, NEW rd \in Reg, NEW imm \in 0..63
  PROVE  /\ Op(RI(op, rd, imm)) = op /\ Rd(RI(op, rd, imm)) = rd
         /\ Imm6(RI(op, rd, imm)) = imm
BY DEF Reg, RI, Op, Rd, Imm6

\* The CPU is about to execute w.
Fetches(w) == outcome = "running" /\ ~Conflict(pc) /\ IR = w

\* What a step that stays in line leaves alone, and what it writes.
GoesOn == /\ pc' = NextPc /\ outcome' \in {"running", "maxcycle"}
          /\ data' = data /\ args' = args
Writes(rd, v) == /\ reg' \in [Reg -> Word] /\ reg'[rd] = v
                 /\ \A r \in Reg : r # rd => reg'[r] = reg[r]

\* An opcode has one action.
LEMMA ByOp ==
  ASSUME Next, outcome = "running", ~Conflict(pc)
  PROVE  /\ Op(IR) = AND => ExecAnd
         /\ Op(IR) = SUB => ExecSub
         /\ Op(IR) = ADD => ExecAdd
         /\ Op(IR) = ADDC => ExecAddc
         /\ Op(IR) = LUI => ExecLui \/ Branch
         /\ Op(IR) = ADDI => ExecAddi \/ Branch
         /\ Op(IR) = SPEC /\ Rb(IR) = JALR => Jalr
         /\ Op(IR) = SPEC /\ Rb(IR) = ROR => Ror
         /\ Op(IR) = SPEC /\ Rb(IR) = ROL => Rol
         /\ IR = Halt => HaltStep
<1>1. ~Load /\ ~FetchConflict
  BY DEF Load, FetchConflict
<1>2. /\ ExecAnd => Op(IR) = AND
      /\ ExecSub => Op(IR) = SUB
      /\ ExecAdd => Op(IR) = ADD
      /\ ExecAddc => Op(IR) = ADDC
      /\ ExecLui => Op(IR) = LUI
      /\ ExecAddi => Op(IR) = ADDI
      /\ ExecSubi => Op(IR) = SUBI
      /\ Branch => Op(IR) \in {LUI, ADDI}
  BY DEF ExecAnd, ExecSub, ExecAdd, ExecAddc, ExecLui, ExecAddi, ExecSubi, Branch, Executes
<1>3. /\ Jalr => Op(IR) = SPEC /\ Rb(IR) = JALR
      /\ Ror => Op(IR) = SPEC /\ Rb(IR) = ROR
      /\ Rol => Op(IR) = SPEC /\ Rb(IR) = ROL
      /\ Lwr => Op(IR) = SPEC /\ Rb(IR) = LWR
      /\ LwrConflict => Op(IR) = SPEC /\ Rb(IR) = LWR
      /\ Swr => Op(IR) = SPEC /\ Rb(IR) = SWR
      /\ Unknown => Op(IR) = SPEC /\ Rb(IR) > SWR /\ IR # Halt
      /\ HaltStep => Op(IR) = SPEC /\ IR = Halt
  BY DEF Jalr, Ror, Rol, Lwr, LwrConflict, Swr, Unknown, HaltStep, Special, Executes
<1>4. Op(Halt) = SPEC /\ Rb(Halt) = 7
  BY DEF Op, Rb, Halt, SPEC
<1>5. \/ ExecAnd \/ ExecSub \/ ExecAdd \/ ExecAddc \/ ExecLui \/ ExecAddi
      \/ ExecSubi \/ Branch \/ Jalr \/ Ror \/ Rol \/ Lwr \/ Swr \/ HaltStep
      \/ Unknown \/ LwrConflict
  BY <1>1 DEF Next, Step
<1>. QED
  BY <1>2, <1>3, <1>4, <1>5 DEF AND, SUB, ADD, ADDC, LUI, ADDI, SUBI, SPEC, JALR, ROR, ROL, LWR, SWR

LEMMA ComputesWrites ==
  ASSUME TypeOK, NEW val \in Int, NEW t \in {0, 1}, Computes(val, t), Rd(IR) \in Reg
  PROVE  /\ GoesOn /\ T' = t
         /\ Rd(IR) \in 1..6 => Writes(Rd(IR), val % Space)
         /\ Rd(IR) = 0 => reg' = reg
<1>1. reg' = Put(Rd(IR), val) /\ T' = t /\ pc' = NextPc /\ Retire(1, "running")
      /\ args' = args /\ data' = data
  BY DEF Computes
<1>2. outcome' \in {"running", "maxcycle"}
  BY <1>1 DEF Retire, Continue
<1>3. reg' \in [Reg -> Word] /\ reg \in [Reg -> Word]
  BY ComputesType DEF TypeOK
<1>4. Rd(IR) \in 1..6 => Writes(Rd(IR), val % Space)
  BY <1>1, <1>3 DEF Writes, Put
<1>5. Rd(IR) = 0 => reg' = reg
  BY <1>1, <1>3 DEF Put
<1>. QED BY <1>1, <1>2, <1>4, <1>5 DEF GoesOn

\* A fetched three-register instruction, by its fields.
LEMMA Fetched3 ==
  ASSUME TypeOK, Next, NEW op \in 0..7, NEW rd \in 0..6, NEW ra \in Reg, NEW rb \in Reg,
         Fetches(R3(op, rd, ra, rb))
  PROVE  /\ Op(IR) = op /\ Rd(IR) = rd /\ Ra(IR) = ra /\ Rb(IR) = rb
         /\ rd \in Reg /\ reg[ra] \in Nat /\ reg[rb] \in Nat /\ T \in {0, 1}
         /\ reg[ra] \in Word /\ reg[rb] \in Word
<1>1. rd \in Reg /\ rb \in 0..7
  BY DEF Reg
<1>2. reg \in [Reg -> Word] /\ T \in {0, 1}
  BY DEF TypeOK
<1>3. reg[ra] \in Word /\ reg[rb] \in Word
  BY <1>2
<1>4. reg[ra] \in Nat /\ reg[rb] \in Nat
  BY <1>3, WordNat
<1>5. IR = R3(op, rd, ra, rb)
  BY DEF Fetches
<1>6. Op(IR) = op /\ Rd(IR) = rd /\ Ra(IR) = ra /\ Rb(IR) = rb
  BY <1>1, <1>5, Fields3
<1>. QED BY <1>1, <1>2, <1>3, <1>4, <1>6

\* The same for an immediate one.
LEMMA FetchedI ==
  ASSUME TypeOK, Next, NEW op \in 0..7, NEW rd \in Reg, NEW imm \in 0..63,
         Fetches(RI(op, rd, imm))
  PROVE  /\ Op(IR) = op /\ Rd(IR) = rd /\ Imm6(IR) = imm
         /\ reg[rd] \in Nat /\ T \in {0, 1} /\ pc \in Nat
<1>1. reg[rd] \in Word /\ T \in {0, 1} /\ pc \in Word
  BY DEF TypeOK
<1>2. IR = RI(op, rd, imm)
  BY DEF Fetches
<1>. QED BY <1>1, <1>2, FieldsI, WordNat

LEMMA RunsAdd ==
  ASSUME TypeOK, Next, NEW rd \in 1..6, NEW ra \in Reg, NEW rb \in Reg,
         Fetches(R3(ADD, rd, ra, rb))
  PROVE  GoesOn /\ Writes(rd, (reg[ra] + reg[rb]) % Space)
<1>1. /\ Op(IR) = ADD /\ Rd(IR) = rd /\ Ra(IR) = ra /\ Rb(IR) = rb
      /\ rd \in Reg /\ reg[ra] \in Nat /\ reg[rb] \in Nat
  BY Fetched3 DEF ADD
<1>2. ExecAdd
  BY <1>1, ByOp DEF Fetches
<1>3. Computes(reg[ra] + reg[rb], Flag(reg[ra] + reg[rb] >= Space))
  BY <1>1, <1>2 DEF ExecAdd
<1>4. reg[ra] + reg[rb] \in Int
  BY <1>1
<1>. QED BY <1>1, <1>3, <1>4, FlagType, ComputesWrites

LEMMA RunsAddc ==
  ASSUME TypeOK, Next, NEW rd \in 0..6, NEW ra \in Reg, NEW rb \in Reg,
         Fetches(R3(ADDC, rd, ra, rb))
  PROVE  /\ GoesOn /\ T' = Flag(reg[ra] + reg[rb] + T >= Space)
         /\ IF rd = 0 THEN reg' = reg ELSE Writes(rd, (reg[ra] + reg[rb] + T) % Space)
<1>1. /\ Op(IR) = ADDC /\ Rd(IR) = rd /\ Ra(IR) = ra /\ Rb(IR) = rb
      /\ rd \in Reg /\ reg[ra] \in Nat /\ reg[rb] \in Nat /\ T \in {0, 1}
  BY Fetched3 DEF ADDC
<1>2. ExecAddc
  BY <1>1, ByOp DEF Fetches
<1>3. Computes(reg[ra] + reg[rb] + T, Flag(reg[ra] + reg[rb] + T >= Space))
  BY <1>1, <1>2 DEF ExecAddc
<1>4. reg[ra] + reg[rb] + T \in Int
  BY <1>1
<1>. QED BY <1>1, <1>3, <1>4, FlagType, ComputesWrites

LEMMA RunsSub ==
  ASSUME TypeOK, Next, NEW rd \in 0..6, NEW ra \in Reg, NEW rb \in Reg,
         Fetches(R3(SUB, rd, ra, rb))
  PROVE  /\ GoesOn /\ T' = Flag(reg[ra] < reg[rb])
         /\ IF rd = 0 THEN reg' = reg ELSE Writes(rd, (reg[ra] - reg[rb]) % Space)
<1>1. /\ Op(IR) = SUB /\ Rd(IR) = rd /\ Ra(IR) = ra /\ Rb(IR) = rb
      /\ rd \in Reg /\ reg[ra] \in Nat /\ reg[rb] \in Nat
  BY Fetched3 DEF SUB
<1>2. ExecSub
  BY <1>1, ByOp DEF Fetches
<1>3. Computes(reg[ra] - reg[rb], Flag(reg[ra] < reg[rb]))
  BY <1>1, <1>2 DEF ExecSub
<1>4. reg[ra] - reg[rb] \in Int
  BY <1>1
<1>. QED BY <1>1, <1>3, <1>4, FlagType, ComputesWrites

LEMMA RunsAnd ==
  ASSUME TypeOK, Next, NEW rd \in 1..6, NEW ra \in Reg, NEW rb \in Reg,
         Fetches(R3(AND, rd, ra, rb))
  PROVE  GoesOn /\ Writes(rd, And(reg[ra], reg[rb]))
<1>1. /\ Op(IR) = AND /\ Rd(IR) = rd /\ Ra(IR) = ra /\ Rb(IR) = rb
      /\ rd \in Reg /\ reg[ra] \in Word /\ reg[rb] \in Word /\ T \in {0, 1}
  BY Fetched3 DEF AND
<1>2. ExecAnd
  BY <1>1, ByOp DEF Fetches
<1>3. Computes(And(reg[ra], reg[rb]), T)
  BY <1>1, <1>2 DEF ExecAnd
<1>4. And(reg[ra], reg[rb]) \in Word
  BY <1>1, AndWord
<1>5. And(reg[ra], reg[rb]) \in Int /\ And(reg[ra], reg[rb]) % Space = And(reg[ra], reg[rb])
  BY <1>4, WordMod
<1>. QED BY <1>1, <1>3, <1>5, ComputesWrites

\* A word rotated by one through the flag t.
Rotl(v, t) == ((v * 2) % Space) + t
Rotr(v, t) == v \div 2 + t * 2048

LEMMA RunsRol ==
  ASSUME TypeOK, Next, NEW rd \in 1..6, NEW ra \in Reg, Fetches(R3(SPEC, rd, ra, ROL))
  PROVE  GoesOn /\ Writes(rd, Rotl(reg[ra], T)) /\ T' = Bit(reg[ra], 2048)
<1>1. /\ Op(IR) = SPEC /\ Rd(IR) = rd /\ Ra(IR) = ra /\ Rb(IR) = ROL
      /\ rd \in Reg /\ reg[ra] \in Nat /\ T \in {0, 1}
  BY Fetched3, SubOps DEF SPEC
<1>2. Rol
  BY <1>1, ByOp DEF Fetches
<1>3. Computes(Rotl(reg[ra], T), Bit(reg[ra], 2048))
  BY <1>1, <1>2 DEF Rol, Rotl
<1>4. Rotl(reg[ra], T) \in Int /\ Rotl(reg[ra], T) % Space = Rotl(reg[ra], T)
  BY <1>1 DEF Rotl, Space
<1>5. Bit(reg[ra], 2048) \in {0, 1}
  BY <1>1, BitType
<1>. QED BY <1>1, <1>3, <1>4, <1>5, ComputesWrites

LEMMA RunsRor ==
  ASSUME TypeOK, Next, NEW rd \in 1..6, NEW ra \in Reg, Fetches(R3(SPEC, rd, ra, ROR))
  PROVE  GoesOn /\ Writes(rd, Rotr(reg[ra], T)) /\ T' = reg[ra] % 2
<1>1. /\ Op(IR) = SPEC /\ Rd(IR) = rd /\ Ra(IR) = ra /\ Rb(IR) = ROR
      /\ rd \in Reg /\ reg[ra] \in Word /\ T \in {0, 1}
  BY Fetched3, SubOps DEF SPEC
<1>2. Ror
  BY <1>1, ByOp DEF Fetches
<1>3. Computes(Rotr(reg[ra], T), reg[ra] % 2)
  BY <1>1, <1>2 DEF Ror, Rotr
<1>4. Rotr(reg[ra], T) \in Int /\ Rotr(reg[ra], T) % Space = Rotr(reg[ra], T)
  <2>. DEFINE v == reg[ra]
  <2>1. v \in Nat /\ v < 4096
    BY <1>1, WordRange
  <2>. HIDE DEF v
  <2>2. v \div 2 + T * 2048 \in Nat /\ v \div 2 + T * 2048 < 4096
    <3>1. v \div 2 \in Nat /\ v \div 2 < 2048
      BY <2>1
    <3>2. CASE T = 0
      BY <3>1, <3>2
    <3>3. CASE T = 1
      BY <3>1, <3>3
    <3>. QED BY <1>1, <3>2, <3>3
  <2>3. Rotr(reg[ra], T) \in Word
    <3>1. Rotr(reg[ra], T) = v \div 2 + T * 2048
      BY DEF Rotr, v
    <3>. QED BY <2>2, <3>1, InWord
  <2>. QED BY <2>3, WordMod
<1>5. reg[ra] % 2 \in {0, 1}
  <2>1. reg[ra] \in Int
    BY <1>1, WordInt
  <2>. QED BY <2>1
<1>. QED BY <1>1, <1>3, <1>4, <1>5, ComputesWrites

LEMMA RunsLui ==
  ASSUME TypeOK, Next, NEW rd \in 1..6, NEW imm \in 0..63, Fetches(RI(LUI, rd, imm))
  PROVE  GoesOn /\ Writes(rd, imm * 64)
<1>0. rd \in Reg
  BY DEF Reg
<1>1. Op(IR) = LUI /\ Rd(IR) = rd /\ Imm6(IR) = imm /\ T \in {0, 1}
  <2>1. LUI \in 0..7
    BY DEF LUI
  <2>. QED BY <1>0, <2>1, FetchedI
<1>2. ExecLui
  BY <1>1, ByOp DEF Fetches, Branch, IsBranch
<1>3. Computes(imm * 64, T)
  BY <1>1, <1>2 DEF ExecLui
<1>4. imm * 64 \in Int /\ (imm * 64) % Space = imm * 64
  BY DEF Space
<1>. QED BY <1>0, <1>1, <1>3, <1>4, ComputesWrites

LEMMA RunsAddi ==
  ASSUME TypeOK, Next, NEW rd \in 1..6, NEW imm \in 0..63, Fetches(RI(ADDI, rd, imm))
  PROVE  GoesOn /\ Writes(rd, (reg[rd] + imm) % Space)
<1>0. rd \in Reg
  BY DEF Reg
<1>1. /\ Op(IR) = ADDI /\ Rd(IR) = rd /\ Imm6(IR) = imm /\ T \in {0, 1}
      /\ reg[rd] \in Nat
  <2>1. ADDI \in 0..7
    BY DEF ADDI
  <2>. QED BY <1>0, <2>1, FetchedI
<1>2. ExecAddi
  BY <1>1, ByOp DEF Fetches, Branch, IsBranch, Executes, ADDI, LUI
<1>3. Computes(reg[rd] + imm, T)
  BY <1>1, <1>2 DEF ExecAddi
<1>4. reg[rd] + imm \in Int
  BY <1>1
<1>. QED BY <1>0, <1>1, <1>3, <1>4, ComputesWrites

\* A bt backward.
LEMMA RunsBranch ==
  ASSUME TypeOK, Next, NEW imm \in 0..63, Fetches(RI(ADDI, 7, imm))
  PROVE  /\ reg' = reg /\ T' = T /\ data' = data /\ args' = args
         /\ outcome' \in {"running", "maxcycle"}
         /\ pc' = IF T = 1 THEN (pc + imm - 64) % Space ELSE NextPc
<1>1. /\ Op(IR) = ADDI /\ Rd(IR) = 7 /\ Imm6(IR) = imm /\ pc \in Int
  <2>1. 7 \in Reg
    BY DEF Reg
  <2>. QED BY <2>1, FetchedI DEF ADDI
<1>2. Branch
  BY <1>1, ByOp DEF Fetches, ExecAddi, IsBranch
<1>3. pc' = IF T = 1 THEN (pc + (imm - 64)) % Space ELSE NextPc
  BY <1>1, <1>2 DEF Branch, BranchOffset, ADDI, LUI
<1>4. pc + (imm - 64) = pc + imm - 64
  BY <1>1
<1>. QED BY <1>2, <1>3, <1>4 DEF Branch, Retire, Continue

LEMMA RunsJalr ==
  ASSUME TypeOK, Next, NEW rd \in 0..6, NEW ra \in Reg, Fetches(R3(SPEC, rd, ra, JALR))
  PROVE  /\ T' = T /\ data' = data /\ args' = args
         /\ outcome' \in {"running", "maxcycle"} /\ pc' = reg[ra]
         /\ IF rd = 0 THEN reg' = reg ELSE Writes(rd, NextPc)
<1>1. /\ Op(IR) = SPEC /\ Rd(IR) = rd /\ Ra(IR) = ra /\ Rb(IR) = JALR /\ rd \in Reg
  BY Fetched3, SubOps DEF SPEC
<1>2. Jalr
  BY <1>1, ByOp DEF Fetches
<1>3. reg' = Put(rd, NextPc) /\ outcome' \in {"running", "maxcycle"}
  BY <1>1, <1>2 DEF Jalr, Retire, Continue
<1>4. NextPc \in Word /\ NextPc % Space = NextPc /\ reg \in [Reg -> Word]
  BY Operands, WordMod DEF TypeOK
<1>5. IF rd = 0 THEN reg' = reg ELSE Writes(rd, NextPc)
  BY <1>1, <1>3, <1>4 DEF Writes, Put
<1>. QED BY <1>1, <1>2, <1>3, <1>5 DEF Jalr

LEMMA RunsHalt ==
  ASSUME Next, Fetches(Halt)
  PROVE  /\ reg' = reg /\ T' = T /\ pc' = NextPc /\ data' = data /\ args' = args
         /\ outcome' \in {"halted", "maxcycle"}
<1>1. HaltStep
  BY ByOp DEF Fetches
<1>. QED BY <1>1 DEF HaltStep, Retire, Continue
-----------------------------------------------------------------------------
(* The idioms: what the registers and the flag hold before each instruction. *)

\* Where the idioms lie: in banks with a store that no other bank overlaps.
Loaded ==
  outcome # "loading" =>
    \A a \in 0..(Len(args.file) - 1) : ~Conflict(a) /\ Read(a) = args.file[a + 1]

Ready == /\ TypeOK /\ before \in [Reg -> Word] /\ Loaded
         /\ outcome = "loading" => reg = before

Untouched(rs) == \A r \in rs : reg[r] = before[r]

SumNow == T * Space * Space + Long(reg, 2, 1) = Long(before, 2, 1) + Long(before, 4, 3)
AddInv ==
  args.file = MultiAdd =>
    /\ outcome = "running" =>
         \/ pc = 0 /\ reg = before
         \/ pc = 1 /\ reg = before /\ T = 0
         \/ pc = 2 /\ T * Space + reg[1] = before[1] + before[3] /\ Untouched({2, 4})
         \/ pc = 3 /\ SumNow
    /\ outcome = "halted" => SumNow

LeftOne == reg[1] = Rotl(before[1], 0) /\ T = Bit(before[1], 2048)
LeftTwo == /\ reg[1] = Rotl(before[1], 0) /\ reg[2] = Rotl(before[2], Bit(before[1], 2048))
           /\ T = Bit(before[2], 2048)
LeftAll == /\ reg[1] = Rotl(before[1], 0) /\ reg[2] = Rotl(before[2], Bit(before[1], 2048))
           /\ reg[3] = Rotl(before[3], Bit(before[2], 2048)) /\ T = Bit(before[3], 2048)
LeftInv ==
  args.file = ShiftLeft =>
    /\ outcome = "running" =>
         \/ pc = 0 /\ reg = before
         \/ pc = 1 /\ reg = before /\ T = 0
         \/ pc = 2 /\ LeftOne /\ Untouched({2, 3})
         \/ pc = 3 /\ LeftTwo /\ Untouched({3})
         \/ pc = 4 /\ LeftAll
    /\ outcome = "halted" => LeftAll

RightOne(t) == reg[3] = Rotr(before[3], t) /\ T = before[3] % 2
RightTwo(t) == /\ reg[3] = Rotr(before[3], t) /\ reg[2] = Rotr(before[2], before[3] % 2)
               /\ T = before[2] % 2
RightAll(t) == /\ reg[3] = Rotr(before[3], t) /\ reg[2] = Rotr(before[2], before[3] % 2)
               /\ reg[1] = Rotr(before[1], before[2] % 2) /\ T = before[1] % 2
RightInv ==
  args.file = ShiftRight =>
    /\ outcome = "running" =>
         \/ pc = 0 /\ reg = before
         \/ pc = 1 /\ reg = before /\ T = 0
         \/ pc = 2 /\ RightOne(0) /\ Untouched({1, 2})
         \/ pc = 3 /\ RightTwo(0) /\ Untouched({1})
         \/ pc = 4 /\ RightAll(0)
    /\ outcome = "halted" => RightAll(0)
SignedInv ==
  args.file = ShiftSigned =>
    LET sign == Bit(before[3], 2048)
    IN  /\ outcome = "running" =>
             \/ pc = 0 /\ reg = before
             \/ pc = 1 /\ reg[4] = before[3] /\ Untouched(1..3)
             \/ pc = 2 /\ T = sign /\ Untouched(1..3)
             \/ pc = 3 /\ RightOne(sign) /\ Untouched({1, 2})
             \/ pc = 4 /\ RightTwo(sign) /\ Untouched({1})
             \/ pc = 5 /\ RightAll(sign)
        /\ outcome = "halted" => RightAll(sign)

CompareInv ==
  args.file = CompareBack =>
    LET less == before[1] < before[2]
    IN  /\ outcome = "running" =>
             \/ pc = 0 /\ reg = before
             \/ pc = 1 /\ reg[6] = 64 /\ Untouched({1, 2, 5})
             \/ pc = 64 /\ Untouched({1, 2, 5})
             \/ pc = 65 /\ T = Flag(less) /\ Untouched({5})
             \/ pc = 4 /\ less /\ Untouched({5})
             \/ pc = 5 /\ less /\ reg[5] = (before[5] + 1) % Space
             \/ pc = 66 /\ ~less /\ Untouched({5})
        /\ outcome = "halted" => reg[5] = (before[5] + Flag(less)) % Space

CallInv ==
  args.file = Call =>
    /\ outcome = "running" =>
         \/ pc = 0 /\ reg = before
         \/ pc = 1 /\ reg[5] = 0 /\ Untouched({1})
         \/ pc = 2 /\ reg[5] = 6 /\ Untouched({1})
         \/ pc = 6 /\ reg[5] = 3 /\ Untouched({1})
         \/ pc = 7 /\ reg[5] = 3 /\ reg[1] = (2 * before[1]) % Space
         \/ pc = 3 /\ reg[1] = (2 * before[1]) % Space
         \/ pc = 4 /\ reg[1] = (2 * before[1] + 63) % Space
    /\ outcome = "halted" => reg[1] = (2 * before[1] + 63) % Space

Both == And(before[2], before[3])
Union == (((before[2] + before[3]) % Space) - Both) % Space
Unequal == (Union - Both) % Space
OrInv ==
  args.file \in {Or, Xor} =>
    /\ outcome = "running" =>
         \/ pc = 0 /\ reg = before
         \/ pc = 1 /\ reg[4] = Both /\ Untouched({2, 3})
         \/ pc = 2 /\ reg[4] = Both /\ reg[1] = (before[2] + before[3]) % Space
         \/ pc = 3 /\ reg[4] = Both /\ reg[1] = Union
         \/ pc = 4 /\ reg[1] = Unequal /\ args.file = Xor
    /\ outcome = "halted" => reg[1] = IF args.file = Or THEN Union ELSE Unequal

\* The next word of the idiom is what is executed.
LEMMA Fetched ==
  ASSUME Loaded, outcome = "running", NEW n \in Nat, pc = n, n < Len(args.file),
         Len(args.file) \in Nat
  PROVE  Fetches(args.file[n + 1])
BY DEF Loaded, Fetches, IR

LEMMA Following ==
  ASSUME NEW n \in 0..100, pc = n
  PROVE  NextPc = n + 1
BY DEF NextPc, Space

LEMMA Carry ==
  ASSUME NEW s \in Nat, s < 8192, NEW t, t = Flag(s >= Space)
  PROVE  t * 4096 + (s % 4096) = s
<1>1. CASE s < 4096
  <2>1. t = 0
    BY <1>1 DEF Flag, Space
  <2>. QED BY <1>1, <2>1
<1>2. CASE s >= 4096
  <2>1. s % 4096 = s - 4096
    BY <1>2
  <2>2. t = 1
    BY <1>2 DEF Flag, Space
  <2>. QED BY <2>1, <2>2
<1>. QED BY <1>1, <1>2

\* What holds of every idiom's step: nothing is stored.
Keeps == data' = data /\ args' = args

\* What the steps rest on: the types, by the registers an instruction names.
LEMMA Values ==
  ASSUME Ready
  PROVE  /\ TypeOK /\ Loaded /\ reg[0] = 0 /\ reg[7] = 4095 /\ T \in {0, 1}
         /\ reg \in [Reg -> Word] /\ before \in [Reg -> Word]
         /\ 0 \in Reg /\ 1 \in Reg /\ 2 \in Reg /\ 3 \in Reg /\ 4 \in Reg /\ 5 \in Reg
         /\ 6 \in Reg /\ 7 \in Reg
<1>1. TypeOK /\ Loaded /\ before \in [Reg -> Word]
  BY DEF Ready
<1>2. reg \in [Reg -> Word] /\ reg[0] = 0 /\ reg[7] = Space - 1 /\ T \in {0, 1}
  BY <1>1 DEF TypeOK
<1>3. /\ 0 \in Reg /\ 1 \in Reg /\ 2 \in Reg /\ 3 \in Reg /\ 4 \in Reg /\ 5 \in Reg
      /\ 6 \in Reg /\ 7 \in Reg
  BY DEF Reg
<1>. QED BY <1>1, <1>2, <1>3 DEF Space

LEMMA AddStep ==
  ASSUME Ready, AddInv, Next, before' = before, args.file = MultiAdd, outcome = "running"
  PROVE  AddInv' /\ Keeps
<1>. DEFINE f == args.file
<1>0. /\ Len(f) = 4 /\ f[4] = Halt
      /\ f[1] = R3(ADDC, 0, 0, 0) /\ f[2] = R3(ADDC, 1, 1, 3) /\ f[3] = R3(ADDC, 2, 2, 4)
  BY DEF MultiAdd, Clrt
<1>t. /\ TypeOK /\ Loaded /\ reg[0] = 0 /\ T \in {0, 1}
      /\ reg \in [Reg -> Word] /\ before \in [Reg -> Word]
      /\ 0 \in Reg /\ 1 \in Reg /\ 2 \in Reg /\ 3 \in Reg /\ 4 \in Reg
  BY Values
<1>v. /\ before[1] \in Nat /\ before[2] \in Nat /\ before[3] \in Nat /\ before[4] \in Nat
      /\ before[1] < 4096 /\ before[2] < 4096 /\ before[3] < 4096 /\ before[4] < 4096
      /\ reg[1] \in Nat
  BY <1>t, WordRange
<1>. HIDE DEF f
<1>1. CASE pc = 0
  <2>1. Fetches(R3(ADDC, 0, 0, 0))
    BY <1>0, <1>1, <1>t, Fetched DEF f
  <2>2. GoesOn /\ reg' = reg /\ T' = Flag(reg[0] + reg[0] + T >= Space)
    BY <1>t, <2>1, RunsAddc
  <2>3. T' = 0
    BY <1>t, <2>2 DEF Flag, Space
  <2>4. pc' = 1
    BY <1>1, <2>2, Following DEF GoesOn
  <2>5. reg = before
    BY <1>1 DEF AddInv
  <2>. QED BY <2>2, <2>3, <2>4, <2>5 DEF AddInv, GoesOn, Keeps
<1>2. CASE pc = 1
  <2>1. Fetches(R3(ADDC, 1, 1, 3))
    BY <1>0, <1>2, <1>t, Fetched DEF f
  <2>2. /\ GoesOn /\ Writes(1, (reg[1] + reg[3] + T) % Space)
        /\ T' = Flag(reg[1] + reg[3] + T >= Space)
    BY <1>t, <2>1, RunsAddc
  <2>3. reg = before /\ T = 0
    BY <1>2 DEF AddInv
  <2>4. reg[1] + reg[3] + T = before[1] + before[3] /\ before[1] + before[3] \in Nat
        /\ before[1] + before[3] < 8192
    BY <1>v, <2>3
  <2>s. T' = Flag(before[1] + before[3] >= Space)
        /\ reg'[1] = (before[1] + before[3]) % 4096
    BY <2>2, <2>4 DEF Writes, Space
  <2>5. T' * 4096 + reg'[1] = before[1] + before[3]
    BY <2>4, <2>s, Carry
  <2>6. reg'[2] = before[2] /\ reg'[4] = before[4]
    BY <1>t, <2>2, <2>3 DEF Writes
  <2>7. pc' = 2
    BY <1>2, <2>2, Following DEF GoesOn
  <2>. QED BY <2>2, <2>5, <2>6, <2>7 DEF AddInv, GoesOn, Keeps, Untouched, Space
<1>3. CASE pc = 2
  <2>1. Fetches(R3(ADDC, 2, 2, 4))
    BY <1>0, <1>3, <1>t, Fetched DEF f
  <2>2. /\ GoesOn /\ Writes(2, (reg[2] + reg[4] + T) % Space)
        /\ T' = Flag(reg[2] + reg[4] + T >= Space)
    BY <1>t, <2>1, RunsAddc
  <2>3. T * Space + reg[1] = before[1] + before[3] /\ reg[2] = before[2] /\ reg[4] = before[4]
    BY <1>3 DEF AddInv, Untouched
  <2>4. /\ reg[2] + reg[4] + T = before[2] + before[4] + T
        /\ before[2] + before[4] + T \in Nat /\ before[2] + before[4] + T < 8192
    BY <1>t, <1>v, <2>3
  <2>s. T' = Flag(before[2] + before[4] + T >= Space)
        /\ reg'[2] = (before[2] + before[4] + T) % 4096
    BY <2>2, <2>4 DEF Writes, Space
  <2>5. T' * 4096 + reg'[2] = before[2] + before[4] + T
    BY <2>4, <2>s, Carry
  <2>6. reg'[1] = reg[1]
    BY <1>t, <2>2 DEF Writes
  <2>7. T' \in Int /\ reg'[2] \in Int
    BY <1>t, <2>2, FlagType, WordInt DEF Writes
  <2>8. SumNow'
    <3>2. /\ T \in Int /\ reg[1] \in Int /\ before[1] \in Int /\ before[2] \in Int
          /\ before[3] \in Int /\ before[4] \in Int
      BY <1>t, <1>v
    <3>3. /\ T * 4096 + reg[1] = before[1] + before[3]
          /\ T' * 4096 + reg'[2] = before[2] + before[4] + T
      BY <2>3, <2>5 DEF Space
    <3>. DEFINE b1 == before[1]
                b2 == before[2]
                b3 == before[3]
                b4 == before[4]
                r1 == reg[1]
                r2 == reg'[2]
                t == T'
    <3>4. /\ b1 \in Int /\ b2 \in Int /\ b3 \in Int /\ b4 \in Int /\ r1 \in Int /\ r2 \in Int
          /\ t \in Int /\ T \in Int
          /\ T * 4096 + r1 = b1 + b3 /\ t * 4096 + r2 = b2 + b4 + T
      BY <2>7, <3>2, <3>3
    <3>. HIDE DEF b1, b2, b3, b4, r1, r2, t
    <3>5. t * 4096 * 4096 + (r2 * 4096 + r1) = (b2 * 4096 + b1) + (b4 * 4096 + b3)
      BY <3>4
    <3>. QED BY <2>6, <3>5 DEF SumNow, Long, Space, b1, b2, b3, b4, r1, r2, t
  <2>9. pc' = 3
    BY <1>3, <2>2, Following DEF GoesOn
  <2>. QED BY <2>2, <2>8, <2>9 DEF AddInv, GoesOn, Keeps
<1>4. CASE pc = 3
  <2>1. Fetches(Halt)
    BY <1>0, <1>4, <1>t, Fetched DEF f
  <2>2. Keeps /\ reg' = reg /\ T' = T /\ outcome' # "running"
    BY <2>1, RunsHalt DEF Keeps
  <2>3. SumNow'
    BY <1>4, <2>2 DEF AddInv, SumNow, Long
  <2>. QED BY <2>2, <2>3 DEF AddInv
<1>. QED BY <1>1, <1>2, <1>3, <1>4 DEF AddInv
\* A word is the sum of its bits.
LEMMA BitSum ==
  ASSUME NEW v \in Word
  PROVE  v = Bit(v, 1) + Bit(v, 2) * 2 + Bit(v, 4) * 4 + Bit(v, 8) * 8 + Bit(v, 16) * 16
             + Bit(v, 32) * 32 + Bit(v, 64) * 64 + Bit(v, 128) * 128 + Bit(v, 256) * 256
             + Bit(v, 512) * 512 + Bit(v, 1024) * 1024 + Bit(v, 2048) * 2048
<1>. DEFINE x == v
<1>1. x \in Nat /\ x < 4096
  BY WordRange
<1>. HIDE DEF x
<1>. DEFINE q2 == x \div 2
            q4 == x \div 4
            q8 == x \div 8
            q16 == x \div 16
            q32 == x \div 32
            q64 == x \div 64
            q128 == x \div 128
            q256 == x \div 256
            q512 == x \div 512
            q1024 == x \div 1024
            q2048 == x \div 2048
            b1 == Bit(x, 1)
            b2 == Bit(x, 2)
            b4 == Bit(x, 4)
            b8 == Bit(x, 8)
            b16 == Bit(x, 16)
            b32 == Bit(x, 32)
            b64 == Bit(x, 64)
            b128 == Bit(x, 128)
            b256 == Bit(x, 256)
            b512 == Bit(x, 512)
            b1024 == Bit(x, 1024)
            b2048 == Bit(x, 2048)
<1>2. /\ q2 \in Int /\ q4 \in Int /\ q8 \in Int /\ q16 \in Int /\ q32 \in Int
      /\ q64 \in Int /\ q128 \in Int /\ q256 \in Int /\ q512 \in Int /\ q1024 \in Int
      /\ q2048 \in Int
      /\ b1 \in Int /\ b2 \in Int /\ b4 \in Int /\ b8 \in Int /\ b16 \in Int
      /\ b32 \in Int /\ b64 \in Int /\ b128 \in Int /\ b256 \in Int /\ b512 \in Int
      /\ b1024 \in Int /\ b2048 \in Int
  BY <1>1 DEF Bit
<1>3. /\ x = 2 * q2 + b1
      /\ q2 = 2 * q4 + b2
      /\ q4 = 2 * q8 + b4
      /\ q8 = 2 * q16 + b8
      /\ q16 = 2 * q32 + b16
      /\ q32 = 2 * q64 + b32
      /\ q64 = 2 * q128 + b64
      /\ q128 = 2 * q256 + b128
      /\ q256 = 2 * q512 + b256
      /\ q512 = 2 * q1024 + b512
      /\ q1024 = 2 * q2048 + b1024
      /\ q2048 = b2048
  BY <1>1 DEF Bit
<1>. HIDE DEF q2, q4, q8, q16, q32, q64, q128, q256, q512, q1024, q2048,
              b1, b2, b4, b8, b16, b32, b64, b128, b256, b512, b1024, b2048
<1>4. x = b1 + b2 * 2 + b4 * 4 + b8 * 8 + b16 * 16 + b32 * 32 + b64 * 64 + b128 * 128
            + b256 * 256 + b512 * 512 + b1024 * 1024 + b2048 * 2048
  BY <1>2, <1>3
<1>. QED BY <1>4 DEF x, b1, b2, b4, b8, b16, b32, b64, b128, b256, b512, b1024, b2048

LEMMA AndAll == ASSUME NEW v \in Word PROVE And(v, 4095) = v
<1>1. v \in Nat
  BY WordNat
<1>2. /\ Bit(4095, 1) = 1 /\ Bit(4095, 2) = 1 /\ Bit(4095, 4) = 1 /\ Bit(4095, 8) = 1
      /\ Bit(4095, 16) = 1 /\ Bit(4095, 32) = 1 /\ Bit(4095, 64) = 1 /\ Bit(4095, 128) = 1
      /\ Bit(4095, 256) = 1 /\ Bit(4095, 512) = 1 /\ Bit(4095, 1024) = 1
      /\ Bit(4095, 2048) = 1
  BY DEF Bit
<1>3. \A p \in Nat \ {0} : Bit(v, p) \in {0, 1}
  BY <1>1, BitType
<1>4. And(v, 4095) =
        Bit(v, 1) + Bit(v, 2) * 2 + Bit(v, 4) * 4 + Bit(v, 8) * 8 + Bit(v, 16) * 16
             + Bit(v, 32) * 32 + Bit(v, 64) * 64 + Bit(v, 128) * 128 + Bit(v, 256) * 256
             + Bit(v, 512) * 512 + Bit(v, 1024) * 1024 + Bit(v, 2048) * 2048
  BY <1>2, <1>3 DEF And
<1>. QED BY <1>4, BitSum

LEMMA LeftStep ==
  ASSUME Ready, LeftInv, Next, before' = before, args.file = ShiftLeft, outcome = "running"
  PROVE  LeftInv' /\ Keeps
<1>. DEFINE f == args.file
<1>0. /\ Len(f) = 5 /\ f[5] = Halt
      /\ f[1] = R3(ADDC, 0, 0, 0) /\ f[2] = R3(SPEC, 1, 1, ROL)
      /\ f[3] = R3(SPEC, 2, 2, ROL) /\ f[4] = R3(SPEC, 3, 3, ROL)
  BY DEF ShiftLeft, Clrt
<1>t. /\ TypeOK /\ Loaded /\ reg[0] = 0 /\ T \in {0, 1}
      /\ reg \in [Reg -> Word] /\ before \in [Reg -> Word]
      /\ 0 \in Reg /\ 1 \in Reg /\ 2 \in Reg /\ 3 \in Reg /\ 4 \in Reg /\ 5 \in Reg
      /\ 6 \in Reg /\ 7 \in Reg
  BY Values
<1>. HIDE DEF f
<1>1. CASE pc = 0
  <2>1. Fetches(R3(ADDC, 0, 0, 0))
    BY <1>0, <1>1, <1>t, Fetched DEF f
  <2>2. GoesOn /\ reg' = reg /\ T' = Flag(reg[0] + reg[0] + T >= Space)
    BY <1>t, <2>1, RunsAddc
  <2>3. reg = before
    BY <1>1 DEF LeftInv, Untouched
  <2>4. T' = 0 /\ reg' = before
    BY <1>t, <2>2, <2>3 DEF Flag, Space
  <2>5. pc' = 1
    BY <1>1, <2>2, Following DEF GoesOn
  <2>. QED BY <2>2, <2>4, <2>5 DEF LeftInv, GoesOn, Keeps, Untouched
<1>2. CASE pc = 1
  <2>1. Fetches(R3(SPEC, 1, 1, ROL))
    BY <1>0, <1>2, <1>t, Fetched DEF f
  <2>2. GoesOn /\ Writes(1, Rotl(reg[1], T)) /\ T' = Bit(reg[1], 2048)
    BY <1>t, <2>1, RunsRol
  <2>3. T = 0 /\ reg = before
    BY <1>2 DEF LeftInv, Untouched
  <2>4. LeftOne' /\ reg'[2] = before[2] /\ reg'[3] = before[3]
    BY <1>t, <2>2, <2>3 DEF Writes, LeftOne
  <2>5. pc' = 2
    BY <1>2, <2>2, Following DEF GoesOn
  <2>. QED BY <2>2, <2>4, <2>5 DEF LeftInv, GoesOn, Keeps, Untouched
<1>3. CASE pc = 2
  <2>1. Fetches(R3(SPEC, 2, 2, ROL))
    BY <1>0, <1>3, <1>t, Fetched DEF f
  <2>2. GoesOn /\ Writes(2, Rotl(reg[2], T)) /\ T' = Bit(reg[2], 2048)
    BY <1>t, <2>1, RunsRol
  <2>3. LeftOne /\ reg[2] = before[2] /\ reg[3] = before[3]
    BY <1>3 DEF LeftInv, Untouched
  <2>4. LeftTwo' /\ reg'[3] = before[3]
    BY <1>t, <2>2, <2>3 DEF Writes, LeftOne, LeftTwo
  <2>5. pc' = 3
    BY <1>3, <2>2, Following DEF GoesOn
  <2>. QED BY <2>2, <2>4, <2>5 DEF LeftInv, GoesOn, Keeps, Untouched
<1>4. CASE pc = 3
  <2>1. Fetches(R3(SPEC, 3, 3, ROL))
    BY <1>0, <1>4, <1>t, Fetched DEF f
  <2>2. GoesOn /\ Writes(3, Rotl(reg[3], T)) /\ T' = Bit(reg[3], 2048)
    BY <1>t, <2>1, RunsRol
  <2>3. LeftTwo /\ reg[3] = before[3]
    BY <1>4 DEF LeftInv, Untouched
  <2>4. LeftAll'
    BY <1>t, <2>2, <2>3 DEF Writes, LeftTwo, LeftAll
  <2>5. pc' = 4
    BY <1>4, <2>2, Following DEF GoesOn
  <2>. QED BY <2>2, <2>4, <2>5 DEF LeftInv, GoesOn, Keeps, Untouched
<1>5. CASE pc = 4
  <2>1. Fetches(Halt)
    BY <1>0, <1>5, <1>t, Fetched DEF f
  <2>2. reg' = reg /\ T' = T /\ Keeps /\ outcome' # "running"
    BY <1>t, <2>1, RunsHalt DEF Keeps
  <2>3. LeftAll
    BY <1>5 DEF LeftInv, Untouched
  <2>. QED BY <2>2, <2>3 DEF LeftInv, Keeps, LeftAll
<1>. QED BY <1>1, <1>2, <1>3, <1>4, <1>5 DEF LeftInv

LEMMA RightStep ==
  ASSUME Ready, RightInv, Next, before' = before, args.file = ShiftRight, outcome = "running"
  PROVE  RightInv' /\ Keeps
<1>. DEFINE f == args.file
<1>0. /\ Len(f) = 5 /\ f[5] = Halt
      /\ f[1] = R3(ADDC, 0, 0, 0) /\ f[2] = R3(SPEC, 3, 3, ROR)
      /\ f[3] = R3(SPEC, 2, 2, ROR) /\ f[4] = R3(SPEC, 1, 1, ROR)
  BY DEF ShiftRight, Clrt
<1>t. /\ TypeOK /\ Loaded /\ reg[0] = 0 /\ T \in {0, 1}
      /\ reg \in [Reg -> Word] /\ before \in [Reg -> Word]
      /\ 0 \in Reg /\ 1 \in Reg /\ 2 \in Reg /\ 3 \in Reg /\ 4 \in Reg /\ 5 \in Reg
      /\ 6 \in Reg /\ 7 \in Reg
  BY Values
<1>. HIDE DEF f
<1>1. CASE pc = 0
  <2>1. Fetches(R3(ADDC, 0, 0, 0))
    BY <1>0, <1>1, <1>t, Fetched DEF f
  <2>2. GoesOn /\ reg' = reg /\ T' = Flag(reg[0] + reg[0] + T >= Space)
    BY <1>t, <2>1, RunsAddc
  <2>3. reg = before
    BY <1>1 DEF RightInv, Untouched
  <2>4. T' = 0 /\ reg' = before
    BY <1>t, <2>2, <2>3 DEF Flag, Space
  <2>5. pc' = 1
    BY <1>1, <2>2, Following DEF GoesOn
  <2>. QED BY <2>2, <2>4, <2>5 DEF RightInv, GoesOn, Keeps, Untouched
<1>2. CASE pc = 1
  <2>1. Fetches(R3(SPEC, 3, 3, ROR))
    BY <1>0, <1>2, <1>t, Fetched DEF f
  <2>2. GoesOn /\ Writes(3, Rotr(reg[3], T)) /\ T' = reg[3] % 2
    BY <1>t, <2>1, RunsRor
  <2>3. T = 0 /\ reg = before
    BY <1>2 DEF RightInv, Untouched
  <2>4. RightOne(0)' /\ reg'[1] = before[1] /\ reg'[2] = before[2]
    BY <1>t, <2>2, <2>3 DEF Writes, RightOne
  <2>5. pc' = 2
    BY <1>2, <2>2, Following DEF GoesOn
  <2>. QED BY <2>2, <2>4, <2>5 DEF RightInv, GoesOn, Keeps, Untouched
<1>3. CASE pc = 2
  <2>1. Fetches(R3(SPEC, 2, 2, ROR))
    BY <1>0, <1>3, <1>t, Fetched DEF f
  <2>2. GoesOn /\ Writes(2, Rotr(reg[2], T)) /\ T' = reg[2] % 2
    BY <1>t, <2>1, RunsRor
  <2>3. RightOne(0) /\ reg[1] = before[1] /\ reg[2] = before[2]
    BY <1>3 DEF RightInv, Untouched
  <2>4. RightTwo(0)' /\ reg'[1] = before[1]
    BY <1>t, <2>2, <2>3 DEF Writes, RightOne, RightTwo
  <2>5. pc' = 3
    BY <1>3, <2>2, Following DEF GoesOn
  <2>. QED BY <2>2, <2>4, <2>5 DEF RightInv, GoesOn, Keeps, Untouched
<1>4. CASE pc = 3
  <2>1. Fetches(R3(SPEC, 1, 1, ROR))
    BY <1>0, <1>4, <1>t, Fetched DEF f
  <2>2. GoesOn /\ Writes(1, Rotr(reg[1], T)) /\ T' = reg[1] % 2
    BY <1>t, <2>1, RunsRor
  <2>3. RightTwo(0) /\ reg[1] = before[1]
    BY <1>4 DEF RightInv, Untouched
  <2>4. RightAll(0)'
    BY <1>t, <2>2, <2>3 DEF Writes, RightTwo, RightAll
  <2>5. pc' = 4
    BY <1>4, <2>2, Following DEF GoesOn
  <2>. QED BY <2>2, <2>4, <2>5 DEF RightInv, GoesOn, Keeps, Untouched
<1>5. CASE pc = 4
  <2>1. Fetches(Halt)
    BY <1>0, <1>5, <1>t, Fetched DEF f
  <2>2. reg' = reg /\ T' = T /\ Keeps /\ outcome' # "running"
    BY <1>t, <2>1, RunsHalt DEF Keeps
  <2>3. RightAll(0)
    BY <1>5 DEF RightInv, Untouched
  <2>. QED BY <2>2, <2>3 DEF RightInv, Keeps, RightAll
<1>. QED BY <1>1, <1>2, <1>3, <1>4, <1>5 DEF RightInv

LEMMA SignedStep ==
  ASSUME Ready, SignedInv, Next, before' = before, args.file = ShiftSigned, outcome = "running"
  PROVE  SignedInv' /\ Keeps
<1>. DEFINE f == args.file
<1>0. /\ Len(f) = 6 /\ f[6] = Halt
      /\ f[1] = R3(AND, 4, 3, 7) /\ f[2] = R3(SPEC, 4, 4, ROL)
      /\ f[3] = R3(SPEC, 3, 3, ROR) /\ f[4] = R3(SPEC, 2, 2, ROR) /\ f[5] = R3(SPEC, 1, 1, ROR)
  BY DEF ShiftSigned
<1>t. /\ TypeOK /\ Loaded /\ reg[0] = 0 /\ T \in {0, 1}
      /\ reg \in [Reg -> Word] /\ before \in [Reg -> Word]
      /\ 0 \in Reg /\ 1 \in Reg /\ 2 \in Reg /\ 3 \in Reg /\ 4 \in Reg /\ 5 \in Reg
      /\ 6 \in Reg /\ 7 \in Reg
  BY Values
<1>. HIDE DEF f
<1>. DEFINE sign == Bit(before[3], 2048)
<1>w. reg[7] = 4095
  BY Values
<1>1. CASE pc = 0
  <2>1. Fetches(R3(AND, 4, 3, 7))
    BY <1>0, <1>1, <1>t, Fetched DEF f
  <2>2. GoesOn /\ Writes(4, And(reg[3], reg[7]))
    BY <1>t, <2>1, RunsAnd
  <2>3. reg = before
    BY <1>1 DEF SignedInv, Untouched
  <2>4. reg'[4] = before[3] /\ reg'[1] = before[1] /\ reg'[2] = before[2] /\ reg'[3] = before[3]
    BY <1>t, <2>2, <2>3, <1>w, AndAll DEF Writes
  <2>5. pc' = 1
    BY <1>1, <2>2, Following DEF GoesOn
  <2>. QED BY <2>2, <2>4, <2>5 DEF SignedInv, GoesOn, Keeps, Untouched
<1>2. CASE pc = 1
  <2>1. Fetches(R3(SPEC, 4, 4, ROL))
    BY <1>0, <1>2, <1>t, Fetched DEF f
  <2>2. GoesOn /\ Writes(4, Rotl(reg[4], T)) /\ T' = Bit(reg[4], 2048)
    BY <1>t, <2>1, RunsRol
  <2>3. reg[4] = before[3] /\ reg[1] = before[1] /\ reg[2] = before[2] /\ reg[3] = before[3]
    BY <1>2 DEF SignedInv, Untouched
  <2>4. T' = sign /\ reg'[1] = before[1] /\ reg'[2] = before[2] /\ reg'[3] = before[3]
    BY <1>t, <2>2, <2>3 DEF Writes
  <2>5. pc' = 2
    BY <1>2, <2>2, Following DEF GoesOn
  <2>. QED BY <2>2, <2>4, <2>5 DEF SignedInv, GoesOn, Keeps, Untouched
<1>3. CASE pc = 2
  <2>1. Fetches(R3(SPEC, 3, 3, ROR))
    BY <1>0, <1>3, <1>t, Fetched DEF f
  <2>2. GoesOn /\ Writes(3, Rotr(reg[3], T)) /\ T' = reg[3] % 2
    BY <1>t, <2>1, RunsRor
  <2>3. T = sign /\ reg[1] = before[1] /\ reg[2] = before[2] /\ reg[3] = before[3]
    BY <1>3 DEF SignedInv, Untouched
  <2>4. RightOne(sign)' /\ reg'[1] = before[1] /\ reg'[2] = before[2]
    BY <1>t, <2>2, <2>3 DEF Writes, RightOne
  <2>5. pc' = 3
    BY <1>3, <2>2, Following DEF GoesOn
  <2>. QED BY <2>2, <2>4, <2>5 DEF SignedInv, GoesOn, Keeps, Untouched
<1>4. CASE pc = 3
  <2>1. Fetches(R3(SPEC, 2, 2, ROR))
    BY <1>0, <1>4, <1>t, Fetched DEF f
  <2>2. GoesOn /\ Writes(2, Rotr(reg[2], T)) /\ T' = reg[2] % 2
    BY <1>t, <2>1, RunsRor
  <2>3. RightOne(sign) /\ reg[1] = before[1] /\ reg[2] = before[2]
    BY <1>4 DEF SignedInv, Untouched
  <2>4. RightTwo(sign)' /\ reg'[1] = before[1]
    BY <1>t, <2>2, <2>3 DEF Writes, RightOne, RightTwo
  <2>5. pc' = 4
    BY <1>4, <2>2, Following DEF GoesOn
  <2>. QED BY <2>2, <2>4, <2>5 DEF SignedInv, GoesOn, Keeps, Untouched
<1>5. CASE pc = 4
  <2>1. Fetches(R3(SPEC, 1, 1, ROR))
    BY <1>0, <1>5, <1>t, Fetched DEF f
  <2>2. GoesOn /\ Writes(1, Rotr(reg[1], T)) /\ T' = reg[1] % 2
    BY <1>t, <2>1, RunsRor
  <2>3. RightTwo(sign) /\ reg[1] = before[1]
    BY <1>5 DEF SignedInv, Untouched
  <2>4. RightAll(sign)'
    BY <1>t, <2>2, <2>3 DEF Writes, RightTwo, RightAll
  <2>5. pc' = 5
    BY <1>5, <2>2, Following DEF GoesOn
  <2>. QED BY <2>2, <2>4, <2>5 DEF SignedInv, GoesOn, Keeps, Untouched
<1>6. CASE pc = 5
  <2>1. Fetches(Halt)
    BY <1>0, <1>6, <1>t, Fetched DEF f
  <2>2. reg' = reg /\ T' = T /\ Keeps /\ outcome' # "running"
    BY <1>t, <2>1, RunsHalt DEF Keeps
  <2>3. RightAll(sign)
    BY <1>6 DEF SignedInv, Untouched
  <2>. QED BY <2>2, <2>3 DEF SignedInv, Keeps, RightAll
<1>. QED BY <1>1, <1>2, <1>3, <1>4, <1>5, <1>6 DEF SignedInv

LEMMA Concat ==
  ASSUME NEW S, NEW s \in Seq(S), NEW t \in Seq(S)
  PROVE  s \o t \in Seq(S) /\ Len(s \o t) = Len(s) + Len(t)
BY ConcatProperties

LEMMA ConcatLow ==
  ASSUME NEW S, NEW s \in Seq(S), NEW t \in Seq(S), NEW i \in Nat, 0 < i, i <= Len(s)
  PROVE  (s \o t)[i] = s[i]
OBVIOUS

LEMMA ConcatHigh ==
  ASSUME NEW S, NEW s \in Seq(S), NEW t \in Seq(S), NEW i \in Nat,
         Len(s) < i, i <= Len(s) + Len(t)
  PROVE  (s \o t)[i] = t[i - Len(s)]
OBVIOUS

LEMMA CompareCode ==
  /\ Len(CompareBack) = 67
  /\ CompareBack[1] = RI(LUI, 6, 1) /\ CompareBack[2] = R3(SPEC, 0, 6, JALR)
  /\ CompareBack[5] = RI(ADDI, 5, 1) /\ CompareBack[6] = Halt
  /\ CompareBack[65] = R3(SUB, 0, 1, 2) /\ CompareBack[66] = RI(ADDI, 7, 3)
  /\ CompareBack[67] = Halt
<1>. DEFINE a == <<RI(LUI, 6, 1), R3(SPEC, 0, 6, JALR), 0, 0, RI(ADDI, 5, 1), Halt>>
            z == [i \in 1..58 |-> 0]
            c == <<R3(SUB, 0, 1, 2), RI(ADDI, 7, 3), Halt>>
            b == a \o z
<1>1. /\ RI(LUI, 6, 1) \in Int /\ R3(SPEC, 0, 6, JALR) \in Int /\ RI(ADDI, 5, 1) \in Int
      /\ R3(SUB, 0, 1, 2) \in Int /\ RI(ADDI, 7, 3) \in Int /\ Halt \in Int
  BY DEF RI, R3, LUI, SPEC, JALR, ADDI, SUB, Halt
<1>2. a \in Seq(Int) /\ Len(a) = 6
  BY <1>1
<1>3. c \in Seq(Int) /\ Len(c) = 3
  BY <1>1
<1>4. z \in Seq(Int) /\ Len(z) = 58
  OBVIOUS
<1>5. /\ a[1] = RI(LUI, 6, 1) /\ a[2] = R3(SPEC, 0, 6, JALR)
      /\ a[5] = RI(ADDI, 5, 1) /\ a[6] = Halt
      /\ c[1] = R3(SUB, 0, 1, 2) /\ c[2] = RI(ADDI, 7, 3) /\ c[3] = Halt
  OBVIOUS
<1>6. CompareBack = b \o c
  BY DEF CompareBack
<1>. HIDE DEF a, z, c, b
<1>7. b \in Seq(Int) /\ Len(b) = 64
  <2>1. b \in Seq(Int) /\ Len(b) = Len(a) + Len(z)
    <3>1. a \in Seq(Int) /\ z \in Seq(Int)
      BY <1>2, <1>4
    <3>. QED BY <3>1, Concat DEF b
  <2>. QED BY <1>2, <1>4, <2>1
<1>s. a \in Seq(Int) /\ z \in Seq(Int) /\ c \in Seq(Int) /\ b \in Seq(Int)
  BY <1>2, <1>3, <1>4, <1>7
<1>8. Len(CompareBack) = 67
  <2>1. Len(CompareBack) = Len(b) + Len(c)
    BY <1>s, <1>6, Concat
  <2>. QED BY <1>3, <1>7, <2>1
<1>9. ASSUME NEW i \in Nat, 64 < i, i <= 67 PROVE CompareBack[i] = c[i - 64]
  <2>1. Len(b) < i /\ i <= Len(b) + Len(c)
    BY <1>3, <1>7, <1>9
  <2>2. CompareBack[i] = c[i - Len(b)]
    BY <1>s, <1>6, <1>9, <2>1, ConcatHigh
  <2>. QED BY <1>7, <2>2
<1>10. ASSUME NEW i \in Nat, 0 < i, i <= 6 PROVE CompareBack[i] = a[i]
  <2>1. i <= Len(b) /\ i <= Len(a)
    BY <1>2, <1>7, <1>10
  <2>2. CompareBack[i] = b[i]
    BY <1>s, <1>6, <1>10, <2>1, ConcatLow
  <2>3. b[i] = a[i]
    BY <1>s, <1>10, <2>1, ConcatLow DEF b
  <2>. QED BY <2>2, <2>3
<1>11. CompareBack[65] = c[1] /\ CompareBack[66] = c[2] /\ CompareBack[67] = c[3]
  BY <1>9
<1>12. /\ CompareBack[1] = a[1] /\ CompareBack[2] = a[2]
       /\ CompareBack[5] = a[5] /\ CompareBack[6] = a[6]
  BY <1>10
<1>. QED BY <1>5, <1>8, <1>11, <1>12

LEMMA CompareStep ==
  ASSUME Ready, CompareInv, Next, before' = before, args.file = CompareBack, outcome = "running"
  PROVE  CompareInv' /\ Keeps
<1>. DEFINE f == args.file
<1>0. /\ Len(f) = 67
      /\ f[1] = RI(LUI, 6, 1) /\ f[2] = R3(SPEC, 0, 6, JALR)
      /\ f[5] = RI(ADDI, 5, 1) /\ f[6] = Halt
      /\ f[65] = R3(SUB, 0, 1, 2) /\ f[66] = RI(ADDI, 7, 3) /\ f[67] = Halt
  BY CompareCode
<1>t. /\ TypeOK /\ Loaded /\ reg[0] = 0 /\ T \in {0, 1}
      /\ reg \in [Reg -> Word] /\ before \in [Reg -> Word]
      /\ 0 \in Reg /\ 1 \in Reg /\ 2 \in Reg /\ 3 \in Reg /\ 4 \in Reg /\ 5 \in Reg
      /\ 6 \in Reg /\ 7 \in Reg
  BY Values
<1>. HIDE DEF f
<1>. DEFINE less == before[1] < before[2]
<1>1. CASE pc = 0
  <2>1. Fetches(RI(LUI, 6, 1))
    BY <1>0, <1>1, <1>t, Fetched DEF f
  <2>2. GoesOn /\ Writes(6, 1 * 64)
    BY <1>t, <2>1, RunsLui
  <2>3. reg = before
    BY <1>1 DEF CompareInv, Untouched
  <2>4. reg'[6] = 64 /\ reg'[1] = before[1] /\ reg'[2] = before[2] /\ reg'[5] = before[5]
    BY <1>t, <2>2, <2>3 DEF Writes
  <2>5. pc' = 1
    BY <1>1, <2>2, Following DEF GoesOn
  <2>. QED BY <2>2, <2>4, <2>5 DEF CompareInv, GoesOn, Keeps, Untouched
<1>2. CASE pc = 1
  <2>1. Fetches(R3(SPEC, 0, 6, JALR))
    BY <1>0, <1>2, <1>t, Fetched DEF f
  <2>2. Keeps /\ reg' = reg /\ T' = T /\ pc' = reg[6] /\ outcome' \in {"running", "maxcycle"}
    BY <1>t, <2>1, RunsJalr DEF Keeps
  <2>3. reg[6] = 64 /\ reg[1] = before[1] /\ reg[2] = before[2] /\ reg[5] = before[5]
    BY <1>2 DEF CompareInv, Untouched
  <2>4. reg'[1] = before[1] /\ reg'[2] = before[2] /\ reg'[5] = before[5]
    BY <1>t, <2>2, <2>3
  <2>5. pc' = 64
    BY <2>2, <2>3
  <2>. QED BY <2>2, <2>4, <2>5 DEF CompareInv, Keeps, Untouched
<1>3. CASE pc = 64
  <2>1. Fetches(R3(SUB, 0, 1, 2))
    BY <1>0, <1>3, <1>t, Fetched DEF f
  <2>2. GoesOn /\ reg' = reg /\ T' = Flag(reg[1] < reg[2])
    BY <1>t, <2>1, RunsSub
  <2>3. reg[1] = before[1] /\ reg[2] = before[2] /\ reg[5] = before[5]
    BY <1>3 DEF CompareInv, Untouched
  <2>4. T' = Flag(less) /\ reg'[5] = before[5]
    BY <1>t, <2>2, <2>3
  <2>5. pc' = 65
    BY <1>3, <2>2, Following DEF GoesOn
  <2>. QED BY <2>2, <2>4, <2>5 DEF CompareInv, GoesOn, Keeps, Untouched
<1>4. CASE pc = 65
  <2>1. Fetches(RI(ADDI, 7, 3))
    BY <1>0, <1>4, <1>t, Fetched DEF f
  <2>2. /\ Keeps /\ reg' = reg /\ outcome' \in {"running", "maxcycle"}
        /\ pc' = IF T = 1 THEN (pc + 3 - 64) % Space ELSE NextPc
    BY <1>t, <2>1, RunsBranch DEF Keeps
  <2>3. T = Flag(less) /\ reg[5] = before[5]
    BY <1>4 DEF CompareInv, Untouched
  <2>4. reg'[5] = before[5]
    BY <1>t, <2>2, <2>3
  <2>5. pc' = IF less THEN 4 ELSE 66
    <3>1. (pc + 3 - 64) % Space = 4
      BY <1>4 DEF Space
    <3>2. T = 1 <=> less
      BY <2>3 DEF Flag
    <3>. QED BY <1>4, <2>2, <3>1, <3>2, Following
  <2>. QED BY <2>2, <2>4, <2>5 DEF CompareInv, Keeps, Untouched
<1>5. CASE pc = 4
  <2>1. Fetches(RI(ADDI, 5, 1))
    BY <1>0, <1>5, <1>t, Fetched DEF f
  <2>2. GoesOn /\ Writes(5, (reg[5] + 1) % Space)
    BY <1>t, <2>1, RunsAddi
  <2>3. less /\ reg[5] = before[5]
    BY <1>5 DEF CompareInv, Untouched
  <2>4. reg'[5] = (before[5] + 1) % Space
    BY <1>t, <2>2, <2>3 DEF Writes
  <2>5. pc' = 5
    BY <1>5, <2>2, Following DEF GoesOn
  <2>6. (before[1] < before[2])'
    BY <2>3
  <2>. QED BY <2>2, <2>4, <2>5, <2>6 DEF CompareInv, GoesOn, Keeps, Untouched
<1>6. CASE pc = 5
  <2>1. Fetches(Halt)
    BY <1>0, <1>6, <1>t, Fetched DEF f
  <2>2. reg' = reg /\ T' = T /\ Keeps /\ outcome' # "running"
    BY <1>t, <2>1, RunsHalt DEF Keeps
  <2>3. less /\ reg[5] = (before[5] + 1) % Space
    BY <1>6 DEF CompareInv, Untouched
  <2>. QED BY <2>2, <2>3 DEF CompareInv, Keeps, Flag
<1>7. CASE pc = 66
  <2>1. Fetches(Halt)
    BY <1>0, <1>7, <1>t, Fetched DEF f
  <2>2. reg' = reg /\ T' = T /\ Keeps /\ outcome' # "running"
    BY <1>t, <2>1, RunsHalt DEF Keeps
  <2>3. ~less /\ reg[5] = before[5]
    BY <1>7 DEF CompareInv, Untouched
  <2>4. (before[5] + Flag(less)) % Space = before[5]
    <3>1. before[5] \in Nat /\ before[5] < 4096
      BY <1>t, WordRange
    <3>2. Flag(less) = 0
      BY <2>3 DEF Flag
    <3>. QED BY <3>1, <3>2 DEF Space
  <2>. QED BY <2>2, <2>3, <2>4 DEF CompareInv, Keeps
<1>. QED BY <1>1, <1>2, <1>3, <1>4, <1>5, <1>6, <1>7 DEF CompareInv

LEMMA CallStep ==
  ASSUME Ready, CallInv, Next, before' = before, args.file = Call, outcome = "running"
  PROVE  CallInv' /\ Keeps
<1>. DEFINE f == args.file
<1>0. /\ Len(f) = 8
      /\ f[1] = RI(LUI, 5, 0) /\ f[2] = RI(ADDI, 5, 6) /\ f[3] = R3(SPEC, 5, 5, JALR)
      /\ f[4] = RI(ADDI, 1, 63) /\ f[5] = Halt
      /\ f[7] = R3(ADD, 1, 1, 1) /\ f[8] = R3(SPEC, 0, 5, JALR)
  BY DEF Call
<1>t. /\ TypeOK /\ Loaded /\ reg[0] = 0 /\ T \in {0, 1}
      /\ reg \in [Reg -> Word] /\ before \in [Reg -> Word]
      /\ 0 \in Reg /\ 1 \in Reg /\ 2 \in Reg /\ 3 \in Reg /\ 4 \in Reg /\ 5 \in Reg
      /\ 6 \in Reg /\ 7 \in Reg
  BY Values
<1>. HIDE DEF f
<1>v. before[1] + before[1] = 2 * before[1]
  <2>1. before[1] \in Nat
    BY <1>t, WordRange
  <2>. QED BY <2>1
<1>w. (((2 * before[1]) % Space) + 63) % Space = (2 * before[1] + 63) % Space
  <2>1. before[1] \in Nat
    BY <1>t, WordRange
  <2>. QED BY <2>1 DEF Space
<1>1. CASE pc = 0
  <2>1. Fetches(RI(LUI, 5, 0))
    BY <1>0, <1>1, <1>t, Fetched DEF f
  <2>2. GoesOn /\ Writes(5, 0 * 64)
    BY <1>t, <2>1, RunsLui
  <2>3. reg = before
    BY <1>1 DEF CallInv, Untouched
  <2>4. reg'[5] = 0 /\ reg'[1] = before[1]
    BY <1>t, <2>2, <2>3 DEF Writes
  <2>5. pc' = 1
    BY <1>1, <2>2, Following DEF GoesOn
  <2>. QED BY <2>2, <2>4, <2>5 DEF CallInv, GoesOn, Keeps, Untouched
<1>2. CASE pc = 1
  <2>1. Fetches(RI(ADDI, 5, 6))
    BY <1>0, <1>2, <1>t, Fetched DEF f
  <2>2. GoesOn /\ Writes(5, (reg[5] + 6) % Space)
    BY <1>t, <2>1, RunsAddi
  <2>3. reg[5] = 0 /\ reg[1] = before[1]
    BY <1>2 DEF CallInv, Untouched
  <2>4. reg'[5] = 6 /\ reg'[1] = before[1]
    BY <1>t, <2>2, <2>3 DEF Writes, Space
  <2>5. pc' = 2
    BY <1>2, <2>2, Following DEF GoesOn
  <2>. QED BY <2>2, <2>4, <2>5 DEF CallInv, GoesOn, Keeps, Untouched
<1>3. CASE pc = 2
  <2>1. Fetches(R3(SPEC, 5, 5, JALR))
    BY <1>0, <1>3, <1>t, Fetched DEF f
  <2>2. Keeps /\ Writes(5, NextPc) /\ pc' = reg[5] /\ outcome' \in {"running", "maxcycle"}
    BY <1>t, <2>1, RunsJalr DEF Keeps
  <2>3. reg[5] = 6 /\ reg[1] = before[1]
    BY <1>3 DEF CallInv, Untouched
  <2>4. reg'[5] = 3 /\ reg'[1] = before[1]
    BY <1>t, <2>2, <2>3, <1>3, Following DEF Writes
  <2>5. pc' = 6
    BY <2>2, <2>3
  <2>. QED BY <2>2, <2>4, <2>5 DEF CallInv, Keeps, Untouched
<1>4. CASE pc = 6
  <2>1. Fetches(R3(ADD, 1, 1, 1))
    BY <1>0, <1>4, <1>t, Fetched DEF f
  <2>2. GoesOn /\ Writes(1, (reg[1] + reg[1]) % Space)
    BY <1>t, <2>1, RunsAdd
  <2>3. reg[5] = 3 /\ reg[1] = before[1]
    BY <1>4 DEF CallInv, Untouched
  <2>4. reg'[5] = 3 /\ reg'[1] = (2 * before[1]) % Space
    BY <1>t, <2>2, <2>3, <1>v DEF Writes
  <2>5. pc' = 7
    BY <1>4, <2>2, Following DEF GoesOn
  <2>. QED BY <2>2, <2>4, <2>5 DEF CallInv, GoesOn, Keeps, Untouched
<1>5. CASE pc = 7
  <2>1. Fetches(R3(SPEC, 0, 5, JALR))
    BY <1>0, <1>5, <1>t, Fetched DEF f
  <2>2. Keeps /\ reg' = reg /\ pc' = reg[5] /\ outcome' \in {"running", "maxcycle"}
    BY <1>t, <2>1, RunsJalr DEF Keeps
  <2>3. reg[5] = 3 /\ reg[1] = (2 * before[1]) % Space
    BY <1>5 DEF CallInv, Untouched
  <2>4. reg'[1] = (2 * before[1]) % Space
    BY <1>t, <2>2, <2>3
  <2>5. pc' = 3
    BY <2>2, <2>3
  <2>. QED BY <2>2, <2>4, <2>5 DEF CallInv, Keeps, Untouched
<1>6. CASE pc = 3
  <2>1. Fetches(RI(ADDI, 1, 63))
    BY <1>0, <1>6, <1>t, Fetched DEF f
  <2>2. GoesOn /\ Writes(1, (reg[1] + 63) % Space)
    BY <1>t, <2>1, RunsAddi
  <2>3. reg[1] = (2 * before[1]) % Space
    BY <1>6 DEF CallInv, Untouched
  <2>4. reg'[1] = (2 * before[1] + 63) % Space
    BY <1>t, <2>2, <2>3, <1>w DEF Writes
  <2>5. pc' = 4
    BY <1>6, <2>2, Following DEF GoesOn
  <2>. QED BY <2>2, <2>4, <2>5 DEF CallInv, GoesOn, Keeps, Untouched
<1>7. CASE pc = 4
  <2>1. Fetches(Halt)
    BY <1>0, <1>7, <1>t, Fetched DEF f
  <2>2. reg' = reg /\ T' = T /\ Keeps /\ outcome' # "running"
    BY <1>t, <2>1, RunsHalt DEF Keeps
  <2>3. reg[1] = (2 * before[1] + 63) % Space
    BY <1>7 DEF CallInv, Untouched
  <2>. QED BY <2>2, <2>3 DEF CallInv, Keeps
<1>. QED BY <1>1, <1>2, <1>3, <1>4, <1>5, <1>6, <1>7 DEF CallInv

LEMMA OrStep ==
  ASSUME Ready, OrInv, Next, before' = before, args.file \in {Or, Xor}, outcome = "running"
  PROVE  OrInv' /\ Keeps
<1>. DEFINE f == args.file
<1>0. /\ Len(f) \in Nat /\ Len(f) > 3
      /\ f[1] = R3(AND, 4, 2, 3) /\ f[2] = R3(ADD, 1, 2, 3) /\ f[3] = R3(SUB, 1, 1, 4)
      /\ f = Or => f[4] = Halt
      /\ f # Or => f = Xor /\ Len(f) = 5 /\ f[4] = R3(SUB, 1, 1, 4) /\ f[5] = Halt
      /\ Or # Xor
  BY DEF Or, Xor
<1>t. /\ TypeOK /\ Loaded /\ reg[0] = 0 /\ T \in {0, 1}
      /\ reg \in [Reg -> Word] /\ before \in [Reg -> Word]
      /\ 0 \in Reg /\ 1 \in Reg /\ 2 \in Reg /\ 3 \in Reg /\ 4 \in Reg /\ 5 \in Reg
      /\ 6 \in Reg /\ 7 \in Reg
  BY Values
<1>. HIDE DEF f
<1>b. UNCHANGED <<Both, Union, Unequal>>
  BY DEF Both, Union, Unequal
<1>1. CASE pc = 0
  <2>1. Fetches(R3(AND, 4, 2, 3))
    BY <1>0, <1>1, <1>t, Fetched DEF f
  <2>2. GoesOn /\ Writes(4, And(reg[2], reg[3]))
    BY <1>t, <2>1, RunsAnd
  <2>3. reg = before
    BY <1>1 DEF OrInv, Untouched
  <2>4. reg'[4] = Both /\ reg'[2] = before[2] /\ reg'[3] = before[3]
    BY <1>t, <2>2, <2>3 DEF Writes, Both
  <2>5. pc' = 1
    BY <1>1, <2>2, Following DEF GoesOn
  <2>. QED BY <1>b, <2>2, <2>4, <2>5 DEF OrInv, GoesOn, Keeps, Untouched
<1>2. CASE pc = 1
  <2>1. Fetches(R3(ADD, 1, 2, 3))
    BY <1>0, <1>2, <1>t, Fetched DEF f
  <2>2. GoesOn /\ Writes(1, (reg[2] + reg[3]) % Space)
    BY <1>t, <2>1, RunsAdd
  <2>3. reg[4] = Both /\ reg[2] = before[2] /\ reg[3] = before[3]
    BY <1>2 DEF OrInv, Untouched
  <2>4. reg'[4] = Both /\ reg'[1] = (before[2] + before[3]) % Space
    BY <1>t, <2>2, <2>3 DEF Writes
  <2>5. pc' = 2
    BY <1>2, <2>2, Following DEF GoesOn
  <2>. QED BY <1>b, <2>2, <2>4, <2>5 DEF OrInv, GoesOn, Keeps, Untouched
<1>3. CASE pc = 2
  <2>1. Fetches(R3(SUB, 1, 1, 4))
    BY <1>0, <1>3, <1>t, Fetched DEF f
  <2>2. GoesOn /\ Writes(1, (reg[1] - reg[4]) % Space)
    BY <1>t, <2>1, RunsSub
  <2>3. reg[4] = Both /\ reg[1] = (before[2] + before[3]) % Space
    BY <1>3 DEF OrInv, Untouched
  <2>4. reg'[4] = Both /\ reg'[1] = Union
    BY <1>t, <2>2, <2>3 DEF Writes, Union
  <2>5. pc' = 3
    BY <1>3, <2>2, Following DEF GoesOn
  <2>. QED BY <1>b, <2>2, <2>4, <2>5 DEF OrInv, GoesOn, Keeps, Untouched
<1>4. CASE pc = 3 /\ f = Or
  <2>1. Fetches(Halt)
    BY <1>0, <1>4, <1>t, Fetched DEF f
  <2>2. reg' = reg /\ Keeps /\ outcome' # "running"
    BY <2>1, RunsHalt DEF Keeps
  <2>3. reg[1] = Union
    BY <1>4 DEF OrInv
  <2>. QED BY <1>4, <1>b, <2>2, <2>3 DEF OrInv, Keeps, f
<1>5. CASE pc = 3 /\ f # Or
  <2>1. Fetches(R3(SUB, 1, 1, 4))
    BY <1>0, <1>5, <1>t, Fetched DEF f
  <2>2. GoesOn /\ Writes(1, (reg[1] - reg[4]) % Space)
    BY <1>t, <2>1, RunsSub
  <2>3. reg[4] = Both /\ reg[1] = Union
    BY <1>5 DEF OrInv
  <2>4. reg'[1] = Unequal
    BY <2>2, <2>3 DEF Writes, Unequal
  <2>5. pc' = 4
    BY <1>5, <2>2, Following DEF GoesOn
  <2>. QED BY <1>0, <1>5, <1>b, <2>2, <2>4, <2>5 DEF OrInv, GoesOn, Keeps, f
<1>6. CASE pc = 4
  <2>0. f # Or /\ reg[1] = Unequal
    BY <1>0, <1>6 DEF OrInv, f
  <2>1. Fetches(Halt)
    BY <1>0, <1>6, <1>t, <2>0, Fetched DEF f
  <2>2. reg' = reg /\ Keeps /\ outcome' # "running"
    BY <2>1, RunsHalt DEF Keeps
  <2>. QED BY <1>6, <1>b, <2>0, <2>2 DEF OrInv, Keeps, f
<1>. QED BY <1>1, <1>2, <1>3, <1>4, <1>5, <1>6 DEF OrInv

LEMMA IdiomFile ==
  ASSUME NEW f \in Idiom
  PROVE  Len(f) \in Nat /\ Len(f) <= 4096
<1>1. CASE f = CompareBack
  BY <1>1, CompareCode
<1>2. CASE f = Or
  BY <1>2 DEF Or
<1>3. CASE f = Xor
  BY <1>3 DEF Xor
<1>4. CASE f = MultiAdd
  BY <1>4 DEF MultiAdd
<1>5. CASE f = ShiftLeft
  BY <1>5 DEF ShiftLeft
<1>6. CASE f = ShiftRight
  BY <1>6 DEF ShiftRight
<1>7. CASE f = ShiftSigned
  BY <1>7 DEF ShiftSigned
<1>8. CASE f = Call
  BY <1>8 DEF Call
<1>. QED BY <1>1, <1>2, <1>3, <1>4, <1>5, <1>6, <1>7, <1>8 DEF Idiom

\* The loader puts the whole idiom where the CPU fetches it.
LEMMA LoadsIdiom ==
  ASSUME Placed, Ready, Load
  PROVE  Loaded'
<1>. DEFINE f == args.file
<1>1. f \in Files /\ f \in Idiom /\ args' = args /\ Len(f) \in Nat /\ Len(f) <= 4096
  BY IdiomFile DEF Placed, Ready, TypeOK, Load
<1>. SUFFICES ASSUME NEW a \in 0..(Len(f) - 1)
              PROVE  ~Conflict(a) /\ Read(a)' = f[a + 1]
  BY <1>1 DEF Loaded, Conflict, Drivers, Covers
<1>2. PICK k \in 1..Len(Banks) : Drivers(a) = {k} /\ Banks[k].type # "io"
  <2>1. f \in Files /\ a \in 0..(Len(f) - 1)
    BY <1>1
  <2>. HIDE DEF f
  <2>. QED BY <2>1 DEF Placed
<1>. DEFINE o == a - Banks[k].base
<1>3. o \in Cells(k) /\ Banks[k].base + o = a
  <2>1. Banks[k] \in Bank
    BY BankAssumption
  <2>2. Banks[k].base \in Nat /\ Banks[k].size \in Nat
    BY <2>1, WordNat DEF Bank
  <2>3. Covers(k, a)
    BY <1>2 DEF Drivers
  <2>4. a \in Nat
    BY <1>1
  <2>. QED BY <1>2, <2>2, <2>3, <2>4 DEF Cells, Covers
<1>4. k \in Home(a) /\ Loads(f, a)
  BY <1>1, <1>2 DEF Home, Loads
<1>5. Last(f, a) = f[a + 1]
  <2>. DEFINE n == Len(f) - 1 - a
  <2>0. n \in Nat /\ n < 4096
    BY <1>1
  <2>. HIDE DEF n
  <2>1. n \div Space = 0
    BY <2>0 DEF Space
  <2>2. a + 1 + Space * 0 = a + 1
    BY <1>1 DEF Space
  <2>. QED BY <2>1, <2>2 DEF Last, n
<1>. HIDE DEF o
<1>6. data'[k][o] = Last(f, a)
  <2>1. data' = [j \in 1..Len(Banks) |->
                  [p \in Cells(j) |->
                     LET b == Banks[j].base + p
                     IN  IF j \in Home(b) /\ Loads(f, b) THEN Last(f, b) ELSE data[j][p]]]
    BY DEF Load
  <2>. HIDE DEF f
  <2>. QED BY <1>3, <1>4, <2>1
<1>7. Read(a)' = data'[k][o]
  <2>1. Drivers(a)' = {k} /\ (CHOOSE j \in Drivers(a)' : TRUE) = k
    BY <1>2 DEF Drivers, Covers
  <2>. QED BY <1>2, <2>1 DEF Read, o, Drivers, Covers
<1>8. ~Conflict(a)
  BY <1>2 DEF Conflict
<1>. QED BY <1>5, <1>6, <1>7, <1>8

LEMMA KeepsIdiom ==
  ASSUME Loaded, outcome # "loading", Keeps
  PROVE  Loaded'
<1>1. \A a : Read(a)' = Read(a) /\ Conflict(a)' = Conflict(a)
  BY DEF Keeps, Read, Conflict, Drivers, Covers
<1>. QED BY <1>1 DEF Loaded, Keeps

IdiomInv == /\ Ready
            /\ AddInv /\ LeftInv /\ RightInv /\ SignedInv
            /\ CompareInv /\ CallInv /\ OrInv

LEMMA IdiomStart == IInit => IdiomInv
<1>. SUFFICES ASSUME IInit PROVE IdiomInv
  OBVIOUS
<1>1. TypeOK /\ outcome = "loading" /\ before = reg
  BY InitType DEF IInit, Init
<1>. QED BY <1>1 DEF IdiomInv, Ready, Loaded, TypeOK, AddInv, LeftInv, RightInv, SignedInv,
                     CompareInv, CallInv, OrInv

LEMMA IdiomStep ==
  ASSUME Placed, IdiomInv, [INext]_ivars
  PROVE  IdiomInv'
<1>1. CASE UNCHANGED ivars
  <2>1. UNCHANGED <<args, outcome, reg, T, pc, data, retired, cycles, before>>
    BY <1>1 DEF ivars, vars
  <2>2. TypeOK' /\ \A a : Read(a)' = Read(a) /\ Conflict(a)' = Conflict(a)
    BY <2>1 DEF IdiomInv, Ready, TypeOK, Read, Conflict, Drivers, Covers
  <2>3. Ready'
    BY <2>1, <2>2 DEF IdiomInv, Ready, Loaded
  <2>4. AddInv' /\ LeftInv' /\ RightInv' /\ SignedInv'
    BY <2>1 DEF IdiomInv, AddInv, LeftInv, RightInv, SignedInv, SumNow, Long, Untouched,
                LeftOne, LeftTwo, LeftAll, RightOne, RightTwo, RightAll
  <2>5. CompareInv' /\ CallInv' /\ OrInv'
    BY <2>1 DEF IdiomInv, CompareInv, CallInv, OrInv, Untouched, Both, Union, Unequal
  <2>. QED BY <2>3, <2>4, <2>5 DEF IdiomInv
<1>2. CASE INext /\ Load
  <2>1. /\ outcome = "loading" /\ outcome' = "running" /\ pc' = 0
        /\ reg' = reg /\ reg = before /\ before' = before /\ args' = args
    <3>1. args.start = 0
      BY DEF IdiomInv, Ready, TypeOK, Placed
    <3>. QED BY <1>2, <3>1 DEF Load, INext, IdiomInv, Ready
  <2>2. TypeOK' /\ Loaded'
    BY <1>2, StepType, LoadsIdiom DEF INext, IdiomInv, Ready
  <2>3. Ready'
    BY <2>1, <2>2 DEF IdiomInv, Ready
  <2>. QED BY <2>1, <2>3 DEF IdiomInv, AddInv, LeftInv, RightInv, SignedInv, CompareInv,
                             CallInv, OrInv
<1>3. CASE INext /\ Step
  <2>1. Next /\ before' = before /\ outcome = "running" /\ Ready
    BY <1>3 DEF INext, Step, IdiomInv, Next, ExecAnd, ExecSub, ExecAdd, ExecAddc, ExecLui, ExecAddi,
                ExecSubi, Branch, Jalr, Ror, Rol, Lwr, Swr, HaltStep, Unknown, FetchConflict,
                LwrConflict, Special, Executes
  <2>2. args.file \in Idiom
    BY <2>1 DEF Ready, TypeOK, Placed
  <2>3. /\ args.file = MultiAdd => AddInv' /\ Keeps
        /\ args.file = ShiftLeft => LeftInv' /\ Keeps
        /\ args.file = ShiftRight => RightInv' /\ Keeps
        /\ args.file = ShiftSigned => SignedInv' /\ Keeps
        /\ args.file = CompareBack => CompareInv' /\ Keeps
        /\ args.file = Call => CallInv' /\ Keeps
        /\ args.file \in {Or, Xor} => OrInv' /\ Keeps
    BY <2>1, AddStep, LeftStep, RightStep, SignedStep, CompareStep, CallStep, OrStep
       DEF IdiomInv
  <2>4. Keeps
    BY <2>2, <2>3 DEF Idiom
  <2>5. TypeOK' /\ Loaded' /\ outcome' # "loading"
    <3>1. outcome' # "loading"
      BY <1>3, <2>1
      DEF Step, ExecAnd, ExecSub, ExecAdd, ExecAddc, ExecLui, ExecAddi, ExecSubi, Branch, Jalr,
          Ror, Rol, Lwr, Swr, HaltStep, Unknown, FetchConflict, LwrConflict, Computes, Retire,
          Continue
    <3>. QED BY <2>1, <2>4, <3>1, StepType, KeepsIdiom DEF Ready
  <2>6. Ready'
    BY <2>1, <2>5 DEF Ready
  <2>7. args'.file = args.file
    BY <2>4 DEF Keeps
  <2>. QED BY <2>3, <2>6, <2>7 DEF IdiomInv, AddInv, LeftInv, RightInv, SignedInv, CompareInv,
                                   CallInv, OrInv
<1>. QED BY <1>1, <1>2, <1>3 DEF INext, Next
Halves == {1, 2, 4, 8, 16, 32, 64, 128, 256, 512, 1024}

LEMMA Powers ==
  /\ 2^0 = 1 /\ 2^1 = 2 /\ 2^2 = 4 /\ 2^3 = 8 /\ 2^4 = 16
  /\ 2^5 = 32 /\ 2^6 = 64 /\ 2^7 = 128 /\ 2^8 = 256 /\ 2^9 = 512
  /\ 2^10 = 1024 /\ 2^11 = 2048
OBVIOUS

LEMMA PowerOf ==
  ASSUME NEW k \in 1..11
  PROVE  \E p \in Halves :
           2^k = 2 * p /\ 2^(k - 1) = p
<1>1. CASE k = 1
  <2>1. k - 1 = 0
    BY <1>1
  <2>2. 2^k = 2 /\ 2^(k - 1) = 1
    BY <1>1, <2>1, Powers
  <2>. QED BY <2>2 DEF Halves
<1>2. CASE k = 2
  <2>1. k - 1 = 1
    BY <1>2
  <2>2. 2^k = 4 /\ 2^(k - 1) = 2
    BY <1>2, <2>1, Powers
  <2>. QED BY <2>2 DEF Halves
<1>3. CASE k = 3
  <2>1. k - 1 = 2
    BY <1>3
  <2>2. 2^k = 8 /\ 2^(k - 1) = 4
    BY <1>3, <2>1, Powers
  <2>. QED BY <2>2 DEF Halves
<1>4. CASE k = 4
  <2>1. k - 1 = 3
    BY <1>4
  <2>2. 2^k = 16 /\ 2^(k - 1) = 8
    BY <1>4, <2>1, Powers
  <2>. QED BY <2>2 DEF Halves
<1>5. CASE k = 5
  <2>1. k - 1 = 4
    BY <1>5
  <2>2. 2^k = 32 /\ 2^(k - 1) = 16
    BY <1>5, <2>1, Powers
  <2>. QED BY <2>2 DEF Halves
<1>6. CASE k = 6
  <2>1. k - 1 = 5
    BY <1>6
  <2>2. 2^k = 64 /\ 2^(k - 1) = 32
    BY <1>6, <2>1, Powers
  <2>. QED BY <2>2 DEF Halves
<1>7. CASE k = 7
  <2>1. k - 1 = 6
    BY <1>7
  <2>2. 2^k = 128 /\ 2^(k - 1) = 64
    BY <1>7, <2>1, Powers
  <2>. QED BY <2>2 DEF Halves
<1>8. CASE k = 8
  <2>1. k - 1 = 7
    BY <1>8
  <2>2. 2^k = 256 /\ 2^(k - 1) = 128
    BY <1>8, <2>1, Powers
  <2>. QED BY <2>2 DEF Halves
<1>9. CASE k = 9
  <2>1. k - 1 = 8
    BY <1>9
  <2>2. 2^k = 512 /\ 2^(k - 1) = 256
    BY <1>9, <2>1, Powers
  <2>. QED BY <2>2 DEF Halves
<1>10. CASE k = 10
  <2>1. k - 1 = 9
    BY <1>10
  <2>2. 2^k = 1024 /\ 2^(k - 1) = 512
    BY <1>10, <2>1, Powers
  <2>. QED BY <2>2 DEF Halves
<1>11. CASE k = 11
  <2>1. k - 1 = 10
    BY <1>11
  <2>2. 2^k = 2048 /\ 2^(k - 1) = 1024
    BY <1>11, <2>1, Powers
  <2>. QED BY <2>2 DEF Halves
<1>. QED BY <1>1, <1>2, <1>3, <1>4, <1>5, <1>6, <1>7, <1>8, <1>9, <1>10, <1>11 DEF Halves

LEMMA HalfBit ==
  ASSUME NEW v \in Nat, NEW p \in Halves
  PROVE  Bit(v, 2 * p) = Bit(v \div 2, p)
<1>1. CASE p = 1
  BY <1>1 DEF Bit
<1>2. CASE p = 2
  BY <1>2 DEF Bit
<1>3. CASE p = 4
  BY <1>3 DEF Bit
<1>4. CASE p = 8
  BY <1>4 DEF Bit
<1>5. CASE p = 16
  BY <1>5 DEF Bit
<1>6. CASE p = 32
  BY <1>6 DEF Bit
<1>7. CASE p = 64
  BY <1>7 DEF Bit
<1>8. CASE p = 128
  BY <1>8 DEF Bit
<1>9. CASE p = 256
  BY <1>9 DEF Bit
<1>10. CASE p = 512
  BY <1>10 DEF Bit
<1>11. CASE p = 1024
  BY <1>11 DEF Bit
<1>. QED BY <1>1, <1>2, <1>3, <1>4, <1>5, <1>6, <1>7, <1>8, <1>9, <1>10, <1>11 DEF Halves

\* The bits below the highest do not see it.
LEMMA TopBit ==
  ASSUME NEW v \in Nat, v < 4096, NEW u \in Nat, u = v \/ u = v - 2048 \/ u = v + 2048,
         NEW p \in Halves
  PROVE  Bit(u, p) = Bit(v, p)
<1>1. CASE p = 1
  BY <1>1 DEF Bit
<1>2. CASE p = 2
  BY <1>2 DEF Bit
<1>3. CASE p = 4
  BY <1>3 DEF Bit
<1>4. CASE p = 8
  BY <1>4 DEF Bit
<1>5. CASE p = 16
  BY <1>5 DEF Bit
<1>6. CASE p = 32
  BY <1>6 DEF Bit
<1>7. CASE p = 64
  BY <1>7 DEF Bit
<1>8. CASE p = 128
  BY <1>8 DEF Bit
<1>9. CASE p = 256
  BY <1>9 DEF Bit
<1>10. CASE p = 512
  BY <1>10 DEF Bit
<1>11. CASE p = 1024
  BY <1>11 DEF Bit
<1>. QED BY <1>1, <1>2, <1>3, <1>4, <1>5, <1>6, <1>7, <1>8, <1>9, <1>10, <1>11 DEF Halves

\* Rotating moves each bit by one, the flag in at one end.
LEMMA RotlBits ==
  ASSUME NEW v \in Word, NEW t \in {0, 1}
  PROVE  /\ Bit(Rotl(v, t), 2^0) = t
         /\ \A k \in 1..11 : Bit(Rotl(v, t), 2^k) = Bit(v, 2^(k - 1))
<1>. DEFINE w == Rotl(v, t)
            u == w \div 2
<1>1. v \in Nat /\ v < 4096
  BY WordRange
<1>2. w \in Nat /\ w < 4096 /\ (w = 2 * v + t \/ w = 2 * v + t - 4096)
  BY <1>1 DEF Rotl, Space
<1>. HIDE DEF w
<1>3. Bit(w, 1) = t
  BY <1>1, <1>2 DEF Bit
<1>4. u \in Nat /\ (u = v \/ u = v - 2048)
  BY <1>1, <1>2
<1>5. ASSUME NEW p \in Halves
      PROVE  Bit(w, 2 * p) = Bit(u, p)
  BY <1>2, HalfBit
<1>. HIDE DEF u
<1>6. ASSUME NEW p \in Halves
      PROVE  Bit(u, p) = Bit(v, p)
  BY <1>1, <1>4, TopBit
<1>7. \A p \in Halves : Bit(w, 2 * p) = Bit(v, p)
  BY <1>5, <1>6
<1>8. ASSUME NEW k \in 1..11 PROVE Bit(w, 2^k) = Bit(v, 2^(k - 1))
  <2>1. PICK p \in Halves : 2^k = 2 * p /\ 2^(k - 1) = p
    BY PowerOf
  <2>. QED BY <1>7, <2>1
<1>9. Bit(w, 2^0) = t
  BY <1>3, Powers
<1>. QED BY <1>8, <1>9 DEF w

LEMMA RotrBits ==
  ASSUME NEW v \in Word, NEW t \in {0, 1}
  PROVE  /\ Bit(Rotr(v, t), 2^11) = t
         /\ \A k \in 1..11 : Bit(Rotr(v, t), 2^(k - 1)) = Bit(v, 2^k)
<1>. DEFINE w == Rotr(v, t)
            u == v \div 2
<1>1. v \in Nat /\ v < 4096 /\ u \in Nat
  BY WordRange
<1>2. w \in Nat /\ w = u + t * 2048 /\ u < 2048
  BY <1>1 DEF Rotr
<1>. HIDE DEF w
<1>3. Bit(w, 2048) = t
  BY <1>1, <1>2 DEF Bit
<1>5. ASSUME NEW p \in Halves
      PROVE  Bit(v, 2 * p) = Bit(u, p)
  BY <1>1, HalfBit
<1>. HIDE DEF u
<1>6. ASSUME NEW p \in Halves
      PROVE  Bit(w, p) = Bit(u, p)
  BY <1>1, <1>2, TopBit
<1>7. \A p \in Halves : Bit(w, p) = Bit(v, 2 * p)
  BY <1>5, <1>6
<1>8. ASSUME NEW k \in 1..11 PROVE Bit(w, 2^(k - 1)) = Bit(v, 2^k)
  <2>1. PICK p \in Halves : 2^k = 2 * p /\ 2^(k - 1) = p
    BY PowerOf
  <2>. QED BY <1>7, <2>1
<1>9. Bit(w, 2^11) = t
  BY <1>3, Powers
<1>. QED BY <1>8, <1>9 DEF w
Moved(v, w) == \A k \in 1..11 : Bit(v, 2^k) = Bit(w, 2^(k - 1))

LEMMA LeftShifts ==
  ASSUME Ready, LeftAll
  PROVE  /\ \A n \in 1..35 : BitAt(reg, n) = BitAt(before, n - 1)
         /\ BitAt(reg, 0) = 0 /\ T = BitAt(before, 35)
<1>1. before[1] \in Word /\ before[2] \in Word /\ before[3] \in Word
  BY Values
<1>2. Bit(before[1], 2048) \in {0, 1} /\ Bit(before[2], 2048) \in {0, 1} /\ 0 \in {0, 1}
  BY <1>1, BitType, WordNat
<1>3. /\ Bit(reg[1], 2^0) = 0
      /\ Bit(reg[2], 2^0) = Bit(before[1], 2048) /\ Bit(reg[3], 2^0) = Bit(before[2], 2048)
      /\ Moved(reg[1], before[1]) /\ Moved(reg[2], before[2]) /\ Moved(reg[3], before[3])
  <2>1. ASSUME NEW v \in Word, NEW t \in {0, 1}
        PROVE  Bit(Rotl(v, t), 2^0) = t /\ Moved(Rotl(v, t), v)
    BY RotlBits DEF Moved
  <2>. QED BY <1>1, <1>2, <2>1 DEF LeftAll
<1>s. ASSUME NEW k \in 1..11
      PROVE  /\ Bit(reg[1], 2^k) = Bit(before[1], 2^(k - 1))
             /\ Bit(reg[2], 2^k) = Bit(before[2], 2^(k - 1))
             /\ Bit(reg[3], 2^k) = Bit(before[3], 2^(k - 1))
  <2>1. ASSUME NEW v, NEW w, Moved(v, w) PROVE Bit(v, 2^k) = Bit(w, 2^(k - 1))
    BY <2>1 DEF Moved
  <2>2. Moved(reg[1], before[1]) /\ Moved(reg[2], before[2]) /\ Moved(reg[3], before[3])
    BY <1>3
  <2>. QED BY <2>1, <2>2
<1>4. 2^11 = 2048
  BY Powers
<1>5. ASSUME NEW n \in 1..35 PROVE BitAt(reg, n) = BitAt(before, n - 1)
  <2>. DEFINE q == n \div 12
              k == n % 12
  <2>1. q \in {0, 1, 2} /\ k \in 0..11 /\ n = 12 * q + k
    OBVIOUS
  <2>2. CASE k \in 1..11
    <3>1. (n - 1) \div 12 = q /\ (n - 1) % 12 = k - 1
      BY <2>1, <2>2
    <3>. HIDE DEF q, k
    <3>2. BitAt(reg, n) = Bit(reg[1 + q], 2^k) /\ BitAt(before, n - 1) = Bit(before[1 + q], 2^(k - 1))
      BY <3>1 DEF BitAt, q, k
    <3>3. (q = 0 /\ 1 + q = 1) \/ (q = 1 /\ 1 + q = 2) \/ (q = 2 /\ 1 + q = 3)
      BY <2>1
    <3>4. /\ Bit(reg[1], 2^k) = Bit(before[1], 2^(k - 1))
          /\ Bit(reg[2], 2^k) = Bit(before[2], 2^(k - 1))
          /\ Bit(reg[3], 2^k) = Bit(before[3], 2^(k - 1))
      BY <1>s, <2>2
    <3>. QED BY <3>2, <3>3, <3>4
  <2>3. CASE k = 0
    <3>1. (n - 1) \div 12 = q - 1 /\ (n - 1) % 12 = 11 /\ q \in {1, 2}
      BY <2>1, <2>3
    <3>. HIDE DEF q, k
    <3>2. BitAt(reg, n) = Bit(reg[1 + q], 2^0)
      BY <2>3 DEF BitAt, q, k
    <3>3. BitAt(before, n - 1) = Bit(before[q], 2048)
      <4>1. 1 + (q - 1) = q
        BY <3>1
      <4>2. BitAt(before, n - 1) = Bit(before[1 + (q - 1)], 2^11)
        BY <3>1 DEF BitAt
      <4>. QED BY <1>4, <4>1, <4>2
    <3>. QED BY <1>3, <3>1, <3>2, <3>3
  <2>. QED BY <2>1, <2>2, <2>3
<1>6. BitAt(reg, 0) = 0
  <2>1. 0 \div 12 = 0 /\ 0 % 12 = 0
    OBVIOUS
  <2>. QED BY <1>3, <2>1 DEF BitAt
<1>7. T = BitAt(before, 35)
  <2>1. 35 \div 12 = 2 /\ 35 % 12 = 11
    OBVIOUS
  <2>. QED BY <1>4, <2>1 DEF BitAt, LeftAll
<1>. QED BY <1>5, <1>6, <1>7

LEMMA RightShifts ==
  ASSUME Ready, NEW t \in {0, 1}, RightAll(t)
  PROVE  /\ \A n \in 0..34 : BitAt(reg, n) = BitAt(before, n + 1)
         /\ BitAt(reg, 35) = t /\ T = BitAt(before, 0)
<1>1. before[1] \in Word /\ before[2] \in Word /\ before[3] \in Word
  BY Values
<1>2. /\ before[1] % 2 = Bit(before[1], 1)
      /\ before[2] % 2 = Bit(before[2], 1) /\ before[2] % 2 \in {0, 1}
      /\ before[3] % 2 = Bit(before[3], 1) /\ before[3] % 2 \in {0, 1}
  <2>1. ASSUME NEW v \in Word PROVE v % 2 = Bit(v, 1) /\ v % 2 \in {0, 1}
    <3>1. v \in Nat
      BY WordNat
    <3>. QED BY <3>1 DEF Bit
  <2>. QED BY <1>1, <2>1
<1>3. /\ Bit(reg[3], 2^11) = t
      /\ Bit(reg[2], 2^11) = Bit(before[3], 1) /\ Bit(reg[1], 2^11) = Bit(before[2], 1)
      /\ \A k \in 1..11 : /\ Bit(reg[1], 2^(k - 1)) = Bit(before[1], 2^k)
                          /\ Bit(reg[2], 2^(k - 1)) = Bit(before[2], 2^k)
                          /\ Bit(reg[3], 2^(k - 1)) = Bit(before[3], 2^k)
  BY <1>1, <1>2, RotrBits DEF RightAll
<1>4. 2^0 = 1
  BY Powers
<1>5. ASSUME NEW n \in 0..34 PROVE BitAt(reg, n) = BitAt(before, n + 1)
  <2>. DEFINE q == (n + 1) \div 12
              k == (n + 1) % 12
  <2>1. q \in {0, 1, 2} /\ k \in 0..11 /\ n + 1 = 12 * q + k
    OBVIOUS
  <2>2. CASE k \in 1..11
    <3>1. n \div 12 = q /\ n % 12 = k - 1
      BY <2>1, <2>2
    <3>. HIDE DEF q, k
    <3>2. BitAt(reg, n) = Bit(reg[1 + q], 2^(k - 1)) /\ BitAt(before, n + 1) = Bit(before[1 + q], 2^k)
      BY <3>1 DEF BitAt, q, k
    <3>3. (q = 0 /\ 1 + q = 1) \/ (q = 1 /\ 1 + q = 2) \/ (q = 2 /\ 1 + q = 3)
      BY <2>1
    <3>. QED BY <1>3, <2>2, <3>2, <3>3
  <2>3. CASE k = 0
    <3>1. n \div 12 = q - 1 /\ n % 12 = 11 /\ q \in {1, 2}
      BY <2>1, <2>3
    <3>. HIDE DEF q, k
    <3>2. BitAt(reg, n) = Bit(reg[q], 2^11) /\ BitAt(before, n + 1) = Bit(before[1 + q], 1)
      <4>1. 1 + (q - 1) = q
        BY <3>1
      <4>. QED BY <1>4, <2>3, <3>1, <4>1 DEF BitAt, q, k
    <3>. QED BY <1>3, <3>1, <3>2
  <2>. QED BY <2>1, <2>2, <2>3
<1>6. BitAt(reg, 35) = t
  <2>1. 35 \div 12 = 2 /\ 35 % 12 = 11
    OBVIOUS
  <2>. QED BY <1>3, <2>1 DEF BitAt
<1>7. T = BitAt(before, 0)
  <2>1. 0 \div 12 = 0 /\ 0 % 12 = 0
    OBVIOUS
  <2>. QED BY <1>2, <1>4, <2>1 DEF BitAt, RightAll
<1>. QED BY <1>5, <1>6, <1>7
\* One bit of a sum less the common bits, and less them once more.
LEMMA OneBit ==
  ASSUME NEW b \in {0, 1}, NEW c \in {0, 1}
  PROVE  /\ b * c \in {0, 1}
         /\ b + c - b * c \in {0, 1} /\ b + c - b * c - b * c \in {0, 1}
         /\ b + c - b * c = IF b = 1 \/ c = 1 THEN 1 ELSE 0
         /\ b + c - b * c - b * c = IF b # c THEN 1 ELSE 0
<1>1. CASE b = 0
  BY <1>1
<1>2. CASE b = 1
  BY <1>2
<1>. QED BY <1>1, <1>2

Places == 0..11
Digits(x) == \A n \in Places : x[n] \in {0, 1}
Num(x) == x[0] + x[1] * 2 + x[2] * 4 + x[3] * 8 + x[4] * 16 + x[5] * 32
          + x[6] * 64 + x[7] * 128 + x[8] * 256 + x[9] * 512 + x[10] * 1024 + x[11] * 2048

LEMMA EachPlace ==
  ASSUME NEW n \in Places
  PROVE  \/ (n = 0 /\ 2^n = 1) \/ (n = 1 /\ 2^n = 2) \/ (n = 2 /\ 2^n = 4) \/ (n = 3 /\ 2^n = 8)
         \/ (n = 4 /\ 2^n = 16) \/ (n = 5 /\ 2^n = 32) \/ (n = 6 /\ 2^n = 64) \/ (n = 7 /\ 2^n = 128)
         \/ (n = 8 /\ 2^n = 256) \/ (n = 9 /\ 2^n = 512) \/ (n = 10 /\ 2^n = 1024) \/ (n = 11 /\ 2^n = 2048)
<1>0. \/ n = 0 \/ n = 1 \/ n = 2 \/ n = 3 \/ n = 4 \/ n = 5 \/ n = 6 \/ n = 7 \/ n = 8
      \/ n = 9 \/ n = 10 \/ n = 11
  BY DEF Places
<1>1. CASE n = 0
  BY <1>1, Powers
<1>2. CASE n = 1
  BY <1>2, Powers
<1>3. CASE n = 2
  BY <1>3, Powers
<1>4. CASE n = 3
  BY <1>4, Powers
<1>5. CASE n = 4
  BY <1>5, Powers
<1>6. CASE n = 5
  BY <1>6, Powers
<1>7. CASE n = 6
  BY <1>7, Powers
<1>8. CASE n = 7
  BY <1>8, Powers
<1>9. CASE n = 8
  BY <1>9, Powers
<1>10. CASE n = 9
  BY <1>10, Powers
<1>11. CASE n = 10
  BY <1>11, Powers
<1>12. CASE n = 11
  BY <1>12, Powers
<1>. QED BY <1>0, <1>1, <1>2, <1>3, <1>4, <1>5, <1>6, <1>7, <1>8, <1>9, <1>10, <1>11, <1>12

\* The digits of a number are its bits, and digits add as numbers do.
LEMMA SumBits ==
  ASSUME NEW x, Digits(x)
  PROVE  /\ Num(x) \in Nat /\ Num(x) < 4096
         /\ \A n \in Places : Bit(Num(x), 2^n) = x[n]
<1>. DEFINE x0 == x[0]
            x1 == x[1]
            x2 == x[2]
            x3 == x[3]
            x4 == x[4]
            x5 == x[5]
            x6 == x[6]
            x7 == x[7]
            x8 == x[8]
            x9 == x[9]
            x10 == x[10]
            x11 == x[11]
            v == Num(x)
<1>1. /\ x0 \in Nat /\ x0 <= 1 /\ x1 \in Nat /\ x1 <= 1 /\ x2 \in Nat /\ x2 <= 1
      /\ x3 \in Nat /\ x3 <= 1 /\ x4 \in Nat /\ x4 <= 1 /\ x5 \in Nat /\ x5 <= 1
      /\ x6 \in Nat /\ x6 <= 1 /\ x7 \in Nat /\ x7 <= 1 /\ x8 \in Nat /\ x8 <= 1
      /\ x9 \in Nat /\ x9 <= 1 /\ x10 \in Nat /\ x10 <= 1 /\ x11 \in Nat /\ x11 <= 1
  BY DEF Digits, Places
<1>2. v = x0 + x1 * 2 + x2 * 4 + x3 * 8 + x4 * 16 + x5 * 32 + x6 * 64
          + x7 * 128 + x8 * 256 + x9 * 512 + x10 * 1024 + x11 * 2048
  BY DEF Num
<1>. SUFFICES ASSUME TRUE
              PROVE  v \in Nat /\ v < 4096 /\ \A n \in Places : Bit(v, 2^n) = x[n]
  OBVIOUS
<1>n. /\ x[0] = x0 /\ x[1] = x1 /\ x[2] = x2 /\ x[3] = x3 /\ x[4] = x4 /\ x[5] = x5
      /\ x[6] = x6 /\ x[7] = x7 /\ x[8] = x8 /\ x[9] = x9 /\ x[10] = x10 /\ x[11] = x11
  OBVIOUS
<1>. HIDE DEF v, x0, x1, x2, x3, x4, x5, x6, x7, x8, x9, x10, x11
<1>3. v \in Nat /\ v < 4096
  BY <1>1, <1>2
<1>4. Bit(v, 1) = x0
  BY <1>1, <1>2 DEF Bit
<1>5. Bit(v, 2) = x1
  BY <1>1, <1>2 DEF Bit
<1>6. Bit(v, 4) = x2
  BY <1>1, <1>2 DEF Bit
<1>7. Bit(v, 8) = x3
  BY <1>1, <1>2 DEF Bit
<1>8. Bit(v, 16) = x4
  BY <1>1, <1>2 DEF Bit
<1>9. Bit(v, 32) = x5
  BY <1>1, <1>2 DEF Bit
<1>10. Bit(v, 64) = x6
  BY <1>1, <1>2 DEF Bit
<1>11. Bit(v, 128) = x7
  BY <1>1, <1>2 DEF Bit
<1>12. Bit(v, 256) = x8
  BY <1>1, <1>2 DEF Bit
<1>13. Bit(v, 512) = x9
  BY <1>1, <1>2 DEF Bit
<1>14. Bit(v, 1024) = x10
  BY <1>1, <1>2 DEF Bit
<1>15. Bit(v, 2048) = x11
  BY <1>1, <1>2 DEF Bit
<1>16. \A n \in Places : Bit(v, 2^n) = x[n]
  BY <1>n, EachPlace, <1>4, <1>5, <1>6, <1>7, <1>8, <1>9, <1>10, <1>11, <1>12, <1>13, <1>14, <1>15
<1>. QED BY <1>3, <1>16

LEMMA NumAdd ==
  ASSUME NEW x, NEW y, NEW z,
         \A n \in Places : x[n] = y[n] + z[n] /\ y[n] \in Int /\ z[n] \in Int
  PROVE  Num(x) = Num(y) + Num(z)
<1>. DEFINE x0 == x[0]
            x1 == x[1]
            x2 == x[2]
            x3 == x[3]
            x4 == x[4]
            x5 == x[5]
            x6 == x[6]
            x7 == x[7]
            x8 == x[8]
            x9 == x[9]
            x10 == x[10]
            x11 == x[11]
            y0 == y[0]
            y1 == y[1]
            y2 == y[2]
            y3 == y[3]
            y4 == y[4]
            y5 == y[5]
            y6 == y[6]
            y7 == y[7]
            y8 == y[8]
            y9 == y[9]
            y10 == y[10]
            y11 == y[11]
            z0 == z[0]
            z1 == z[1]
            z2 == z[2]
            z3 == z[3]
            z4 == z[4]
            z5 == z[5]
            z6 == z[6]
            z7 == z[7]
            z8 == z[8]
            z9 == z[9]
            z10 == z[10]
            z11 == z[11]
<1>1. /\ x0 = y0 + z0 /\ y0 \in Int /\ z0 \in Int /\ x1 = y1 + z1 /\ y1 \in Int /\ z1 \in Int
      /\ x2 = y2 + z2 /\ y2 \in Int /\ z2 \in Int /\ x3 = y3 + z3 /\ y3 \in Int /\ z3 \in Int
      /\ x4 = y4 + z4 /\ y4 \in Int /\ z4 \in Int /\ x5 = y5 + z5 /\ y5 \in Int /\ z5 \in Int
      /\ x6 = y6 + z6 /\ y6 \in Int /\ z6 \in Int /\ x7 = y7 + z7 /\ y7 \in Int /\ z7 \in Int
      /\ x8 = y8 + z8 /\ y8 \in Int /\ z8 \in Int /\ x9 = y9 + z9 /\ y9 \in Int /\ z9 \in Int
      /\ x10 = y10 + z10 /\ y10 \in Int /\ z10 \in Int /\ x11 = y11 + z11 /\ y11 \in Int /\ z11 \in Int
  BY DEF Places
<1>2. Num(x) = x0 + x1 * 2 + x2 * 4 + x3 * 8 + x4 * 16 + x5 * 32 + x6 * 64
          + x7 * 128 + x8 * 256 + x9 * 512 + x10 * 1024 + x11 * 2048
  BY DEF Num
<1>3. Num(y) = y0 + y1 * 2 + y2 * 4 + y3 * 8 + y4 * 16 + y5 * 32 + y6 * 64
          + y7 * 128 + y8 * 256 + y9 * 512 + y10 * 1024 + y11 * 2048
  BY DEF Num
<1>4. Num(z) = z0 + z1 * 2 + z2 * 4 + z3 * 8 + z4 * 16 + z5 * 32 + z6 * 64
          + z7 * 128 + z8 * 256 + z9 * 512 + z10 * 1024 + z11 * 2048
  BY DEF Num
<1>. HIDE DEF x0, x1, x2, x3, x4, x5, x6, x7, x8, x9, x10, x11,
              y0, y1, y2, y3, y4, y5, y6, y7, y8, y9, y10, y11,
              z0, z1, z2, z3, z4, z5, z6, z7, z8, z9, z10, z11
<1>. QED BY <1>1, <1>2, <1>3, <1>4

LEMMA UnionBits ==
  ASSUME NEW b \in Word, NEW c \in Word
  PROVE  LET m == And(b, c)
             u == (((b + c) % Space) - m) % Space
             x == (u - m) % Space
         IN  \A n \in 0..11 :
               /\ Bit(u, 2^n) = IF Bit(b, 2^n) = 1 \/ Bit(c, 2^n) = 1 THEN 1 ELSE 0
               /\ Bit(x, 2^n) = IF Bit(b, 2^n) # Bit(c, 2^n) THEN 1 ELSE 0
<1>. DEFINE m == And(b, c)
            u == (((b + c) % Space) - m) % Space
            x == (u - m) % Space
            B == [n \in Places |-> Bit(b, 2^n)]
            C == [n \in Places |-> Bit(c, 2^n)]
            M == [n \in Places |-> B[n] * C[n]]
            Y == [n \in Places |-> B[n] + C[n] - B[n] * C[n]]
            Z == [n \in Places |-> B[n] + C[n] - B[n] * C[n] - B[n] * C[n]]
<1>0. m = And(b, c) /\ u = (((b + c) % Space) - m) % Space /\ x = (u - m) % Space
  OBVIOUS
<1>. HIDE DEF m, u, x
<1>1. b \in Nat /\ b < 4096 /\ c \in Nat /\ c < 4096
  BY WordRange
<1>2. Digits(B) /\ Digits(C)
  <2>1. ASSUME NEW n \in Places PROVE Bit(b, 2^n) \in {0, 1} /\ Bit(c, 2^n) \in {0, 1}
    <3>1. 2^n \in Nat \ {0}
      BY EachPlace
    <3>. QED BY <1>1, <3>1, BitType
  <2>. QED BY <2>1 DEF Digits
<1>3. b = Num(B) /\ c = Num(C) /\ m = Num(M)
  <2>1. /\ B[0] = Bit(b, 1) /\ B[1] = Bit(b, 2) /\ B[2] = Bit(b, 4) /\ B[3] = Bit(b, 8)
        /\ B[4] = Bit(b, 16) /\ B[5] = Bit(b, 32) /\ B[6] = Bit(b, 64) /\ B[7] = Bit(b, 128)
        /\ B[8] = Bit(b, 256) /\ B[9] = Bit(b, 512) /\ B[10] = Bit(b, 1024) /\ B[11] = Bit(b, 2048)
    BY Powers DEF Places
  <2>2. /\ C[0] = Bit(c, 1) /\ C[1] = Bit(c, 2) /\ C[2] = Bit(c, 4) /\ C[3] = Bit(c, 8)
        /\ C[4] = Bit(c, 16) /\ C[5] = Bit(c, 32) /\ C[6] = Bit(c, 64) /\ C[7] = Bit(c, 128)
        /\ C[8] = Bit(c, 256) /\ C[9] = Bit(c, 512) /\ C[10] = Bit(c, 1024) /\ C[11] = Bit(c, 2048)
    BY Powers DEF Places
  <2>3. /\ M[0] = B[0] * C[0] /\ M[1] = B[1] * C[1] /\ M[2] = B[2] * C[2] /\ M[3] = B[3] * C[3]
        /\ M[4] = B[4] * C[4] /\ M[5] = B[5] * C[5] /\ M[6] = B[6] * C[6] /\ M[7] = B[7] * C[7]
        /\ M[8] = B[8] * C[8] /\ M[9] = B[9] * C[9] /\ M[10] = B[10] * C[10] /\ M[11] = B[11] * C[11]
    BY DEF Places
  <2>. HIDE DEF B, C, M
  <2>4. b = Num(B)
    BY <2>1, BitSum DEF Num
  <2>5. c = Num(C)
    BY <2>2, BitSum DEF Num
  <2>6. /\ M[0] \in Int /\ M[1] \in Int /\ M[2] \in Int /\ M[3] \in Int /\ M[4] \in Int /\ M[5] \in Int
        /\ M[6] \in Int /\ M[7] \in Int /\ M[8] \in Int /\ M[9] \in Int /\ M[10] \in Int /\ M[11] \in Int
    BY <1>2, <2>3, OneBit DEF Digits, Places
  <2>7. m = Num(M)
    BY <1>0, <2>1, <2>2, <2>3, <2>6 DEF Num, And
  <2>. QED BY <2>4, <2>5, <2>7
<1>4. ASSUME NEW n \in Places
      PROVE  /\ B[n] \in {0, 1} /\ C[n] \in {0, 1} /\ M[n] \in {0, 1}
             /\ Y[n] = B[n] + C[n] - M[n] /\ Z[n] = Y[n] - M[n]
             /\ Y[n] \in {0, 1} /\ Y[n] = IF B[n] = 1 \/ C[n] = 1 THEN 1 ELSE 0
             /\ Z[n] \in {0, 1} /\ Z[n] = IF B[n] # C[n] THEN 1 ELSE 0
             /\ B[n] = Bit(b, 2^n) /\ C[n] = Bit(c, 2^n)
  <2>1. B[n] \in {0, 1} /\ C[n] \in {0, 1}
    BY <1>2 DEF Digits
  <2>2. B[n] = Bit(b, 2^n) /\ C[n] = Bit(c, 2^n)
    OBVIOUS
  <2>. HIDE DEF B, C
  <2>3. /\ M[n] = B[n] * C[n] /\ Y[n] = B[n] + C[n] - B[n] * C[n]
        /\ Z[n] = B[n] + C[n] - B[n] * C[n] - B[n] * C[n]
    OBVIOUS
  <2>. HIDE DEF M, Y, Z
  <2>. QED BY <2>1, <2>2, <2>3, OneBit
<1>. HIDE DEF B, C, M, Y, Z
<1>5. Digits(M) /\ Digits(Y) /\ Digits(Z)
  BY <1>4 DEF Digits
<1>6. Num(Y) = Num(B) + Num(C) - Num(M) /\ Num(Z) = Num(Y) - Num(M)
  <2>. DEFINE S == [n \in Places |-> B[n] + C[n]]
  <2>1. ASSUME NEW n \in Places
        PROVE  /\ B[n] \in Int /\ C[n] \in Int /\ M[n] \in Int /\ Y[n] \in Int /\ Z[n] \in Int
               /\ S[n] = B[n] + C[n] /\ S[n] = Y[n] + M[n] /\ Y[n] = Z[n] + M[n]
    <3>1. S[n] = B[n] + C[n]
      OBVIOUS
    <3>. HIDE DEF S
    <3>2. /\ B[n] \in Int /\ C[n] \in Int /\ M[n] \in Int /\ Y[n] \in Int /\ Z[n] \in Int
          /\ Y[n] = B[n] + C[n] - M[n] /\ Z[n] = Y[n] - M[n]
      BY <1>4
    <3>. QED BY <3>1, <3>2
  <2>2. Num(S) = Num(B) + Num(C) /\ Num(S) = Num(Y) + Num(M) /\ Num(Y) = Num(Z) + Num(M)
    <3>. HIDE DEF S
    <3>. QED BY <2>1, NumAdd
  <2>3. /\ Num(B) \in Int /\ Num(C) \in Int /\ Num(M) \in Int /\ Num(Y) \in Int /\ Num(Z) \in Int
    BY <1>2, <1>5, SumBits
  <2>. DEFINE nb == Num(B)
              nc == Num(C)
              nm == Num(M)
              ny == Num(Y)
              nz == Num(Z)
              ns == Num(S)
  <2>. SUFFICES ny = nb + nc - nm /\ nz = ny - nm
    OBVIOUS
  <2>4. ns = nb + nc /\ ns = ny + nm /\ ny = nz + nm
    BY <2>2
  <2>5. nb \in Int /\ nc \in Int /\ nm \in Int /\ ny \in Int /\ nz \in Int
    BY <2>3
  <2>. HIDE DEF nb, nc, nm, ny, nz, ns
  <2>. QED BY <2>4, <2>5
<1>7. /\ Num(M) \in Nat /\ Num(Y) \in Nat /\ Num(Y) < 4096 /\ Num(Z) \in Nat /\ Num(Z) < 4096
      /\ \A n \in Places : Bit(Num(Y), 2^n) = Y[n] /\ Bit(Num(Z), 2^n) = Z[n]
  BY <1>5, SumBits
<1>8. u = Num(Y) /\ x = Num(Z)
  <2>1. Num(Y) = b + c - m /\ Num(Z) = Num(Y) - m /\ m \in Nat
    BY <1>3, <1>6, <1>7
  <2>2. (b + c) % 4096 = b + c \/ (b + c) % 4096 = b + c - 4096
    BY <1>1
  <2>3. u = Num(Y)
    <3>. DEFINE y == Num(Y)
                s == (b + c) % 4096
    <3>1. y \in Nat /\ y < 4096 /\ (s - m = y \/ s - m = y - 4096)
      BY <1>1, <1>7, <2>1, <2>2
    <3>2. u = (s - m) % 4096
      BY <1>0 DEF Space
    <3>. HIDE DEF y, s
    <3>3. u = y
      BY <3>1, <3>2
    <3>. QED BY <3>3 DEF y
  <2>4. x = Num(Z)
    <3>1. x = Num(Z) % 4096
      BY <1>0, <2>1, <2>3 DEF Space
    <3>. QED BY <1>7, <3>1
  <2>. QED BY <2>3, <2>4
<1>9. ASSUME NEW n \in Places
      PROVE  /\ Bit(u, 2^n) = IF Bit(b, 2^n) = 1 \/ Bit(c, 2^n) = 1 THEN 1 ELSE 0
             /\ Bit(x, 2^n) = IF Bit(b, 2^n) # Bit(c, 2^n) THEN 1 ELSE 0
  BY <1>4, <1>7, <1>8
<1>. QED BY <1>9 DEF Places, m, u, x

\* Two files are the same only where their first words and lengths are.
LEMMA IdiomsDiffer ==
  ShiftRight # ShiftSigned /\ Or # Xor
<1>1. ShiftRight # ShiftSigned
  BY DEF ShiftRight, ShiftSigned
<1>2. Or # Xor
  BY DEF Or, Xor
<1>. QED BY <1>1, <1>2

LEMMA IdiomsCompute ==
  ASSUME IdiomInv
  PROVE  SequencesCompute
<1>1. Ready /\ before[2] \in Word /\ before[3] \in Word
  BY Values DEF IdiomInv
<1>2. AddCarries
  BY DEF IdiomInv, AddInv, AddCarries, Ran, SumNow
<1>3. ComparesUnsigned
  BY DEF IdiomInv, CompareInv, ComparesUnsigned, Ran
<1>4. CallReturns
  BY DEF IdiomInv, CallInv, CallReturns, Ran
<1>5. ShiftsThroughT
  <2>1. ASSUME Ran(ShiftLeft)
        PROVE  /\ \A n \in 1..35 : BitAt(reg, n) = BitAt(before, n - 1)
               /\ BitAt(reg, 0) = 0 /\ T = BitAt(before, 35)
    <3>1. LeftAll
      BY <2>1 DEF IdiomInv, LeftInv, Ran
    <3>. QED BY <1>1, <3>1, LeftShifts
  <2>2. ASSUME Ran(ShiftRight)
        PROVE  /\ \A n \in 0..34 : BitAt(reg, n) = BitAt(before, n + 1)
               /\ BitAt(reg, 35) = 0 /\ T = BitAt(before, 0)
    <3>1. RightAll(0)
      BY <2>2 DEF IdiomInv, RightInv, Ran
    <3>. QED BY <1>1, <3>1, RightShifts
  <2>3. ASSUME Ran(ShiftSigned)
        PROVE  /\ \A n \in 0..34 : BitAt(reg, n) = BitAt(before, n + 1)
               /\ BitAt(reg, 35) = BitAt(before, 35) /\ T = BitAt(before, 0)
    <3>1. RightAll(Bit(before[3], 2048))
      BY <2>3 DEF IdiomInv, SignedInv, Ran
    <3>2. Bit(before[3], 2048) \in {0, 1}
      BY <1>1, BitType, WordNat
    <3>3. BitAt(before, 35) = Bit(before[3], 2048)
      <4>1. 35 \div 12 = 2 /\ 35 % 12 = 11 /\ 1 + 2 = 3
        OBVIOUS
      <4>. QED BY <4>1, Powers DEF BitAt
    <3>. QED BY <1>1, <3>1, <3>2, <3>3, RightShifts
  <2>4. ~(Ran(ShiftRight) /\ Ran(ShiftSigned))
    BY IdiomsDiffer DEF Ran
  <2>. QED BY <2>1, <2>2, <2>3, <2>4 DEF ShiftsThroughT
<1>6. UnitesBits
  <2>1. \A n \in 0..11 :
          /\ Bit(Union, 2^n) = IF Bit(before[2], 2^n) = 1 \/ Bit(before[3], 2^n) = 1 THEN 1 ELSE 0
          /\ Bit(Unequal, 2^n) = IF Bit(before[2], 2^n) # Bit(before[3], 2^n) THEN 1 ELSE 0
    BY <1>1, UnionBits DEF Union, Unequal, Both
  <2>2. Ran(Or) => reg[1] = Union
    BY DEF IdiomInv, OrInv, Ran
  <2>3. Ran(Xor) => reg[1] = Unequal
    BY IdiomsDiffer DEF IdiomInv, OrInv, Ran
  <2>. QED BY <2>1, <2>2, <2>3 DEF UnitesBits
<1>. QED BY <1>2, <1>3, <1>4, <1>5, <1>6 DEF SequencesCompute

\* Whatever the registers hold at power-up, Arch.md's addition, shifts, compare
\* and call over several words and asm.py's or and xor, placed at 0 in memory,
\* compute what is said of them: the carry, the bit shifted out, the flag, the
\* return address and the scratch word reach the instruction that needs them.
\* Arch.md's subtract over several words is wrong and not among them.
THEOREM SequencesRight == ISpec => []SequencesCompute
<1>1. IInit => IdiomInv
  BY IdiomStart
<1>2. IdiomInv /\ [INext]_ivars => IdiomInv'
  BY IdiomStep, PlacedAssumption
<1>3. IdiomInv => SequencesCompute
  BY IdiomsCompute
<1>. QED BY <1>1, <1>2, <1>3, PTL DEF ISpec
=============================================================================
