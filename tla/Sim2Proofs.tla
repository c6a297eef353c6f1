---------------------------- MODULE Sim2Proofs ----------------------------
(* Proof that the C simulator implements the Python machine (modules Sim2    *)
(* and Cpu), for every set of banks that are apart, every binary, start      *)
(* address and cycle limit.                                                  *)
EXTENDS Sim2, Sim2Uart, Lemmas

\* What the fields of the machine hold, whatever it runs.
TypeInv ==
  /\ args \in [file : Files, start : Starts]
  /\ outcome \in {"loading", "running", "halted", "maxcycle"}
  /\ reg \in [Reg -> Word] /\ T \in {0, 1} /\ pc \in Word
  /\ DOMAIN data = 1..Len(Specs)
  /\ \A k \in 1..Len(Specs) : data[k] \in [Cells(k) -> Word]

LEMMA ModWord == ASSUME NEW v \in Int PROVE v % Space \in Word
BY DEF Word, Space

LEMMA WordNat == \A v \in Word : v \in Nat
BY DEF Word

\* What a word and the fields of an instruction are, as numbers.
LEMMA WordFields ==
  /\ \A v \in Word : v % 2 \in {0, 1} /\ v \in Int
  /\ \A v \in 0..63 : v \in Word
  /\ \A r \in Reg, v \in 0..63 : BranchOffset(r, v) \in Int
<1>1. \A v \in Word : v % 2 \in {0, 1} /\ v \in Int
  BY DEF Word
<1>2. \A v \in 0..63 : v \in Word
  BY DEF Word
<1>3. \A r \in Reg, v \in 0..63 : BranchOffset(r, v) \in Int
  BY DEF BranchOffset
<1>. QED BY <1>1, <1>2, <1>3

LEMMA FieldTypes ==
  ASSUME NEW ir \in Word
  PROVE  /\ Op(ir) \in 0..7 /\ Rd(ir) \in Reg /\ Ra(ir) \in Reg /\ Rb(ir) \in Reg
         /\ Imm6(ir) \in 0..63
BY DEF Word, Op, Rd, Ra, Rb, Imm6, Reg

LEMMA AndInt == ASSUME NEW a \in Word, NEW b \in Word PROVE And(a, b) \in Int
<1>. DEFINE both(p) == Bit(a, p) * Bit(b, p) * p
<1>1. ASSUME NEW p \in Nat \ {0} PROVE both(p) \in Int
  <2>1. Bit(a, p) \in Int /\ Bit(b, p) \in Int
    BY DEF Bit, Word
  <2>2. Bit(a, p) * Bit(b, p) \in Int
    BY <2>1
  <2>. QED BY <2>2
<1>2. /\ both(1) \in Int /\ both(2) \in Int /\ both(4) \in Int /\ both(8) \in Int
      /\ both(16) \in Int /\ both(32) \in Int /\ both(64) \in Int /\ both(128) \in Int
      /\ both(256) \in Int /\ both(512) \in Int /\ both(1024) \in Int /\ both(2048) \in Int
  BY <1>1
<1>3. And(a, b) = both(1) + both(2) + both(4) + both(8) + both(16) + both(32) + both(64)
                  + both(128) + both(256) + both(512) + both(1024) + both(2048)
  BY DEF And
<1>. HIDE DEF both
<1>. QED BY <1>2, <1>3
-----------------------------------------------------------------------------
(* The banks.  Where they are apart, masking the numbers of --mem and taking *)
(* the first match give what the Python bus gives.                           *)

LEMMA SameBanks ==
  ASSUME Apart
  PROVE  /\ Len(Banks) = Len(Specs) /\ Len(Specs) \in Nat
         /\ \A k \in 1..Len(Specs) :
              /\ Banks[k].type = Specs[k].type /\ Banks[k].type \in Types
              /\ Banks[k].base = Specs[k].base /\ Banks[k].base \in Nat
              /\ Banks[k].size = Specs[k].size /\ Banks[k].size \in Nat
              /\ Banks[k].base + Banks[k].size <= Space
<1>1. Len(Specs) \in Nat /\ Len(Specs) <= MaxBanks
  BY SpecAssumption, LenProperties DEF Apart
<1>. DEFINE n == IF Len(Specs) > MaxBanks THEN MaxBanks ELSE Len(Specs)
<1>2. n = Len(Specs)
  BY <1>1 DEF MaxBanks
<1>. HIDE DEF n
<1>3. /\ Banks = [k \in 1..n |-> [type |-> Specs[k].type,
                      base |-> Specs[k].base % Space, size |-> Specs[k].size % Space]]
  BY DEF Banks, n
<1>4. Len(Banks) = Len(Specs)
  BY <1>1, <1>2, <1>3
<1>5. ASSUME NEW k \in 1..Len(Specs)
      PROVE  /\ Banks[k].type = Specs[k].type /\ Banks[k].type \in Types
             /\ Banks[k].base = Specs[k].base /\ Banks[k].base \in Nat
             /\ Banks[k].size = Specs[k].size /\ Banks[k].size \in Nat
             /\ Banks[k].base + Banks[k].size <= Space
  <2>1. Specs[k] \in [type : Types, base : Nat, size : Nat]
    BY SpecAssumption, ElementOfSeq
  <2>2. Banks[k] = [type |-> Specs[k].type,
                    base |-> Specs[k].base % Space, size |-> Specs[k].size % Space]
    BY <1>2, <1>3
  <2>3. Specs[k].base < Space /\ Specs[k].size < Space /\ Specs[k].base + Specs[k].size <= Space
    BY DEF Apart
  <2>4. Specs[k].base % Space = Specs[k].base /\ Specs[k].size % Space = Specs[k].size
    BY <2>1, <2>3 DEF Space
  <2>. QED BY <2>1, <2>2, <2>3, <2>4
<1>. QED BY <1>1, <1>4, <1>5

LEMMA SameCells ==
  ASSUME Apart, NEW k \in 1..Len(Specs)
  PROVE  Python!Cells(k) = Cells(k)
BY SameBanks DEF Python!Cells, Cells

LEMMA SameMatch ==
  ASSUME Apart, NEW k \in 1..Len(Specs), NEW a \in Nat
  PROVE  Matches(k, a) <=> Python!Covers(k, a)
<1>1. (Banks[k].base + Banks[k].size) % 65536 = Banks[k].base + Banks[k].size
  BY SameBanks DEF Space
<1>. QED BY <1>1, SameBanks DEF Matches, Python!Covers

\* At most one bank has an address, so that one is the first.
LEMMA OneBank ==
  ASSUME Apart, NEW j \in 1..Len(Specs), NEW k \in 1..Len(Specs), NEW a \in Nat,
         Matches(j, a), Matches(k, a)
  PROVE  j = k
<1>1. /\ Specs[j].base <= a /\ a < Specs[j].base + Specs[j].size
      /\ Specs[k].base <= a /\ a < Specs[k].base + Specs[k].size
  BY SameMatch DEF Python!Covers
<1>2. /\ Specs[j].base \in Nat /\ Specs[j].size \in Nat
      /\ Specs[k].base \in Nat /\ Specs[k].size \in Nat
  BY SameBanks
<1>3. j # k => \/ Specs[j].base + Specs[j].size <= Specs[k].base
               \/ Specs[k].base + Specs[k].size <= Specs[j].base
  BY DEF Apart
<1>. QED BY <1>1, <1>2, <1>3, SMTT(60)

LEMMA OneIsFirst ==
  ASSUME Apart, NEW k \in 1..Len(Specs), NEW a \in Nat
  PROVE  First(k, a) <=> Matches(k, a)
<1>1. ASSUME Matches(k, a), NEW j \in 1..(k - 1), Matches(j, a) PROVE FALSE
  <2>1. j \in 1..Len(Specs) /\ j # k
    BY SameBanks
  <2>. QED BY <1>1, <2>1, OneBank
<1>. QED BY <1>1 DEF First

LEMMA NoConflict ==
  ASSUME Apart, NEW a \in Nat
  PROVE  ~Python!Conflict(a)
BY SameMatch, OneBank DEF Python!Conflict, Python!Drivers

LEMMA SameRead ==
  ASSUME Apart, NEW a \in Nat
  PROVE  RdMem(a) = Python!Read(a)
<1>0. Len(Banks) = Len(Specs)
  BY SameBanks
<1>1. CASE \E k \in 1..Len(Specs) : Matches(k, a)
  <2>1. PICK k \in 1..Len(Specs) : Matches(k, a)
    BY <1>1
  <2>2. \A j \in 1..Len(Specs) : (First(j, a) <=> j = k) /\ (Python!Covers(j, a) <=> j = k)
    BY <2>1, OneBank, OneIsFirst, SameMatch
  <2>3. Python!Drivers(a) = {k}
    BY <2>2 DEF Python!Drivers
  <2>4. k = CHOOSE j \in 1..Len(Banks) : First(j, a)
    BY <1>0, <2>2
  <2>5. RdMem(a) = IF Banks[k].type = "io" THEN 0 ELSE data[k][a - Banks[k].base]
    BY <1>0, <1>1, <2>4 DEF RdMem
  <2>6. Python!Read(a) = IF Specs[k].type = "io" THEN 0 ELSE data[k][a - Specs[k].base]
    <3>1. k = CHOOSE j \in Python!Drivers(a) : TRUE
      BY <2>3
    <3>. QED BY <2>3, <3>1 DEF Python!Read
  <2>. QED BY <2>5, <2>6, SameBanks
<1>2. CASE ~\E k \in 1..Len(Specs) : Matches(k, a)
  <2>1. Python!Drivers(a) = {}
    BY <1>2, SameMatch DEF Python!Drivers
  <2>2. Python!Read(a) = Space - 1
    BY <2>1 DEF Python!Read, Python!Space, Space
  <2>3. RdMem(a) = Space - 1
    BY <1>0, <1>2 DEF RdMem
  <2>. QED BY <2>2, <2>3
<1>. QED BY <1>1, <1>2

LEMMA ReadWord ==
  ASSUME Apart, TypeInv, NEW a \in Word
  PROVE  RdMem(a) \in Word
<1>0. Len(Banks) = Len(Specs) /\ a \in Nat
  BY SameBanks, WordNat
<1>1. CASE \E k \in 1..Len(Specs) : Matches(k, a)
  <2>1. PICK k \in 1..Len(Specs) : Matches(k, a)
    BY <1>1
  <2>2. \A j \in 1..Len(Specs) : First(j, a) <=> j = k
    BY <1>0, <2>1, OneBank, OneIsFirst
  <2>3. k = CHOOSE j \in 1..Len(Banks) : First(j, a)
    BY <1>0, <2>2
  <2>4. RdMem(a) = IF Banks[k].type = "io" THEN 0 ELSE data[k][a - Banks[k].base]
    BY <1>0, <1>1, <2>3 DEF RdMem
  <2>5. CASE Banks[k].type # "io"
    <3>1. a - Banks[k].base \in Cells(k)
      BY <1>0, <2>1, <2>5, SameMatch, SameBanks, SMTT(60) DEF Cells, Python!Covers
    <3>. QED BY <2>4, <2>5, <3>1 DEF TypeInv
  <2>6. CASE Banks[k].type = "io"
    BY <2>4, <2>6 DEF Word
  <2>. QED BY <2>5, <2>6
<1>2. CASE ~\E k \in 1..Len(Specs) : Matches(k, a)
  BY <1>0, <1>2 DEF RdMem, Word, Space
<1>. QED BY <1>1, <1>2

LEMMA SameWrite ==
  ASSUME Apart, NEW a \in Nat, NEW v
  PROVE  WrMem(a, v) = Python!Stored(a, v)
<1>1. \A k \in 1..Len(Specs) : First(k, a) /\ Banks[k].type = "ram" <=> Python!Takes(k, a)
  BY SameBanks, OneIsFirst, SameMatch DEF Python!Takes
<1>2. \A k \in 1..Len(Specs) : Banks[k].base = Specs[k].base
  BY SameBanks
<1>3. Len(Banks) = Len(Specs)
  BY SameBanks
<1>. QED BY <1>1, <1>2, <1>3 DEF WrMem, Python!Stored

LEMMA SameIsa ==
  /\ Python!Space = Space /\ Python!Halt = Halt
  /\ Python!AND = AND /\ Python!SUB = SUB /\ Python!ADD = ADD /\ Python!ADDC = ADDC
  /\ Python!LUI = LUI /\ Python!ADDI = ADDI /\ Python!SUBI = SUBI /\ Python!SPEC = SPEC
  /\ Python!JALR = JALR /\ Python!ROR = ROR /\ Python!ROL = ROL
  /\ Python!LWR = LWR /\ Python!SWR = SWR
  /\ \A ir : /\ Python!Op(ir) = Op(ir) /\ Python!Rd(ir) = Rd(ir) /\ Python!Ra(ir) = Ra(ir)
              /\ Python!Rb(ir) = Rb(ir) /\ Python!Imm6(ir) = Imm6(ir)
  /\ \A rd, imm : Python!BranchOffset(rd, imm) = BranchOffset(rd, imm)
  /\ \A v, p : Python!Bit(v, p) = Bit(v, p)
  /\ \A v, w : Python!And(v, w) = And(v, w)
<1>1. \A v, p : Python!Bit(v, p) = Bit(v, p)
  BY DEF Python!Bit, Bit
<1>2. \A v, w : Python!And(v, w) = And(v, w)
  BY <1>1 DEF Python!And, And
<1>3. \A rd, imm : Python!BranchOffset(rd, imm) = BranchOffset(rd, imm)
  BY DEF Python!BranchOffset, BranchOffset
<1>4. \A ir : /\ Python!Op(ir) = Op(ir) /\ Python!Rd(ir) = Rd(ir) /\ Python!Ra(ir) = Ra(ir)
              /\ Python!Rb(ir) = Rb(ir) /\ Python!Imm6(ir) = Imm6(ir)
  BY DEF Python!Op, Op, Python!Rd, Rd, Python!Ra, Ra, Python!Rb, Rb, Python!Imm6, Imm6
<1>. QED BY <1>1, <1>2, <1>3, <1>4 DEF Python!Space, Space, Python!Halt, Halt,
       Python!AND, AND, Python!SUB, SUB, Python!ADD, ADD, Python!ADDC, ADDC, Python!LUI, LUI,
       Python!ADDI, ADDI, Python!SUBI, SUBI, Python!SPEC, SPEC, Python!JALR, JALR,
       Python!ROR, ROR, Python!ROL, ROL, Python!LWR, LWR, Python!SWR, SWR

LEMMA SamePut == ASSUME NEW r, NEW v PROVE WrReg(r, v) = Python!Put(r, v)
<1>. DEFINE m == v % Space
<1>1. v % Python!Space = m
  BY SameIsa, Zenon
<1>. HIDE DEF m
<1>2. CASE r = 0 \/ r = 7
  <2>1. WrReg(r, v) = [reg EXCEPT ![r] = reg[r]] /\ Python!Put(r, v) = [reg EXCEPT ![r] = reg[r]]
    BY <1>2, Zenon DEF WrReg, Python!Put
  <2>. QED BY <2>1
<1>3. CASE ~(r = 0 \/ r = 7)
  <2>1. WrReg(r, v) = [reg EXCEPT ![r] = m]
    BY <1>3 DEF WrReg, m
  <2>2. Python!Put(r, v) = [reg EXCEPT ![r] = m]
    BY <1>1, <1>3 DEF Python!Put
  <2>. QED BY <2>1, <2>2
<1>. QED BY <1>2, <1>3

LEMMA SameTurn ==
  ASSUME NEW n, NEW next
  PROVE  Turn(n, next) <=> Python!Retire(n, next)
BY DEF Turn, Python!Retire, Python!Continue
-----------------------------------------------------------------------------
\* Bit 12 of a difference of two words is the borrow.
LEMMA BorrowBit ==
  ASSUME NEW x \in Word, NEW y \in Word
  PROVE  Bit(x - y, 4096) = Python!Flag(x < y)
<1>1. x \in 0..4095 /\ y \in 0..4095
  BY DEF Word
<1>2. CASE x < y
  <2>1. (x - y) \div 4096 = -1
    BY <1>1, <1>2
  <2>. QED BY <1>2, <2>1 DEF Bit, Python!Flag
<1>3. CASE ~(x < y)
  <2>1. (x - y) \div 4096 = 0
    BY <1>1, <1>3
  <2>. QED BY <1>3, <2>1 DEF Bit, Python!Flag
<1>. QED BY <1>2, <1>3

\* What a turn of the loop reads, and that the Python machine reads the same.
LEMMA Operands ==
  ASSUME Apart, TypeInv
  PROVE  LET ir == RdMem(pc)
         IN  /\ ir \in Word /\ ir = Python!IR /\ ~Python!Conflict(pc)
             /\ Op(ir) \in 0..7 /\ Rd(ir) \in Reg /\ Rb(ir) \in Reg /\ Imm6(ir) \in 0..63
             /\ reg[Ra(ir)] \in Word /\ reg[Rb(ir)] \in Word /\ reg[Rd(ir)] \in Word
             /\ Python!NextPc = (pc + 1) % Space
<1>1. pc \in Word /\ pc \in Nat /\ reg \in [Reg -> Word]
  BY WordNat DEF TypeInv
<1>2. RdMem(pc) \in Word /\ RdMem(pc) = Python!IR /\ ~Python!Conflict(pc)
  BY <1>1, ReadWord, SameRead, NoConflict DEF Python!IR
<1>. DEFINE ir == RdMem(pc)
<1>. HIDE DEF ir
<1>3. /\ Op(ir) \in 0..7 /\ Rd(ir) \in Reg /\ Ra(ir) \in Reg /\ Rb(ir) \in Reg
      /\ Imm6(ir) \in 0..63
  BY <1>2, FieldTypes DEF ir
<1>4. Python!NextPc = (pc + 1) % Space
  BY SameIsa DEF Python!NextPc
<1>. QED BY <1>1, <1>2, <1>3, <1>4 DEF ir

\* The common end of the instructions that only compute a register and T.
LEMMA SameComputes ==
  ASSUME Apart, TypeInv, Execute, NEW ir, ir = RdMem(pc), WritesReg(ir),
         ~Does(ir, SWR), ~Does(ir, LWR), ~Does(ir, JALR)
  PROVE  Python!Computes(Value(ir), NewT(ir))
<1>1. ir = Python!IR /\ Python!NextPc = (pc + 1) % Space
  BY Operands
<1>2. /\ reg' = WrReg(Rd(ir), Value(ir)) /\ T' = NewT(ir) /\ pc' = NewPc(ir)
      /\ data' = data /\ Turn(1, "running") /\ args' = args
  BY Zenon DEF Execute
<1>3. ~IsBranch(ir)
  BY DEF WritesReg, IsBranch, Does, LUI, ADDI, SPEC
<1>4. pc' = Python!NextPc
  BY <1>1, <1>2, <1>3 DEF NewPc
<1>5. reg' = Python!Put(Python!Rd(Python!IR), Value(ir))
  BY <1>1, <1>2, SamePut, SameIsa
<1>. QED BY <1>2, <1>4, <1>5, SameTurn DEF Python!Computes

\* One turn of the loop in main() is one step of the Python machine.
LEMMA SameStep ==
  ASSUME Apart, TypeInv, Execute
  PROVE  Python!Step
<1>. DEFINE ir == RdMem(pc)
            a == reg[Ra(ir)]
            b == reg[Rb(ir)]
            d == reg[Rd(ir)]
            i == Imm6(ir)
<1>1. /\ ir \in Word /\ ir = Python!IR /\ ~Python!Conflict(pc) /\ ir # Halt
      /\ Op(ir) \in 0..7 /\ Rd(ir) \in Reg /\ Rb(ir) \in Reg /\ i \in 0..63
      /\ a \in Word /\ b \in Word /\ d \in Word
      /\ Python!NextPc = (pc + 1) % Space /\ T \in {0, 1} /\ pc \in Word
      /\ outcome = "running"
  BY Operands DEF Execute, TypeInv
<1>. HIDE DEF ir
<1>2. /\ reg' = (IF WritesReg(ir) THEN WrReg(Rd(ir), Value(ir)) ELSE reg)
      /\ T' = NewT(ir) /\ pc' = NewPc(ir)
      /\ data' = (IF Does(ir, SWR) THEN WrMem(a, d) ELSE data)
      /\ Turn(IF Does(ir, LWR) \/ Does(ir, SWR) THEN 2 ELSE 1, "running")
      /\ args' = args
  BY Zenon DEF Execute, ir
<1>3. /\ Python!Op(Python!IR) = Op(ir) /\ Python!Rd(Python!IR) = Rd(ir)
      /\ Python!Ra(Python!IR) = Ra(ir) /\ Python!Rb(Python!IR) = Rb(ir)
      /\ Python!Imm6(Python!IR) = i
  BY <1>1, SameIsa
<1>4. \A op : Op(ir) = op => Python!Executes(op)
  BY <1>1, <1>3 DEF Python!Executes
<1>5. \A rb : Does(ir, rb) => Python!Special(rb)
  BY <1>3, <1>4, SameIsa DEF Does, Python!Special
<1>6. IsBranch(ir) <=> Op(ir) \in {LUI, ADDI} /\ Python!IsBranch
  BY <1>1, <1>3 DEF IsBranch, Python!IsBranch
<1>7. WritesReg(ir) /\ ~Does(ir, SWR) /\ ~Does(ir, LWR) /\ ~Does(ir, JALR) =>
        Python!Computes(Value(ir), NewT(ir))
  BY SameComputes DEF ir
<1>. USE DEF Does, WritesReg, IsBranch, AND, SUB, ADD, ADDC, LUI, ADDI, SUBI, SPEC,
             JALR, ROR, ROL, LWR, SWR
<1>8. CASE Op(ir) = AND
  <2>1. Value(ir) = Python!And(a, b) /\ NewT(ir) = T
    BY <1>8, SameIsa DEF Value, NewT
  <2>2. Python!ExecAnd
    BY <1>3, <1>4, <1>7, <1>8, <2>1, SameIsa DEF Python!ExecAnd
  <2>. QED BY <2>2 DEF Python!Step
<1>9. CASE Op(ir) = SUB
  <2>1. Value(ir) = a - b /\ NewT(ir) = Bit(a - b, 4096)
    BY <1>9 DEF Value, NewT, Difference
  <2>2. Bit(a - b, 4096) = Python!Flag(a < b)
    BY <1>1, BorrowBit
  <2>3. Python!ExecSub
    BY <1>3, <1>4, <1>7, <1>9, <2>1, <2>2, SameIsa DEF Python!ExecSub
  <2>. QED BY <2>3 DEF Python!Step
<1>10. CASE Op(ir) = ADD
  <2>0. Value(ir) = a + b + 0 /\ NewT(ir) = IF a + b + 0 > Space - 1 THEN 1 ELSE 0
    BY <1>10 DEF Value, NewT, Sum
  <2>a. a \in Nat /\ b \in Nat
    BY <1>1, WordNat
  <2>1. Value(ir) = a + b
    <3>. HIDE DEF a, b
    <3>. QED BY <2>0, <2>a
  <2>2. NewT(ir) = Python!Flag(a + b >= Python!Space)
    <3>. HIDE DEF a, b
    <3>. QED BY <2>0, <2>a DEF Python!Flag, Python!Space, Space
  <2>3. Python!ExecAdd
    BY <1>3, <1>4, <1>7, <1>10, <2>1, <2>2, SameIsa DEF Python!ExecAdd
  <2>. QED BY <2>3 DEF Python!Step
<1>11. CASE Op(ir) = ADDC
  <2>1. Value(ir) = a + b + T /\ NewT(ir) = IF a + b + T > Space - 1 THEN 1 ELSE 0
    BY <1>11 DEF Value, NewT, Sum
  <2>2. NewT(ir) = Python!Flag(a + b + T >= Python!Space)
    <3>1. a \in Nat /\ b \in Nat
      BY <1>1, WordNat
    <3>. HIDE DEF a, b
    <3>. QED BY <1>1, <2>1, <3>1 DEF Python!Flag, Python!Space, Space
  <2>3. Python!ExecAddc
    BY <1>3, <1>4, <1>7, <1>11, <2>1, <2>2, SameIsa DEF Python!ExecAddc
  <2>. QED BY <2>3 DEF Python!Step
<1>12. CASE Op(ir) = LUI /\ ~IsBranch(ir)
  <2>1. Value(ir) = i * 64 /\ NewT(ir) = T
    BY <1>12 DEF Value, NewT
  <2>2. Python!ExecLui
    BY <1>3, <1>4, <1>6, <1>7, <1>12, <2>1, SameIsa DEF Python!ExecLui
  <2>. QED BY <2>2 DEF Python!Step
<1>13. CASE Op(ir) = ADDI /\ ~IsBranch(ir)
  <2>1. Value(ir) = d + i /\ NewT(ir) = T
    BY <1>13 DEF Value, NewT
  <2>2. Python!ExecAddi
    BY <1>3, <1>4, <1>6, <1>7, <1>13, <2>1, SameIsa DEF Python!ExecAddi
  <2>. QED BY <2>2 DEF Python!Step
<1>14. CASE Op(ir) = SUBI
  <2>1. Value(ir) = d - i /\ NewT(ir) = Bit(d - i, 4096)
    BY <1>14 DEF Value, NewT, Difference
  <2>2. Bit(d - i, 4096) = Python!Flag(d < i)
    <3>1. i \in Word
      BY <1>1, WordFields
    <3>. QED BY <1>1, <3>1, BorrowBit
  <2>3. Python!ExecSubi
    BY <1>3, <1>4, <1>7, <1>14, <2>1, <2>2, SameIsa DEF Python!ExecSubi
  <2>. QED BY <2>3 DEF Python!Step
<1>15. CASE IsBranch(ir)
  <2>1. reg' = reg /\ data' = data /\ args' = args /\ T' = T /\ Turn(1, "running")
    BY <1>2, <1>15 DEF NewT
  <2>2. pc' = IF T = (IF Op(ir) = LUI THEN 0 ELSE 1)
              THEN (pc + BranchOffset(Rd(ir), i)) % Space ELSE Python!NextPc
    BY <1>1, <1>2, <1>15 DEF NewPc
  <2>3. pc' = IF T = (IF Python!Op(Python!IR) = Python!LUI THEN 0 ELSE 1)
              THEN (pc + Python!BranchOffset(Python!Rd(Python!IR), Python!Imm6(Python!IR))) % Python!Space
              ELSE Python!NextPc
    BY <1>3, <2>2, SameIsa
  <2>4. \/ Python!Executes(Python!LUI) /\ Python!IsBranch
        \/ Python!Executes(Python!ADDI) /\ Python!IsBranch
    BY <1>4, <1>6, <1>15, SameIsa
  <2>5. Python!Retire(1, "running")
    BY <2>1, SameTurn
  <2>6. Python!Branch
    BY <2>1, <2>3, <2>4, <2>5, Zenon DEF Python!Branch
  <2>. QED BY <2>6 DEF Python!Step
<1>16. CASE Does(ir, JALR)
  <2>1. /\ reg' = WrReg(Rd(ir), Python!NextPc) /\ pc' = a /\ T' = T
        /\ data' = data /\ args' = args /\ Turn(1, "running")
    BY <1>1, <1>2, <1>16 DEF Value, NewT, NewPc
  <2>2. Python!Jalr
    BY <1>3, <1>5, <1>16, <2>1, SamePut, SameTurn, SameIsa DEF Python!Jalr
  <2>. QED BY <2>2 DEF Python!Step
<1>17. CASE Does(ir, ROR)
  <2>1. Value(ir) = a \div 2 + T * 2048 /\ NewT(ir) = a % 2
    BY <1>17 DEF Value, NewT
  <2>2. Python!Ror
    BY <1>3, <1>5, <1>7, <1>17, <2>1, SameIsa DEF Python!Ror
  <2>. QED BY <2>2 DEF Python!Step
<1>18. CASE Does(ir, ROL)
  <2>1. Value(ir) = ((a * 2) % Space) + T /\ NewT(ir) = Bit(a, 2048)
    BY <1>18 DEF Value, NewT
  <2>2. Python!Rol
    BY <1>3, <1>5, <1>7, <1>18, <2>1, SameIsa DEF Python!Rol
  <2>. QED BY <2>2 DEF Python!Step
<1>19. CASE Does(ir, LWR)
  <2>1. /\ reg' = WrReg(Rd(ir), RdMem(a)) /\ pc' = Python!NextPc /\ T' = T
        /\ data' = data /\ args' = args /\ Turn(2, "running")
    BY <1>1, <1>2, <1>19 DEF Value, NewT, NewPc
  <2>2. RdMem(a) = Python!Read(a) /\ ~Python!Conflict(a)
    BY <1>1, WordNat, SameRead, NoConflict
  <2>3. Python!Lwr
    BY <1>3, <1>5, <1>19, <2>1, <2>2, SamePut, SameTurn, SameIsa DEF Python!Lwr
  <2>. QED BY <2>3 DEF Python!Step
<1>20. CASE Does(ir, SWR)
  <2>1. /\ data' = WrMem(a, d) /\ pc' = Python!NextPc /\ T' = T
        /\ reg' = reg /\ args' = args /\ Turn(2, "running")
    BY <1>1, <1>2, <1>20 DEF NewT, NewPc
  <2>2. WrMem(a, d) = Python!Stored(a, d)
    BY <1>1, WordNat, SameWrite
  <2>3. Python!Swr
    BY <1>3, <1>5, <1>20, <2>1, <2>2, SameTurn, SameIsa DEF Python!Swr
  <2>. QED BY <2>3 DEF Python!Step
<1>21. CASE Op(ir) = SPEC /\ Rb(ir) > SWR
  <2>1. /\ data' = data /\ pc' = Python!NextPc /\ T' = T
        /\ reg' = reg /\ args' = args /\ Turn(1, "running")
    BY <1>1, <1>2, <1>21 DEF NewT, NewPc
  <2>2. Python!Unknown
    BY <1>1, <1>3, <1>4, <1>21, <2>1, SameTurn, SameIsa DEF Python!Unknown
  <2>. QED BY <2>2 DEF Python!Step
<1>. QED BY <1>1, <1>8, <1>9, <1>10, <1>11, <1>12, <1>13, <1>14, <1>15, <1>16, <1>17,
            <1>18, <1>19, <1>20, <1>21 DEF Reg

LEMMA SameHalt ==
  ASSUME Apart, TypeInv, HaltStep
  PROVE  Python!Step
<1>1. /\ RdMem(pc) = Halt /\ Python!IR = Halt /\ ~Python!Conflict(pc) /\ outcome = "running"
      /\ pc' = Python!NextPc
  BY Operands DEF HaltStep
<1>2. Op(Halt) = SPEC
  BY DEF Op, Halt, SPEC
<1>3. Python!Executes(Python!SPEC) /\ Python!IR = Python!Halt
  BY <1>1, <1>2, SameIsa DEF Python!Executes
<1>4. Python!Retire(1, "halted") /\ UNCHANGED <<args, reg, T, data>>
  BY SameTurn DEF HaltStep
<1>. QED BY <1>1, <1>3, <1>4 DEF Python!HaltStep, Python!Step

\* A word of the file lands in the same cell: no other bank has its address.
LEMMA SameLoad ==
  ASSUME Apart, TypeInv, LoadBin
  PROVE  Python!Load
<1>1. ASSUME NEW k \in 1..Len(Specs), NEW o \in Cells(k)
      PROVE  /\ Banks[k].base + o = Specs[k].base + o
             /\ First(k, Banks[k].base + o) /\ k \in Python!Home(Banks[k].base + o)
  <2>. DEFINE a == Banks[k].base + o
  <2>1. /\ Banks[k].type # "io" /\ Banks[k].base \in Nat /\ Banks[k].size \in Nat
        /\ o \in 0..(Banks[k].size - 1)
    BY SameBanks DEF Cells
  <2>2. a \in Nat /\ Python!Covers(k, a)
    BY <2>1, SameBanks DEF Python!Covers
  <2>. HIDE DEF a
  <2>3. Matches(k, a)
    BY <2>2, SameMatch
  <2>4. First(k, a)
    BY <2>2, <2>3, OneIsFirst
  <2>5. Python!Drivers(a) = {k}
    BY <2>2, <2>3, SameMatch, OneBank DEF Python!Drivers
  <2>6. k \in Python!Home(a)
    <3>1. k \in Nat
      OBVIOUS
    <3>. QED BY <2>1, <2>5, <3>1, SameBanks DEF Python!Home
  <2>. QED BY <2>4, <2>6, SameBanks DEF a
<1>2. \A f, a : (Python!Loads(f, a) <=> Loads(f, a)) /\ Python!Last(f, a) = Last(f, a)
  BY SameIsa DEF Python!Loads, Loads, Python!Last, Last
<1>3. \A k \in 1..Len(Specs) : Python!Cells(k) = Cells(k)
  BY SameCells
<1>4. Len(Banks) = Len(Specs)
  BY SameBanks
<1>. DEFINE f == args.file
            New(k, o) == IF Loads(f, Specs[k].base + o) THEN Last(f, Specs[k].base + o) ELSE data[k][o]
<1>5. data' = [k \in 1..Len(Specs) |-> [o \in Cells(k) |-> New(k, o)]]
  <2>1. data' = [k \in 1..Len(Specs) |->
                   [o \in Cells(k) |->
                      IF First(k, Banks[k].base + o) /\ Loads(f, Banks[k].base + o)
                      THEN Last(f, Banks[k].base + o) ELSE data[k][o]]]
    BY <1>4 DEF LoadBin
  <2>. QED BY <1>1, <2>1
<1>6. [k \in 1..Len(Specs) |-> [o \in Cells(k) |-> New(k, o)]]
        = [k \in 1..Len(Specs) |->
             [o \in Python!Cells(k) |->
                IF k \in Python!Home(Specs[k].base + o) /\ Python!Loads(f, Specs[k].base + o)
                THEN Python!Last(f, Specs[k].base + o) ELSE data[k][o]]]
  BY <1>1, <1>2, <1>3
<1>7. /\ outcome = "loading" /\ pc' = args.start /\ outcome' = "running"
      /\ UNCHANGED <<args, reg, T, retired, cycles>>
  BY DEF LoadBin
<1>. QED BY <1>5, <1>6, <1>7 DEF Python!Load
-----------------------------------------------------------------------------
LEMMA InitTypes == Apart /\ Init => TypeInv
<1>. SUFFICES ASSUME Apart, Init PROVE TypeInv
  OBVIOUS
<1>1. Len(Banks) = Len(Specs)
  BY SameBanks
<1>2. /\ reg = [r \in Reg |-> IF r = 7 THEN Space - 1 ELSE 0] /\ T = 0
      /\ data = [k \in 1..Len(Specs) |-> [o \in Cells(k) |-> 0]]
      /\ args \in [file : Files, start : Starts] /\ outcome = "loading" /\ pc = 0
  BY <1>1 DEF Init, Cleared
<1>3. 0 \in Word /\ Space - 1 \in Word
  BY DEF Word, Space
<1>4. reg \in [Reg -> Word]
  BY <1>2, <1>3
<1>. QED BY <1>2, <1>3, <1>4 DEF TypeInv

LEMMA ValueInt ==
  ASSUME Apart, TypeInv, NEW ir, ir = RdMem(pc), WritesReg(ir)
  PROVE  Value(ir) \in Int
<1>. DEFINE a == reg[Ra(ir)]
            b == reg[Rb(ir)]
            d == reg[Rd(ir)]
            i == Imm6(ir)
<1>1. /\ a \in Word /\ b \in Word /\ d \in Word /\ i \in 0..63 /\ Op(ir) \in 0..7
      /\ T \in {0, 1} /\ pc \in Word
  BY Operands DEF TypeInv
<1>2. a \in Int /\ b \in Int /\ d \in Int /\ i \in Int /\ T \in Int /\ pc \in Int
  <2>. HIDE DEF a, b, d, i
  <2>. QED BY <1>1 DEF Word
<1>3. And(a, b) \in Int /\ RdMem(a) \in Int
  <2>1. RdMem(a) \in Word
    BY <1>1, ReadWord
  <2>. QED BY <1>1, <2>1, AndInt, WordNat
<1>4. /\ a - b \in Int /\ d - i \in Int /\ a + b + T \in Int /\ a + b + 0 \in Int /\ i * 64 \in Int
      /\ d + i \in Int /\ (pc + 1) % Space \in Int /\ a \div 2 + T * 2048 \in Int
      /\ ((a * 2) % Space) + T \in Int
  <2>. HIDE DEF a, b, d, i
  <2>. QED BY <1>2 DEF Space
<1>5. \/ Op(ir) \in {AND, SUB, ADD, ADDC, LUI, ADDI, SUBI}
      \/ \E rb \in {JALR, ROR, ROL, LWR} : Does(ir, rb)
  BY <1>1 DEF WritesReg, Does, AND, SUB, ADD, ADDC, LUI, ADDI, SUBI, SPEC
<1>6. Value(ir) \in {And(a, b), a - b, d - i, a + b + T, a + b + 0, i * 64, d + i, (pc + 1) % Space,
                     a \div 2 + T * 2048, ((a * 2) % Space) + T, RdMem(a)}
  BY <1>5 DEF Value, Difference, Sum, Does, AND, SUB, ADD, ADDC, LUI, ADDI, SUBI, SPEC,
              JALR, ROR, ROL, LWR
<1>. QED BY <1>3, <1>4, <1>6

LEMMA StepTypes == Apart /\ TypeInv /\ [Next]_vars => TypeInv'
<1>. SUFFICES ASSUME Apart, TypeInv, [Next]_vars PROVE TypeInv'
  OBVIOUS
<1>0. Len(Banks) = Len(Specs)
  BY SameBanks
<1>1. CASE LoadBin
  <2>1. args \in [file : Files, start : Starts] /\ args.file \in Seq(Word) /\ args.start \in Word
    BY FileAssumption, StartAssumption DEF TypeInv
  <2>. DEFINE f == args.file
  <2>2. ASSUME NEW k \in 1..Len(Specs), NEW o \in Cells(k), Loads(f, Banks[k].base + o)
        PROVE  Last(f, Banks[k].base + o) \in Word
    <3>. DEFINE a == Banks[k].base + o
                n == a + 1 + Space * ((Len(f) - 1 - a) \div Space)
    <3>1. a \in Nat
      BY SameBanks DEF Cells
    <3>2. f \in Seq(Word) /\ Len(f) \in Nat
      BY <2>1
    <3>3. Loads(f, a)
      BY <2>2
    <3>. HIDE DEF a, f
    <3>4. n \in 1..Len(f)
      BY <3>1, <3>2, <3>3 DEF Loads, Space
    <3>5. Last(f, a) \in Word
      BY <3>2, <3>4, ElementOfSeq DEF Last
    <3>. QED BY <3>5 DEF a, f
  <2>3. data' = [k \in 1..Len(Specs) |->
                   [o \in Cells(k) |->
                      IF First(k, Banks[k].base + o) /\ Loads(f, Banks[k].base + o)
                      THEN Last(f, Banks[k].base + o) ELSE data[k][o]]]
    BY <1>0, <1>1 DEF LoadBin
  <2>4. \A k \in 1..Len(Specs) : data'[k] \in [Cells(k) -> Word]
    BY <2>2, <2>3 DEF TypeInv
  <2>5. DOMAIN data' = 1..Len(Specs)
    BY <2>3
  <2>6. UNCHANGED <<args, reg, T>> /\ pc' = args.start /\ outcome' = "running"
    BY <1>1 DEF LoadBin
  <2>. QED BY <2>1, <2>4, <2>5, <2>6 DEF TypeInv
<1>2. CASE HaltStep
  <2>1. (pc + 1) % Space \in Word
    <3>1. pc \in Word
      BY DEF TypeInv
    <3>2. pc \in Int /\ pc + 1 \in Int
      BY <3>1, WordNat
    <3>. QED BY <3>2, ModWord
  <2>. QED BY <1>2, <2>1 DEF HaltStep, Turn, TypeInv
<1>3. CASE Execute
  <2>. DEFINE ir == RdMem(pc)
              a == reg[Ra(ir)]
              d == reg[Rd(ir)]
  <2>1. /\ ir \in Word /\ Rd(ir) \in Reg /\ Imm6(ir) \in 0..63 /\ a \in Word /\ d \in Word
        /\ pc \in Word /\ T \in {0, 1} /\ reg \in [Reg -> Word]
    BY Operands DEF TypeInv
  <2>2. /\ reg' = (IF WritesReg(ir) THEN WrReg(Rd(ir), Value(ir)) ELSE reg)
        /\ T' = NewT(ir) /\ pc' = NewPc(ir)
        /\ data' = (IF Does(ir, SWR) THEN WrMem(a, d) ELSE data)
        /\ outcome' \in {"maxcycle", "running"}
        /\ args' = args
    BY <1>3 DEF Execute, Turn
  <2>3. reg' \in [Reg -> Word]
    <3>1. CASE WritesReg(ir)
      <4>1. Value(ir) % Space \in Word
        BY <3>1, ValueInt, ModWord
      <4>2. reg' = WrReg(Rd(ir), Value(ir))
        BY <2>2, <3>1
      <4>. QED BY <2>1, <4>1, <4>2 DEF WrReg
    <3>2. CASE ~WritesReg(ir)
      BY <2>1, <2>2, <3>2
    <3>. QED BY <3>1, <3>2
  <2>4. NewT(ir) \in {0, 1}
    <3>1. /\ \A v \in Int : Bit(v, 4096) \in {0, 1} /\ Bit(v, 2048) \in {0, 1}
      BY DEF Bit
    <3>2. Difference(ir) \in Int
      <4>1. /\ a \in Int /\ reg[Rb(ir)] \in Int /\ d \in Int /\ Imm6(ir) \in Int
        BY Operands, WordNat
      <4>. HIDE DEF ir
      <4>. QED BY <4>1 DEF Difference
    <3>3. a % 2 \in {0, 1} /\ a \in Int
      BY <2>1, WordFields
    <3>4. NewT(ir) \in {Bit(Difference(ir), 4096), 0, 1, a % 2, Bit(a, 2048), T}
      <4>. HIDE DEF ir
      <4>. QED BY DEF NewT
    <3>. HIDE DEF ir, a
    <3>. QED BY <2>1, <3>1, <3>2, <3>3, <3>4
  <2>5. NewPc(ir) \in Word
    <3>1. pc \in Int /\ BranchOffset(Rd(ir), Imm6(ir)) \in Int
      BY <2>1, WordNat, WordFields
    <3>2. (pc + 1) % Space \in Word /\ (pc + BranchOffset(Rd(ir), Imm6(ir))) % Space \in Word
      BY <3>1, ModWord
    <3>. HIDE DEF ir
    <3>. QED BY <2>1, <3>2 DEF NewPc
  <2>6. DOMAIN data' = 1..Len(Specs) /\ \A k \in 1..Len(Specs) : data'[k] \in [Cells(k) -> Word]
    <3>1. /\ DOMAIN data = 1..Len(Specs) /\ \A k \in 1..Len(Specs) : data[k] \in [Cells(k) -> Word]
      BY DEF TypeInv
    <3>2. /\ DOMAIN WrMem(a, d) = 1..Len(Specs)
          /\ \A k \in 1..Len(Specs) : WrMem(a, d)[k] \in [Cells(k) -> Word]
      <4>. HIDE DEF a, d
      <4>. QED BY <1>0, <2>1, <3>1 DEF WrMem
    <3>. QED BY <2>2, <3>1, <3>2
  <2>. QED BY <2>2, <2>3, <2>4, <2>5, <2>6 DEF TypeInv
<1>4. CASE UNCHANGED vars
  BY <1>4 DEF vars, TypeInv
<1>. QED BY <1>1, <1>2, <1>3, <1>4 DEF Next

\* Written on its own from Arch.md, the C simulator does what the Python one
\* does, down to the flag, the counters and the way it stops: for every set of
\* banks that are apart, every binary, start address and cycle limit.
THEOREM Agrees == ASSUME Apart PROVE Spec => ImplementsPython
<1>1. Init => Python!Init
  BY DEF Init, Python!Init
<1>2. TypeInv /\ [Next]_vars => [Python!Next]_vars
  <2>. SUFFICES ASSUME TypeInv, Next PROVE Python!Next
    OBVIOUS
  <2>. QED BY SameLoad, SameHalt, SameStep DEF Next, Python!Next
<1>3. Init => TypeInv
  BY InitTypes
<1>4. TypeInv /\ [Next]_vars => TypeInv'
  BY StepTypes
<1>. QED BY <1>1, <1>2, <1>3, <1>4, PTL DEF Spec, ImplementsPython
-----------------------------------------------------------------------------
(* The UART (module Sim2Uart), for every set of bytes and every bound: the   *)
(* characters add up, and with them the simulator keeps the promise of       *)
(* module RxLine although nothing orders its three buffers but their use.    *)

\* Types; a guest that is about to read has polled a 1 and not read since.
Shapes ==
  /\ stdin \in Seq(Bytes) /\ stdio \in Seq(Bytes)
  /\ closed \in BOOLEAN /\ have \in BOOLEAN
  /\ val \in Bytes \cup {0}
  /\ guest \in {"pollRx", "readRx"} /\ (guest = "readRx" <=> have)
  /\ sent \in Nat /\ got \in Seq(Bytes \cup {0})

\* Every byte sent is received, prefetched, read ahead or in the pipe; what is
\* prefetched or received beyond them comes from the end of file.
Fetched == IF have /\ Len(got) < sent THEN 1 ELSE 0
AddsUp ==
  /\ Len(got) <= sent => Len(got) + Fetched + Len(stdio) + Len(stdin) = sent
  /\ Len(got) > sent => closed /\ stdio = <<>> /\ stdin = <<>>
  /\ have /\ Len(got) >= sent => closed
  /\ have /\ Len(got) < sent => val \in Bytes

LEMMA Lengths ==
  ASSUME Shapes
  PROVE  /\ Len(got) \in Nat /\ Len(stdin) \in Nat /\ Len(stdio) \in Nat
         /\ Len(stdin) = 0 <=> stdin = <<>>
         /\ Len(stdio) = 0 <=> stdio = <<>>
BY LenProperties, EmptySeq DEF Shapes

\* What fgetc takes, and what it leaves.
LEMMA FgetcFacts ==
  ASSUME Shapes, Fgetc
  PROVE  \/ /\ stdio = <<>> /\ stdin = <<>> /\ val' = 0
            /\ stdio' = <<>> /\ stdin' = <<>>
         \/ /\ stdio # <<>> \/ stdin # <<>>
            /\ val' \in Bytes
            /\ stdio' \in Seq(Bytes) /\ stdin' \in Seq(Bytes)
            /\ Len(stdio') + Len(stdin') = Len(stdio) + Len(stdin) - 1
            /\ <<val'>> \o (stdio' \o stdin') = stdio \o stdin
<1>1. stdio \in Seq(Bytes) /\ stdin \in Seq(Bytes)
  BY DEF Shapes
<1>2. CASE stdio # <<>>
  <2>1. val' = Head(stdio) /\ stdio' = Tail(stdio) /\ stdin' = stdin
    BY <1>2 DEF Fgetc
  <2>2. /\ Head(stdio) \in Bytes /\ Tail(stdio) \in Seq(Bytes) /\ Len(Tail(stdio)) = Len(stdio) - 1
        /\ <<Head(stdio)>> \o Tail(stdio) = stdio
    BY <1>1, <1>2, FrontFirst, HeadTailProperties
  <2>4. <<Head(stdio)>> \o (Tail(stdio) \o stdin) = stdio \o stdin
    BY <1>1, <1>2, FrontOfConcat
  <2>5. Len(Tail(stdio)) + Len(stdin) = Len(stdio) + Len(stdin) - 1
    BY <1>1, <2>2, LenProperties
  <2>. QED BY <1>1, <1>2, <2>1, <2>2, <2>4, <2>5
<1>3. CASE stdio = <<>> /\ stdin # <<>>
  <2>1. val' = Head(stdin) /\ stdio' = Tail(stdin) /\ stdin' = <<>>
    BY <1>3 DEF Fgetc
  <2>2. /\ Head(stdin) \in Bytes /\ Tail(stdin) \in Seq(Bytes) /\ Len(Tail(stdin)) = Len(stdin) - 1
        /\ <<Head(stdin)>> \o Tail(stdin) = stdin
    BY <1>1, <1>3, FrontFirst, HeadTailProperties
  <2>3. Tail(stdin) \o <<>> = Tail(stdin) /\ stdio \o stdin = stdin
    BY <1>1, <1>3, <2>2, ConcatEmptySeq
  <2>4. Len(Tail(stdin)) + Len(<<>>) = Len(stdio) + Len(stdin) - 1
    BY <1>1, <1>3, <2>2, EmptySeq, LenProperties
  <2>5. <<>> \in Seq(Bytes)
    BY EmptySeq
  <2>. QED BY <1>3, <2>1, <2>2, <2>3, <2>4, <2>5
<1>4. CASE stdio = <<>> /\ stdin = <<>>
  BY <1>4 DEF Fgetc
<1>. QED BY <1>2, <1>3, <1>4

LEMMA ShapesHold == UartSpec => []Shapes
<1>1. UartInit => Shapes
  <2>1. <<>> \in Seq(Bytes) /\ <<>> \in Seq(Bytes \cup {0})
    BY EmptySeq
  <2>. SUFFICES ASSUME UartInit PROVE Shapes
    OBVIOUS
  <2>2. /\ stdin \in Seq(Bytes) /\ stdio \in Seq(Bytes) /\ got \in Seq(Bytes \cup {0})
        /\ val \in Bytes \cup {0} /\ sent \in Nat
    BY <2>1 DEF UartInit
  <2>3. closed \in BOOLEAN /\ have \in BOOLEAN
    BY DEF UartInit
  <2>4. guest \in {"pollRx", "readRx"} /\ (guest = "readRx" <=> have)
    BY DEF UartInit
  <2>. QED BY <2>2, <2>3, <2>4 DEF Shapes
<1>2. Shapes /\ [UartNext]_uartVars => Shapes'
  <2>. SUFFICES ASSUME Shapes, [UartNext]_uartVars PROVE Shapes'
    OBVIOUS
  <2>1. ASSUME NEW b \in Bytes, Type(b) PROVE Shapes'
    BY <2>1 DEF Shapes, Type
  <2>2. CASE Close
    BY <2>2 DEF Shapes, Close
  <2>3. CASE PollHave
    BY <2>3 DEF Shapes, PollHave
  <2>4. CASE PollFetch
    <3>1. /\ Fgetc /\ have' = TRUE /\ guest' = "readRx"
          /\ closed' = closed /\ sent' = sent /\ got' = got
      BY <2>4 DEF PollFetch
    <3>2. val' \in Bytes \cup {0} /\ stdio' \in Seq(Bytes) /\ stdin' \in Seq(Bytes)
      BY <3>1, FgetcFacts, EmptySeq
    <3>. QED BY <3>1, <3>2 DEF Shapes
  <2>5. CASE PollEmpty \/ UNCHANGED uartVars
    BY <2>5 DEF Shapes, PollEmpty, uartVars
  <2>6. CASE ReadRx
    <3>. DEFINE w == IF have THEN val ELSE 0
    <3>1. w \in Bytes \cup {0}
      BY DEF Shapes
    <3>2. /\ got' = Append(got, w) /\ have' = FALSE /\ guest' = "pollRx"
          /\ UNCHANGED <<stdin, closed, stdio, val, sent>>
      BY <2>6 DEF ReadRx
    <3>. HIDE DEF w
    <3>3. got' \in Seq(Bytes \cup {0})
      BY <3>1, <3>2 DEF Shapes
    <3>. QED BY <3>2, <3>3 DEF Shapes
  <2>. QED BY <2>1, <2>2, <2>3, <2>4, <2>5, <2>6 DEF UartNext, Guest
<1>. QED BY <1>1, <1>2, PTL DEF UartSpec

\* Nothing typed is lost or repeated between the pipe, stdio, the prefetch
\* register and the guest.
LEMMA AddsUpAlways == UartSpec => []AddsUp
<1>1. UartInit => AddsUp
  BY EmptySeq DEF UartInit, AddsUp, Fetched
<1>2. Shapes /\ Shapes' /\ AddsUp /\ [UartNext]_uartVars => AddsUp'
  <2>. SUFFICES ASSUME Shapes, Shapes', AddsUp, [UartNext]_uartVars PROVE AddsUp'
    OBVIOUS
  <2>0. /\ Len(got) \in Nat /\ Len(stdin) \in Nat /\ Len(stdio) \in Nat /\ sent \in Nat
        /\ have \in BOOLEAN
        /\ Len(stdin) = 0 <=> stdin = <<>>
        /\ Len(stdio) = 0 <=> stdio = <<>>
    BY Lengths DEF Shapes
  <2>1. ASSUME NEW b \in Bytes, Type(b) PROVE AddsUp'
    <3>1. /\ ~closed /\ sent' = sent + 1 /\ Len(stdin') = Len(stdin) + 1
          /\ closed' = closed /\ stdio' = stdio /\ have' = have /\ val' = val /\ got' = got
      BY <2>1 DEF Type, Shapes
    <3>2. Len(got) <= sent /\ (have => Len(got) < sent)
      BY <2>0, <3>1 DEF AddsUp
    <3>3. /\ Len(got) + Fetched + Len(stdio) + Len(stdin) = sent
          /\ have => val \in Bytes
      BY <3>2 DEF AddsUp
    <3>4. Fetched' = Fetched /\ Fetched \in {0, 1}
      BY <2>0, <3>1, <3>2 DEF Fetched
    <3>5. Len(got') + Fetched' + Len(stdio') + Len(stdin') = sent'
      BY <2>0, <3>1, <3>3, <3>4
    <3>6. Len(got') <= sent' /\ (have' => Len(got') < sent') /\ (have' => val' \in Bytes)
      BY <2>0, <3>1, <3>2, <3>3
    <3>. QED BY <2>0, <3>1, <3>5, <3>6 DEF AddsUp
  <2>2. CASE Close
    BY <2>0, <2>2 DEF Close, AddsUp, Fetched
  <2>3. CASE PollHave
    BY <2>3 DEF PollHave, AddsUp, Fetched
  <2>4. CASE PollFetch
    <3>1. /\ ~have /\ (stdin # <<>> \/ closed) /\ Fgetc /\ have' = TRUE
          /\ closed' = closed /\ sent' = sent /\ got' = got
      BY <2>4 DEF PollFetch, Readable
    <3>2. Len(stdio') \in Nat /\ Len(stdin') \in Nat
      BY LenProperties DEF Shapes
    <3>3. CASE stdio = <<>> /\ stdin = <<>> /\ stdio' = <<>> /\ stdin' = <<>>
      BY <2>0, <3>1, <3>3 DEF AddsUp, Fetched
    <3>4. CASE /\ stdio # <<>> \/ stdin # <<>>
               /\ val' \in Bytes /\ Len(stdio') + Len(stdin') = Len(stdio) + Len(stdin) - 1
      <4>1. Len(got) < sent
        BY <2>0, <3>1, <3>4 DEF AddsUp, Fetched
      <4>. QED BY <2>0, <3>1, <3>2, <3>4, <4>1 DEF AddsUp, Fetched
    <3>. QED BY <3>1, <3>3, <3>4, FgetcFacts
  <2>5. CASE PollEmpty \/ UNCHANGED uartVars
    BY <2>5 DEF PollEmpty, uartVars, AddsUp, Fetched
  <2>6. CASE ReadRx
    <3>1. /\ have /\ have' = FALSE /\ Len(got') = Len(got) + 1
          /\ stdin' = stdin /\ closed' = closed /\ stdio' = stdio /\ sent' = sent
      BY <2>6 DEF ReadRx, Shapes
    <3>2. CASE Len(got) < sent
      BY <2>0, <3>1, <3>2 DEF AddsUp, Fetched
    <3>3. CASE Len(got) >= sent
      <4>1. closed /\ stdio = <<>> /\ stdin = <<>>
        BY <2>0, <3>1, <3>3 DEF AddsUp, Fetched
      <4>. QED BY <2>0, <3>1, <3>3, <4>1 DEF AddsUp, Fetched
    <3>. QED BY <2>0, <3>2, <3>3
  <2>. QED BY <2>1, <2>2, <2>3, <2>4, <2>5, <2>6 DEF UartNext, Guest
<1>. QED BY <1>1, <1>2, ShapesHold, PTL DEF UartSpec

\* What the end of file prefetches is 0, and is received behind all that was sent.
ZerosBehind ==
  /\ \A i \in 1..Len(got) : IF i <= sent THEN got[i] \in Bytes ELSE got[i] = 0
  /\ have /\ Len(got) >= sent => val = 0

LEMMA ZerosAlways == UartSpec => []ZerosBehind
<1>1. UartInit => ZerosBehind
  BY EmptySeq DEF UartInit, ZerosBehind
<1>2. Shapes /\ AddsUp /\ ZerosBehind /\ [UartNext]_uartVars => ZerosBehind'
  <2>. SUFFICES ASSUME Shapes, AddsUp, ZerosBehind, [UartNext]_uartVars PROVE ZerosBehind'
    OBVIOUS
  <2>0. /\ Len(got) \in Nat /\ Len(stdin) \in Nat /\ Len(stdio) \in Nat /\ sent \in Nat
        /\ Len(stdin) = 0 <=> stdin = <<>>
        /\ Len(stdio) = 0 <=> stdio = <<>>
    BY Lengths DEF Shapes
  <2>1. ASSUME NEW b \in Bytes, Type(b) PROVE ZerosBehind'
    <3>1. ~closed /\ sent' = sent + 1 /\ have' = have /\ got' = got
      BY <2>1 DEF Type
    <3>2. Len(got) <= sent /\ (have => Len(got) < sent)
      BY <2>0, <3>1 DEF AddsUp
    <3>3. ASSUME NEW i \in 1..Len(got) PROVE i <= sent /\ i <= sent'
      BY <2>0, <3>1, <3>2
    <3>4. ~(have' /\ Len(got') >= sent')
      BY <2>0, <3>1, <3>2
    <3>. QED BY <3>1, <3>3, <3>4 DEF ZerosBehind
  <2>2. CASE Close \/ PollHave \/ PollEmpty \/ UNCHANGED uartVars
    BY <2>2 DEF Close, PollHave, PollEmpty, uartVars, ZerosBehind
  <2>3. CASE PollFetch
    <3>1. ~have /\ Fgetc /\ sent' = sent /\ got' = got
      BY <2>3 DEF PollFetch
    <3>2. Len(got) >= sent => val' = 0
      <4>1. CASE stdio # <<>> \/ stdin # <<>>
        BY <2>0, <3>1, <4>1 DEF AddsUp, Fetched
      <4>2. CASE stdio = <<>> /\ stdin = <<>>
        BY <3>1, <4>2 DEF Fgetc
      <4>. QED BY <4>1, <4>2
    <3>. QED BY <3>1, <3>2 DEF ZerosBehind
  <2>4. CASE ReadRx
    <3>1. have /\ have' = FALSE /\ got' = Append(got, val) /\ sent' = sent
      BY <2>4 DEF ReadRx, Shapes
    <3>2. val \in Bytes \cup {0} /\ got \in Seq(Bytes \cup {0})
      BY DEF Shapes
    <3>3. /\ Len(got') = Len(got) + 1 /\ got'[Len(got) + 1] = val
          /\ \A i \in 1..Len(got) : got'[i] = got[i]
      BY <3>1, <3>2
    <3>4. IF Len(got) + 1 <= sent THEN val \in Bytes ELSE val = 0
      BY <2>0, <3>1 DEF AddsUp, ZerosBehind
    <3>5. ASSUME NEW i \in 1..Len(got')
          PROVE  IF i <= sent' THEN got'[i] \in Bytes ELSE got'[i] = 0
      <4>1. i \in 1..Len(got) \/ i = Len(got) + 1
        BY <2>0, <3>3
      <4>. QED BY <3>1, <3>3, <3>4, <4>1 DEF ZerosBehind
    <3>. QED BY <3>1, <3>5 DEF ZerosBehind
  <2>. QED BY <2>1, <2>2, <2>3, <2>4 DEF UartNext, Guest
<1>. QED BY <1>1, <1>2, ShapesHold, AddsUpAlways, PTL DEF UartSpec

\* While stdin is open the guest receives no word that was not typed, and once
\* it is closed nothing but zeros behind the last that was.
THEOREM OnlyTyped == UartSpec => []OnlyTypedCharacters
<1>1. Shapes /\ AddsUp /\ ZerosBehind => OnlyTypedCharacters
  <2>. SUFFICES ASSUME Shapes, AddsUp, ZerosBehind PROVE OnlyTypedCharacters
    OBVIOUS
  <2>1. Len(got) \in Nat /\ sent \in Nat
    BY Lengths DEF Shapes
  <2>. QED BY <2>1 DEF AddsUp, ZerosBehind, OnlyTypedCharacters
<1>. QED BY <1>1, ShapesHold, AddsUpAlways, ZerosAlways, PTL
-----------------------------------------------------------------------------
(* The refinement of RxLine. *)

Pending == IF have /\ Len(got) < sent THEN <<val>> ELSE <<>>
TheLine == (Pending \o stdio) \o stdin
Received == IF Len(got) <= sent THEN got ELSE SubSeq(got, 1, sent)

LEMMA PendingIs ==
  ASSUME Shapes, AddsUp
  PROVE  /\ Pending \in Seq(Bytes) /\ TheLine \in Seq(Bytes)
         /\ have /\ Len(got) < sent => val \in Bytes /\ Pending = <<val>>
         /\ ~(have /\ Len(got) < sent) => Pending = <<>> /\ TheLine = stdio \o stdin
<1>1. stdio \in Seq(Bytes) /\ stdin \in Seq(Bytes)
  BY DEF Shapes
<1>2. have /\ Len(got) < sent => val \in Bytes /\ Pending = <<val>> /\ Pending \in Seq(Bytes)
  BY DEF AddsUp, Pending
<1>3. ~(have /\ Len(got) < sent) => Pending = <<>>
  BY DEF Pending
<1>4. Pending \in Seq(Bytes)
  BY <1>2, <1>3, EmptySeq
<1>5. Pending \o stdio \in Seq(Bytes) /\ TheLine \in Seq(Bytes)
  BY <1>1, <1>4, ConcatProperties DEF TheLine
<1>6. Pending = <<>> => TheLine = stdio \o stdin
  BY <1>1, ConcatEmptySeq DEF TheLine
<1>. QED BY <1>2, <1>3, <1>4, <1>5, <1>6

\* A byte that is typed is sent; the end of file adds nothing.
LEMMA TypeSends ==
  ASSUME Shapes, AddsUp, NEW b \in Bytes, Type(b)
  PROVE  TheLine' = Append(TheLine, b) /\ Received' = Received
<1>1. /\ ~closed /\ stdin' = Append(stdin, b) /\ sent' = sent + 1
      /\ stdio' = stdio /\ have' = have /\ val' = val /\ got' = got
  BY DEF Type
<1>2. Len(got) \in Nat /\ sent \in Nat /\ have \in BOOLEAN
  BY Lengths DEF Shapes
<1>3. Len(got) <= sent /\ (have => Len(got) < sent)
  BY <1>1, <1>2 DEF AddsUp
<1>4. Pending' = Pending
  BY <1>1, <1>2, <1>3 DEF Pending
<1>5. Received' = Received
  BY <1>1, <1>2, <1>3 DEF Received
<1>6. Pending \o stdio \in Seq(Bytes) /\ stdin \in Seq(Bytes)
  BY PendingIs, ConcatProperties DEF Shapes
<1>7. TheLine' = (Pending \o stdio) \o Append(stdin, b)
  BY <1>1, <1>4 DEF TheLine
<1>. QED BY <1>5, <1>6, <1>7, AppendBehind DEF TheLine

\* fgetc moves the front of the line into the prefetch register.
LEMMA FetchMovesNothing ==
  ASSUME Shapes, AddsUp, Shapes', AddsUp', PollFetch
  PROVE  TheLine' = TheLine /\ Received' = Received
<1>1. /\ ~have /\ (stdin # <<>> \/ closed) /\ Fgetc /\ have' = TRUE
      /\ sent' = sent /\ got' = got
  BY DEF PollFetch, Readable
<1>2. Received' = Received
  BY <1>1 DEF Received
<1>3. TheLine = stdio \o stdin
  BY <1>1, PendingIs
<1>4. /\ Len(got) \in Nat /\ Len(stdin) \in Nat /\ Len(stdio) \in Nat /\ sent \in Nat
      /\ Len(stdin) = 0 <=> stdin = <<>>
      /\ Len(stdio) = 0 <=> stdio = <<>>
  BY Lengths DEF Shapes
<1>5. CASE stdio = <<>> /\ stdin = <<>> /\ stdio' = <<>> /\ stdin' = <<>>
  <2>1. Len(got) >= sent
    BY <1>1, <1>4, <1>5 DEF AddsUp, Fetched
  <2>2. Pending' = <<>>
    BY <1>1, <1>4, <2>1 DEF Pending
  <2>3. <<>> \o <<>> = <<>>
    BY EmptySeq, ConcatEmptySeq
  <2>4. TheLine' = <<>>
    BY <1>5, <2>2, <2>3 DEF TheLine
  <2>. QED BY <1>2, <1>3, <1>5, <2>3, <2>4
<1>6. CASE /\ stdio # <<>> \/ stdin # <<>>
           /\ val' \in Bytes
           /\ stdio' \in Seq(Bytes) /\ stdin' \in Seq(Bytes)
           /\ <<val'>> \o (stdio' \o stdin') = stdio \o stdin
  <2>1. Len(got) < sent
    BY <1>1, <1>4, <1>6 DEF AddsUp, Fetched
  <2>2. Pending' = <<val'>>
    BY <1>1, <2>1 DEF Pending
  <2>3. Pending' \in Seq(Bytes)
    BY <1>6, <2>2
  <2>4. (Pending' \o stdio') \o stdin' = Pending' \o (stdio' \o stdin')
    BY <1>6, <2>3, ConcatAssociative
  <2>. QED BY <1>2, <1>3, <1>6, <2>2, <2>4 DEF TheLine
<1>. QED BY <1>1, <1>5, <1>6, FgetcFacts

\* A read takes the front of the line, or a zero from behind its end.
LEMMA ReadDelivers ==
  ASSUME Shapes, AddsUp, ReadRx
  PROVE  \/ /\ TheLine # <<>> /\ Head(TheLine) # NoChar
            /\ TheLine' = Tail(TheLine) /\ Received' = Append(Received, Head(TheLine))
         \/ TheLine' = TheLine /\ Received' = Received
<1>. DEFINE w == IF have THEN val ELSE 0
<1>1. /\ have /\ have' = FALSE /\ got' = Append(got, w) /\ w = val
      /\ stdin' = stdin /\ stdio' = stdio /\ sent' = sent
  BY DEF ReadRx, Shapes
<1>2. /\ got \in Seq(Bytes \cup {0}) /\ w \in Bytes \cup {0}
      /\ Len(got) \in Nat /\ sent \in Nat
      /\ stdio \in Seq(Bytes) /\ stdin \in Seq(Bytes)
  BY Lengths DEF Shapes
<1>. HIDE DEF w
<1>3. Len(got') = Len(got) + 1
  BY <1>1, <1>2
<1>4. Pending' = <<>>
  BY <1>1 DEF Pending
<1>5. <<>> \o stdio = stdio
  BY <1>2, ConcatEmptySeq
<1>6. TheLine' = stdio \o stdin
  BY <1>1, <1>4, <1>5 DEF TheLine
<1>7. CASE Len(got) < sent
  <2>1. val \in Bytes /\ Pending = <<val>>
    BY <1>1, <1>7, PendingIs
  <2>2. /\ Pending \in Seq(Bytes) /\ Pending # <<>>
        /\ Head(Pending) = val /\ Tail(Pending) = <<>>
    BY <2>1
  <2>3. Pending \o stdio # <<>> /\ Head(Pending \o stdio) = val /\ Tail(Pending \o stdio) = <<>> \o stdio
        /\ Pending \o stdio \in Seq(Bytes)
    <3>1. /\ Pending \o stdio # <<>>
          /\ Head(Pending \o stdio) = Head(Pending)
          /\ Tail(Pending \o stdio) = Tail(Pending) \o stdio
      BY <1>2, <2>2, FrontOfConcat
    <3>2. Pending \o stdio \in Seq(Bytes)
      BY <1>2, <2>2, ConcatProperties
    <3>. QED BY <2>2, <3>1, <3>2
  <2>4. TheLine # <<>> /\ Head(TheLine) = val /\ Tail(TheLine) = stdio \o stdin
    <3>. DEFINE ps == Pending \o stdio
    <3>1. /\ ps \in Seq(Bytes) /\ ps # <<>> /\ Head(ps) = val /\ Tail(ps) = stdio
          /\ TheLine = ps \o stdin
      BY <1>5, <2>3 DEF TheLine
    <3>. HIDE DEF ps
    <3>. QED BY <1>2, <3>1, FrontOfConcat
  <2>5. val # NoChar
    BY <2>1, Sim2Assumption DEF NoChar
  <2>6. Received' = Append(Received, val)
    BY <1>1, <1>2, <1>3, <1>7 DEF Received
  <2>. QED BY <1>6, <2>4, <2>5, <2>6
<1>8. CASE ~(Len(got) < sent)
  <2>1. TheLine = stdio \o stdin
    BY <1>8, PendingIs
  <2>2. sent \in 0..Len(got)
    BY <1>2, <1>8
  <2>3. SubSeq(got', 1, sent) = SubSeq(got, 1, sent)
    BY <1>1, <1>2, <2>2, PrefixOfAppend
  <2>4. Received' = SubSeq(got, 1, sent)
    BY <1>1, <1>2, <1>3, <1>8, <2>3 DEF Received
  <2>5. Received = SubSeq(got, 1, sent)
    <3>1. CASE Len(got) = sent
      BY <1>2, <3>1, SubSeqFull DEF Received
    <3>2. CASE Len(got) # sent
      BY <1>2, <1>8, <3>2 DEF Received
    <3>. QED BY <3>1, <3>2
  <2>. QED BY <1>6, <2>1, <2>4, <2>5
<1>. QED BY <1>7, <1>8

\* The C simulator implements the line: whatever is typed, however the polls
\* and reads fall, and wherever stdin ends, no character is lost, repeated or
\* overtaken on its way through the pipe, stdio and the prefetch register.
THEOREM ImplementsLine == UartSpec => LineSafe
<1>1. UartInit => Line!Init
  <2>. SUFFICES ASSUME UartInit PROVE Line!Init
    OBVIOUS
  <2>1. Pending = <<>> /\ stdio = <<>> /\ stdin = <<>> /\ got = <<>> /\ sent = 0
    BY DEF UartInit, Pending
  <2>2. <<>> \o <<>> = <<>> /\ <<>> \in Seq(Bytes) /\ Len(<<>>) = 0
    BY EmptySeq, ConcatEmptySeq
  <2>3. TheLine = <<>> /\ Received = <<>>
    BY <2>1, <2>2 DEF TheLine, Received
  <2>4. TheLine \in Seq(Bytes) /\ Len(TheLine) <= Depth /\ Received = <<>>
    BY <2>2, <2>3, Sim2Assumption
  <2>. QED BY <2>4 DEF Line!Init, TheLine, Received, Pending
<1>2. Shapes /\ Shapes' /\ AddsUp /\ AddsUp' /\ [UartNext]_uartVars => [Line!Next]_(Line!lineVars)
  <2>. SUFFICES ASSUME Shapes, Shapes', AddsUp, AddsUp', [UartNext]_uartVars
                PROVE  [Line!Next]_(Line!lineVars)
    OBVIOUS
  <2>0. ASSUME TheLine' = TheLine, Received' = Received PROVE UNCHANGED Line!lineVars
    BY <2>0 DEF Line!lineVars, TheLine, Received, Pending
  <2>1. ASSUME NEW b \in Bytes, Type(b) PROVE Line!Next
    <3>1. Line!Send(b)
      BY <2>1, TypeSends DEF Line!Send, TheLine, Received, Pending
    <3>. QED BY <3>1 DEF Line!Next
  <2>2. CASE Close \/ PollHave \/ PollEmpty \/ UNCHANGED uartVars
    <3>1. UNCHANGED <<stdin, stdio, have, val, sent, got>>
      BY <2>2 DEF Close, PollHave, PollEmpty, uartVars
    <3>2. TheLine' = TheLine /\ Received' = Received
      BY <3>1 DEF TheLine, Received, Pending
    <3>. QED BY <2>0, <3>2
  <2>3. CASE PollFetch
    BY <2>0, <2>3, FetchMovesNothing
  <2>4. CASE ReadRx
    <3>1. CASE TheLine' = TheLine /\ Received' = Received
      BY <2>0, <3>1
    <3>2. CASE /\ TheLine # <<>> /\ Head(TheLine) # NoChar
               /\ TheLine' = Tail(TheLine) /\ Received' = Append(Received, Head(TheLine))
      <4>1. Line!Deliver
        BY <3>2 DEF Line!Deliver, TheLine, Received, Pending
      <4>. QED BY <4>1 DEF Line!Next
    <3>. QED BY <2>4, <3>1, <3>2, ReadDelivers
  <2>. QED BY <2>1, <2>2, <2>3, <2>4 DEF UartNext, Guest
<1>. QED BY <1>1, <1>2, ShapesHold, AddsUpAlways, PTL DEF UartSpec, LineSafe, Line!SafeSpec
=============================================================================
