--------------------------- MODULE EncodingProofs ---------------------------
(***************************************************************************)
(* Every word pass 2 writes means what the source says: the bits of each   *)
(* format, scattered by its packer, are gathered by the manual's decoder   *)
(* to the operation and the operands they were made of.                    *)
(***************************************************************************)
EXTENDS ChoiceProofs

-----------------------------------------------------------------------------
(***************************************************************************)
(* Numbers and their bits.                                                 *)
(***************************************************************************)
\* The powers of two, as a function the provers can look values up in.
Power == [k \in 0 .. 30 |-> 2^k]

\* The powers of two that occur.
LEMMA PowerTable ==
  /\ Power[0] = 1 /\ Power[1] = 2 /\ Power[2] = 4 /\ Power[3] = 8 /\ Power[4] = 16
  /\ Power[5] = 32 /\ Power[6] = 64 /\ Power[7] = 128 /\ Power[8] = 256 /\ Power[9] = 512
  /\ Power[10] = 1024 /\ Power[11] = 2048 /\ Power[12] = 4096 /\ Power[13] = 8192
  /\ Power[14] = 16384 /\ Power[15] = 32768 /\ Power[16] = 65536 /\ Power[17] = 131072
  /\ Power[18] = 262144 /\ Power[19] = 524288 /\ Power[20] = 1048576
  /\ Power[21] = 2097152 /\ Power[22] = 4194304 /\ Power[23] = 8388608
  /\ Power[24] = 16777216 /\ Power[25] = 33554432 /\ Power[26] = 67108864
  /\ Power[27] = 134217728 /\ Power[28] = 268435456 /\ Power[29] = 536870912
  /\ Power[30] = 1073741824
BY DEF Power

\* The powers of two double.
LEMMA Powers == \A k \in 0 .. 29 : Power[k] \in Nat \ {0} /\ Power[k + 1] = 2 * Power[k]
BY PowerTable

\* Quotient and remainder are unique.
LEMMA DivisionIs ==
  ASSUME NEW v \in Int, NEW p \in Nat \ {0}, NEW q \in Int, NEW r \in 0 .. p - 1, v = p * q + r
  PROVE  v \div p = q /\ v % p = r
OBVIOUS

\* A number is its quotient and its remainder.
LEMMA Division ==
  ASSUME NEW v \in Int, NEW p \in Nat \ {0}
  PROVE  v \div p \in Int /\ v % p \in 0 .. p - 1 /\ v = p * (v \div p) + (v % p)
OBVIOUS

\* Dividing by 2 and then by p.
LEMMA HalfDivision ==
  \A v \in Int, p \in Nat \ {0} : (v \div 2) \div p = v \div (2 * p)
OBVIOUS

\* One bit more of a remainder.
LEMMA NextRemainder ==
  \A v \in Int, p \in Nat \ {0} :
     v % (2 * p) = (v % p) + (IF (v \div p) % 2 = 1 THEN p ELSE 0)
<1> TAKE v \in Int, p \in Nat \ {0}
<1> DEFINE q == v \div p
           r == v % p
           h == q \div 2
           b == q % 2
<1>1. q \in Int /\ r \in 0 .. p - 1 /\ v = p * q + r
  BY Division
<1>2. h \in Int /\ b \in 0 .. 1 /\ q = 2 * h + b
  BY <1>1
<1> HIDE DEF q, r, h, b
<1>3. v = (2 * p) * h + (r + (IF b = 1 THEN p ELSE 0))
  <2>1. CASE b = 1
    <3>1. v = p * (2 * h + 1) + r
      BY <1>1, <1>2, <2>1
    <3> QED
      BY <1>1, <1>2, <2>1, <3>1
  <2>2. CASE b = 0
    <3>1. v = p * (2 * h) + r
      BY <1>1, <1>2, <2>2
    <3> QED
      BY <1>1, <1>2, <2>2, <3>1
  <2> QED
    BY <1>2, <2>1, <2>2
<1>4. r + (IF b = 1 THEN p ELSE 0) \in 0 .. 2 * p - 1 /\ 2 * p \in Nat \ {0}
  BY <1>1, <1>2
<1> QED
  BY <1>2, <1>3, <1>4, DivisionIs, ZenonT(60) DEF b, q, r

\* The sign bit of a number, and the number without it.
LEMMA SignBit ==
  \A p \in Nat \ {0}, v \in Int : v \in -p .. p - 1 =>
     /\ ((v \div p) % 2 = 1 <=> v < 0)
     /\ v % p = IF v < 0 THEN v + p ELSE v
OBVIOUS

\* A number below the divisor is its own remainder.
LEMMA SmallValue == \A p \in Nat \ {0}, v \in Nat : v < p => v % p = v
OBVIOUS

\* A common factor goes out of a quotient.
LEMMA Scale == \A u \in Int, c, p \in Nat \ {0} : (c * u) \div (c * p) = u \div p
OBVIOUS

\* A bit, in terms of the powers above.
LEMMA BitIs == \A v, k : k \in 0 .. 30 => (Bit(v, k) <=> (v \div Power[k]) % 2 = 1)
BY DEF Bit, Power

\* The partial sums of Unsigned.
LEMMA PartialSums ==
  ASSUME NEW S
  PROVE  \E f : /\ Manual!Unsigned(S) = f[20]
                /\ \A k \in 0 .. 20 :
                     f[k] = (IF k = 0 THEN 0 ELSE f[k - 1]) + (IF k \in S THEN Power[k] ELSE 0)
<1> DEFINE add(k, w) == IF k \in S THEN w ELSE 0
           s0 == add(0, 1)
           s1 == s0 + add(1, 2)
           s2 == s1 + add(2, 4)
           s3 == s2 + add(3, 8)
           s4 == s3 + add(4, 16)
           s5 == s4 + add(5, 32)
           s6 == s5 + add(6, 64)
           s7 == s6 + add(7, 128)
           s8 == s7 + add(8, 256)
           s9 == s8 + add(9, 512)
           s10 == s9 + add(10, 1024)
           s11 == s10 + add(11, 2048)
           s12 == s11 + add(12, 4096)
           s13 == s12 + add(13, 8192)
           s14 == s13 + add(14, 16384)
           s15 == s14 + add(15, 32768)
           s16 == s15 + add(16, 65536)
           s17 == s16 + add(17, 131072)
           s18 == s17 + add(18, 262144)
           s19 == s18 + add(19, 524288)
           s20 == s19 + add(20, 1048576)
           g == [k \in 0 .. 20 |->
                   <<s0, s1, s2, s3, s4, s5, s6, s7, s8, s9, s10, s11, s12, s13, s14, s15, s16,
                     s17, s18, s19, s20>>[k + 1]]
           eq(f) == f = [k \in 0 .. 20 |-> (IF k = 0 THEN 0 ELSE f[k - 1])
                                              + (IF k \in S THEN 2^k ELSE 0)]
<1>1. eq(g)
  OBVIOUS
<1>2. Manual!Unsigned(S) = (CHOOSE f : eq(f))[20]
  BY Zenon DEF Manual!Unsigned
<1> HIDE DEF g
<1> DEFINE h == CHOOSE f : eq(f)
<1>3. eq(h)
  <2> HIDE DEF eq
  <2> QED
    BY <1>1, Zenon
<1> HIDE DEF h
<1>4. \A k \in 0 .. 20 :
        h[k] = (IF k = 0 THEN 0 ELSE h[k - 1]) + (IF k \in S THEN 2^k ELSE 0)
  BY <1>3, Zenon
<1> QED
  <2>1. \A k \in 0 .. 20 : Power[k] = 2^k
    BY DEF Power
  <2>2. \A k \in 0 .. 20 :
          h[k] = (IF k = 0 THEN 0 ELSE h[k - 1]) + (IF k \in S THEN Power[k] ELSE 0)
    BY <1>4, <2>1
  <2> QED
    BY <1>2, <2>2, Zenon DEF h

\* What holds at 0 and goes on to the next holds at 20.
LEMMA Stepwise ==
  ASSUME NEW F, F[0], \A k \in 1 .. 20 : F[k - 1] => F[k]
  PROVE  F[20]
OBVIOUS

\* The elements of S that Unsigned looks at are the bits of v up to bit n.
BitsAre(S, v, n) == \A j \in 0 .. 20 : j \in S <=> j <= n /\ Bit(v, j)

\* The number read from n + 1 bits of v is v without the bits above.
LEMMA UnsignedReads ==
  ASSUME NEW S, NEW v \in Int, NEW n \in 0 .. 20, BitsAre(S, v, n)
  PROVE  Manual!Unsigned(S) = v % Power[n + 1]
<1>1. PICK f : /\ Manual!Unsigned(S) = f[20]
               /\ \A k \in 0 .. 20 :
                    f[k] = (IF k = 0 THEN 0 ELSE f[k - 1]) + (IF k \in S THEN Power[k] ELSE 0)
  BY PartialSums
<1> DEFINE top(k) == IF k <= n THEN k + 1 ELSE n + 1
           F == [k \in 0 .. 20 |-> f[k] = v % Power[top(k)]]
<1>0. \A k \in 0 .. 20 : F[k] <=> f[k] = v % Power[top(k)]
  BY Zenon
<1> HIDE DEF F
<1>2. \A k \in 0 .. 20 : /\ k \in S <=> k <= n /\ Bit(v, k)
                         /\ v % Power[k + 1] = (v % Power[k]) + (IF Bit(v, k) THEN Power[k] ELSE 0)
                         /\ v % Power[k] \in Int /\ v % Power[k + 1] \in Int
                         /\ Power[k] \in Nat
  <2> TAKE k \in 0 .. 20
  <2> DEFINE p == Power[k]
  <2>1. p \in Nat \ {0} /\ Power[k + 1] = 2 * p /\ 2 * p \in Nat \ {0}
    BY Powers
  <2>2. Bit(v, k) <=> (v \div p) % 2 = 1
    BY BitIs
  <2>3. k \in S <=> k <= n /\ Bit(v, k)
    BY DEF BitsAre
  <2> HIDE DEF p
  <2>4. v % (2 * p) = (v % p) + (IF (v \div p) % 2 = 1 THEN p ELSE 0)
    BY <2>1, NextRemainder
  <2>5. v % p \in Int /\ v % (2 * p) \in Int
    BY <2>1, Division
  <2>6. v % (2 * p) = (v % p) + (IF Bit(v, k) THEN p ELSE 0)
    BY <2>2, <2>4
  <2> QED
    BY <2>1, <2>3, <2>5, <2>6, Zenon DEF p
<1>3. F[0]
  <2>1. v % Power[0] = 0
    <3>1. Power[0] = 1
      BY DEF Power
    <3> QED
      BY <3>1
  <2>2. f[0] = v % Power[1]
    BY <1>1, <1>2, <2>1
  <2>3. top(0) = 1
    OBVIOUS
  <2> QED
    BY <1>0, <2>2, <2>3
<1>4. ASSUME NEW k \in 1 .. 20, F[k - 1]
      PROVE  F[k]
  <2>1. f[k - 1] = v % Power[top(k - 1)]
    BY <1>0, <1>4
  <2>2. f[k] = f[k - 1] + (IF k \in S THEN Power[k] ELSE 0)
    BY <1>1
  <2>3. CASE k <= n
    <3>1. top(k - 1) = k /\ top(k) = k + 1
      BY <2>3
    <3>2. k \in S <=> Bit(v, k)
      BY <1>2, <2>3
    <3>3. f[k] = v % Power[k + 1]
      BY <1>2, <2>1, <2>2, <3>1, <3>2
    <3> QED
      BY <1>0, <3>1, <3>3
  <2>4. CASE ~(k <= n)
    <3>1. top(k - 1) = n + 1 /\ top(k) = n + 1
      BY <2>4
    <3>2. k \notin S
      BY <1>2, <2>4
    <3>3. f[k] = v % Power[n + 1]
      BY <1>2, <2>1, <2>2, <3>1, <3>2
    <3> QED
      BY <1>0, <3>1, <3>3
  <2> QED
    BY <2>3, <2>4
<1>5. F[20]
  BY <1>3, <1>4, Stepwise
<1>6. top(20) = n + 1
  OBVIOUS
<1> QED
  BY <1>0, <1>1, <1>5, <1>6

\* A number of n + 1 bits is read back from its bits.
LEMMA UnsignedIs ==
  ASSUME NEW S, NEW n \in 0 .. 20, NEW v \in 0 .. Power[n + 1] - 1, BitsAre(S, v, n)
  PROVE  Manual!Unsigned(S) = v
<1>1. Power[n + 1] \in Nat \ {0}
  BY Powers
<1> QED
  BY <1>1, UnsignedReads, SmallValue

\* A number of n bits and a sign is read back from its bits.
LEMMA SignedIs ==
  ASSUME NEW S, NEW n \in 1 .. 20, NEW v \in Int, -Power[n] <= v, v < Power[n],
         BitsAre(S, v, n)
  PROVE  Manual!Signed(S, n) = v
<1>1. Power[n] \in Nat \ {0} /\ 2^n = Power[n]
  BY Powers DEF Power
<1>2. n \in S <=> v < 0
  <2>1. n \in S <=> Bit(v, n)
    BY DEF BitsAre
  <2>2. Bit(v, n) <=> (v \div Power[n]) % 2 = 1
    BY BitIs
  <2> QED
    BY <1>1, <2>1, <2>2, SignBit
<1>3. Manual!Unsigned(S \ {n}) = IF v < 0 THEN v + Power[n] ELSE v
  <2>1. BitsAre(S \ {n}, v, n - 1) /\ n - 1 \in 0 .. 20 /\ n - 1 + 1 = n
    BY DEF BitsAre
  <2>2. v \in Int /\ v % Power[n] = IF v < 0 THEN v + Power[n] ELSE v
    BY <1>1, SignBit
  <2> QED
    BY <2>1, <2>2, UnsignedReads
<1> QED
  BY <1>1, <1>2, <1>3 DEF Manual!Signed

-----------------------------------------------------------------------------
(***************************************************************************)
(* Words of 32 bits.                                                       *)
(***************************************************************************)

\* Bits lo to hi of w are the bits of v from bit from on.
Has(w, hi, lo, v, from) == \A k \in lo .. hi : k \in w <=> Bit(v, from + k - lo)

\* A field that was given v reads as v without the bits it has no room for.
LEMMA NumReads ==
  ASSUME NEW w, NEW lo \in Nat, NEW hi \in Nat, hi - lo \in 0 .. 20, NEW v \in Int,
         Has(w, hi, lo, v, 0)
  PROVE  Manual!Num(w, hi, lo) = v % Power[hi - lo + 1]
<1> DEFINE S == {k - lo : k \in w \cap (lo .. hi)}
<1>1. BitsAre(S, v, hi - lo)
  <2> SUFFICES ASSUME NEW j \in 0 .. 20
               PROVE  j \in S <=> j <= hi - lo /\ Bit(v, j)
    BY DEF BitsAre
  <2>1. ASSUME j \in S
        PROVE  j <= hi - lo /\ Bit(v, j)
    <3>1. PICK k \in w \cap (lo .. hi) : j = k - lo
      BY <2>1
    <3>2. Bit(v, 0 + k - lo) /\ 0 + k - lo = j
      BY <3>1 DEF Has
    <3> QED
      BY <3>1, <3>2
  <2>2. ASSUME j <= hi - lo, Bit(v, j)
        PROVE  j \in S
    <3>1. j + lo \in lo .. hi /\ 0 + (j + lo) - lo = j
      BY <2>2
    <3>2. j + lo \in w
      BY <2>2, <3>1 DEF Has
    <3> QED
      BY <3>1, <3>2
  <2> QED
    BY <2>1, <2>2
<1> HIDE DEF S
<1>2. Manual!Unsigned(S) = v % Power[hi - lo + 1]
  BY <1>1, UnsignedReads
<1> QED
  BY <1>2 DEF Manual!Num, S

\* A field that was given a number it has room for reads as that number.
LEMMA NumIs ==
  ASSUME NEW w, NEW lo \in Nat, NEW hi \in Nat, hi - lo \in 0 .. 20,
         NEW v \in 0 .. Power[hi - lo + 1] - 1, Has(w, hi, lo, v, 0)
  PROVE  Manual!Num(w, hi, lo) = v
<1>1. Power[hi - lo + 1] \in Nat \ {0}
  BY Powers
<1>2. v \in Nat /\ v < Power[hi - lo + 1]
  BY <1>1
<1> QED
  BY <1>1, <1>2, NumReads, SmallValue

\* The sizes of the fields.
LEMMA PowerValues ==
  /\ Power[1] = 2 /\ Power[2] = 4 /\ Power[3] = 8 /\ Power[4] = 16 /\ Power[5] = 32
  /\ Power[6] = 64 /\ Power[7] = 128 /\ Power[8] = 256 /\ Power[11] = 2048
  /\ Power[12] = 4096 /\ Power[19] = 524288 /\ Power[20] = 1048576
BY DEF Power

\* What the fields of an IF_R word were given.
LEMMA RFields ==
  ASSUME NEW x
  PROVE  LET w == rtype_word(x)
         IN /\ Has(w, 6, 0, opcode(x), 0) /\ Has(w, 11, 7, x.rd, 0)
            /\ Has(w, 14, 12, funct3(x.op), 0)
            /\ Has(w, 19, 15, x.rs1, 0) /\ Has(w, 24, 20, x.rs2, 0)
            /\ Has(w, 31, 25, funct7(x.op), 0)
BY DEF rtype_word, Major, Field, put, Has

\* The bits a row of a format table collects.
LEMMA GatherIs ==
  ASSUME NEW w, NEW hi, NEW row, NEW j
  PROVE  j \in Manual!Gather(w, hi, row) <=> \E m \in DOMAIN row : hi + 1 - m \in w /\ row[m] = j
BY DEF Manual!Gather

\* The manual's row for IF_I collects the bits of the immediate.
LEMMA ImmIHolds ==
  ASSUME NEW w, NEW v, Has(w, 31, 20, v, 0)
  PROVE  BitsAre(Manual!Gather(w, 31, <<11, 10, 9, 8, 7, 6, 5, 4, 3, 2, 1, 0>>), v, 11)
<1> DEFINE row == <<11, 10, 9, 8, 7, 6, 5, 4, 3, 2, 1, 0>>
<1>1. DOMAIN row = 1 .. 12 /\ \A m \in 1 .. 12 : row[m] = 12 - m
  OBVIOUS
<1> HIDE DEF row
<1>2. BitsAre(Manual!Gather(w, 31, row), v, 11)
  BY <1>1, GatherIs DEF BitsAre, Has
<1> QED
  BY <1>2 DEF row

\* So do those for IF_S.
LEMMA ImmSHolds ==
  ASSUME NEW w, NEW v, Has(w, 31, 25, v, 5), Has(w, 11, 7, v, 0)
  PROVE  BitsAre(Manual!Gather(w, 31, <<11, 10, 9, 8, 7, 6, 5>>)
                 \cup Manual!Gather(w, 11, <<4, 3, 2, 1, 0>>), v, 11)
<1> DEFINE hi == <<11, 10, 9, 8, 7, 6, 5>>
           lo == <<4, 3, 2, 1, 0>>
<1>1. /\ DOMAIN hi = 1 .. 7 /\ \A m \in 1 .. 7 : hi[m] = 12 - m
      /\ DOMAIN lo = 1 .. 5 /\ \A m \in 1 .. 5 : lo[m] = 5 - m
  OBVIOUS
<1> HIDE DEF hi, lo
<1>2. BitsAre(Manual!Gather(w, 31, hi) \cup Manual!Gather(w, 11, lo), v, 11)
  BY <1>1, GatherIs DEF BitsAre, Has
<1> QED
  BY <1>2 DEF hi, lo

\* Those for IF_J and IF_B collect the bits of an offset that was halved.
LEMMA ImmJHolds ==
  ASSUME NEW w, NEW h, Has(w, 31, 31, h, 19), Has(w, 30, 21, h, 0), Has(w, 20, 20, h, 10),
         Has(w, 19, 12, h, 11)
  PROVE  \A j \in 0 .. 20 :
           j \in Manual!Gather(w, 31, <<20, 10, 9, 8, 7, 6, 5, 4, 3, 2, 1, 11,
                                  19, 18, 17, 16, 15, 14, 13, 12>>) <=> j > 0 /\ Bit(h, j - 1)
<1> DEFINE row == <<20, 10, 9, 8, 7, 6, 5, 4, 3, 2, 1, 11, 19, 18, 17, 16, 15, 14, 13, 12>>
<1>1. /\ DOMAIN row = 1 .. 20 /\ row[1] = 20 /\ row[12] = 11
      /\ \A m \in 2 .. 11 : row[m] = 12 - m
      /\ \A m \in 13 .. 20 : row[m] = 32 - m
  OBVIOUS
<1> HIDE DEF row
<1>2. \A j \in 0 .. 20 : j \in Manual!Gather(w, 31, row) <=> j > 0 /\ Bit(h, j - 1)
  BY <1>1, GatherIs DEF Has
<1> QED
  BY <1>2 DEF row

\* The operands a production builds, once its label is resolved.
Formed(x) ==
  /\ x \in Operands /\ x.op \in OpsOf(x.fmt)
  /\ x.fmt \in NoRd => x.rd = 0
  /\ x.fmt \in NoRs1 => x.rs1 = 0
  /\ x.fmt \notin HasRs2 => x.rs2 = 0
  /\ x.fmt \in NoImm => x.imm = 0
  /\ x.op \in {"OP_ECALL", "OP_EBREAK"} => x.rd = 0 /\ x.rs1 = 0 /\ x.imm = 0

\* The fields of a word read as what they were given.
LEMMA FieldReads ==
  ASSUME NEW w
  PROVE  /\ \A v \in 0 .. 127 : Has(w, 6, 0, v, 0) => Manual!Major(w) = v
                                          /\ Manual!Quadrant(w) = v % 4
         /\ \A v \in 0 .. 127 : Has(w, 31, 25, v, 0) => Manual!Funct7(w) = v
         /\ \A v \in 0 .. 7 : Has(w, 14, 12, v, 0) => Manual!Funct3(w) = v
         /\ \A v \in Registers : Has(w, 11, 7, v, 0) => Manual!Rd(w) = v
         /\ \A v \in Registers : Has(w, 19, 15, v, 0) => Manual!Rs1(w) = v
         /\ \A v \in Registers : Has(w, 24, 20, v, 0) => Manual!Rs2(w) = v
<1> USE PowerValues
<1>1. ASSUME NEW v \in 0 .. 127, Has(w, 6, 0, v, 0)
      PROVE  Manual!Major(w) = v /\ Manual!Quadrant(w) = v % 4
  <2>1. Manual!Num(w, 6, 0) = v
    BY <1>1, NumIs
  <2>2. Has(w, 1, 0, v, 0)
    BY <1>1 DEF Has
  <2>3. Manual!Num(w, 1, 0) = v % 4
    BY <2>2, NumReads
  <2> QED
    BY <2>1, <2>3 DEF Manual!Major, Manual!Quadrant
<1>2. ASSUME NEW v \in 0 .. 127, Has(w, 31, 25, v, 0)
      PROVE  Manual!Funct7(w) = v
  BY <1>2, NumIs DEF Manual!Funct7
<1>3. ASSUME NEW v \in 0 .. 7, Has(w, 14, 12, v, 0)
      PROVE  Manual!Funct3(w) = v
  BY <1>3, NumIs DEF Manual!Funct3
<1>4. ASSUME NEW v \in Registers, Has(w, 11, 7, v, 0)
      PROVE  Manual!Rd(w) = v
  BY <1>4, NumIs DEF Manual!Rd, Registers
<1>5. ASSUME NEW v \in Registers, Has(w, 19, 15, v, 0)
      PROVE  Manual!Rs1(w) = v
  BY <1>5, NumIs DEF Manual!Rs1, Registers
<1>6. ASSUME NEW v \in Registers, Has(w, 24, 20, v, 0)
      PROVE  Manual!Rs2(w) = v
  BY <1>6, NumIs DEF Manual!Rs2, Registers
<1> QED
  BY <1>1, <1>2, <1>3, <1>4, <1>5, <1>6

\* The values of opcode, funct3 and funct7 fit their fields.
LEMMA Tags ==
  ASSUME NEW x, x.fmt \in WideFormats, x.op \in OpsOf(x.fmt)
  PROVE  /\ opcode(x) \in {3, 19, 23, 27, 35, 51, 55, 59, 99, 103, 111, 115}
         /\ funct3(x.op) \in 0 .. 7 /\ funct7(x.op) \in {0, 1, 32}
BY SMTT(60) DEF WideFormats, OpsOf, opcode, funct3, funct7, RegW, OpsM64, Loads, ImmW,
   OpImm, Shifts

\* The manual's tables name the operation that has these tags: IF_R.
LEMMA RTable ==
  ASSUME NEW x, x.fmt = "IF_R", x.op \in OpsOf("IF_R")
  PROVE  LET f3 == funct3(x.op)
             f7 == funct7(x.op)
         IN \/ opcode(x) = 51 /\ f7 = 0 /\ Manual!Reg[f3 + 1] = x.op
            \/ opcode(x) = 51 /\ f7 = 1 /\ Manual!MulDiv[f3 + 1] = x.op
            \/ opcode(x) = 51 /\ f7 = 32 /\ f3 = 0 /\ x.op = "OP_SUB"
            \/ opcode(x) = 51 /\ f7 = 32 /\ f3 = 5 /\ x.op = "OP_SRA"
            \/ opcode(x) = 59 /\ f7 = 0 /\ Manual!RegWord[f3 + 1] = x.op
            \/ opcode(x) = 59 /\ f7 = 1 /\ Manual!MulDivWord[f3 + 1] = x.op
            \/ opcode(x) = 59 /\ f7 = 32 /\ f3 = 0 /\ x.op = "OP_SUBW"
            \/ opcode(x) = 59 /\ f7 = 32 /\ f3 = 5 /\ x.op = "OP_SRAW"
<1> USE DEF opcode, funct3, funct7, RegW, OpsM64, OpsM, Loads, ImmW, OpImm, Shifts,
            Manual!Reg, Manual!MulDiv, Manual!RegWord, Manual!MulDivWord
<1>1. CASE x.op \in {"OP_ADD", "OP_SLL", "OP_SLT", "OP_SLTU", "OP_XOR", "OP_SRL", "OP_OR", "OP_AND"}
  BY <1>1
<1>2. CASE x.op \in OpsM
  BY <1>2
<1>3. CASE x.op \in {"OP_SUB", "OP_SRA"}
  BY <1>3
<1>4. CASE x.op \in {"OP_ADDW", "OP_SLLW", "OP_SRLW"}
  BY <1>4
<1>5. CASE x.op \in OpsM64
  BY <1>5
<1>6. CASE x.op \in {"OP_SUBW", "OP_SRAW"}
  BY <1>6
<1> QED
  BY <1>1, <1>2, <1>3, <1>4, <1>5, <1>6, ZenonT(60) DEF OpsOf

\* How the manual decodes a word of the format IF_R.
LEMMA RDecodes ==
  ASSUME NEW w, NEW xlen, NEW x, x.fmt = "IF_R", x.op \in OpsOf("IF_R"),
         Manual!Major(w) = opcode(x), Manual!Funct3(w) = funct3(x.op),
         Manual!Funct7(w) = funct7(x.op)
  PROVE  Manual!Decode32(w, xlen) = Manual!Wide(x.op, Manual!Rd(w), Manual!Rs1(w), Manual!Rs2(w), 0)
BY RTable, SMTT(60) DEF Manual!Decode32

\* Register operations.
LEMMA RWord ==
  ASSUME NEW c, NEW x, Formed(x), x.fmt = "IF_R"
  PROVE  Manual!Decode(InstrBits(c, x), c.xlen) = Manual!Wide(x.op, x.rd, x.rs1, x.rs2, x.imm)
<1> DEFINE w == rtype_word(x)
<1>1. InstrBits(c, x) = w
  BY DEF InstrBits, is_c_fmt, CFormats, Word32
<1>2. /\ x.op \in OpsOf("IF_R") /\ x.imm = 0
      /\ x.rd \in Registers /\ x.rs1 \in Registers /\ x.rs2 \in Registers
  BY DEF Formed, NoImm, Operands
<1>3. opcode(x) \in {51, 59} /\ funct3(x.op) \in 0 .. 7 /\ funct7(x.op) \in 0 .. 127
  BY <1>2, Tags, RTable DEF WideFormats
<1>4. /\ Manual!Major(w) = opcode(x) /\ Manual!Quadrant(w) = 3 /\ Manual!Funct3(w) = funct3(x.op)
      /\ Manual!Funct7(w) = funct7(x.op) /\ Manual!Rd(w) = x.rd /\ Manual!Rs1(w) = x.rs1
      /\ Manual!Rs2(w) = x.rs2
  BY <1>2, <1>3, RFields, FieldReads, SMTT(60)
<1> HIDE DEF w
<1> QED
  BY <1>1, <1>2, <1>4, RDecodes DEF Manual!Decode

\* The same for IF_I.
LEMMA ITable ==
  ASSUME NEW x, x.fmt = "IF_I", x.op \in OpsOf("IF_I")
  PROVE  LET f3 == funct3(x.op)
             f7 == funct7(x.op)
         IN \/ x.op \in {"OP_ECALL", "OP_EBREAK"} /\ opcode(x) = 115 /\ f3 = 0
            \/ x.op = "OP_SLLI" /\ opcode(x) = 19 /\ f3 = 1 /\ f7 = 0
            \/ x.op = "OP_SRLI" /\ opcode(x) = 19 /\ f3 = 5 /\ f7 = 0
            \/ x.op = "OP_SRAI" /\ opcode(x) = 19 /\ f3 = 5 /\ f7 = 32
            \/ x.op = "OP_SLLIW" /\ opcode(x) = 27 /\ f3 = 1 /\ f7 = 0
            \/ x.op = "OP_SRLIW" /\ opcode(x) = 27 /\ f3 = 5 /\ f7 = 0
            \/ x.op = "OP_SRAIW" /\ opcode(x) = 27 /\ f3 = 5 /\ f7 = 32
            \/ x.op = "OP_ADDIW" /\ opcode(x) = 27 /\ f3 = 0
            \/ x.op = "OP_JALR" /\ opcode(x) = 103 /\ f3 = 0
            \/ /\ x.op \in {"OP_ADDI", "OP_SLTI", "OP_SLTIU", "OP_XORI", "OP_ORI", "OP_ANDI"}
               /\ opcode(x) = 19 /\ f3 \notin {1, 5} /\ Manual!RegImm[f3 + 1] = x.op
            \/ x.op \in Loads /\ opcode(x) = 3 /\ Manual!Load[f3 + 1] = x.op
<1> USE DEF opcode, funct3, funct7, RegW, OpsM64, OpsM, Loads, ImmW, OpImm, Shifts
<1>1. CASE x.op \in Shifts
  BY <1>1
<1>2. CASE x.op \in ImmW
  BY <1>2
<1>3. CASE x.op \in {"OP_ADDI", "OP_SLTI", "OP_SLTIU", "OP_XORI", "OP_ORI", "OP_ANDI"}
  BY <1>3 DEF Manual!RegImm
<1>4. CASE x.op \in Loads
  BY <1>4 DEF Manual!Load
<1>5. CASE x.op \in {"OP_ECALL", "OP_EBREAK", "OP_JALR"}
  BY <1>5, SMTT(60)
<1> QED
  BY <1>1, <1>2, <1>3, <1>4, <1>5, ZenonT(60) DEF OpsOf

\* What the fields of an IF_I word were given.
LEMMA IFields ==
  ASSUME NEW c, NEW x
  PROVE  LET w == itype_word(c, x)
             fixed == x.op \in {"OP_EBREAK", "OP_ECALL"}
             long == x.op \in Shifts /\ c.xlen = 64
             short == x.op \in Shifts \cup ShiftsW /\ ~long
         IN /\ Has(w, 6, 0, opcode(x), 0) /\ Has(w, 14, 12, funct3(x.op), 0)
            /\ ~fixed => Has(w, 11, 7, x.rd, 0) /\ Has(w, 19, 15, x.rs1, 0)
            /\ ~fixed /\ long =>
                 /\ Has(w, 31, 26, IF x.op = "OP_SRAI" THEN 16 ELSE funct7(x.op), 0)
                 /\ Has(w, 25, 20, x.imm, 0)
            /\ ~fixed /\ short => Has(w, 31, 25, funct7(x.op), 0) /\ Has(w, 24, 20, x.imm, 0)
            /\ ~fixed /\ ~long /\ ~short => Has(w, 31, 20, x.imm, 0)
<1> USE DEF itype_word, Major, Field, put, Has
<1>1. CASE x.op \in {"OP_EBREAK", "OP_ECALL"}
  BY <1>1
<1>2. CASE x.op \notin {"OP_EBREAK", "OP_ECALL"} /\ x.op \in Shifts /\ c.xlen = 64
  BY <1>2
<1>3. CASE x.op \notin {"OP_EBREAK", "OP_ECALL"} /\ ~(x.op \in Shifts /\ c.xlen = 64)
  BY <1>3
<1> QED
  BY <1>1, <1>2, <1>3

\* The immediate of 12 bits.
LEMMA ImmIReads ==
  ASSUME NEW w, NEW v \in Int, -2048 <= v, v < 2048, Has(w, 31, 20, v, 0)
  PROVE  Manual!ImmI(w) = v
BY PowerValues, ImmIHolds, SignedIs DEF Manual!ImmI

\* The two words without operands.
LEMMA SystemWords ==
  ASSUME NEW c, NEW x, x.op \in {"OP_EBREAK", "OP_ECALL"}, opcode(x) = 115, funct3(x.op) = 0
  PROVE  itype_word(c, x) = {0, 1, 4, 5, 6} \cup (IF x.op = "OP_EBREAK" THEN {20} ELSE {})
<1>1. \A k \in Int : /\ k \in Field(6, 0, 115) <=> k \in {0, 1, 4, 5, 6}
                     /\ k \notin Field(14, 12, 0) 
                     /\ k \notin Field(31, 20, 0)
                     /\ k \in Field(31, 20, 1) <=> k = 20
  <2>1. /\ Bit(115, 0) /\ Bit(115, 1) /\ ~Bit(115, 2) /\ ~Bit(115, 3) /\ Bit(115, 4) /\ Bit(115, 5)
        /\ Bit(115, 6)
    BY DEF Bit
  <2>2. \A k \in 0 .. 11 : ~Bit(0, k) /\ (Bit(1, k) <=> k = 0)
    <3>1. \A p \in Nat \ {0} : (0 \div p) % 2 = 0 /\ ((1 \div p) % 2 = 1 <=> p = 1)
      OBVIOUS
    <3>2. \A k \in 0 .. 11 : Power[k] \in Nat \ {0} /\ (Power[k] = 1 <=> k = 0)
      <4>1. Power[0] = 1
        BY DEF Power
      <4>2. \A k \in 1 .. 11 : Power[k - 1] \in Nat \ {0} /\ Power[k] = 2 * Power[k - 1]
        BY Powers
      <4>4. \A p \in Nat \ {0} : 2 * p \in Nat \ {0} /\ 2 * p # 1
        OBVIOUS
      <4>5. \A k \in 1 .. 11 : Power[k] \in Nat \ {0} /\ Power[k] # 1
        <5> TAKE k \in 1 .. 11
        <5> QED
          <6>1. Power[k - 1] \in Nat \ {0} /\ Power[k] = 2 * Power[k - 1]
            BY <4>2
          <6> QED
            BY <4>4, <6>1
      <4> QED
        BY <4>1, <4>5
    <3> QED
      BY <3>1, <3>2, BitIs
  <2> QED
    BY <2>1, <2>2 DEF Field, put
<1> QED
  BY <1>1 DEF itype_word, Major, Field, put

\* How the manual decodes a word of this format.
LEMMA IDecodes ==
  ASSUME NEW w, NEW xlen, NEW x, x.fmt = "IF_I", x.op \in OpsOf("IF_I"),
         Manual!Major(w) = opcode(x), Manual!Funct3(w) = funct3(x.op)
  PROVE  LET rd == Manual!Rd(w)
             rs1 == Manual!Rs1(w)
         IN /\ x.op \in Shifts /\ Manual!ShiftFunct(w, xlen) = funct7(x.op) =>
                 Manual!Decode32(w, xlen) = Manual!Wide(x.op, rd, rs1, 0, Manual!Shamt(w, xlen))
            /\ x.op \in ShiftsW /\ Manual!Funct7(w) = funct7(x.op) =>
                 Manual!Decode32(w, xlen) = Manual!Wide(x.op, rd, rs1, 0, Manual!Rs2(w))
            /\ x.op \notin Shifts \cup ShiftsW \cup {"OP_ECALL", "OP_EBREAK"} =>
                 Manual!Decode32(w, xlen) = Manual!Wide(x.op, rd, rs1, 0, Manual!ImmI(w))
            /\ x.op \in {"OP_ECALL", "OP_EBREAK"}
                 /\ w = {0, 1, 4, 5, 6} \cup (IF x.op = "OP_EBREAK" THEN {20} ELSE {}) =>
                 Manual!Decode32(w, xlen) = Manual!Wide(x.op, 0, 0, 0, 0)
<1>1. ASSUME x.op \in Shifts, Manual!ShiftFunct(w, xlen) = funct7(x.op)
      PROVE  Manual!Decode32(w, xlen)
               = Manual!Wide(x.op, Manual!Rd(w), Manual!Rs1(w), 0, Manual!Shamt(w, xlen))
  <2>1. Manual!RegImm[2] = "OP_SLLI" /\ Manual!RegImm[6] = "OP_SRLI"
    BY DEF Manual!RegImm
  <2> QED
    BY <1>1, <2>1, ITable DEF Shifts, Loads, Manual!Decode32
<1>2. ASSUME x.op \in ShiftsW, Manual!Funct7(w) = funct7(x.op)
      PROVE  Manual!Decode32(w, xlen)
               = Manual!Wide(x.op, Manual!Rd(w), Manual!Rs1(w), 0, Manual!Rs2(w))
  BY <1>2, ITable DEF ShiftsW, Loads, Manual!Decode32
<1>3. ASSUME x.op \notin Shifts \cup ShiftsW \cup {"OP_ECALL", "OP_EBREAK"}
      PROVE  Manual!Decode32(w, xlen)
               = Manual!Wide(x.op, Manual!Rd(w), Manual!Rs1(w), 0, Manual!ImmI(w))
  BY <1>3, ITable DEF Shifts, ShiftsW, Manual!Decode32
<1>4. ASSUME x.op \in {"OP_ECALL", "OP_EBREAK"},
             w = {0, 1, 4, 5, 6} \cup (IF x.op = "OP_EBREAK" THEN {20} ELSE {})
      PROVE  Manual!Decode32(w, xlen) = Manual!Wide(x.op, 0, 0, 0, 0)
  <2>1. opcode(x) = 115
    BY <1>4, ITable DEF Loads
  <2>2. x.op = "OP_ECALL" <=> w = {0, 1, 4, 5, 6}
    BY <1>4
  <2>3. x.op = "OP_EBREAK" <=> w = {0, 1, 4, 5, 6, 20}
    BY <1>4
  <2> QED
    BY <1>4, <2>1, <2>2, <2>3 DEF Manual!Decode32
<1> QED
  BY <1>1, <1>2, <1>3, <1>4

\* Operations with an immediate, shifts and loads.
LEMMA IWord ==
  ASSUME NEW c, c.xlen \in {32, 64}, NEW x, Formed(x), x.fmt = "IF_I", encode_itype(c, x)
  PROVE  Manual!Decode(InstrBits(c, x), c.xlen) = Manual!Wide(x.op, x.rd, x.rs1, x.rs2, x.imm)
<1> DEFINE w == itype_word(c, x)
<1>1. InstrBits(c, x) = w
  BY DEF InstrBits, is_c_fmt, CFormats, Word32
<1>2. /\ x.op \in OpsOf("IF_I") /\ x.imm \in Int /\ x.rd \in Registers /\ x.rs1 \in Registers
      /\ x.rs2 = 0
      /\ x.op \in {"OP_ECALL", "OP_EBREAK"} => x.rd = 0 /\ x.rs1 = 0 /\ x.imm = 0
  BY DEF Formed, HasRs2, Operands
<1>3. opcode(x) \in {3, 19, 27, 103, 115} /\ funct3(x.op) \in 0 .. 7 /\ funct7(x.op) \in {0, 1, 32}
  BY <1>2, Tags, ITable DEF WideFormats
<1>4. /\ Manual!Major(w) = opcode(x) /\ Manual!Quadrant(w) = 3 /\ Manual!Funct3(w) = funct3(x.op)
      /\ x.op \notin {"OP_ECALL", "OP_EBREAK"} => Manual!Rd(w) = x.rd /\ Manual!Rs1(w) = x.rs1
  BY <1>2, <1>3, IFields, FieldReads
<1>5. CASE x.op \in {"OP_ECALL", "OP_EBREAK"}
  <2>1. opcode(x) = 115 /\ funct3(x.op) = 0
    BY <1>2, <1>5, ITable DEF Loads
  <2>2. w = {0, 1, 4, 5, 6} \cup (IF x.op = "OP_EBREAK" THEN {20} ELSE {})
    BY <1>5, <2>1, SystemWords
  <2> HIDE DEF w
  <2> QED
    BY <1>1, <1>2, <1>4, <1>5, <2>2, IDecodes DEF Manual!Decode
<1>6. CASE x.op \in Shifts /\ c.xlen = 64
  <2>1. x.op \notin {"OP_EBREAK", "OP_ECALL"} /\ x.imm \in 0 .. 63
        /\ x.op \in {"OP_SLLI", "OP_SRLI", "OP_SRAI"}
    BY <1>6 DEF Shifts, encode_itype, Shamt
  <2>2. /\ Has(w, 31, 26, IF x.op = "OP_SRAI" THEN 16 ELSE funct7(x.op), 0)
        /\ Has(w, 25, 20, x.imm, 0)
    BY <1>6, <2>1, IFields
  <2>3. funct7(x.op) = IF x.op = "OP_SRAI" THEN 32 ELSE 0
    BY <2>1, <1>2, ITable DEF Loads
  <2> HIDE DEF w
  <2>4. Manual!Shamt(w, c.xlen) = x.imm
    BY <1>6, <2>1, <2>2, NumIs, PowerValues DEF Manual!Shamt
  <2>5. Manual!Num(w, 31, 26) = IF x.op = "OP_SRAI" THEN 16 ELSE 0
    BY <2>2, <2>3, NumIs, PowerValues
  <2>6. Manual!ShiftFunct(w, c.xlen) = funct7(x.op)
    BY <1>6, <2>3, <2>5 DEF Manual!ShiftFunct
  <2> QED
    BY <1>1, <1>2, <1>4, <1>6, <2>1, <2>4, <2>6, IDecodes DEF Manual!Decode
<1>7. CASE x.op \in Shifts \cup ShiftsW /\ ~(x.op \in Shifts /\ c.xlen = 64)
  <2>1. x.op \notin {"OP_EBREAK", "OP_ECALL"} /\ x.imm \in 0 .. 31
        /\ (x.op \in Shifts => x.op \notin ShiftsW)
    BY <1>7 DEF Shifts, ShiftsW, encode_itype, Shamt
  <2>2. Has(w, 31, 25, funct7(x.op), 0) /\ Has(w, 24, 20, x.imm, 0)
    BY <1>7, <2>1, IFields
  <2> HIDE DEF w
  <2>3. Manual!Rs2(w) = x.imm /\ Manual!Funct7(w) = funct7(x.op)
    BY <1>3, <2>1, <2>2, FieldReads DEF Registers
  <2>4. x.op \in Shifts => Manual!Shamt(w, c.xlen) = x.imm
                           /\ Manual!ShiftFunct(w, c.xlen) = funct7(x.op)
    BY <1>7, <2>3 DEF Manual!Shamt, Manual!ShiftFunct
  <2> QED
    BY <1>1, <1>2, <1>4, <1>7, <2>1, <2>3, <2>4, IDecodes DEF Manual!Decode
<1>8. CASE x.op \notin Shifts \cup ShiftsW \cup {"OP_ECALL", "OP_EBREAK"}
  <2>1. -2048 <= x.imm /\ x.imm < 2048
    <3> DEFINE range == -2048 .. 2047
    <3>1. x.imm \in range
      BY <1>8 DEF encode_itype
    <3>2. \A v \in range : -2048 <= v /\ v < 2048
      OBVIOUS
    <3> HIDE DEF range
    <3> QED
      BY <3>1, <3>2
  <2>2. Has(w, 31, 20, x.imm, 0)
    BY <1>8, IFields
  <2> HIDE DEF w
  <2>3. Manual!ImmI(w) = x.imm
    BY <1>2, <2>1, <2>2, ImmIReads
  <2> QED
    BY <1>1, <1>2, <1>4, <1>8, <2>3, IDecodes DEF Manual!Decode
<1> QED
  BY <1>5, <1>6, <1>7, <1>8

\* The stores.
LEMMA SWord ==
  ASSUME NEW c, NEW x, Formed(x), x.fmt = "IF_S", encode_stype(x)
  PROVE  Manual!Decode(InstrBits(c, x), c.xlen) = Manual!Wide(x.op, x.rd, x.rs1, x.rs2, x.imm)
<1> DEFINE w == stype_word(x)
<1>1. InstrBits(c, x) = w
  BY DEF InstrBits, is_c_fmt, CFormats, Word32
<1>2. /\ x.op \in OpsOf("IF_S") /\ x.imm \in Int /\ x.rd = 0 /\ x.rs1 \in Registers
      /\ x.rs2 \in Registers
  BY DEF Formed, NoRd, Operands
<1>3. opcode(x) = 35 /\ funct3(x.op) \in 0 .. 3 /\ Manual!Store[funct3(x.op) + 1] = x.op
  BY <1>2 DEF OpsOf, opcode, funct3, RegW, OpsM64, Loads, ImmW, OpImm, Shifts, Manual!Store
<1>4. -2048 <= x.imm /\ x.imm < 2048
  <2> DEFINE range == -2048 .. 2047
  <2>1. x.imm \in range
    BY DEF encode_stype
  <2>2. \A v \in range : -2048 <= v /\ v < 2048
    OBVIOUS
  <2> HIDE DEF range
  <2> QED
    BY <2>1, <2>2
<1>5. /\ Has(w, 6, 0, opcode(x), 0) /\ Has(w, 14, 12, funct3(x.op), 0) /\ Has(w, 19, 15, x.rs1, 0)
      /\ Has(w, 24, 20, x.rs2, 0) /\ Has(w, 11, 7, x.imm, 0) /\ Has(w, 31, 25, x.imm, 5)
  BY DEF stype_word, Major, Field, put, Has
<1> HIDE DEF w
<1>6. /\ Manual!Major(w) = 35 /\ Manual!Quadrant(w) = 3 /\ Manual!Funct3(w) = funct3(x.op)
      /\ Manual!Rs1(w) = x.rs1 /\ Manual!Rs2(w) = x.rs2
  BY <1>2, <1>3, <1>5, FieldReads
<1>7. Manual!ImmS(w) = x.imm
  BY <1>2, <1>4, <1>5, PowerValues, ImmSHolds, SignedIs DEF Manual!ImmS
<1> QED
  BY <1>1, <1>2, <1>3, <1>6, <1>7 DEF Manual!Decode, Manual!Decode32

\* Bit j of an even number is bit j - 1 of its half.
LEMMA HalfBits ==
  ASSUME NEW v \in Int, v % 2 = 0
  PROVE  ~Bit(v, 0) /\ \A j \in 1 .. 20 : Bit(v, j) <=> Bit(v \div 2, j - 1)
<1>1. ~Bit(v, 0)
  BY DEF Bit
<1>2. ASSUME NEW j \in 1 .. 20
      PROVE  Bit(v, j) <=> Bit(v \div 2, j - 1)
  <2>1. Power[j - 1] \in Nat \ {0} /\ Power[j] = 2 * Power[j - 1]
    BY Powers
  <2>2. (v \div 2) \div Power[j - 1] = v \div Power[j]
    BY <2>1, HalfDivision
  <2>3. /\ Bit(v, j) <=> (v \div Power[j]) % 2 = 1
        /\ Bit(v \div 2, j - 1) <=> ((v \div 2) \div Power[j - 1]) % 2 = 1
    BY BitIs
  <2> QED
    BY <2>2, <2>3
<1> QED
  BY <1>1, <1>2

\* A set that holds the half, one place up.
LEMMA HoldsDoubled ==
  ASSUME NEW S, NEW v \in Int, v % 2 = 0, NEW n \in 1 .. 20,
         \A j \in 0 .. 20 : j \in S <=> 0 < j /\ j <= n /\ Bit(v \div 2, j - 1)
  PROVE  BitsAre(S, v, n)
<1>1. ~Bit(v, 0) /\ \A j \in 1 .. 20 : Bit(v, j) <=> Bit(v \div 2, j - 1)
  BY HalfBits
<1> SUFFICES ASSUME NEW j \in 0 .. 20
             PROVE  j \in S <=> j <= n /\ Bit(v, j)
  BY DEF BitsAre
<1>2. CASE j = 0
  BY <1>1, <1>2
<1>3. CASE j \in 1 .. 20
  BY <1>1, <1>3
<1> QED
  BY <1>2, <1>3

\* The rows for IF_B.
LEMMA ImmBHolds ==
  ASSUME NEW w, NEW h, Has(w, 31, 31, h, 11), Has(w, 30, 25, h, 4), Has(w, 11, 8, h, 0),
         Has(w, 7, 7, h, 10)
  PROVE  \A j \in 0 .. 20 :
           j \in Manual!Gather(w, 31, <<12, 10, 9, 8, 7, 6, 5>>)
                   \cup Manual!Gather(w, 11, <<4, 3, 2, 1, 11>>)
             <=> 0 < j /\ j <= 12 /\ Bit(h, j - 1)
<1> DEFINE hi == <<12, 10, 9, 8, 7, 6, 5>>
           lo == <<4, 3, 2, 1, 11>>
<1>1. /\ DOMAIN hi = 1 .. 7 /\ hi[1] = 12 /\ \A m \in 2 .. 7 : hi[m] = 12 - m
      /\ DOMAIN lo = 1 .. 5 /\ lo[5] = 11 /\ \A m \in 1 .. 4 : lo[m] = 5 - m
  OBVIOUS
<1> HIDE DEF hi, lo
<1>2. \A j \in 0 .. 20 :
           j \in Manual!Gather(w, 31, hi) \cup Manual!Gather(w, 11, lo)
             <=> 0 < j /\ j <= 12 /\ Bit(h, j - 1)
  BY <1>1, GatherIs DEF Has
<1> QED
  BY <1>2 DEF hi, lo

\* The range of an even offset.
LEMMA EvenBounds ==
  ASSUME NEW n, NEW lo \in Int, NEW hi \in Int, EvenIn(n, lo, hi)
  PROVE  n \in Int /\ lo <= n /\ n <= hi /\ n % 2 = 0
BY DEF EvenIn

\* The branches.
LEMMA BWord ==
  ASSUME NEW c, NEW x, Formed(x), x.fmt = "IF_B", encode_btype(x)
  PROVE  Manual!Decode(InstrBits(c, x), c.xlen) = Manual!Wide(x.op, x.rd, x.rs1, x.rs2, x.imm)
<1> DEFINE w == btype_word(x)
           h == Halved(x)
<1>1. InstrBits(c, x) = w
  BY DEF InstrBits, is_c_fmt, CFormats, Word32
<1>2. /\ x.op \in OpsOf("IF_B") /\ x.imm \in Int /\ x.rd = 0 /\ x.rs1 \in Registers
      /\ x.rs2 \in Registers
  BY DEF Formed, NoRd, Operands
<1>3. opcode(x) = 99 /\ funct3(x.op) \in 0 .. 7 /\ Manual!Branch[funct3(x.op) + 1] = x.op
  BY <1>2 DEF OpsOf, opcode, funct3, RegW, OpsM64, Loads, ImmW, OpImm, Shifts, Manual!Branch
<1>4. -4096 <= x.imm /\ x.imm < 4096 /\ x.imm % 2 = 0
  BY <1>2, EvenBounds DEF encode_btype
<1>5. /\ Has(w, 6, 0, opcode(x), 0) /\ Has(w, 14, 12, funct3(x.op), 0) /\ Has(w, 19, 15, x.rs1, 0)
      /\ Has(w, 24, 20, x.rs2, 0) /\ Has(w, 31, 31, h, 11) /\ Has(w, 30, 25, h, 4)
      /\ Has(w, 11, 8, h, 0) /\ Has(w, 7, 7, h, 10)
  <2> HIDE DEF h
  <2> QED
    BY DEF btype_word, Major, Field, put, Has, h
<1>6. h = x.imm \div 2
  BY DEF Halved
<1> HIDE DEF w, h
<1>7. /\ Manual!Major(w) = 99 /\ Manual!Quadrant(w) = 3 /\ Manual!Funct3(w) = funct3(x.op)
      /\ Manual!Rs1(w) = x.rs1 /\ Manual!Rs2(w) = x.rs2
  BY <1>2, <1>3, <1>5, FieldReads
<1>8. BitsAre(Manual!Gather(w, 31, <<12, 10, 9, 8, 7, 6, 5>>)
              \cup Manual!Gather(w, 11, <<4, 3, 2, 1, 11>>), x.imm, 12)
  BY <1>2, <1>4, <1>5, <1>6, ImmBHolds, HoldsDoubled
<1>9. Manual!ImmB(w) = x.imm
  BY <1>2, <1>4, <1>8, PowerValues, SignedIs DEF Manual!ImmB
<1> QED
  BY <1>1, <1>2, <1>3, <1>7, <1>9 DEF Manual!Decode, Manual!Decode32

\* The jump.
LEMMA JWord ==
  ASSUME NEW c, NEW x, Formed(x), x.fmt = "IF_J", encode_jtype(x)
  PROVE  Manual!Decode(InstrBits(c, x), c.xlen) = Manual!Wide(x.op, x.rd, x.rs1, x.rs2, x.imm)
<1> DEFINE w == jtype_word(x)
           h == Halved(x)
           row == <<20, 10, 9, 8, 7, 6, 5, 4, 3, 2, 1, 11, 19, 18, 17, 16, 15, 14, 13, 12>>
<1>1. InstrBits(c, x) = w
  BY DEF InstrBits, is_c_fmt, CFormats, Word32
<1>2. /\ x.op = "OP_JAL" /\ x.imm \in Int /\ x.rs1 = 0 /\ x.rs2 = 0 /\ x.rd \in Registers
  BY DEF Formed, OpsOf, NoRs1, HasRs2, Operands
<1>3. opcode(x) = 111
  BY <1>2 DEF opcode, RegW, OpsM64, Loads, ImmW, OpImm, Shifts
<1>4. -1048576 <= x.imm /\ x.imm < 1048576 /\ x.imm % 2 = 0
  BY <1>2, EvenBounds, SMT DEF encode_jtype
<1>5. /\ Has(w, 6, 0, opcode(x), 0) /\ Has(w, 11, 7, x.rd, 0) /\ Has(w, 31, 31, h, 19)
      /\ Has(w, 30, 21, h, 0) /\ Has(w, 20, 20, h, 10) /\ Has(w, 19, 12, h, 11)
  BY DEF jtype_word, Field, put, Has
<1>6. h = x.imm \div 2
  BY DEF Halved
<1> HIDE DEF w, h
<1>7. /\ Manual!Major(w) = 111 /\ Manual!Quadrant(w) = 3 /\ Manual!Rd(w) = x.rd
  BY <1>2, <1>3, <1>5, FieldReads
<1>8. BitsAre(Manual!Gather(w, 31, row), x.imm, 20)
  <2>1. \A j \in 0 .. 20 : j \in Manual!Gather(w, 31, row) <=> j > 0 /\ Bit(h, j - 1)
    BY <1>5, ImmJHolds
  <2> HIDE DEF row
  <2> QED
    BY <1>2, <1>4, <1>6, <2>1, HoldsDoubled
<1>9. Manual!ImmJ(w) = x.imm
  <2> HIDE DEF row
  <2>1. Manual!Signed(Manual!Gather(w, 31, row), 20) = x.imm
    BY <1>2, <1>4, <1>8, PowerValues, SignedIs
  <2> QED
    BY <2>1 DEF Manual!ImmJ, row
<1> QED
  BY <1>1, <1>2, <1>3, <1>7, <1>9 DEF Manual!Decode, Manual!Decode32

\* Bit j + 12 of a multiple of 4096 is bit j of its quotient.
LEMMA UpperBits ==
  ASSUME NEW u \in Int, -524288 <= u, u < 524288
  PROVE  \A j \in 0 .. 19 : Bit(4096 * u, 12 + j) <=> Bit(u, j)
<1>1. ASSUME NEW j \in 0 .. 18
      PROVE  Bit(4096 * u, 12 + j) <=> Bit(u, j)
  <2>1. Power[12 + j] = 4096 * Power[j] /\ Power[j] \in Nat \ {0}
    BY PowerTable
  <2>2. (4096 * u) \div Power[12 + j] = u \div Power[j]
    BY <2>1, Scale
  <2> QED
    BY <2>2, BitIs
<1>2. Bit(4096 * u, 31) <=> Bit(u, 19)
  <2>1. Bit(4096 * u, 31) <=> u < 0
    BY DEF Bit
  <2>2. Bit(u, 19) <=> u < 0
    BY BitIs, SignBit, PowerValues
  <2> QED
    BY <2>1, <2>2
<1> QED
  BY <1>1, <1>2

\* The upper immediate.
LEMMA ImmUReads ==
  ASSUME NEW w, NEW u \in Int, -524288 <= u, u < 524288, Has(w, 31, 12, 4096 * u, 12)
  PROVE  Manual!ImmU(w) = 4096 * u
<1> DEFINE S == {k - 12 : k \in w \cap (12 .. 31)}
<1>1. \A j \in 0 .. 20 : j \in S <=> j <= 19 /\ 12 + j \in w
  OBVIOUS
<1> HIDE DEF S
<1>2. \A j \in 0 .. 19 : 12 + j \in w <=> Bit(4096 * u, 12 + j)
  <2> TAKE j \in 0 .. 19
  <2>1. 12 + j \in 12 .. 31 /\ 12 + (12 + j) - 12 = 12 + j
    OBVIOUS
  <2> QED
    BY <2>1 DEF Has
<1>3. BitsAre(S, u, 19)
  BY <1>1, <1>2, UpperBits DEF BitsAre
<1>4. Manual!Signed(S, 19) = u
  BY <1>3, PowerValues, SignedIs
<1> QED
  BY <1>4 DEF Manual!ImmU, S

\* lui and auipc.
LEMMA UIWord ==
  ASSUME NEW c, NEW x, Formed(x), x.fmt = "IF_UI", encode_uitype(x)
  PROVE  Manual!Decode(InstrBits(c, x), c.xlen) = Manual!Wide(x.op, x.rd, x.rs1, x.rs2, x.imm)
<1> DEFINE w == uitype_word(x)
           u == x.imm \div 4096
<1>1. InstrBits(c, x) = w
  BY DEF InstrBits, is_c_fmt, CFormats, Word32
<1>2. /\ x.op \in {"OP_AUIPC", "OP_LUI"} /\ x.imm \in Int /\ x.rs1 = 0 /\ x.rs2 = 0
      /\ x.rd \in Registers
  BY DEF Formed, OpsOf, NoRs1, HasRs2, Operands
<1>3. opcode(x) = IF x.op = "OP_LUI" THEN 55 ELSE 23
  BY <1>2 DEF opcode, RegW, OpsM64, Loads, ImmW, OpImm, Shifts
<1>4. u \in Int /\ -524288 <= u /\ u < 524288 /\ x.imm = 4096 * u
  <2>1. x.imm % 4096 = 0 /\ -HalfMod <= x.imm /\ x.imm <= HalfMod - 1
    BY <1>2, WidthAssumption, SMT DEF encode_uitype
  <2>2. -2147483648 <= x.imm /\ x.imm <= 2147483647
    BY <1>2, <2>1, WidthAssumption, BitAssumption, SMT
  <2> QED
    BY <1>2, <2>1, <2>2, SMT
<1>5. /\ Has(w, 6, 0, opcode(x), 0) /\ Has(w, 11, 7, x.rd, 0) /\ Has(w, 31, 12, x.imm, 12)
  BY DEF uitype_word, Field, put, Has
<1> HIDE DEF w, u
<1>6. /\ Manual!Major(w) = opcode(x) /\ Manual!Quadrant(w) = 3 /\ Manual!Rd(w) = x.rd
  BY <1>2, <1>3, <1>5, FieldReads
<1>7. Manual!ImmU(w) = x.imm
  BY <1>4, <1>5, ImmUReads
<1> QED
  BY <1>1, <1>2, <1>3, <1>6, <1>7, SMT DEF Manual!Decode, Manual!Decode32

\* Every word of the 32-bit formats that is accepted.
LEMMA WideWord ==
  ASSUME NEW c, c.xlen \in {32, 64}, NEW x, Formed(x), x.fmt \in WideFormats,
         encode_instruction(c, x)
  PROVE  Manual!Decode(InstrBits(c, x), c.xlen) = Manual!Wide(x.op, x.rd, x.rs1, x.rs2, x.imm)
<1>1. CASE x.fmt = "IF_R"
  BY <1>1, RWord
<1>2. CASE x.fmt = "IF_I"
  BY <1>2, IWord DEF encode_instruction
<1>3. CASE x.fmt = "IF_S"
  BY <1>3, SWord DEF encode_instruction
<1>4. CASE x.fmt = "IF_B"
  BY <1>4, BWord DEF encode_instruction
<1>5. CASE x.fmt = "IF_J"
  BY <1>5, JWord DEF encode_instruction
<1>6. CASE x.fmt = "IF_UI"
  BY <1>6, UIWord DEF encode_instruction
<1> QED
  BY <1>1, <1>2, <1>3, <1>4, <1>5, <1>6 DEF WideFormats

-----------------------------------------------------------------------------
(***************************************************************************)
(* Half-words.                                                             *)
(***************************************************************************)

\* The bits of 0, and of multiples of 4 and 8, and above a small number.
LEMMA NoBits ==
  /\ \A k \in 0 .. 20 : ~Bit(0, k)
  /\ \A v \in Int : v % 4 = 0 => ~Bit(v, 0) /\ ~Bit(v, 1)
  /\ \A v \in Int : v % 8 = 0 => v % 4 = 0 /\ ~Bit(v, 2)
  /\ \A v \in 0 .. 31 : ~Bit(v, 5)
<1>1. \A k \in 0 .. 20 : ~Bit(0, k)
  <2>1. \A k \in 0 .. 20 : Power[k] \in Nat \ {0} /\ k \in 0 .. 30
    BY Powers
  <2>2. \A p \in Nat \ {0} : (0 \div p) % 2 # 1
    OBVIOUS
  <2> QED
    BY <2>1, <2>2, BitIs
<1>2. \A v \in Int : v % 4 = 0 => ~Bit(v, 0) /\ ~Bit(v, 1)
  BY DEF Bit
<1>3. \A v \in Int : v % 8 = 0 => v % 4 = 0 /\ ~Bit(v, 2)
  BY DEF Bit
<1>4. \A v \in 0 .. 31 : ~Bit(v, 5)
  BY DEF Bit
<1> QED
  BY <1>1, <1>2, <1>3, <1>4

\* The fields of a half-word.
LEMMA HalfReads ==
  ASSUME NEW w
  PROVE  /\ \A v \in 0 .. 3 : Has(w, 1, 0, v, 0) => Manual!Quadrant(w) = v
         /\ \A v \in 0 .. 7 : Has(w, 15, 13, v, 0) => Manual!CFunct3(w) = v
         /\ \A v \in 0 .. 3 : Has(w, 11, 10, v, 0) => Manual!SubOp(w) = v
         /\ \A v \in Registers : Has(w, 6, 2, v, 0) => Manual!CRs2(w) = v
         /\ \A v \in 8 .. 15 : Has(w, 4, 2, v - 8, 0) => Manual!RdPrime(w) = v
         /\ \A v \in 8 .. 15 : Has(w, 9, 7, v - 8, 0) => Manual!RsPrime(w) = v
<1> USE PowerValues
<1>1. ASSUME NEW v \in 0 .. 3, Has(w, 1, 0, v, 0)
      PROVE  Manual!Quadrant(w) = v
  BY <1>1, NumIs DEF Manual!Quadrant
<1>2. ASSUME NEW v \in 0 .. 7, Has(w, 15, 13, v, 0)
      PROVE  Manual!CFunct3(w) = v
  BY <1>2, NumIs DEF Manual!CFunct3
<1>3. ASSUME NEW v \in 0 .. 3, Has(w, 11, 10, v, 0)
      PROVE  Manual!SubOp(w) = v
  BY <1>3, NumIs DEF Manual!SubOp
<1>4. ASSUME NEW v \in Registers, Has(w, 6, 2, v, 0)
      PROVE  Manual!CRs2(w) = v
  BY <1>4, NumIs DEF Manual!CRs2, Registers
<1>5. ASSUME NEW v \in 8 .. 15
      PROVE  /\ Has(w, 4, 2, v - 8, 0) => Manual!RdPrime(w) = v
             /\ Has(w, 9, 7, v - 8, 0) => Manual!RsPrime(w) = v
  <2> DEFINE n == v - 8
  <2>1. n \in 0 .. 7 /\ 8 + n = v
    OBVIOUS
  <2> HIDE DEF n
  <2>2. Has(w, 4, 2, n, 0) => Manual!Num(w, 4, 2) = n
    BY <2>1, NumIs
  <2>3. Has(w, 9, 7, n, 0) => Manual!Num(w, 9, 7) = n
    BY <2>1, NumIs
  <2> QED
    BY <2>1, <2>2, <2>3 DEF Manual!RdPrime, Manual!RsPrime, n
<1> QED
  BY <1>1, <1>2, <1>3, <1>4, <1>5

\* The fields of c_build_tags that no packer touches, and those that are 0.
LEMMA TagFields ==
  ASSUME NEW x, NEW s
  PROVE  LET w == c_build_tags(x) \cup s
         IN /\ s \subseteq 2 .. 12 => Has(w, 15, 13, c_funct3(x.op), 0)
                                  /\ Has(w, 1, 0, quadrant(x), 0)
            /\ \A k \in 2 .. 9 : k \notin 5 .. 6 \/ op6_5(x.op) = 0 => (k \in w <=> k \in s)
            /\ op11_10(x.op) = 0 => \A k \in 10 .. 11 : k \in w <=> k \in s
            /\ op12(x.op) = 0 => (12 \in w <=> 12 \in s)
            /\ s \cap (10 .. 11) = {} => Has(w, 11, 10, op11_10(x.op), 0)
            /\ 12 \notin s => Has(w, 12, 12, op12(x.op), 0)
<1>1. \A k \in 0 .. 15 : ~Bit(0, k)
  BY NoBits
<1> QED
  BY <1>1 DEF c_build_tags, Field, put, Has

HalfWord(c, x) == Manual!Decode(InstrBits(c, x), c.xlen) = Manual!Expand(x)

\* Jumps through a register, moves, additions and c.ebreak.
LEMMA CRWord ==
  ASSUME NEW c, NEW x, Formed(x), x.fmt = "IF_CR", encode_crtype(x)
  PROVE  HalfWord(c, x)
<1> DEFINE s == crtype_half(x)
           w == c_build_tags(x) \cup s
           r == IF x.op \in {"OP_C_JR", "OP_C_JALR"} THEN x.rs1 ELSE x.rd
           b == IF x.op \in {"OP_C_ADD", "OP_C_JALR", "OP_C_EBREAK"} THEN 1 ELSE 0
<1>1. InstrBits(c, x) = w
  BY DEF InstrBits, is_c_fmt, CFormats, Half16
<1>2. /\ x.op \in {"OP_C_ADD", "OP_C_JALR", "OP_C_EBREAK", "OP_C_JR", "OP_C_MV"}
      /\ x.rd \in Registers /\ x.rs1 \in Registers /\ x.rs2 \in Registers
  BY DEF Formed, OpsOf, Operands
<1>3. /\ quadrant(x) = 2 /\ c_funct3(x.op) = 4 /\ op12(x.op) = b
      /\ op11_10(x.op) = 0 /\ op6_5(x.op) = 0
  BY <1>2 DEF quadrant, c_funct3, op12, op11_10, op6_5, AluCA, StackOps
<1>4. /\ s \subseteq 2 .. 12 /\ 12 \notin s
      /\ \A k \in 7 .. 11 : k \in s <=> Bit(r, k - 7)
      /\ \A k \in 2 .. 6 : k \in s <=> Bit(x.rs2, k - 2)
  BY DEF crtype_half, Field, put
<1> HIDE DEF s
<1>5. /\ Has(w, 15, 13, c_funct3(x.op), 0) /\ Has(w, 1, 0, quadrant(x), 0)
      /\ Has(w, 12, 12, op12(x.op), 0)
      /\ \A k \in 2 .. 11 : k \in w <=> k \in s
  <2>1. /\ Has(w, 15, 13, c_funct3(x.op), 0) /\ Has(w, 1, 0, quadrant(x), 0)
        /\ Has(w, 12, 12, op12(x.op), 0)
    BY <1>4, TagFields
  <2>2. \A k \in 2 .. 9 : k \in w <=> k \in s
    BY <1>3, TagFields
  <2>3. \A k \in 10 .. 11 : k \in w <=> k \in s
    BY <1>3, TagFields
  <2> HIDE DEF w
  <2> QED
    BY <2>1, <2>2, <2>3
<1> HIDE DEF w, b, r
<1>6. Has(w, 11, 7, r, 0) /\ Has(w, 6, 2, x.rs2, 0)
  BY <1>4, <1>5 DEF Has
<1>7. Bit(1, 0) /\ ~Bit(0, 0)
  BY DEF Bit
<1>8. /\ Manual!Quadrant(w) = 2 /\ Manual!CFunct3(w) = 4 /\ Manual!Rd(w) = r
      /\ Manual!CRs2(w) = x.rs2 
  BY <1>2, <1>3, <1>5, <1>6, FieldReads, HalfReads DEF r
<1>9. 12 \in w <=> b = 1
  BY <1>3, <1>5, <1>7 DEF Has, b
<1>10. Manual!Decode16(w, c.xlen) = Manual!Expand(x)
  <2> USE <1>2, <1>8, <1>9 DEF encode_crtype, Manual!Decode16, Manual!Expand, r, b
  <2>1. CASE x.op = "OP_C_ADD"
    BY <2>1
  <2>2. CASE x.op = "OP_C_JALR"
    BY <2>2
  <2>3. CASE x.op = "OP_C_EBREAK"
    BY <2>3, SMTT(30)
  <2>4. CASE x.op = "OP_C_JR"
    BY <2>4
  <2>5. CASE x.op = "OP_C_MV"
    BY <2>5
  <2> HIDE DEF encode_crtype, Manual!Decode16, Manual!Expand, r, b
  <2> QED
    BY <2>1, <2>2, <2>3, <2>4, <2>5
<1> QED
  BY <1>1, <1>8, <1>10 DEF HalfWord, Manual!Decode

\* The immediate of six bits, signed and unsigned.
LEMMA SixReads ==
  ASSUME NEW w, NEW v \in Int, Has(w, 12, 12, v, 5), Has(w, 6, 2, v, 0)
  PROVE  /\ -32 <= v /\ v < 32 =>
              Manual!Signed(Manual!Six(w), 5) = v /\ (v # 0 => Manual!Six(w) # {})
         /\ 0 <= v /\ v < 64 => Manual!Unsigned(Manual!Six(w)) = v
         /\ 0 <= v /\ v < 32 => 12 \notin w
<1> USE PowerValues
<1> DEFINE hi == <<5>>
           lo == <<4, 3, 2, 1, 0>>
<1>1. /\ DOMAIN hi = 1 .. 1 /\ hi[1] = 5
      /\ DOMAIN lo = 1 .. 5 /\ \A m \in 1 .. 5 : lo[m] = 5 - m
  OBVIOUS
<1>2. Manual!Six(w) = Manual!Gather(w, 12, hi) \cup Manual!Gather(w, 6, lo)
  BY DEF Manual!Six
<1> HIDE DEF hi, lo
<1>3. BitsAre(Manual!Six(w), v, 5)
  BY <1>1, <1>2, GatherIs DEF BitsAre, Has
<1>4. ASSUME -32 <= v, v < 32
      PROVE  Manual!Signed(Manual!Six(w), 5) = v /\ (v # 0 => Manual!Six(w) # {})
  <2>1. Manual!Signed(Manual!Six(w), 5) = v
    BY <1>3, <1>4, SignedIs
  <2>2. Manual!Signed({}, 5) = 0
    <3>1. BitsAre({}, 0, 5)
      BY NoBits DEF BitsAre
    <3> QED
      BY <3>1, SignedIs
  <2> QED
    BY <2>1, <2>2
<1>5. ASSUME 0 <= v, v < 64
      PROVE  Manual!Unsigned(Manual!Six(w)) = v
  <2>1. v \in 0 .. Power[5 + 1] - 1
    BY <1>5
  <2> QED
    BY <1>3, <2>1, UnsignedIs
<1>6. ASSUME 0 <= v, v < 32
      PROVE  12 \notin w
  <2>1. ~Bit(v, 5)
    BY <1>6, NoBits
  <2> QED
    BY <2>1 DEF Has
<1> QED
  BY <1>4, <1>5, <1>6

\* The range of an immediate of six bits, and of a shift amount.
LEMMA SixBounds ==
  ASSUME NEW c, c.xlen \in {32, 64}, NEW x
  PROVE  /\ SmallImm(x) => x.imm \in Int /\ -32 <= x.imm /\ x.imm < 32
         /\ Shamt(c, x) => x.imm \in Int /\ 0 <= x.imm /\ x.imm < 64 /\ (c.xlen = 32 => x.imm < 32)
BY DEF SmallImm, Shamt

\* Immediates and shifts of any register.
LEMMA CIWord ==
  ASSUME NEW c, c.xlen \in {32, 64}, NEW x, Formed(x), x.fmt = "IF_CI",
         x.op \in {"OP_C_ADDI", "OP_C_LI", "OP_C_ADDIW", "OP_C_LUI", "OP_C_SLLI"},
         encode_citype(c, x)
  PROVE  HalfWord(c, x)
<1> DEFINE s == citype_half(x)
           w == c_build_tags(x) \cup s
<1>1. InstrBits(c, x) = w
  BY DEF InstrBits, is_c_fmt, CFormats, Half16
<1>2. x.rd \in Registers /\ x.imm \in Int
  BY DEF Formed, Operands
<1>3. /\ quadrant(x) = IF x.op = "OP_C_SLLI" THEN 2 ELSE 1
      /\ c_funct3(x.op) = CASE x.op = "OP_C_ADDI" -> 0 [] x.op = "OP_C_LI" -> 2
                            [] x.op = "OP_C_ADDIW" -> 1 [] x.op = "OP_C_LUI" -> 3
                            [] x.op = "OP_C_SLLI" -> 0
      /\ op12(x.op) = 0 /\ op11_10(x.op) = 0 /\ op6_5(x.op) = 0
  BY DEF quadrant, c_funct3, op12, op11_10, op6_5, AluCA, StackOps
<1>4. /\ s \subseteq 2 .. 12
      /\ \A k \in 7 .. 11 : k \in s <=> Bit(x.rd, k - 7)
      /\ \A k \in 2 .. 6 : k \in s <=> Bit(x.imm, k - 2)
      /\ 12 \in s <=> Bit(x.imm, 5)
  BY DEF citype_half, put_imm5_0_ci, Field, put
<1> HIDE DEF s
<1>5. /\ Has(w, 15, 13, c_funct3(x.op), 0) /\ Has(w, 1, 0, quadrant(x), 0)
      /\ \A k \in 2 .. 12 : k \in w <=> k \in s
  <2>1. /\ Has(w, 15, 13, c_funct3(x.op), 0) /\ Has(w, 1, 0, quadrant(x), 0)
    BY <1>4, TagFields
  <2>2. \A k \in 2 .. 9 : k \in w <=> k \in s
    BY <1>3, TagFields
  <2>3. \A k \in 10 .. 11 : k \in w <=> k \in s
    BY <1>3, TagFields
  <2>4. 12 \in w <=> 12 \in s
    BY <1>3, TagFields
  <2> HIDE DEF w
  <2> QED
    BY <2>1, <2>2, <2>3, <2>4
<1> HIDE DEF w
<1>6. Has(w, 11, 7, x.rd, 0) /\ Has(w, 6, 2, x.imm, 0) /\ Has(w, 12, 12, x.imm, 5)
  BY <1>4, <1>5 DEF Has
<1>7. /\ Manual!Quadrant(w) = quadrant(x) /\ Manual!CFunct3(w) = c_funct3(x.op)
      /\ Manual!Rd(w) = x.rd
  BY <1>2, <1>3, <1>5, <1>6, FieldReads, HalfReads
<1>8. Manual!Decode16(w, c.xlen) = Manual!Expand(x)
  <2>1. CASE x.op = "OP_C_SLLI"
    <3>1. /\ Manual!Unsigned(Manual!Six(w)) = x.imm /\ (c.xlen = 32 => 12 \notin w)
      BY <1>2, <1>6, <2>1, SixReads, SixBounds DEF encode_citype
    <3> QED
      BY <1>3, <1>7, <2>1, <3>1 DEF Manual!Decode16, Manual!Expand
  <2>2. CASE x.op # "OP_C_SLLI"
    <3>1. /\ Manual!Signed(Manual!Six(w), 5) = x.imm
          /\ x.op = "OP_C_LUI" => x.rd # 2 /\ Manual!Six(w) # {}
          /\ x.op = "OP_C_ADDIW" => x.rd # 0 /\ c.xlen = 64
      <4>1. /\ -32 <= x.imm /\ x.imm < 32
            /\ x.op = "OP_C_LUI" => x.rd # 2 /\ x.imm # 0
            /\ x.op = "OP_C_ADDIW" => x.rd # 0 /\ c.xlen = 64
        BY <1>2, <2>2, SixBounds DEF encode_citype
      <4> QED
        BY <1>2, <1>6, <4>1, SixReads
    <3> QED
      BY <1>3, <1>7, <2>2, <3>1 DEF Manual!Decode16, Manual!Expand
  <2> QED
    BY <2>1, <2>2
<1>9. Manual!Quadrant(w) # 3
  BY <1>3, <1>7
<1> QED
  BY <1>1, <1>8, <1>9 DEF HalfWord, Manual!Decode

\* Shifts to the right and masks of x8 .. x15.
LEMMA CIPrimeWord ==
  ASSUME NEW c, c.xlen \in {32, 64}, NEW x, Formed(x), x.fmt = "IF_CI",
         x.op \in {"OP_C_SRLI", "OP_C_SRAI", "OP_C_ANDI"}, encode_citype(c, x)
  PROVE  HalfWord(c, x)
<1> DEFINE s == citype_half(x)
           w == c_build_tags(x) \cup s
<1>1. InstrBits(c, x) = w
  BY DEF InstrBits, is_c_fmt, CFormats, Half16
<1>2. x.rd \in 8 .. 15 /\ x.imm \in Int
  BY DEF Formed, Operands, encode_citype, IsPrime
<1>3. /\ quadrant(x) = 1 /\ c_funct3(x.op) = 4 /\ op12(x.op) = 0 /\ op6_5(x.op) = 0
      /\ op11_10(x.op) = CASE x.op = "OP_C_SRLI" -> 0 [] x.op = "OP_C_SRAI" -> 1
                           [] x.op = "OP_C_ANDI" -> 2
  BY DEF quadrant, c_funct3, op12, op11_10, op6_5, AluCA, StackOps
<1>4. /\ s \subseteq 2 .. 12 /\ s \cap (10 .. 11) = {}
      /\ \A k \in 7 .. 9 : k \in s <=> Bit(x.rd - 8, k - 7)
      /\ \A k \in 2 .. 6 : k \in s <=> Bit(x.imm, k - 2)
      /\ 12 \in s <=> Bit(x.imm, 5)
  BY DEF citype_half, Prime, put_imm5_0_ci, Field, put
<1> HIDE DEF s
<1>5. /\ Has(w, 15, 13, c_funct3(x.op), 0) /\ Has(w, 1, 0, quadrant(x), 0)
      /\ Has(w, 11, 10, op11_10(x.op), 0)
      /\ \A k \in 2 .. 9 : k \in w <=> k \in s
      /\ 12 \in w <=> 12 \in s
  <2>1. Has(w, 15, 13, c_funct3(x.op), 0) /\ Has(w, 1, 0, quadrant(x), 0)
    BY <1>4, TagFields
  <2>2. \A k \in 2 .. 9 : k \in w <=> k \in s
    BY <1>3, TagFields
  <2>3. Has(w, 11, 10, op11_10(x.op), 0)
    BY <1>4, TagFields
  <2>4. 12 \in w <=> 12 \in s
    BY <1>3, TagFields
  <2> HIDE DEF w
  <2> QED
    BY <2>1, <2>2, <2>3, <2>4
<1> HIDE DEF w
<1>6. Has(w, 9, 7, x.rd - 8, 0) /\ Has(w, 6, 2, x.imm, 0) /\ Has(w, 12, 12, x.imm, 5)
  BY <1>4, <1>5 DEF Has
<1>7. /\ Manual!Quadrant(w) = 1 /\ Manual!CFunct3(w) = 4
      /\ Manual!SubOp(w) = op11_10(x.op) /\ Manual!RsPrime(w) = x.rd
  BY <1>2, <1>3, <1>5, <1>6, HalfReads
<1>8. Manual!Decode16(w, c.xlen) = Manual!Expand(x)
  <2>1. CASE x.op \in {"OP_C_SRLI", "OP_C_SRAI"}
    <3>1. Manual!Unsigned(Manual!Six(w)) = x.imm /\ (c.xlen = 32 => 12 \notin w)
      BY <1>2, <1>6, <2>1, SixReads, SixBounds DEF encode_citype
    <3> QED
      BY <1>3, <1>7, <2>1, <3>1 DEF Manual!Decode16, Manual!Expand
  <2>2. CASE x.op = "OP_C_ANDI"
    <3>1. Manual!Signed(Manual!Six(w), 5) = x.imm
      BY <1>2, <1>6, <2>2, SixReads, SixBounds DEF encode_citype
    <3> QED
      BY <1>3, <1>7, <2>2, <3>1 DEF Manual!Decode16, Manual!Expand
  <2> QED
    BY <2>1, <2>2
<1> QED
  BY <1>1, <1>7, <1>8 DEF HalfWord, Manual!Decode

\* A load from the stack.
LEMMA LwSpWord ==
  ASSUME NEW c, NEW x, Formed(x), x.fmt = "IF_CI", x.op = "OP_C_LWSP", encode_citype(c, x)
  PROVE  HalfWord(c, x)
<1> DEFINE s == citype_half(x)
           w == c_build_tags(x) \cup s
<1>1. InstrBits(c, x) = w
  BY DEF InstrBits, is_c_fmt, CFormats, Half16
<1>2. /\ x.rd \in Registers /\ x.rd # 0
      /\ x.imm \in Int /\ 0 <= x.imm /\ x.imm <= 252 /\ x.imm % 4 = 0
  BY DEF Formed, Operands, encode_citype, Scaled
<1>3. /\ quadrant(x) = 2 /\ c_funct3(x.op) = 2
      /\ op12(x.op) = 0 /\ op11_10(x.op) = 0 /\ op6_5(x.op) = 0
  BY DEF quadrant, c_funct3, op12, op11_10, op6_5, AluCA, StackOps
<1>4. /\ s \subseteq 2 .. 12
      /\ \A k \in 7 .. 11 : k \in s <=> Bit(x.rd, k - 7)
      /\ 12 \in s <=> Bit(x.imm, 5)
      /\ \A k \in 4 .. 6 : k \in s <=> Bit(x.imm, k - 2)
      /\ \A k \in 2 .. 3 : k \in s <=> Bit(x.imm, k + 4)
  BY DEF citype_half, Field, put
<1> HIDE DEF s
<1>5. /\ Has(w, 15, 13, c_funct3(x.op), 0) /\ Has(w, 1, 0, quadrant(x), 0)
      /\ \A k \in 2 .. 12 : k \in w <=> k \in s
  <2>1. Has(w, 15, 13, c_funct3(x.op), 0) /\ Has(w, 1, 0, quadrant(x), 0)
    BY <1>4, TagFields
  <2>2. \A k \in 2 .. 9 : k \in w <=> k \in s
    BY <1>3, TagFields
  <2>3. \A k \in 10 .. 11 : k \in w <=> k \in s
    BY <1>3, TagFields
  <2>4. 12 \in w <=> 12 \in s
    BY <1>3, TagFields
  <2> HIDE DEF w
  <2> QED
    BY <2>1, <2>2, <2>3, <2>4
<1> HIDE DEF w
<1>6. Has(w, 11, 7, x.rd, 0)
  BY <1>4, <1>5 DEF Has
<1>7. Manual!Quadrant(w) = 2 /\ Manual!CFunct3(w) = 2 /\ Manual!Rd(w) = x.rd
  BY <1>2, <1>3, <1>5, <1>6, FieldReads, HalfReads
<1>8. Manual!LwSp(w) = x.imm
  <2> DEFINE hi == <<5>>
             lo == <<4, 3, 2, 7, 6>>
             S == Manual!Gather(w, 12, hi) \cup Manual!Gather(w, 6, lo)
  <2>1. /\ DOMAIN hi = 1 .. 1 /\ hi[1] = 5
        /\ DOMAIN lo = 1 .. 5 /\ \A m \in 1 .. 3 : lo[m] = 5 - m
        /\ lo[4] = 7 /\ lo[5] = 6
    OBVIOUS
  <2> HIDE DEF hi, lo
  <2>2. ~Bit(x.imm, 0) /\ ~Bit(x.imm, 1)
    BY <1>2, NoBits
  <2>3. BitsAre(S, x.imm, 7)
    BY <1>4, <1>5, <2>1, <2>2, GatherIs DEF BitsAre
  <2>4. x.imm \in 0 .. Power[7 + 1] - 1
    BY <1>2, PowerValues
  <2> HIDE DEF S
  <2>5. Manual!Unsigned(S) = x.imm
    BY <2>3, <2>4, UnsignedIs
  <2> QED
    BY <2>5 DEF Manual!LwSp, S, hi, lo
<1>9. Manual!Decode16(w, c.xlen) = Manual!Expand(x)
  BY <1>2, <1>7, <1>8 DEF Manual!Decode16, Manual!Expand
<1> QED
  BY <1>1, <1>7, <1>9 DEF HalfWord, Manual!Decode

\* The offsets of loads and stores of words and double-words.
LEMMA OffsetReads ==
  ASSUME NEW w, NEW v \in Int, 0 <= v, \A k \in 10 .. 12 : k \in w <=> Bit(v, k - 7)
  PROVE  /\ v <= 124 /\ v % 4 = 0 /\ (6 \in w <=> Bit(v, 2)) /\ (5 \in w <=> Bit(v, 6)) =>
              Manual!Off4(w) = v
         /\ v <= 248 /\ v % 8 = 0 /\ (\A k \in 5 .. 6 : k \in w <=> Bit(v, k + 1)) =>
              Manual!Off8(w) = v
<1> USE PowerValues
<1> DEFINE hi == <<5, 4, 3>>
<1>1. DOMAIN hi = 1 .. 3 /\ \A m \in 1 .. 3 : hi[m] = 6 - m
  OBVIOUS
<1> HIDE DEF hi
<1>2. ASSUME v <= 124, v % 4 = 0, 6 \in w <=> Bit(v, 2), 5 \in w <=> Bit(v, 6)
      PROVE  Manual!Off4(w) = v
  <2> DEFINE lo == <<2, 6>>
             S == Manual!Gather(w, 12, hi) \cup Manual!Gather(w, 6, lo)
  <2>1. DOMAIN lo = 1 .. 2 /\ lo[1] = 2 /\ lo[2] = 6
    OBVIOUS
  <2> HIDE DEF lo
  <2>2. ~Bit(v, 0) /\ ~Bit(v, 1)
    BY <1>2, NoBits
  <2>3. BitsAre(S, v, 6)
    BY <1>1, <1>2, <2>1, <2>2, GatherIs DEF BitsAre
  <2>4. v \in 0 .. Power[6 + 1] - 1
    BY <1>2
  <2> HIDE DEF S
  <2>5. Manual!Unsigned(S) = v
    BY <2>3, <2>4, UnsignedIs
  <2> QED
    BY <2>5 DEF Manual!Off4, S, hi, lo
<1>3. ASSUME v <= 248, v % 8 = 0, \A k \in 5 .. 6 : k \in w <=> Bit(v, k + 1)
      PROVE  Manual!Off8(w) = v
  <2> DEFINE lo == <<7, 6>>
             S == Manual!Gather(w, 12, hi) \cup Manual!Gather(w, 6, lo)
  <2>1. DOMAIN lo = 1 .. 2 /\ lo[1] = 7 /\ lo[2] = 6
    OBVIOUS
  <2> HIDE DEF lo
  <2>2. ~Bit(v, 0) /\ ~Bit(v, 1) /\ ~Bit(v, 2)
    BY <1>3, NoBits
  <2>3. BitsAre(S, v, 7)
    BY <1>1, <1>3, <2>1, <2>2, GatherIs DEF BitsAre
  <2>4. v \in 0 .. Power[7 + 1] - 1
    BY <1>3
  <2> HIDE DEF S
  <2>5. Manual!Unsigned(S) = v
    BY <2>3, <2>4, UnsignedIs
  <2> QED
    BY <2>5 DEF Manual!Off8, S, hi, lo
<1> QED
  BY <1>2, <1>3

\* An offset that is in range before it is narrowed to uint32_t.
OffsetFits(x) ==
  /\ x.op \in {"OP_C_LW", "OP_C_SW"} => Scaled(x, 4, 124)
  /\ x.op \in {"OP_C_LD", "OP_C_SD"} => Scaled(x, 8, 248)

\* Loads and stores of x8 .. x15.
LEMMA CLSWord ==
  ASSUME NEW c, NEW x, Formed(x), x.fmt \in {"IF_CL", "IF_CS"}, require_c_for_op(c, x.op),
         c_encode_instruction(c, x), OffsetFits(x)
  PROVE  HalfWord(c, x)
<1> DEFINE word == x.op \in {"OP_C_LW", "OP_C_SW"}
           r == IF x.fmt = "IF_CL" THEN x.rd ELSE x.rs2
           s == IF x.fmt = "IF_CL" THEN cltype_half(x) ELSE cstype_half(x)
           w == c_build_tags(x) \cup s
<1>1. InstrBits(c, x) = w
  BY DEF InstrBits, is_c_fmt, CFormats, Half16
<1>2. /\ x.op \in IF x.fmt = "IF_CL" THEN {"OP_C_LW", "OP_C_LD"} ELSE {"OP_C_SW", "OP_C_SD"}
      /\ x.imm \in Int
  BY DEF Formed, OpsOf, Operands
<1>3. /\ r \in 8 .. 15 /\ x.rs1 \in 8 .. 15 /\ (~word => c.xlen = 64)
  <2>1. CASE x.fmt = "IF_CL"
    BY <1>2, <2>1 DEF c_encode_instruction, encode_cltype, IsPrime, require_c_for_op, COps64
  <2>2. CASE x.fmt = "IF_CS"
    BY <1>2, <2>2 DEF c_encode_instruction, encode_cstype, IsPrime, require_c_for_op, COps64
  <2> QED
    BY <2>1, <2>2
<1>4. /\ 0 <= x.imm
      /\ word => x.imm <= 124 /\ x.imm % 4 = 0
      /\ ~word => x.imm <= 248 /\ x.imm % 8 = 0
  BY <1>2 DEF OffsetFits, Scaled
<1>5. /\ quadrant(x) = 0
      /\ c_funct3(x.op) = CASE x.op = "OP_C_LW" -> 2 [] x.op = "OP_C_LD" -> 3
                            [] x.op = "OP_C_SW" -> 6 [] x.op = "OP_C_SD" -> 7
      /\ op12(x.op) = 0 /\ op11_10(x.op) = 0 /\ op6_5(x.op) = 0
  BY <1>2 DEF quadrant, c_funct3, op12, op11_10, op6_5, AluCA, StackOps
<1>6. /\ s \subseteq 2 .. 12
      /\ \A k \in 2 .. 4 : k \in s <=> Bit(r - 8, k - 2)
      /\ \A k \in 7 .. 9 : k \in s <=> Bit(x.rs1 - 8, k - 7)
      /\ \A k \in 10 .. 12 : k \in s <=> Bit(x.imm, k - 7)
      /\ word => (6 \in s <=> Bit(x.imm, 2)) /\ (5 \in s <=> Bit(x.imm, 6))
      /\ ~word => \A k \in 5 .. 6 : k \in s <=> Bit(x.imm, k + 1)
  <2>1. s = Prime(9, 7, x.rs1) \cup Prime(4, 2, r)
              \cup (IF word THEN Offset4(x.imm) ELSE Offset8(x.imm))
    BY <1>2 DEF cltype_half, cstype_half
  <2> HIDE DEF s, r, word
  <2>2. s \subseteq 2 .. 12
    BY <2>1 DEF Prime, Offset4, Offset8, Field, put
  <2>3. /\ \A k \in 2 .. 4 : k \in s <=> Bit(r - 8, k - 2)
        /\ \A k \in 7 .. 9 : k \in s <=> Bit(x.rs1 - 8, k - 7)
        /\ \A k \in 10 .. 12 : k \in s <=> Bit(x.imm, k - 7)
    BY <2>1 DEF Prime, Offset4, Offset8, Field, put
  <2>4. /\ word => (6 \in s <=> Bit(x.imm, 2)) /\ (5 \in s <=> Bit(x.imm, 6))
        /\ ~word => \A k \in 5 .. 6 : k \in s <=> Bit(x.imm, k + 1)
    BY <2>1 DEF Prime, Offset4, Offset8, Field, put
  <2> QED
    BY <2>2, <2>3, <2>4
<1> HIDE DEF s
<1>7. /\ Has(w, 15, 13, c_funct3(x.op), 0) /\ Has(w, 1, 0, quadrant(x), 0)
      /\ \A k \in 2 .. 12 : k \in w <=> k \in s
  <2>1. /\ Has(w, 15, 13, c_funct3(x.op), 0) /\ Has(w, 1, 0, quadrant(x), 0)
    BY <1>6, TagFields
  <2>2. \A k \in 2 .. 9 : k \in w <=> k \in s
    BY <1>5, TagFields
  <2>3. \A k \in 10 .. 11 : k \in w <=> k \in s
    BY <1>5, TagFields
  <2>4. 12 \in w <=> 12 \in s
    BY <1>5, TagFields
  <2> HIDE DEF w
  <2> QED
    BY <2>1, <2>2, <2>3, <2>4
<1> HIDE DEF w, r
<1>8. Has(w, 4, 2, r - 8, 0) /\ Has(w, 9, 7, x.rs1 - 8, 0)
  BY <1>6, <1>7 DEF Has
<1>9. /\ Manual!Quadrant(w) = 0 /\ Manual!CFunct3(w) = c_funct3(x.op)
      /\ Manual!RdPrime(w) = r /\ Manual!RsPrime(w) = x.rs1
  <2>1. c_funct3(x.op) \in 0 .. 7
    BY <1>2, <1>5
  <2>2. Has(w, 1, 0, 0, 0) /\ 0 \in 0 .. 3
    BY <1>5, <1>7
  <2>3. Manual!Quadrant(w) = 0
    BY <2>2, HalfReads
  <2>4. Manual!CFunct3(w) = c_funct3(x.op)
    BY <1>7, <2>1, HalfReads
  <2>5. Manual!RdPrime(w) = r /\ Manual!RsPrime(w) = x.rs1
    BY <1>3, <1>8, HalfReads
  <2> QED
    BY <2>3, <2>4, <2>5
<1>10. (word => Manual!Off4(w) = x.imm) /\ (~word => Manual!Off8(w) = x.imm)
  <2> HIDE DEF word
  <2>1. \A k \in 10 .. 12 : k \in w <=> Bit(x.imm, k - 7)
    BY <1>6, <1>7
  <2>2. CASE word
    <3>1. (6 \in w <=> Bit(x.imm, 2)) /\ (5 \in w <=> Bit(x.imm, 6))
      BY <1>6, <1>7, <2>2
    <3> QED
      BY <1>2, <1>4, <2>1, <2>2, <3>1, OffsetReads
  <2>3. CASE ~word
    <3>1. \A k \in 5 .. 6 : k \in w <=> Bit(x.imm, k + 1)
      BY <1>6, <1>7, <2>3
    <3> QED
      BY <1>2, <1>4, <2>1, <2>3, <3>1, OffsetReads
  <2> QED
    BY <2>2, <2>3
<1>11. Manual!Decode16(w, c.xlen) = Manual!Expand(x)
  BY <1>2, <1>3, <1>5, <1>9, <1>10 DEF r, Manual!Decode16, Manual!Expand
<1> QED
  BY <1>1, <1>9, <1>11 DEF HalfWord, Manual!Decode

\* Every half-word that is accepted, but for the forms that depart from the manual.
LEMMA HalfWordMeans ==
  ASSUME NEW c, c.xlen \in {32, 64}, NEW x, Formed(x), x.fmt \in CFormats,
         x.op \notin Misencoded, require_c_for_op(c, x.op), c_encode_instruction(c, x),
         x.fmt \in {"IF_CL", "IF_CS"} => OffsetFits(x)
  PROVE  HalfWord(c, x)
<1>1. x.op \in OpsOf(x.fmt)
  BY DEF Formed
<1>2. CASE x.fmt = "IF_CR"
  BY <1>2, CRWord DEF c_encode_instruction
<1>3. CASE x.fmt = "IF_CI"
  <2>1. encode_citype(c, x)
    BY <1>3 DEF c_encode_instruction
  <2>2. \/ x.op \in {"OP_C_ADDI", "OP_C_LI", "OP_C_ADDIW", "OP_C_LUI", "OP_C_SLLI"}
        \/ x.op \in {"OP_C_SRLI", "OP_C_SRAI", "OP_C_ANDI"}
        \/ x.op = "OP_C_LWSP"
    BY <1>1, <1>3 DEF OpsOf, Misencoded
  <2> QED
    BY <1>3, <2>1, <2>2, CIWord, CIPrimeWord, LwSpWord
<1>4. CASE x.fmt \in {"IF_CL", "IF_CS"}
  BY <1>4, CLSWord
<1>5. x.fmt \notin {"IF_CA", "IF_CSS", "IF_CB", "IF_CJ"}
  BY <1>1 DEF OpsOf, Misencoded, AluCA, PcRelOps, ShortBranches, ShortJumps
<1> QED
  BY <1>2, <1>3, <1>4, <1>5 DEF CFormats

-----------------------------------------------------------------------------
(***************************************************************************)
(* What an entry asks for.                                                 *)
(***************************************************************************)

\* The meaning of a compressed form lies in its operation and its operands.
LEMMA ExpandReads ==
  ASSUME NEW x, NEW y, x.op = y.op, x.rd = y.rd, x.rs1 = y.rs1, x.rs2 = y.rs2, x.imm = y.imm
  PROVE  Manual!Expand(x) = Manual!Expand(y)
BY SMTT(30) DEF Manual!Expand

\* Resolving a label leaves the operands well formed.
LEMMA ResolvedFormed ==
  ASSUME GlobalsTypeOK, NEW x \in Instruction, NEW addr \in Word
  PROVE  LET y == Resolved(x, addr)
         IN /\ Formed(y) /\ y.op = x.op /\ y.fmt = x.fmt /\ y.rd = x.rd /\ y.rs1 = x.rs1
            /\ y.rs2 = x.rs2 /\ (x.label = NoLabel => y = x)
<1> DEFINE y == Resolved(x, addr)
<1>1. /\ x \in Operands /\ Formed(x)
      /\ x.op \in {"OP_ECALL", "OP_EBREAK"} => x.label = NoLabel
      /\ x.label # NoLabel => RelocOf(x.fmt) # "RELOC_NONE"
  BY DEF Instruction, Formed
<1>2. y \in Operands
  BY <1>1, ResolvedType
<1>3. /\ y.op = x.op /\ y.fmt = x.fmt /\ y.rd = x.rd /\ y.rs1 = x.rs1 /\ y.rs2 = x.rs2
      /\ x.label = NoLabel => y = x
  BY <1>1 DEF Resolved, Operands
<1>4. x.label # NoLabel => x.fmt \notin NoImm
  BY <1>1 DEF RelocOf, NoImm
<1> HIDE DEF y
<1>5. Formed(y)
  BY <1>1, <1>2, <1>3, <1>4 DEF Formed
<1> QED
  BY <1>3, <1>5 DEF y

\* A candidate that is not a branch or a jump is well formed and has the immediate of
\* its instruction.
LEMMA RuleFormed ==
  ASSUME NEW c, NEW n \in Instruction, NEW ch, Taken(c, n, ch), ch \in Operands,
         ch.op \notin PcRelOps
  PROVE  /\ Formed(ch) /\ ch.imm = n.imm
         /\ ch.fmt \in {"IF_CL", "IF_CS"} => OffsetFits(ch)
<1>0. \A op, fmt, rd, rs1, rs2, imm :
        /\ Plain(op, fmt, rd, rs1, rs2, imm).op = op /\ Plain(op, fmt, rd, rs1, rs2, imm).fmt = fmt
        /\ Plain(op, fmt, rd, rs1, rs2, imm).rd = rd /\ Plain(op, fmt, rd, rs1, rs2, imm).rs1 = rs1
        /\ Plain(op, fmt, rd, rs1, rs2, imm).rs2 = rs2
        /\ Plain(op, fmt, rd, rs1, rs2, imm).imm = imm
  BY DEF Plain
<1> USE <1>0 DEF Formed, OffsetFits, NoRd, NoRs1, HasRs2, NoImm, OpsOf
<1>1. CASE c_map_addi_self(n) /\ ch = Plain("OP_C_ADDI", "IF_CI", n.rd, n.rd, 0, n.imm)
  BY <1>1
<1>2. CASE c_map_li_via_addi(n) /\ ch = Plain("OP_C_LI", "IF_CI", n.rd, 0, 0, n.imm)
  BY <1>2
<1>3. CASE c_map_nop(n) /\ ch = Plain("OP_C_ADDI", "IF_CI", 0, 0, 0, 0)
  BY <1>3 DEF c_map_nop
<1>4. CASE c_map_slli(c, n) /\ ch = Plain("OP_C_SLLI", "IF_CI", n.rd, n.rd, 0, n.imm)
  BY <1>4
<1>5. CASE c_map_srxi_prime(c, n) /\ ch = Plain(COp(n.op), "IF_CI", n.rd, n.rd, 0, n.imm)
  <2>1. ch.op \in {"OP_C_SRLI", "OP_C_SRAI"}
    BY <1>5 DEF c_map_srxi_prime, COp
  <2> QED
    BY <1>5, <2>1
<1>6. CASE c_map_andi_prime(n) /\ ch = Plain("OP_C_ANDI", "IF_CI", n.rd, n.rd, 0, n.imm)
  BY <1>6
<1>7. CASE c_map_mv(n) /\ ch = Plain("OP_C_MV", "IF_CR", n.rd, 0, n.rs2, 0)
  BY <1>7, OperandsLacking DEF c_map_mv
<1>8. CASE c_map_add_cr(n) /\ ch = Plain("OP_C_ADD", "IF_CR", n.rd, n.rd, n.rs2, 0)
  BY <1>8, OperandsLacking DEF c_map_add_cr
<1>9. CASE c_map_jr(n) /\ ch = Plain("OP_C_JR", "IF_CR", 0, n.rs1, 0, 0)
  BY <1>9 DEF c_map_jr
<1>10. CASE c_map_jalr(n) /\ ch = Plain("OP_C_JALR", "IF_CR", 1, n.rs1, 0, 0)
  BY <1>10 DEF c_map_jalr
<1>11. CASE c_map_ebreak(n) /\ ch = Plain("OP_C_EBREAK", "IF_CR", 0, 0, 0, 0)
  BY <1>11 DEF c_map_ebreak, Instruction
<1>12. CASE /\ c_map_ca_alu(n) \/ c_map_caw_alu64(c, n)
            /\ ch = Plain(COp(n.op), "IF_CA", n.rd, n.rd, n.rs2, 0)
  <2>1. ch.op \in {"OP_C_SUB", "OP_C_XOR", "OP_C_OR", "OP_C_AND", "OP_C_SUBW", "OP_C_ADDW"}
    BY <1>12 DEF c_map_ca_alu, c_map_caw_alu64, COp
  <2>2. n.op \in OpsOf("IF_R")
    BY <1>12 DEF c_map_ca_alu, c_map_caw_alu64
  <2>3. n.imm = 0
    BY <2>2, OperandsLacking
  <2> QED
    BY <1>12, <2>1, <2>3, SMTT(60)
<1>13. CASE c_map_cl_load(c, n) /\ ch = Plain(COp(n.op), "IF_CL", n.rd, n.rs1, 0, n.imm)
  <2>1. \/ ch.op = "OP_C_LW" /\ Scaled(n, 4, 124)
        \/ ch.op = "OP_C_LD" /\ Scaled(n, 8, 248)
    BY <1>13 DEF c_map_cl_load, COp
  <2>2. ch.imm = n.imm /\ ch.fmt = "IF_CL" /\ ch.rs2 = 0
    BY <1>13
  <2>3. ch.op \in OpsOf("IF_CL")
    BY <2>1
  <2>4. OffsetFits(ch)
    BY <2>1, <2>2 DEF Scaled
  <2> QED
    BY <2>2, <2>3, <2>4
<1>14. CASE c_map_cs_store(n) /\ ch = Plain(COp(n.op), "IF_CS", 0, n.rs1, n.rs2, n.imm)
  <2>1. \/ ch.op = "OP_C_SW" /\ Scaled(n, 4, 124)
        \/ ch.op = "OP_C_SD" /\ Scaled(n, 8, 248)
    BY <1>14 DEF c_map_cs_store, COp
  <2>2. ch.imm = n.imm /\ ch.fmt = "IF_CS" /\ ch.rd = 0
    BY <1>14
  <2>3. ch.op \in OpsOf("IF_CS")
    BY <2>1
  <2>4. OffsetFits(ch)
    BY <2>1, <2>2 DEF Scaled
  <2> QED
    BY <2>2, <2>3, <2>4
<1>15. CASE c_map_ci_sp_load(c, n) /\ ch = Plain(COpSp(n.op), "IF_CI", n.rd, 2, 0, n.imm)
  BY <1>15 DEF c_map_ci_sp_load, COpSp
<1>16. CASE c_map_css_sp_store(n) /\ ch = Plain(COpSp(n.op), "IF_CSS", 0, 2, n.rs2, n.imm)
  BY <1>16 DEF c_map_css_sp_store, COpSp
<1>17. ~(c_map_cb_branchz(n) /\ ch = PcRelative(COp(n.op), "IF_CB", n, 0, n.rs1))
  BY DEF c_map_cb_branchz, COp, PcRelative, PcRelOps, ShortBranches
<1>18. ~(/\ c_map_cj_jump(c, n)
         /\ ch = PcRelative(IF n.rd = 0 THEN "OP_C_J" ELSE "OP_C_JAL", "IF_CJ", n, n.rd, 0))
  BY DEF PcRelative, PcRelOps, ShortJumps
<1> HIDE DEF Formed, OffsetFits
<1> QED
  BY <1>1, <1>2, <1>3, <1>4, <1>5, <1>6, <1>7, <1>8, <1>9, <1>10, <1>11, <1>12, <1>13, <1>14,
     <1>15, <1>16, <1>17, <1>18 DEF Taken

\* An offset that is in range as a uint32_t, and is no larger than one, is in range.
LEMMA NarrowedFits ==
  ASSUME NEW x, x.fmt \in {"IF_CL", "IF_CS"}, x.imm \in Int, x.imm < Mod32,
         c_encode_instruction(cfg, x)
  PROVE  OffsetFits(x)
<1>1. /\ x.op \in {"OP_C_LW", "OP_C_SW"} => ScaledU32(x.imm, 4, 124)
      /\ x.op \in {"OP_C_LD", "OP_C_SD"} => ScaledU32(x.imm, 8, 248)
  BY DEF c_encode_instruction, encode_cltype, encode_cstype
<1>2. 0 <= x.imm => U32(x.imm) = x.imm
  BY WidthAssumption, SmallValue DEF Mod32, U32
<1> QED
  BY <1>1, <1>2 DEF ScaledU32, Scaled, OffsetFits

\* The word of an entry without a choice.
LEMMA PlainWord ==
  ASSUME GlobalsTypeOK, NEW e, EntryOK(cfg, e), e.kind = "IR_INSTR", ~e.has_c_choice,
         Emittable(c_materialize(e), e.addr), c_materialize(e).op \notin Misencoded,
         e.fmt \in {"IF_CL", "IF_CS"} => e.imm < Mod32
  PROVE  LET y == Resolved(c_materialize(e), e.addr)
         IN Manual!Decode(InstrBits(cfg, y), cfg.xlen) = Meaning(e, y.imm)
<1> DEFINE x == c_materialize(e)
           y == Resolved(x, e.addr)
<1>1. e \in Entry /\ e.addr \in Word /\ cfg.xlen \in {32, 64}
  BY DEF EntryOK, Entry, GlobalsTypeOK, Options
<1>2. x = OperandsOf(e)
  BY DEF c_materialize, OperandsOf
<1>3. x \in Instruction
  BY <1>2 DEF EntryOK
<1>4. /\ x.op = e.op /\ x.fmt = e.fmt /\ x.rd = e.rd /\ x.rs1 = e.rs1 /\ x.rs2 = e.rs2
      /\ x.imm = e.imm
  BY <1>2 DEF OperandsOf
<1> HIDE DEF x
<1>5. /\ Formed(y) /\ y.op = x.op /\ y.fmt = x.fmt /\ y.rd = x.rd /\ y.rs1 = x.rs1
      /\ y.rs2 = x.rs2 /\ (x.label = NoLabel => y = x)
  BY <1>1, <1>3, ResolvedFormed
<1>6. ~NotAvailable(x) /\ ~Rejected(x, e.addr)
  BY DEF Emittable, x
<1>7. y.fmt \in WideFormats \cup CFormats
  BY <1>5 DEF Formed, Operands, Formats
<1>8. x.label # NoLabel => RelocOf(x.fmt) # "RELOC_NONE"
  BY <1>3 DEF Instruction
<1>9. x.op \notin Misencoded
  BY DEF x
<1> DEFINE ey == [e EXCEPT !.imm = y.imm]
<1>10. /\ ey.op = e.op /\ ey.rd = e.rd /\ ey.rs1 = e.rs1 /\ ey.rs2 = e.rs2 /\ ey.imm = y.imm
  BY <1>1 DEF Entry
<1>11. Rejected(x, e.addr) <=> \/ ~is_c_fmt(x.fmt) /\ ~require_for_op(cfg, x.op)
                               \/ Undefined(x) \/ Unrelocated(x)
                               \/ IF is_c_fmt(x.fmt) THEN ~c_encode_instruction(cfg, y)
                                  ELSE ~encode_instruction(cfg, y)
  BY Zenon DEF Rejected
<1>20. Meaning(e, y.imm) = IF is_c_fmt(e.fmt) THEN Manual!Expand(ey)
                           ELSE Manual!Wide(e.op, e.rd, e.rs1, e.rs2, y.imm)
  BY Zenon DEF Meaning
<1> HIDE DEF y, ey
<1>12. CASE y.fmt \in CFormats
  <2>1. is_c_fmt(x.fmt) /\ is_c_fmt(e.fmt)
    BY <1>4, <1>5, <1>12 DEF is_c_fmt
  <2>2. require_c_for_op(cfg, y.op) /\ c_encode_instruction(cfg, y)
    BY <1>5, <1>6, <1>11, <2>1 DEF NotAvailable
  <2>3. ASSUME y.fmt \in {"IF_CL", "IF_CS"}
        PROVE  OffsetFits(y)
    <3>1. x.label = NoLabel
      BY <1>5, <1>8, <2>3 DEF RelocOf
    <3>2. y.imm \in Int /\ y.imm < Mod32
      BY <1>4, <1>5, <2>3, <3>1 DEF Formed, Operands
    <3> QED
      BY <2>2, <2>3, <3>2, NarrowedFits
  <2>4. HalfWord(cfg, y)
    BY <1>1, <1>5, <1>9, <1>12, <2>2, <2>3, HalfWordMeans
  <2>5. Manual!Expand(y) = Manual!Expand(ey)
    BY <1>4, <1>5, <1>10, ExpandReads
  <2> QED
    BY <1>20, <2>1, <2>4, <2>5 DEF HalfWord, y, x
<1>13. CASE y.fmt \in WideFormats
  <2>1. ~is_c_fmt(x.fmt) /\ ~is_c_fmt(e.fmt)
    BY <1>4, <1>5, <1>13 DEF is_c_fmt, WideFormats, CFormats
  <2>2. encode_instruction(cfg, y)
    BY <1>6, <1>11, <2>1
  <2>3. Manual!Decode(InstrBits(cfg, y), cfg.xlen) = Manual!Wide(y.op, y.rd, y.rs1, y.rs2, y.imm)
    BY <1>1, <1>5, <1>13, <2>2, WideWord
  <2> QED
    BY <1>4, <1>5, <1>20, <2>1, <2>3 DEF y, x
<1> QED
  BY <1>7, <1>12, <1>13

\* The half-word of a choice.
LEMMA ChosenWord ==
  ASSUME GlobalsTypeOK, NEW e, EntryOK(cfg, e), e.has_c_choice,
         Emittable(c_materialize(e), e.addr), c_materialize(e).op \notin Misencoded
  PROVE  LET y == Resolved(c_materialize(e), e.addr)
         IN Manual!Decode(InstrBits(cfg, y), cfg.xlen) = Meaning(e, y.imm)
<1> DEFINE n == OperandsOf(e)
           ch == c_try_map(cfg, n)
           x == c_materialize(e)
<1>1. /\ e \in Entry /\ e.addr \in Word /\ cfg.xlen \in {32, 64}
      /\ ChosenByRule(cfg, e) /\ e.kind = "IR_INSTR"
  BY DEF EntryOK, Entry, GlobalsTypeOK, Options, ChosenByRule
<1>2. n \in Instruction /\ n \in Operands /\ c_can_map(cfg, n) /\ n.imm = e.imm
  BY <1>1, OperandsOfType DEF EntryOK, ChosenByRule, OperandsOf
<1>3. /\ e.choice \in Operands /\ e.choice.fmt \in CFormats /\ e.fmt \notin CFormats
      /\ e.label # NoLabel => e.choice.op \in PcRelOps
  BY ChoiceForm
<1>4. e.choice.op \notin PcRelOps
  <2> SUFFICES ASSUME e.choice.op \in PcRelOps
               PROVE  FALSE
    OBVIOUS
  <2>1. x = [e.choice EXCEPT !.label = NoLabel, !.reloc = "RELOC_NONE"]
    BY DEF c_materialize
  <2>2. x.op = e.choice.op
    BY <1>3, <2>1 DEF Operands
  <2> HIDE DEF x
  <2>3. x.op \notin Misencoded
    BY DEF x
  <2> QED
    BY <2>2, <2>3 DEF Misencoded
<1>5. x = e.choice
  BY <1>4 DEF c_materialize
<1>6. /\ e.choice = [ch EXCEPT !.imm = e.choice.imm] /\ ch \in Operands
      /\ ch.op \notin PcRelOps => e.choice = ch
  BY <1>1, <1>2, CandidateType DEF ChosenByRule
<1>7. Taken(cfg, n, ch)
  BY <1>2, SomeRule
<1> HIDE DEF n, ch
<1>8. x = ch /\ ch.op \notin PcRelOps
  <2>1. e.choice.op = ch.op
    BY <1>6 DEF Operands
  <2> QED
    BY <1>4, <1>5, <1>6, <2>1
<1>9. x.label = NoLabel /\ is_c_fmt(x.fmt)
  BY ChoiceUnlabelled
<1>10. x.op \notin Misencoded /\ Emittable(x, e.addr)
  OBVIOUS
<1> HIDE DEF x
<1>11. Resolved(x, e.addr) = x
  BY <1>9 DEF Resolved
<1>12. require_c_for_op(cfg, x.op) /\ c_encode_instruction(cfg, x)
  BY <1>9, <1>10, <1>11 DEF Emittable, NotAvailable, Rejected
<1>13. /\ Formed(ch) /\ ch.imm = n.imm
       /\ ch.fmt \in {"IF_CL", "IF_CS"} => OffsetFits(ch)
  BY <1>2, <1>6, <1>7, <1>8, RuleFormed
<1>14. HalfWord(cfg, x)
  BY <1>1, <1>3, <1>5, <1>8, <1>10, <1>12, <1>13, HalfWordMeans
<1>15. Manual!Expand(x) = Manual!Wide(e.op, e.rd, e.rs1, e.rs2, x.imm)
  <2>1. e.label = NoLabel /\ x.imm = e.imm
    BY <1>2, <1>3, <1>4, <1>8, <1>13
  <2> QED
    BY <1>5, <2>1, EntryMeans
<1>16. Meaning(e, x.imm) = Manual!Wide(e.op, e.rd, e.rs1, e.rs2, x.imm)
  BY <1>3 DEF Meaning, is_c_fmt
<1> QED
  BY <1>11, <1>14, <1>15, <1>16 DEF HalfWord, x

-----------------------------------------------------------------------------
(***************************************************************************)
(* The output.                                                             *)
(***************************************************************************)

\* Chunk c holds what the encoders made of its entry.
Encoded(c) ==
  LET e == ir[c.idx]
      x == c_materialize(e)
      y == Resolved(x, e.addr)
  IN /\ c.idx \in DOMAIN ir
     /\ e.kind = "IR_INSTR" =>
          Emittable(x, e.addr) /\ c.imm = y.imm /\ c.bits = InstrBits(cfg, y)

ChunksEncoded == Emitted => \A k \in DOMAIN chunks : Encoded(chunks[k])

WordsInv == OutputInv /\ ChunksEncoded

\* The offsets of the compressed loads and stores the author wrote are at most 32 bits
\* wide: encode_cltype and encode_cstype test the upper bound of what is left of one
\* after a cast to uint32_t.
OffsetsFit == \A k \in DOMAIN ir : ir[k].fmt \in {"IF_CL", "IF_CS"} => ir[k].imm < Mod32

\* What was encoded for an entry stays so while the IR, the table and the options do.
LEMMA EncodedKept ==
  ASSUME UNCHANGED <<cfg, symtab, ir>>, NEW c
  PROVE  Encoded(c)' <=> Encoded(c)
BY DEF Encoded, c_materialize, Resolved, resolve_label, search_sym, Emittable, NotAvailable,
   Rejected, Undefined, Unrelocated

\* A step of the emission.
LEMMA WordsEmission ==
  ASSUME WordsInv, Emission
  PROVE  ChunksEncoded'
<1>1. TypeInv
  BY DEF WordsInv, OutputInv, DeliveryInv
<1>2. /\ UNCHANGED <<cfg, symtab, ir>>
      /\ \/ EndsWalk
         \/ SkipsEntry /\ EntersEntry
         \/ EntersEntry /\ \E c : WritesChunk(c)
  BY <1>1, EmissionStep
<1>3. chunks \in Seq(Chunk) /\ DOMAIN ir = 1 .. Len(ir)
  BY <1>1, ChunksType, IRType
<1>4. stage = "emit"
  BY <1>2 DEF EndsWalk, SkipsEntry, WritesChunk
<1>5. \A k \in DOMAIN chunks : Encoded(chunks[k])
  BY <1>4 DEF WordsInv, ChunksEncoded, Emitted
<1>6. \A k \in DOMAIN chunks' : Encoded(chunks'[k])
  <2>1. CASE UNCHANGED chunks
    BY <1>5, <2>1
  <2>2. ASSUME NEW c, WritesChunk(c)
        PROVE  \A k \in DOMAIN chunks' : Encoded(chunks'[k])
    <3>1. chunks' = Append(chunks, c) /\ ChunkOfEntry(c) /\ i \in 1 .. Len(ir)
      BY <2>2 DEF WritesChunk
    <3>2. Encoded(c)
      BY <1>3, <3>1 DEF ChunkOfEntry, Encoded
    <3>3. c \in Chunk
      BY <3>1 DEF ChunkOfEntry
    <3> QED
      BY <1>3, <1>5, <3>1, <3>2, <3>3
  <2> QED
    BY <1>2, <2>1, <2>2 DEF EndsWalk, SkipsEntry
<1> QED
  BY <1>2, <1>6, EncodedKept DEF ChunksEncoded

\* Every word in the output is the encoding of its entry.
LEMMA WordsInvariant == Spec => []WordsInv
<1>1. Init /\ OutputInv => WordsInv
  BY DEF Init, Init1, WordsInv, ChunksEncoded, Emitted
<1>2. WordsInv /\ OutputInv' /\ [Next]_vars => WordsInv'
  <2> SUFFICES ASSUME WordsInv, OutputInv', [Next]_vars
               PROVE  ChunksEncoded'
    BY DEF WordsInv
  <2>0. TypeInv
    BY DEF WordsInv, OutputInv, DeliveryInv
  <2>1. CASE Layout
    <3>1. stage \in LayoutStages /\ UNCHANGED chunks
      BY <2>1 DEF Layout, DataLayout, DataLayoutDone, pass2_plan_choices, PlanDone, TextLayout,
         TextLayoutDone, pass2_validate_compressed_ranges, Relayout, RelayoutDone, AssignAddress,
         GoTo, LayoutStages, sink_vars
    <3>2. DOMAIN chunks' = {}
      BY <3>1 DEF WordsInv, OutputInv, NothingYet
    <3> QED
      BY <3>2 DEF ChunksEncoded
  <2>2. CASE Emission
    BY <2>2, WordsEmission
  <2>3. CASE OpenOutput
    BY <2>3 DEF OpenOutput, pass2_initialize, ChunksEncoded, Emitted
  <2>4. CASE PassOne \/ StringLost \/ GiveUp \/ pass2_finalize \/ out_finish \/ CloseOutput
    <3>1. stage' \notin {"emit", "finalize"}
      BY <2>0, <2>4, StagesPassOne, ElfStep
      DEF PassOne, StringLost, GiveUp, pass2_finalize, CloseOutput, ElfMoves, TypeInv, LayoutStages
    <3> QED
      BY <3>1 DEF ChunksEncoded, Emitted
  <2>5. CASE UNCHANGED vars
    <3>1. UNCHANGED <<cfg, symtab, ir, stage, chunks>>
      BY <2>5 DEF vars, globals, pass2_vars, sink_vars
    <3> QED
      BY <3>1, EncodedKept DEF WordsInv, ChunksEncoded, Emitted
  <2> QED
    BY <2>1, <2>2, <2>3, <2>4, <2>5 DEF Next, PassTwo, Next2
<1> QED
  BY <1>1, <1>2, OutputInvariant, PTL DEF Spec

\* The machine executes what the source says: every word in the output, outside the
\* forms known to be encoded otherwise, decodes as the manual decodes it to the
\* operation and the operands of its entry, for every source whose compressed loads
\* and stores have offsets of at most 32 bits.
THEOREM WordsDecode == Spec => [](OffsetsFit => EncodingIsFaithful)
<1>1. WordsInv => (OffsetsFit => EncodingIsFaithful)
  <2> SUFFICES ASSUME WordsInv, OffsetsFit, stage = "finalize", NEW k \in DOMAIN chunks,
                      ir[chunks[k].idx].kind = "IR_INSTR",
                      c_materialize(ir[chunks[k].idx]).op \notin Misencoded
               PROVE  Manual!Decode(chunks[k].bits, cfg.xlen)
                        = Meaning(ir[chunks[k].idx], chunks[k].imm)
    BY Zenon DEF EncodingIsFaithful, WordsMeanSource
  <2> DEFINE e == ir[chunks[k].idx]
             y == Resolved(c_materialize(e), e.addr)
  <2>1. Encoded(chunks[k])
    BY DEF WordsInv, ChunksEncoded, Emitted
  <2>2. chunks[k].idx \in DOMAIN ir
    BY <2>1 DEF Encoded
  <2>3. /\ Emittable(c_materialize(e), e.addr) /\ chunks[k].imm = y.imm
        /\ chunks[k].bits = InstrBits(cfg, y)
    BY <2>1 DEF Encoded
  <2>4. EntryOK(cfg, e) /\ GlobalsTypeOK
    BY <2>2, IRType DEF WordsInv, OutputInv, DeliveryInv
  <2>5. e.fmt \in {"IF_CL", "IF_CS"} => e.imm < Mod32
    BY <2>2 DEF OffsetsFit
  <2> HIDE DEF e
  <2>6. e.kind = "IR_INSTR" /\ c_materialize(e).op \notin Misencoded
    BY DEF e
  <2>7. Manual!Decode(InstrBits(cfg, y), cfg.xlen) = Meaning(e, y.imm)
    BY <2>3, <2>4, <2>5, <2>6, PlainWord, ChosenWord
  <2> HIDE DEF y
  <2> QED
    BY <2>3, <2>7 DEF e
<1> QED
  BY <1>1, WordsInvariant, PTL
=============================================================================
