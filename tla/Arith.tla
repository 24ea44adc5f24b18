-------------------------------- MODULE Arith --------------------------------
(***************************************************************************)
(* The 64-bit division and shift of stage 2, written for a 32-bit CPU      *)
(* without a compiler's library: __div64_32 and __lshr64.  A register has  *)
(* Bits bits; what the code computes is taken modulo the width of its type. *)
(***************************************************************************)
EXTENDS PowerOf

CONSTANT Bits             \* 32

ASSUME BitsAssumption == Bits \in Nat \ {0}

Half == Pow2[Bits]          \* of uint32_t
Full == Half * Half       \* of uint64_t

VARIABLES
  div_pc,
  num, arg,               \* the arguments
  rem, b, res, d, high,   \* of __div64_32; res is also what __lshr64 returns
  ret                     \* what __div64_32 returns

operands == <<num, arg>>
working  == <<rem, b, res, d, high>>
div      == <<div_pc, operands, working, ret>>

-----------------------------------------------------------------------------
(* __div64_32: reduce the high half, double the divisor while it is less   *)
(* than the rest, then subtract it halving.                                *)

Div64 ==
  /\ div_pc = "div"
  /\ rem' = num /\ b' = arg /\ res' = 0 /\ d' = 1
  /\ high' = num \div Half
  /\ div_pc' = "reduce"
  /\ UNCHANGED <<operands, ret>>

(* Mutated: the product is kept in the low half. *)
ReducedLow(q) == (rem - ((q * arg) % Half)) % Full
Reduced(q) == (rem - ((q * arg) % Half) * Half) % Full

Reduce ==
  /\ div_pc = "reduce"
  /\ IF high >= arg
     THEN /\ high' = high \div arg
          /\ res' = high' * Half
          /\ rem' = Reduced(high')
     ELSE UNCHANGED <<high, res, rem>>
  /\ div_pc' = "double"
  /\ UNCHANGED <<operands, b, d, ret>>

(* b is compared with 0 as a signed number. *)
Doubles == 0 < b /\ b < Full \div 2 /\ b < rem

Double ==
  /\ div_pc = "double"
  /\ IF Doubles THEN b' = (b + b) % Full /\ d' = (d + d) % Full /\ UNCHANGED div_pc
                ELSE UNCHANGED <<b, d>> /\ div_pc' = "subtract"
  /\ UNCHANGED <<operands, rem, res, high, ret>>

Fits == rem >= b

Subtract ==
  /\ div_pc = "subtract"
  /\ IF Fits THEN rem' = rem - b /\ res' = (res + d) % Full
             ELSE UNCHANGED <<rem, res>>
  /\ b' = b \div 2 /\ d' = d \div 2
  /\ IF d' # 0 THEN UNCHANGED <<div_pc, ret>>
     ELSE div_pc' = "divided" /\ ret' = rem' % Half
  /\ UNCHANGED <<operands, high>>

-----------------------------------------------------------------------------
(* __lshr64.  A word shifted by its width or more is undefined in C; the   *)
(* CPU's shift, which the compiler makes of it, takes the count modulo the *)
(* width.                                                                  *)

High == num \div Half
Low  == num % Half

Shifted(s) == (High \div Pow2[s]) * Half + ((High * Pow2[Bits - s]) % Half)
                + (Low \div Pow2[s])

Lshr64 ==
  /\ div_pc = "lshr"
  /\ res' = IF High = 0 THEN Low \div Pow2[arg % Bits]
            ELSE IF arg >= Bits THEN High \div Pow2[arg - Bits]
            ELSE IF arg = 0 THEN num
            ELSE Shifted(arg)
  /\ div_pc' = "shifted"
  /\ UNCHANGED <<operands, rem, b, d, high, ret>>

-----------------------------------------------------------------------------
ArithInit ==
  /\ num \in 0 .. Full - 1
  /\ \/ div_pc = "div" /\ arg \in 1 .. Half - 1
     \/ div_pc = "lshr" /\ arg \in 0 .. 2 * Bits - 1
  /\ rem = 0 /\ b = 0 /\ res = 0 /\ d = 0 /\ high = 0 /\ ret = 0

ArithNext == Div64 \/ Reduce \/ Double \/ Subtract \/ Lshr64

ArithSpec == ArithInit /\ [][ArithNext]_div

-----------------------------------------------------------------------------
ArithTypeOK ==
  /\ div_pc \in {"div", "reduce", "double", "subtract", "divided", "lshr", "shifted"}
  /\ num \in 0 .. Full - 1 /\ arg \in 0 .. Half - 1
  /\ rem \in 0 .. Full - 1 /\ b \in 0 .. Full - 1
  /\ res \in 0 .. Full - 1 /\ d \in 0 .. Full - 1
  /\ high \in 0 .. Half - 1 /\ ret \in 0 .. Half - 1

(* Quotient and rest are those of the division, for any 64-bit dividend:   *)
(* the dividend is accounted for at every step, with no bit of the divisor *)
(* doubled out of its register, and the rest stays below twice the divisor *)
(* once the subtracting has begun.                                         *)
Accounted ==
  /\ div_pc \in {"double", "subtract"} => res * arg + rem = num /\ b = d * arg
  /\ div_pc = "subtract" => rem < 2 * b

DividesRight ==
  /\ Accounted
  /\ div_pc = "divided" => res = num \div arg /\ ret = num % arg

(* The shift is the division by the power of two, unless a number of one   *)
(* word is shifted by a word or more: lshr64.c:17 does not look at the     *)
(* count.  The callers, in spi-nand-load.c, shift by the logarithm of the  *)
(* size of a page, a block or a die, or by 20, all less than a word.       *)
ShiftIsDefined == High # 0 \/ arg < Bits
ShiftsRight == div_pc = "shifted" /\ ShiftIsDefined => res = num \div Pow2[arg]

=============================================================================
