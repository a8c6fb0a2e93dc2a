--------------------------- MODULE ScriptNumbers ---------------------------
(***************************************************************************)
(* The arithmetic of scripts: the raw operations behind the registered     *)
(* operators (src/src/system_builtins.cpp).  An integer has IntBits bits   *)
(* and wraps; a floating-point number is a count of quarters or NaN, so    *)
(* what rounding does is out of the model and what NaN does is in it.      *)
(***************************************************************************)
EXTENDS Integers, Sequences

CONSTANT IntBits
ASSUME IntBitsAssumption == IntBits \in Nat \ {0}

FloatUnit == 4
NaN == -999999
Throw == -888888

MinInt == -(2 ^ (IntBits - 1))
MaxInt == 2 ^ (IntBits - 1) - 1

\* Through the unsigned type and back.
Wrap(x) == ((x - MinInt) % (2 ^ IntBits)) + MinInt

Truth(b) == IF b THEN 1 ELSE 0
Magnitude(x) == IF x < 0 THEN -x ELSE x
Larger(x, y) == IF x < y THEN y ELSE x
Smaller(x, y) == IF y < x THEN y ELSE x

\* C's remainder: it takes the sign of the dividend.
TruncMod(x, y) == IF x < 0 THEN -((-x) % Magnitude(y)) ELSE x % Magnitude(y)

IntOp(op, x, y) ==
  CASE op = "addi" -> Wrap(x + y)
    [] op = "muli" -> Wrap(x * y)
    [] op = "subi" -> Wrap(x - y)
    [] op = "posi" -> x
    [] op = "negi" -> Wrap(-x)
    [] op = "modi" -> IF y = 0 THEN Throw ELSE IF y = -1 THEN 0 ELSE TruncMod(x, y)
    [] op = "morei"   -> Truth(x > y)
    [] op = "lessi"   -> Truth(x < y)
    [] op = "moreeqi" -> Truth(x >= y)
    [] op = "lesseqi" -> Truth(x <= y)
    [] op = "eqi"     -> Truth(x = y)
    [] op = "eqs"     -> Truth(x = y)
    [] op = "eqb"     -> Truth(x = y)

\* The extremes and the magnitude, integer and floating-point.
ExtremeOp(op, x, y) ==
  CASE op = "maxi" -> Larger(x, y)
    [] op = "mini" -> Smaller(x, y)
    [] op = "absi" -> IF x < 0 THEN Wrap(-x) ELSE x
    [] op = "maxd" -> IF NaN \in {x, y} THEN NaN ELSE Larger(x, y)
    [] op = "mind" -> IF NaN \in {x, y} THEN NaN ELSE Smaller(x, y)
    [] op = "absd" -> IF x = NaN THEN NaN ELSE Magnitude(x)

FloatArith(op, x, y) ==
  IF NaN \in {x, y} THEN NaN
  ELSE CASE op = "addd" -> x + y
         [] op = "muld" -> (x * y) \div FloatUnit
         [] op = "subd" -> x - y
         [] op = "modd" -> IF y = 0 THEN NaN ELSE TruncMod(x, y)
         [] op = "posd" -> x
         [] op = "negd" -> -x

\* A comparison with NaN is false.
FloatCompare(op, x, y) ==
  Truth(/\ NaN \notin {x, y}
        /\ CASE op = "mored"   -> x > y
             [] op = "lessd"   -> x < y
             [] op = "moreeqd" -> x >= y
             [] op = "lesseqd" -> x <= y
             [] op = "eqd"     -> x = y)

ToFloat(i) == i * FloatUnit

\* Equality across the two numeric types compares as floating-point.
MixedEq(op, x, y) ==
  IF op = "eqid" THEN FloatCompare("eqd", ToFloat(x), y)
  ELSE FloatCompare("eqd", x, ToFloat(y))

\* to_int: truncates, and throws for what no integer represents.
ToInt(x) ==
  IF x = NaN \/ x < ToFloat(MinInt) \/ x >= ToFloat(MaxInt + 1) THEN Throw
  ELSE IF x < 0 THEN -((-x) \div FloatUnit) ELSE x \div FloatUnit

Clamp(x, lo, hi) ==
  IF NaN \notin {lo, hi} /\ hi < lo THEN Throw ELSE IF NaN = x THEN NaN ELSE Larger(lo, Smaller(x, hi))

BoolOp(op, x, y) ==
  CASE op = "not" -> 1 - x
    [] op = "and" -> x * y
    [] op = "or"  -> Larger(x, y)

IntOps == {"addi", "muli", "subi", "posi", "negi", "modi", "morei", "lessi", "moreeqi",
           "lesseqi", "eqi", "eqs", "eqb"}
ExtremeOps == {"maxi", "mini", "absi", "maxd", "mind", "absd"}
FloatArithOps == {"addd", "muld", "subd", "modd", "posd", "negd"}
FloatCompareOps == {"mored", "lessd", "moreeqd", "lesseqd", "eqd"}
BoolOps == {"not", "and", "or"}
RawOps == IntOps \union ExtremeOps \union FloatArithOps \union FloatCompareOps
          \union BoolOps \union {"eqid", "eqdi", "toint", "clamp"}

\* The result of a raw operation, or Throw.
Raw(op, args) ==
  LET x == args[1]
      y == IF Len(args) > 1 THEN args[2] ELSE 0
  IN CASE op \in IntOps -> IntOp(op, x, y)
       [] op \in ExtremeOps -> ExtremeOp(op, x, y)
       [] op \in FloatArithOps -> FloatArith(op, x, y)
       [] op \in FloatCompareOps -> FloatCompare(op, x, y)
       [] op \in {"eqid", "eqdi"} -> MixedEq(op, x, y)
       [] op \in BoolOps -> BoolOp(op, x, y)
       [] op = "toint" -> ToInt(x)
       [] op = "clamp" -> Clamp(x, y, args[3])
=============================================================================
