----------------------------- MODULE TuneValues -----------------------------
(***************************************************************************)
(* Typed constants over the bytes of a tune: tune-model/src/lib.rs.  The   *)
(* tune is one sequence of bytes, page after page; a constant is a record  *)
(*   [name, class, page, at, ty, n, lo, hi, scale, tr, min, max, labels,   *)
(*    nosave]                                                              *)
(* with class Scalar, Bits (field lo..hi of the byte), Array (n elements)  *)
(* or String (n bytes); scale 0 stands for an expression, nosave for the   *)
(* INI's noMsqSave.  User values are integers, One to the unit: fine       *)
(* enough to see the rounding of fmt_num.                                  *)
(***************************************************************************)
EXTENDS Integers, Sequences, FiniteSets, SequencesExt

CONSTANTS
  Def,       \* the constants, in the order of the INI
  ScaleOf(_) \* what an expression gives, from the values of bit fields:
             \* a scale, 0 or NoScale

NoScale == -1  \* the expression does not evaluate
One == 2000000  \* twice the millionths that fmt_num keeps

Names == {Def[i].name : i \in DOMAIN Def}
ByName == [name \in Names |-> Def[CHOOSE i \in DOMAIN Def : Def[i].name = name]]
Const(name) == ByName[name]
Size(ty) == IF ty = "U16" THEN 2 ELSE 1
Signed(ty) == ty = "S08"
ByteSize(c) == IF c.class \in {"Array", "String"} THEN c.n * Size(c.ty) ELSE Size(c.ty)
Bytes(c) == c.at .. c.at + ByteSize(c) - 1

\* A name for one constant; each page has bytes of its own.
ASSUME TuneValuesAssumption ==
  \A i, j \in DOMAIN Def :
    /\ Def[i].name = Def[j].name => i = j
    /\ Def[i].page # Def[j].page => Bytes(Def[i]) \cap Bytes(Def[j]) = {}

read_raw(t, at, ty) ==
  LET u == IF Size(ty) = 2 THEN t[at] + 256 * t[at + 1] ELSE t[at]
  IN IF Signed(ty) /\ u > 127 THEN u - 256 ELSE u
write_raw(t, at, ty, raw) ==
  IF Size(ty) = 2 THEN [t EXCEPT ![at] = raw % 256, ![at + 1] = (raw \div 256) % 256]
  ELSE [t EXCEPT ![at] = raw % 256]
type_range(ty) == CASE ty = "U08" -> <<0, 255>>
                    [] ty = "S08" -> <<-128, 127>>
                    [] ty = "U16" -> <<0, 65535>>

Pow2[k \in 0 .. 16] == IF k = 0 THEN 1 ELSE 2 * Pow2[k - 1]
Width(c) == c.hi - c.lo + 1
Field(c, raw) == (raw \div Pow2[c.lo]) % Pow2[Width(c)]
BitFields == {i \in DOMAIN Def : Def[i].class = "Bits"}
BitsOf(t) == [n \in {Def[i].name : i \in BitFields} |->
                Field(Const(n), read_raw(t, Const(n).at, Const(n).ty))]
Scale(c, t) == IF c.scale = 0 THEN ScaleOf(BitsOf(t)) ELSE c.scale
\* A value encodes neither without a scale nor with a scale of zero.
HasScale(c, t) == Scale(c, t) > 0

\* constant_raw and array_raw: the raw values of a constant.
Raw(c, t) ==
  CASE c.class = "Scalar" -> <<read_raw(t, c.at, c.ty)>>
    [] c.class = "Bits"   -> <<Field(c, read_raw(t, c.at, c.ty))>>
    [] c.class = "Array"  -> [i \in 1 .. c.n |-> read_raw(t, c.at + (i - 1) * Size(c.ty), c.ty)]
    [] c.class = "String" -> SubSeq(t, c.at, c.at + c.n - 1)
\* constant_value and array_values: what the user sees of it.
Value(c, t) ==
  IF c.class \in {"Bits", "String"} THEN Raw(c, t)
  ELSE [i \in DOMAIN Raw(c, t) |-> (Raw(c, t)[i] + c.tr) * Scale(c, t)]

\* f64::round: halves away from zero.
RoundUp(a, b) == (a \div b) + (IF 2 * (a % b) >= b THEN 1 ELSE 0)
RoundDiv(a, b) == IF a >= 0 THEN RoundUp(a, b) ELSE -RoundUp(-a, b)
AtLeast(a, b) == IF a < b THEN b ELSE a
AtMost(a, b)  == IF a > b THEN b ELSE a
Clamp(x, lo, hi) == AtMost(AtLeast(x, lo), hi)

encode_impl(c, t, user, clamp) ==
  LET u == IF clamp THEN Clamp(user, c.min, c.max) ELSE user
      s == Scale(c, t)
      r == type_range(c.ty)
  IN Clamp(RoundDiv(u - c.tr * s, s), r[1], r[2])

\* Mutant: the mask is not moved to the field.
SetBits_Unshifted(c, t, v) ==
  LET raw == read_raw(t, c.at, c.ty)
  IN write_raw(t, c.at, c.ty, raw - (raw % Pow2[Width(c)]) + (v % Pow2[Width(c)]) * Pow2[c.lo])
SetBits(c, t, v) ==
  LET raw == read_raw(t, c.at, c.ty)
  IN write_raw(t, c.at, c.ty, raw + ((v % Pow2[Width(c)]) - Field(c, raw)) * Pow2[c.lo])

\* A value that does not encode is an error and changes nothing.
set_constant_impl(c, t, user, clamp) ==
  IF c.class = "Bits" THEN SetBits(c, t, AtLeast(RoundDiv(user, One), 0))
  ELSE IF HasScale(c, t) THEN write_raw(t, c.at, c.ty, encode_impl(c, t, user, clamp))
  ELSE t
set_array_element_impl(c, t, i, user, clamp) ==
  IF HasScale(c, t)
  THEN write_raw(t, c.at + (i - 1) * Size(c.ty), c.ty, encode_impl(c, t, user, clamp))
  ELSE t
=============================================================================
