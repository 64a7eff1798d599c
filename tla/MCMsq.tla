------------------------------- MODULE MCMsq -------------------------------
(* A definition in the image of the shipped INIs: page 1 holds stoich, an  *)
(* idle limit whose scale depends on a bit field of page 2 (iacCLminValue, *)
(* idleRes, iacAlgorithm) and two bins seen through two arrays, one the    *)
(* INI keeps out of tune files (noMsqSave) and, the first, a bit field     *)
(* (outputPin0); page 2 holds bit fields, one with a label twice           *)
(* (wmiEnabledPin), two over one bit (canWBO and unused0_126), a string,   *)
(* bins with the idle limit's scale and an array of one element            *)
(* (unused11_190_191 of the 202405_dev INI).                               *)
EXTENDS Msq

C(name, class, page, at, ty) ==
  [name |-> name, class |-> class, page |-> page, at |-> at, ty |-> ty, n |-> 1,
   lo |-> 0, hi |-> 0, scale |-> One, tr |-> 0, min |-> 0, max |-> 100 * One, labels |-> <<>>,
   nosave |-> FALSE]
SmallDef ==
  << [C("stoich", "Scalar", 1, 1, "U08") EXCEPT !.scale = One \div 10, !.min = 5 * One, !.max = 20 * One],
     [C("clMin", "Scalar", 1, 2, "U08") EXCEPT !.scale = 0],
     [C("outputs", "Array", 1, 3, "U08") EXCEPT !.n = 2, !.nosave = TRUE],
     [C("bins", "Array", 1, 3, "S08") EXCEPT !.n = 2, !.scale = 2 * One, !.tr = 1, !.min = -300 * One],
     [C("twin", "Array", 1, 3, "U08") EXCEPT !.n = 2],
     [C("iacAlgorithm", "Bits", 2, 5, "U08") EXCEPT !.lo = 0, !.hi = 1,
        !.labels = <<"None", "INVALID", "PWM", "Stepper">>],
     [C("pin", "Bits", 2, 5, "U08") EXCEPT !.lo = 2, !.hi = 3,
        !.labels = <<"Board Default", "Board Default", "3">>],
     [C("bin0", "Bits", 1, 3, "U08") EXCEPT !.lo = 0, !.hi = 7],
     [C("canWBO", "Bits", 2, 5, "U08") EXCEPT !.lo = 1, !.hi = 1, !.labels = <<"Off", "On">>],
     [C("reqFuel", "Scalar", 2, 6, "U16") EXCEPT !.scale = One \div 200],
     C("label", "String", 2, 8, "U08"),
     [C("loadBins", "Array", 2, 9, "U08") EXCEPT !.n = 2, !.scale = 0],
     [C("unused11", "Array", 2, 11, "U08") EXCEPT !.scale = 100 * One] >>
\* None has a scale of zero, and INVALID none.
idleRes(bits) ==
  LET of == <<0, NoScale, One, 3 * One>> IN of[bits["iacAlgorithm"] + 1]

\* Values inside and outside the limits, at the ends of the types, and bit
\* fields on an INVALID, an unlisted and a repeated label.
SomeTunes == { <<147, 10, 255, 128, 3, 44, 1, 65, 20, 40, 8>>,
               <<255, 9, 0, 127, 9, 255, 255, 66, 0, 3, 9>>,
               <<0, 255, 1, 2, 6, 0, 0, 65, 20, 40, 0>>,
               <<50, 30, 4, 5, 15, 7, 0, 65, 1, 255, 8>> }
SomeEdits == { <<"iacAlgorithm", 1, 0>>, <<"iacAlgorithm", 1, 3 * One>>, <<"pin", 1, 2 * One>>,
               <<"clMin", 1, 31 * One>>, <<"stoich", 1, 300 * One>>, <<"stoich", 1, 146 * (One \div 10)>>, <<"label", 1, 0>>,
               <<"bins", 3, 0>>, <<"reqFuel", 1, 37 * One>> }
\* For a comparison of a list whose scale is zero.
ScaleEdits == { <<"iacAlgorithm", 1, 0>>, <<"iacAlgorithm", 1, 3 * One>>, <<"loadBins", 1, 0>> }
OneTune == { <<147, 10, 255, 128, 3, 44, 1, 65, 20, 40, 8>> }
None == {}
SomePicks == {{"clMin"}, {"iacAlgorithm", "label"}}
SomeBatches == { << <<"bins", 1, 6 * One>>, <<"bins", 2, -(One * 7)>> >>,
                 << <<"bins", 1, 0>>, <<"bins", 3, 0>>, <<"bins", 2, 0>> >> }
Limits == <<0, 9 * One>>
SomePc == {1, 12 * One}
OtherFiles == { << <<"clMin", Num(45 * One)>>, <<"old", Num(0)>>, <<"bins", Num(One)>>,
                   <<"iacAlgorithm", Txt("INVALID")>>, <<"pin", Txt("3")>>, <<"stoich", Txt("x")>> >> }
=============================================================================
