-------------------------------- MODULE Msq --------------------------------
(***************************************************************************)
(* .msq tune files: tune-model/src/msq.rs and the handlers of api.rs that  *)
(* edit, save, upload, compare, apply and open them.  The tune lock makes  *)
(* every handler one step.  Which client may write is Lifecycle's matter,  *)
(* what the ECU gets of the edits is TuneSync's.                           *)
(***************************************************************************)
EXTENDS TuneValues

CONSTANTS
  Tunes,      \* byte sequences an ECU may hold
  Edits,      \* <<name, index, user value>>: edits a client may send
  Picks,      \* sets of names a client may apply of a file
  Batches,    \* sequences of edits sent in one request
  PcLimits,   \* lowest and highest value of the PC variable
  PcEdits,    \* user values sent for it
  NotFound,   \* no index of a combo list
  Foreign,    \* files of other programs: sequences of entries, in file order
  MaxSteps

TuneLen == Len(CHOOSE t \in Tunes : TRUE)
IsValue(u) == u.v \in Int /\ u.vs \in Seq(Int)
InPage(c) == c.at \in Nat \ {0} /\ c.n \in Nat \ {0} /\ c.at + ByteSize(c) - 1 <= TuneLen

\* Constants lie in their pages, bit fields in their bytes.
ASSUME MsqAssumption ==
  /\ TuneLen \in Nat /\ Tunes \subseteq [1 .. TuneLen -> 0 .. 255]
  /\ Def \in Seq([name : STRING, class : {"Scalar", "Bits", "Array", "String"}, page : Int,
                  at : Int, ty : {"U08", "S08", "U16"}, n : Int, lo : 0 .. 15, hi : 0 .. 15,
                  scale : Nat, tr : Int, min : Int, max : Int, labels : Seq(STRING),
                  nosave : BOOLEAN])
  /\ \A i \in DOMAIN Def :
       /\ InPage(Def[i]) /\ Def[i].lo <= Def[i].hi
       /\ Def[i].class = "Bits" => Def[i].hi < 8 * Size(Def[i].ty)
  /\ NotFound \notin Int
  /\ Edits \subseteq STRING \X Int \X Int /\ Batches \subseteq Seq(STRING \X Int \X Int)
  /\ \A f \in Foreign : Len(f) \in Nat /\ \A k \in 1 .. Len(f) : IsValue(f[k][2])

VARIABLES
  tune,      \* PageState.data of all pages
  shadow,    \* PageState.ecu: what "dirty" compares with
  pc_value,  \* the PC variable
  loaded, offline,
  file,      \* state.msq: the uploaded file, parsed
  saved,     \* the file last written by msq_save
  origin,    \* the tune that saved it, the tune behind the uploaded file
  applied,   \* times the file was applied in full with nothing in between
  last,      \* what the last request did: "edit", "refused", "other"
  steps

vars == <<tune, shadow, pc_value, loaded, offline, file, saved, origin, applied, last, steps>>

NoFile == [entries |-> <<>>, pc |-> <<>>]
NoTune == <<>>
Num(v)  == [kind |-> "num", v |-> v, text |-> "", vs |-> <<>>]
Txt(s)  == [kind |-> "text", v |-> 0, text |-> s, vs |-> <<>>]
Str(vs) == [kind |-> "text", v |-> 0, text |-> "", vs |-> vs]
Arr(vs) == [kind |-> "array", v |-> 0, text |-> "", vs |-> vs]

\* Six decimals survive.
fmt_num(v) == 2 * RoundDiv(v, 2)

-----------------------------------------------------------------------------
(* save, and what parse makes of the text.                                 *)

\* Bytes are saved once, by the first constant over them; bit fields share,
\* and the constants the INI keeps out of tune files do not count.
Overlaps(c, d) == c.page = d.page /\ Bytes(c) \cap Bytes(d) # {}
Owners ==
  LET owned[i \in 0 .. Len(Def)] ==
        IF i = 0 THEN {}
        ELSE IF \/ Def[i].nosave
                \/ /\ Def[i].class # "Bits"
                   /\ \E j \in owned[i - 1] : Def[j].class # "Bits" /\ Overlaps(Def[j], Def[i])
             THEN owned[i - 1] ELSE owned[i - 1] \cup {i}
  IN owned[Len(Def)]

HasLabel(c, k) == k + 1 \in DOMAIN c.labels /\ c.labels[k + 1] # "INVALID"

\* One number is read back as a number, however many it was meant to be.
parse_body(vs) == IF Len(vs) = 1 THEN Num(vs[1]) ELSE Arr(vs)
Saved(c, t) ==
  LET v == Value(c, t)
  IN CASE c.class = "Scalar" -> Num(fmt_num(v[1]))
       [] c.class = "Array"  -> parse_body([i \in DOMAIN v |-> fmt_num(v[i])])
       [] c.class = "Bits"   -> IF HasLabel(c, v[1]) THEN Txt(c.labels[v[1] + 1])
                                ELSE Num(v[1] * One)
       [] c.class = "String" -> Str(v)
\* An owner without a value is left out, and its bytes with it.
Resolves(c, t) == c.class \in {"Bits", "String"} \/ Scale(c, t) # NoScale
save(t, pc) ==
  LET upto[i \in 0 .. Len(Def)] ==
        IF i = 0 THEN <<>>
        ELSE IF i \in Owners /\ Resolves(Def[i], t)
             THEN Append(upto[i - 1], <<Def[i].name, Saved(Def[i], t)>>)
        ELSE upto[i - 1]
  IN [entries |-> upto[Len(Def)], pc |-> <<fmt_num(pc)>>]

-----------------------------------------------------------------------------
(* apply and diff.                                                         *)
\* `as i64` cuts towards zero.
Cut(v) == IF v >= 0 THEN v \div One ELSE -((-v) \div One)
file_bits_index(c, value) ==
  CASE value.kind = "num" -> Cut(value.v)
    [] value.kind = "text" /\ value.text # "INVALID"
         /\ \E i \in DOMAIN c.labels : c.labels[i] = value.text ->
         (CHOOSE i \in DOMAIN c.labels :
            /\ c.labels[i] = value.text
            /\ \A j \in 1 .. i - 1 : c.labels[j] # value.text) - 1
    [] OTHER -> NotFound

\* The shapes of a file value that a constant takes.
Fits(c, value) ==
  \/ c.class = "Scalar" /\ value.kind = "num"
  \/ c.class = "Bits" /\ file_bits_index(c, value) # NotFound
  \/ c.class = "Array" /\ value.kind = "array" /\ Len(value.vs) = c.n

ApplyArray(c, t, vs, clamp) ==
  LET upto[i \in 0 .. c.n] ==
        IF i = 0 THEN t ELSE set_array_element_impl(c, upto[i - 1], i, vs[i], clamp)
  IN upto[c.n]

\* Mutant: the limits of the user interface are applied to files too.
ApplyOne_Clamped(t, e) ==
  IF e[1] \notin Names \/ ~Fits(Const(e[1]), e[2]) THEN t
  ELSE LET c == Const(e[1])
       IN CASE c.class = "Scalar" -> set_constant_impl(c, t, e[2].v, TRUE)
            [] c.class = "Bits"   -> set_constant_impl(c, t, file_bits_index(c, e[2]) * One, TRUE)
            [] c.class = "Array"  -> ApplyArray(c, t, e[2].vs, TRUE)
ApplyOne(t, e) ==
  IF e[1] \notin Names \/ ~Fits(Const(e[1]), e[2]) THEN t
  ELSE LET c == Const(e[1])
       IN CASE c.class = "Scalar" -> set_constant_impl(c, t, e[2].v, FALSE)
            [] c.class = "Bits"   -> set_constant_impl(c, t, file_bits_index(c, e[2]) * One, FALSE)
            [] c.class = "Array"  -> ApplyArray(c, t, e[2].vs, FALSE)
\* In file order, each with the scale the tune has by then.
apply(f, t, names) ==
  LET upto[k \in 0 .. Len(f.entries)] ==
        IF k = 0 THEN t
        ELSE IF f.entries[k][1] \in names THEN ApplyOne(upto[k - 1], f.entries[k])
        ELSE upto[k - 1]
  IN upto[Len(f.entries)]
set_pc_value(v) == Clamp(v, PcLimits[1], PcLimits[2])
ApplyPc(f, pc) == IF f.pc = <<>> THEN pc ELSE set_pc_value(f.pc[1])

\* diff: the entries that differ, and those that cannot be compared.
\* Mutant: values are compared as the user sees them, to the whole unit.
Differs_Whole(t, e) ==
  LET c == Const(e[1])
  IN CASE c.class = "Scalar" -> RoundDiv(Value(c, t)[1], One) # RoundDiv(e[2].v, One)
       [] c.class = "Bits"   -> Raw(c, t)[1] # file_bits_index(c, e[2])
       [] c.class = "Array"  -> \E i \in 1 .. c.n :
                                  Raw(c, t)[i] # encode_impl(c, t, e[2].vs[i], FALSE)
       [] c.class = "String" -> Raw(c, t) # e[2].vs
Differs(t, e) ==
  LET c == Const(e[1])
  IN CASE c.class = "Scalar" -> Raw(c, t)[1] # encode_impl(c, t, e[2].v, FALSE)
       [] c.class = "Bits"   -> Raw(c, t)[1] # file_bits_index(c, e[2])
       [] c.class = "Array"  -> \E i \in 1 .. c.n :
                                  Raw(c, t)[i] # encode_impl(c, t, e[2].vs[i], FALSE)
       [] c.class = "String" -> Raw(c, t) # e[2].vs
\* An array that does not encode is in neither list.
Silent(t, e) == Const(e[1]).class = "Array" /\ ~HasScale(Const(e[1]), t)
Matched(e) ==
  /\ e[1] \in Names
  /\ \/ Fits(Const(e[1]), e[2])
     \/ Const(e[1]).class = "String" /\ e[2].kind = "text"
Comparable(t, e) ==
  Matched(e) /\ (Const(e[1]).class \in {"Bits", "String"} \/ HasScale(Const(e[1]), t))
diff(f, t) ==
  [entries |-> {e \in Range(f.entries) : Comparable(t, e) /\ Differs(t, e)},
   unresolved |-> {e \in Range(f.entries) : ~Comparable(t, e) /\ ~(Matched(e) /\ Silent(t, e))}]

-----------------------------------------------------------------------------
(* The handlers.                                                           *)
Step == steps < MaxSteps /\ steps' = steps + 1

EditOne(t, e) ==
  LET c == Const(e[1])
  IN IF c.class = "Array" THEN set_array_element_impl(c, t, e[2], e[3], TRUE)
     ELSE set_constant_impl(c, t, e[3], TRUE)
\* Strings are not editable, an index must be in range, a value must encode.
Editable(t, e) ==
  /\ e[1] \in Names /\ Const(e[1]).class # "String"
  /\ Const(e[1]).class = "Array" => e[2] \in 1 .. Const(e[1]).n
  /\ Const(e[1]).class = "Bits" \/ HasScale(Const(e[1]), t)

tune_set_constant ==
  /\ Step /\ loaded
  /\ \E e \in Edits :
       /\ tune' = IF Editable(tune, e) THEN EditOne(tune, e) ELSE tune
       /\ last' = IF Editable(tune, e) THEN "edit" ELSE "refused"
  /\ applied' = 0
  /\ UNCHANGED <<shadow, pc_value, loaded, offline, file, saved, origin>>

\* tune_table_cells, tune_curve_points: the first bad cell ends the request
\* with an error, and the cells before it stay edited.
EditFirst(t, b, k) ==
  LET upto[i \in 0 .. k] == IF i = 0 THEN t ELSE EditOne(upto[i - 1], b[i])
  IN upto[k]
Prefix(t, b) ==
  {k \in 0 .. Len(b) : \A i \in 1 .. k : Editable(EditFirst(t, b, i - 1), b[i])}
Batch ==
  /\ Step /\ loaded
  /\ \E b \in Batches :
       LET k == CHOOSE k \in Prefix(tune, b) : \A j \in Prefix(tune, b) : j <= k
       IN /\ tune' = EditFirst(tune, b, k)
          /\ last' = IF k = Len(b) THEN "other" ELSE "refused"
  /\ applied' = 0
  /\ UNCHANGED <<shadow, pc_value, loaded, offline, file, saved, origin>>

SetPc ==
  /\ Step /\ loaded
  /\ \E v \in PcEdits : pc_value' = set_pc_value(v)
  /\ last' = "other"
  /\ UNCHANGED <<tune, shadow, loaded, offline, file, saved, origin, applied>>

msq_save ==
  /\ Step /\ loaded
  /\ saved' = save(tune, pc_value)
  /\ origin' = [origin EXCEPT !.saved = tune]
  /\ last' = "other"
  /\ UNCHANGED <<tune, shadow, pc_value, loaded, offline, file, applied>>

msq_upload ==
  /\ Step
  /\ \/ saved # NoFile /\ file' = saved /\ origin' = [origin EXCEPT !.file = origin.saved]
     \/ \E f \in Foreign : file' = [NoFile EXCEPT !.entries = f]
                           /\ origin' = [origin EXCEPT !.file = NoTune]
  /\ applied' = 0 /\ last' = "other"
  /\ UNCHANGED <<tune, shadow, pc_value, loaded, offline, saved>>

msq_apply ==
  /\ Step /\ loaded /\ file # NoFile
  /\ \E names \in {Names} \cup Picks :
       /\ tune' = apply(file, tune, names)
       /\ applied' = IF names = Names THEN applied + 1 ELSE 0
       /\ pc_value' = IF names = Names THEN ApplyPc(file, pc_value) ELSE pc_value
  /\ last' = "other"
  /\ UNCHANGED <<shadow, loaded, offline, file, saved, origin>>

\* The comms thread ends: the tune stays, but is no longer loaded.  No bound
\* is needed: a connect comes before the next.
Connected == loaded /\ ~offline
disconnect ==
  /\ Connected /\ loaded' = FALSE
  /\ applied' = 0 /\ last' = "other"
  /\ UNCHANGED <<tune, shadow, pc_value, offline, file, saved, origin, steps>>

Blank == [i \in DOMAIN tune |-> 0]
offline_open ==
  /\ Step /\ file # NoFile /\ ~Connected
  /\ tune' = apply(file, Blank, Names) /\ shadow' = tune'
  /\ pc_value' = ApplyPc(file, pc_value)
  /\ loaded' = TRUE /\ offline' = TRUE /\ applied' = 1 /\ last' = "other"
  /\ UNCHANGED <<file, saved, origin>>

offline_close ==
  /\ Step /\ offline
  /\ tune' = Blank /\ shadow' = Blank
  /\ loaded' = FALSE /\ offline' = FALSE /\ applied' = 0 /\ last' = "other"
  /\ UNCHANGED <<pc_value, file, saved, origin>>

\* do_connect: an offline tune with unsaved edits is not thrown away.
Dirty == offline /\ tune # shadow
do_connect ==
  /\ Step /\ ~Connected
  /\ IF Dirty THEN last' = "refused" /\ UNCHANGED <<tune, shadow, loaded, offline, applied>>
     ELSE /\ last' = "other" /\ loaded' = TRUE /\ offline' = FALSE /\ applied' = 0
          /\ tune' \in Tunes /\ shadow' = tune'
  /\ UNCHANGED <<pc_value, file, saved, origin>>

Init ==
  /\ tune \in Tunes /\ shadow = tune /\ pc_value = PcLimits[1] /\ loaded = TRUE /\ offline = FALSE
  /\ file = NoFile /\ saved = NoFile
  /\ origin = [saved |-> NoTune, file |-> NoTune]
  /\ applied = 0 /\ last = "other" /\ steps = 0

Next == \/ tune_set_constant \/ Batch \/ SetPc \/ msq_save \/ msq_upload \/ msq_apply
        \/ offline_open \/ offline_close \/ do_connect \/ disconnect
Spec == Init /\ [][Next]_vars

-----------------------------------------------------------------------------
(* What an owner of tune files relies on.                                  *)

\* A label that an earlier slot of the list also bears names that slot.
Slot(c, k) == IF HasLabel(c, k) THEN file_bits_index(c, Txt(c.labels[k + 1])) ELSE k
Same(c, t, s) == IF c.class = "Bits" THEN Raw(c, t)[1] = Slot(c, Raw(c, s)[1])
                 ELSE Raw(c, t) = Raw(c, s)
\* Never written back: strings, arrays of one element (read back as a number)
\* and what had no scale to encode with.
Restorable(c, s) ==
  \/ c.class = "Bits"
  \/ c.class = "Scalar" /\ HasScale(c, s)
  \/ c.class = "Array" /\ c.n # 1 /\ HasScale(c, s)
Restored(t, s) == \A i \in Owners : Restorable(Def[i], s) => Same(Def[i], t, s)

\* A file saved here and applied in full twice restores every constant it can
\* write back, to what the tune it was saved from had, whatever was in the tune
\* before, values outside the limits included.  Once is not enough: a scale
\* may depend on a bit field that comes later in the file (save, parse, apply).
RestoreSettles == (origin.file # NoTune /\ applied >= 2) => Restored(tune, origin.file)

\* When the comparison with a file saved here shows no difference, every number
\* in the file is the tune's or is listed as not compared, although the file is
\* encoded with the scales of the present tune; all but the arrays that have no
\* scale there, of which diff says nothing.
Uncompared == {e[1] : e \in diff(file, tune).unresolved}
Answered(c) ==
  /\ c.class # "String" /\ Resolves(c, origin.file) /\ c.name \notin Uncompared
  /\ c.class = "Array" => HasScale(c, tune)
EmptyDiffTrusted ==
  (origin.file # NoTune /\ diff(file, tune).entries = {})
    => \A i \in Owners : Answered(Def[i]) => Same(Def[i], tune, origin.file)

\* The same of every number in the file: "anything unmatched is reported, never
\* silently dropped" (msq.rs:9).
DiffDropsNothing ==
  (origin.file # NoTune /\ diff(file, tune).entries = {})
    => \A i \in Owners :
         (Def[i].class # "String" /\ Resolves(Def[i], origin.file) /\ Def[i].name \notin Uncompared)
           => Same(Def[i], tune, origin.file)

\* An edit of one constant leaves every constant alone that shares no bits
\* with it (set_constant_impl, write_raw).
Apart(c, d) ==
  \/ Bytes(c) \cap Bytes(d) = {}
  \/ /\ c.class = "Bits" /\ d.class = "Bits" /\ c.at = d.at /\ c.ty = d.ty
     /\ c.hi < d.lo \/ d.hi < c.lo
Changed == {i \in DOMAIN Def : Raw(Def[i], tune') # Raw(Def[i], tune)}
EditsStayInPlace ==
  [][last' = "edit" =>
       \E e \in Edits : /\ Editable(tune, e) /\ tune' = EditOne(tune, e)
                        /\ \A i \in Changed : ~Apart(Def[i], Const(e[1]))]_vars
=============================================================================
