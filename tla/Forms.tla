------------------------------- MODULE Forms -------------------------------
(***************************************************************************)
(* Settings menus and dialogs: read from the [Menu] and [UserDefined]      *)
(* sections line by line (ts-ini/src/sections.rs), and served as menus and *)
(* forms against the live tune (tune_menus and tune_dialog of api.rs).     *)
(* Labels, titles and whether a row is greyed out are left out.  A         *)
(* condition is a tree of IniExpr, or NoCond where it is absent, empty or  *)
(* cannot be parsed.                                                       *)
(***************************************************************************)
EXTENDS IniExpr, FiniteSets

CONSTANTS
  Conds,        \* conditions an author writes
  DialogNames, Constants, TableNames, CurveNames,
  Calibrations, \* std_ms2geno2, if the INI has the calibration it stands for
  Others,       \* names that resolve to nothing served
  StdInjection, \* the constants of the built-in injection panel
  MaxIniLines

VARIABLES
  section,  \* the section read
  menus,    \* def.menus: sequences of items
  dialogs,  \* def.dialogs, in order: [name, items]
  lines
formVars == <<section, menus, dialogs, lines>>

NoCond == <<"none">>
AnyCond == Conds \cup {NoCond}
Targets == DialogNames \cup TableNames \cup CurveNames \cup Calibrations \cup Others
Line(s) == section = s /\ lines < MaxIniLines /\ lines' = lines + 1 /\ UNCHANGED section

-----------------------------------------------------------------------------
(* [Menu].                                                                 *)
Entry(t) == [type |-> "entry", target |-> t, children |-> <<>>]
Group == [Entry("") EXCEPT !.type = "group"]
Separator == [Entry("") EXCEPT !.type = "separator"]
LastMenu == menus[Len(menus)]
AddItem(i) == menus' = [menus EXCEPT ![Len(menus)] = Append(@, i)]

Menu == Line("Menu") /\ menus' = Append(menus, <<>>) /\ UNCHANGED dialogs
SubMenu ==
  /\ Line("Menu") /\ menus # <<>>
  /\ \/ \E t \in Targets : AddItem(Entry(t))
     \/ AddItem(Separator)
  /\ UNCHANGED dialogs
GroupMenu == Line("Menu") /\ menus # <<>> /\ AddItem(Group) /\ UNCHANGED dialogs
\* Outside a group it is only warned about.
GroupChildMenu ==
  /\ Line("Menu") /\ menus # <<>> /\ LastMenu # <<>> /\ Last(LastMenu).type = "group"
  /\ \E t \in Targets :
       menus' = [menus EXCEPT ![Len(menus)][Len(LastMenu)].children = Append(@, Entry(t))]
  /\ UNCHANGED dialogs

-----------------------------------------------------------------------------
(* [UserDefined].                                                          *)
Item(t, n, visible) == [type |-> t, name |-> n, visible |-> visible]

\* A name defined before is emptied where it stands, and what follows still
\* goes to the dialog that is last.
Dialog ==
  /\ Line("UserDefined")
  /\ \E n \in DialogNames :
       dialogs' = IF \E i \in DOMAIN dialogs : dialogs[i].name = n
                  THEN [i \in DOMAIN dialogs |->
                          IF dialogs[i].name = n THEN [dialogs[i] EXCEPT !.items = <<>>] ELSE dialogs[i]]
                  ELSE Append(dialogs, [name |-> n, items |-> <<>>])
  /\ UNCHANGED menus
Place(i) == /\ dialogs # <<>>
            /\ dialogs' = [dialogs EXCEPT ![Len(dialogs)].items = Append(@, i)]
\* The first condition enables, the second shows.
Field ==
  /\ Line("UserDefined")
  /\ \E t \in {"field", "displayOnly"}, n \in Constants \cup Others, v \in AnyCond :
       Place(Item(t, n, v))
  /\ UNCHANGED menus
Panel ==
  /\ Line("UserDefined")
  /\ \E n \in Targets \cup {"std_injection"} : Place(Item("panel", n, NoCond))
  /\ UNCHANGED menus

FormInit == section \in {"Menu", "UserDefined"} /\ menus = <<>> /\ dialogs = <<>> /\ lines = 0
FormNext == Menu \/ SubMenu \/ GroupMenu \/ GroupChildMenu \/ Dialog \/ Field \/ Panel

-----------------------------------------------------------------------------
(* What is served.                                                         *)

\* Mutant: what cannot be evaluated hides its setting.
truthy_Hides(c) == IF c = NoCond THEN TRUE
                   ELSE IF eval(c) = Error THEN FALSE ELSE Truthy(eval(c))
truthy(c) == IF c = NoCond THEN TRUE
             ELSE IF eval(c) = Error THEN TRUE ELSE Truthy(eval(c))

DefinedDialogs == {dialogs[i].name : i \in DOMAIN dialogs}
DialogItems(n) == (CHOOSE i \in {dialogs[j] : j \in DOMAIN dialogs} : i.name = n).items
Row(t, n, items) == [type |-> t, name |-> n, items |-> items]

\* menu_entry_json: nothing for what is not served; the menus of this model
\* come with every dialog defined.
Served(e) == e.target \in DialogNames \cup TableNames \cup CurveNames \cup Calibrations
EntryRow(e) == Row("entry", e.target, <<>>)

\* Mutant: separators at the end stay.
Trimmed_Not(rows) == rows
Trimmed(rows) == IF rows # <<>> /\ Last(rows).type = "separator" THEN Front(rows) ELSE rows

\* tune_menus, one menu.
AddRow(rows, i) ==
  LET kids == SelectSeq(i.children, Served)
  IN CASE i.type = "entry" -> IF Served(i) THEN Append(rows, EntryRow(i)) ELSE rows
       [] i.type = "group" -> IF kids = <<>> THEN rows
                              ELSE Append(rows, Row("group", "", [k \in DOMAIN kids |-> EntryRow(kids[k])]))
       [] i.type = "separator" -> IF rows # <<>> /\ Last(rows).type # "separator"
                                  THEN Append(rows, Row("separator", "", <<>>)) ELSE rows
MenuRows(items) == Trimmed(FoldLeft(AddRow, <<>>, items))
tune_menus == SelectSeq([m \in DOMAIN menus |-> MenuRows(menus[m])], LAMBDA rows : rows # <<>>)

Shown(t, n) == Row(IF n \in Constants THEN t ELSE "unsupported", n, <<>>)
InjectionRows ==
  LET names == SelectSeq(StdInjection, LAMBDA n : n \in Constants)
  IN [k \in DOMAIN names |-> Row("constant", names[k], <<>>)]

\* dialog_items: visited holds the ancestors, so panels may not nest in
\* themselves, and an empty panel is left out.
RECURSIVE dialog_items(_, _)
dialog_items(d, visited) ==
  LET rows(i) ==
        CASE i.type \in {"field", "displayOnly"} ->
               IF ~truthy(i.visible) THEN <<>>
               ELSE << Shown(IF i.type = "field" THEN "constant" ELSE i.type, i.name) >>
          [] i.type = "panel" /\ i.name \in visited -> <<>>
          [] i.type = "panel" /\ i.name \in DefinedDialogs \ visited ->
               LET items == dialog_items(i.name, visited \cup {i.name})
               IN IF items = <<>> THEN <<>> ELSE << Row("panel", i.name, items) >>
          [] i.type = "panel" /\ i.name \in (CurveNames \cup TableNames) \ DefinedDialogs ->
               << Row("chart", i.name, <<>>) >>
          [] i.type = "panel" /\ i.name = "std_injection" ->
               IF InjectionRows = <<>> THEN <<>> ELSE << Row("panel", i.name, InjectionRows) >>
          [] OTHER -> <<>>
      its == DialogItems(d)
  IN FlattenSeq([k \in DOMAIN its |-> rows(its[k])])
tune_dialog(d) == dialog_items(d, {d})

-----------------------------------------------------------------------------
(* The same, said of the definition as a graph.                            *)
Items(d) == {DialogItems(d)[k] : k \in DOMAIN DialogItems(d)}
PanelsOf(d) == {i.name : i \in {i \in Items(d) : i.type = "panel"}}
Nested[d \in DialogNames, n \in 0 .. Cardinality(DialogNames)] ==
  IF n = 0 THEN {d}
  ELSE Nested[d, n - 1] \cup UNION {PanelsOf(e) \cap DefinedDialogs : e \in Nested[d, n - 1]}
Reached(d) == Nested[d, Cardinality(DialogNames)]

RECURSIVE Leaf(_)
Leaf(rows) == UNION {IF rows[k].items = <<>> THEN {<<rows[k].type, rows[k].name>>}
                     ELSE Leaf(rows[k].items) : k \in DOMAIN rows}
Hidden(i) == i.visible # NoCond /\ eval(i.visible) \in {Number(0), <<"str", "">>}
Offered(i) ==
  CASE i.type = "panel" /\ i.name = "std_injection" ->
         {<<"constant", n>> : n \in {StdInjection[k] : k \in DOMAIN StdInjection} \cap Constants}
    [] i.type = "panel" /\ i.name # "std_injection" ->
         IF i.name \in CurveNames \cup TableNames THEN {<<"chart", i.name>>} ELSE {}
    [] OTHER -> IF Hidden(i) THEN {}
                ELSE {<<IF i.name \notin Constants THEN "unsupported"
                        ELSE IF i.type = "field" THEN "constant" ELSE i.type, i.name>>}

\* A form offers exactly what its dialog and the panels it reaches hold,
\* however they nest or refer to one another, hiding only what a condition
\* that can be evaluated hides (dialog_items, truthy).
FormOffersReached ==
  \A d \in DefinedDialogs :
    Leaf(tune_dialog(d)) = UNION {UNION {Offered(i) : i \in Items(e)} : e \in Reached(d)}

\* A menu lists what is served, in order, with one separator where the INI has
\* any between two entries, and none at an end (tune_menus).
Lists1(i) == i.type # "separator" /\ (IF i.type = "group" THEN SelectSeq(i.children, Served) # <<>> ELSE Served(i))
Kept(items) == SelectSeq([k \in DOMAIN items |-> k], LAMBDA k : Lists1(items[k]))
Parted(items, a, b) == \E k \in a + 1 .. b - 1 : items[k].type = "separator"
MenuAsWritten ==
  \A m \in DOMAIN menus :
    LET items == menus[m]
        kept  == Kept(items)
        rows  == MenuRows(items)
        shown == SelectSeq([k \in DOMAIN rows |-> k], LAMBDA k : rows[k].type # "separator")
    IN /\ Len(shown) = Len(kept)
       /\ \A k \in DOMAIN kept : /\ rows[shown[k]].type = items[kept[k]].type
                                 /\ rows[shown[k]].name = items[kept[k]].target
       /\ \A k \in 1 .. Len(kept) - 1 :
            shown[k + 1] - shown[k] = IF Parted(items, kept[k], kept[k + 1]) THEN 2 ELSE 1
       /\ rows # <<>> => shown[1] = 1 /\ shown[Len(shown)] = Len(rows)
=============================================================================
