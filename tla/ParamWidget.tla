----------------------------- MODULE ParamWidget -----------------------------
(***************************************************************************)
(* A window's parameters: libbot's widget (src/src/common/param_widget.c,  *)
(* "pw") and its fork for listeners (src/src/common/pg.c, "pg").  Programs *)
(* and the user change values; whoever listens is called within the        *)
(* change, reads the value and may change other parameters itself, so      *)
(* calls nest: stack is the calls under way.                               *)
(*                                                                         *)
(* Spin buttons and sliders behave alike.  A combo box's value is the      *)
(* number of its active row.                                               *)
(***************************************************************************)
EXTENDS Integers, Sequences, FiniteSets

CONSTANTS
  Names, Listeners,
  Initials, Values,  \* of parameters: at first, and that are set
  Ranges,      \* <<min, max>> that are given
  RowLists,    \* sequences of the values of an enum's options
  MaxWidgets,  \* bound on the widgets
  MaxCalls     \* bound on what programs and the user do with them

Nobody == "nobody"

VARIABLES
  api,         \* "pw" or "pg"
  widgets,     \* sequence of [name, type, value, range, given, rows, shown]
  entries,     \* <<"param" or "box", name>> -> index of a widget: params, boxes_params
  listeners,
  stack,       \* sequence of calls: [does, name, left, in, value]
  file,        \* the key file: name -> value
  calls,       \* number of changes made by programs and the user
  heard        \* history: what each listener read last

vars == <<api, widgets, entries, listeners, stack, file, calls, heard>>

Numbers == {"int", "double", "box"}
Buttons == {"check", "toggle"}

Put(f, k, v) == [x \in DOMAIN f \cup {k} |-> IF x = k THEN v ELSE f[x]]
Widget(k)    == widgets[entries[k]]
Param(n)     == <<"param", n>>
Params       == {k[2] : k \in {e \in DOMAIN entries : e[1] = "param"}}
Reading(w)   == IF w.type = "enum" THEN w.rows[w.value] ELSE w.value
Get(n)       == Reading(Widget(Param(n)))
\* What a listener that is told of n reads.
Tables(n)    == {k \in DOMAIN entries : k[2] = n}

\* All but the buttons have a value.
Kept == {n \in Params : Widget(Param(n)).type # "button"}

Clamp(v, r) == IF v < r[1] THEN r[1] ELSE IF v > r[2] THEN r[2] ELSE v

\* GTK signals a value that has changed, and generic_widget_changed runs within the call.
Call(does, n, left) ==
  [does |-> does, name |-> n, left |-> left, in |-> Nobody, value |-> 0]

\* Mutant of Told: a change made by a listener is not signalled.
Told_Once(s, n) == IF \E i \in DOMAIN s : s[i].does = "tell" THEN s
                   ELSE Append(s, Call("tell", n, listeners))
Told(s, n) == Append(s, Call("tell", n, listeners))

\* Widget i gets the value v, with the rest of the call, s, still to be done.
Change(i, v, s) ==
  /\ widgets' = [widgets EXCEPT ![i].value = v]
  /\ stack' = IF v # widgets[i].value THEN Told(s, widgets[i].name) ELSE s

\* A new value in the range of the widget.
SetTo(i, v, s) ==
  Change(i, IF widgets[i].type \in Numbers THEN Clamp(v, widgets[i].range) ELSE v, s)

Top == stack[Len(stack)]
Below == SubSeq(stack, 1, Len(stack) - 1)

\* Programs and the user act between the calls, and a listener while it is called.
Act ==
  /\ stack # <<>> => Top.in # Nobody
  /\ calls < MaxCalls /\ calls' = calls + 1
  /\ UNCHANGED api

Alters == Act /\ UNCHANGED <<entries, listeners, file, heard>>
Keeps  == UNCHANGED <<api, entries, listeners, file, calls>>

-----------------------------------------------------------------------------
(* Building the window.  Who adds a parameter knows its value. *)

Adding ==
  /\ calls = 0
  /\ UNCHANGED <<api, listeners, stack, file, calls>>

New(n, t, v, r, rows) ==
  [name |-> n, type |-> t, value |-> v, range |-> r, given |-> r, rows |-> rows,
   shown |-> TRUE]

Insert(table, w) ==
  /\ Len(widgets) < MaxWidgets
  /\ widgets' = Append(widgets, w)
  /\ entries' = Put(entries, <<table, w.name>>, Len(widgets) + 1)
  /\ heard' = [l \in Listeners |-> Put(heard[l], <<table, w.name>>, Reading(w))]

\* Integers and doubles, as spin buttons or sliders.
AddNumber ==
  /\ Adding /\ api = "pw"
  /\ \E n \in Names \ Params, r \in Ranges, v \in Initials, t \in {"int", "double"} :
       /\ v \in r[1] .. r[2]
       /\ Insert("param", New(n, t, v, r, <<>>))

AddSlider ==
  /\ Adding /\ api = "pg"
  /\ \E n \in Names \ Params, r \in Ranges, v \in Initials, t \in {"int", "double"} :
       /\ v \in r[1] .. r[2]
       /\ Insert("param", New(n, t, v, r, <<>>))

\* The names are looked for among the params, and kept among the boxes.
AddBox ==
  /\ Adding /\ api = "pg"
  /\ \E n \in Names \ Params, v \in Initials :
       Insert("box", New(n, "box", v, <<-1, 1000>>, <<>>))

AddEnum ==
  /\ Adding /\ api = "pw"
  /\ \E n \in Names, rows \in RowLists, i \in 1 .. 3 :
       /\ i \in DOMAIN rows /\ \A j \in DOMAIN rows : j > i => rows[j] # rows[i]
       /\ Insert("param", New(n, "enum", i, <<>>, rows))

\* A row of two.  At a name that is there already it ends: those before it stay
\* parameters, and are never shown.
Row(t, n, also, on, alsoOn) ==
  LET twice == also = n \/ also \in Params
      first == [New(n, t, on, <<0, 1>>, <<>>) EXCEPT !.shown = ~twice]
      rest  == IF twice THEN <<>> ELSE << New(also, t, alsoOn, <<0, 1>>, <<>>) >>
  IN << first >> \o rest

InsertRow(row) ==
  LET At(k) == CHOOSE i \in DOMAIN row : Param(row[i].name) = k
      keys  == {Param(row[i].name) : i \in DOMAIN row}
  IN /\ Len(widgets) + 2 <= MaxWidgets
     /\ widgets' = widgets \o row
     /\ entries' = [k \in DOMAIN entries \cup keys |->
                      IF k \in keys THEN Len(widgets) + At(k) ELSE entries[k]]
     /\ heard' = [l \in Listeners |-> [k \in DOMAIN entries \cup keys |->
                    IF k \in keys THEN row[At(k)].value ELSE heard[l][k]]]

AddBooleans ==
  /\ Adding /\ api = "pw"
  /\ \E t \in Buttons, n \in Names \ Params, also \in Names,
        on, alsoOn \in Initials \cap {0, 1} : InsertRow(Row(t, n, also, on, alsoOn))

AddButtons ==
  /\ Adding /\ api = "pw"
  /\ \E n \in Names \ Params, also \in Names : InsertRow(Row("button", n, also, 0, 0))

AddCheckBoxes ==
  /\ Adding /\ api = "pg"
  /\ \E n \in Names \ Params, also \in Names, on, alsoOn \in Initials \cap {0, 1} :
       InsertRow(Row("check", n, also, on, alsoOn))

AddPushButtons ==
  /\ Adding /\ api = "pg"
  /\ \E n \in Names \ Params, also \in Names : InsertRow(Row("button", n, also, 0, 0))

-----------------------------------------------------------------------------
(* Changing values *)

SetNumber(n, v, s) ==
  LET i == entries[Param(n)] IN
  SetTo(i, IF widgets[i].type = "double" THEN Clamp(v, widgets[i].given) ELSE v, s)

\* Only check boxes: toggle buttons are left alone.
SetBool(n, v, s) ==
  IF Widget(Param(n)).type = "check" /\ v \in {0, 1} THEN SetTo(entries[Param(n)], v, s)
  ELSE widgets' = widgets /\ stack' = s

\* Mutant of MatchingRows: the value is taken for the number of the row.
MatchingRows_Index(w, v) == {v} \cap DOMAIN w.rows
\* Of the rows with the value the first is made active.
MatchingRows(w, v) ==
  {i \in DOMAIN w.rows : w.rows[i] = v /\ \A j \in 1 .. i - 1 : w.rows[j] # v}

SetEnum(n, v, s) ==
  LET rows == MatchingRows(Widget(Param(n)), v) IN
  IF rows # {} THEN Change(entries[Param(n)], CHOOSE r \in rows : TRUE, s)
  ELSE widgets' = widgets /\ stack' = s

SetParam(n, v, s) ==
  LET t == Widget(Param(n)).type IN
  /\ t \in Numbers => SetNumber(n, v, s)
  /\ t \in Buttons => SetBool(n, v, s)
  /\ t = "enum" => SetEnum(n, v, s)

Set ==
  /\ Alters /\ api = "pw"
  /\ \E n \in Kept, v \in Values : SetParam(n, v, stack)

\* pg's setters know a slider's range only.
SetInPg ==
  /\ Alters /\ api = "pg"
  /\ \E n \in Kept, v \in Values :
       LET w == Widget(Param(n)) IN
       /\ w.type = "check" => v \in {0, 1}
       /\ SetTo(entries[Param(n)], v, stack)

\* The range and the value are set one after the other, each with its signal.
ModifyNumber ==
  /\ Alters /\ api = "pw"
  /\ \E n \in Params, r \in Ranges, v \in Values :
       LET i == entries[Param(n)]
           w == widgets[i]
           s == Append(stack, [Call("set", n, {}) EXCEPT !.value = v])
       IN /\ w.type \in Numbers
          /\ widgets' = [widgets EXCEPT ![i].range = r, ![i].value = Clamp(w.value, r)]
          /\ stack' = IF widgets'[i].value # w.value THEN Told(s, n) ELSE s

\* A new option, which is made active; or all of them gone but "None", whose value is 0.
ModifyEnum ==
  /\ Alters /\ api = "pw"
  /\ \E n \in Params, v \in Values :
       LET i == entries[Param(n)]
           w == widgets[i]
       IN /\ w.type = "enum" /\ Len(w.rows) < 3
          /\ widgets' = [widgets EXCEPT ![i].rows = Append(@, v), ![i].value = Len(w.rows) + 1]
          /\ stack' = Told(stack, n)

ClearEnum ==
  /\ Alters /\ api = "pw"
  /\ \E n \in Params :
       LET i == entries[Param(n)] IN
       /\ widgets[i].type = "enum"
       /\ widgets' = [widgets EXCEPT ![i].rows = <<0>>, ![i].value = 1]
       /\ stack' = Told(stack, n)

UserChanges ==
  /\ stack = <<>> /\ Alters
  /\ \E i \in DOMAIN widgets, v \in Values :
       LET w == widgets[i] IN
       /\ w.shown
       /\ CASE w.type \in Numbers -> SetTo(i, v, stack)
            [] w.type \in Buttons -> SetTo(i, 1 - w.value, stack)
            [] w.type = "enum" -> v \in DOMAIN w.rows /\ Change(i, v, stack)
            [] w.type = "button" -> widgets' = widgets /\ stack' = Told(stack, w.name)

-----------------------------------------------------------------------------
(* The calls under way *)

Notify ==
  /\ Alters /\ api = "pg"
  /\ \E n \in Names : Tables(n) # {} /\ stack' = Told(stack, n)
  /\ UNCHANGED widgets

\* The next listener of those there were when the call began is called, and reads.
Tell ==
  /\ stack # <<>> /\ Top.does = "tell" /\ Top.in = Nobody
  /\ \E l \in Top.left :
       /\ stack' = Append(Below, [Top EXCEPT !.left = @ \ {l}, !.in = l])
       /\ heard' = [heard EXCEPT ![l] = [k \in DOMAIN @ |->
                      IF k \in Tables(Top.name) THEN Reading(Widget(k)) ELSE @[k]]]
  /\ Keeps /\ UNCHANGED widgets

ListenerReturns ==
  /\ stack # <<>> /\ Top.does = "tell" /\ Top.in # Nobody
  /\ stack' = Append(Below, [Top EXCEPT !.in = Nobody])
  /\ Keeps /\ UNCHANGED <<widgets, heard>>

TellReturns ==
  /\ stack # <<>> /\ Top.does = "tell" /\ Top.in = Nobody /\ Top.left = {}
  /\ stack' = Below
  /\ Keeps /\ UNCHANGED <<widgets, heard>>

\* The second half of a modify function.
SetValue ==
  /\ stack # <<>> /\ Top.does = "set"
  /\ SetTo(entries[Param(Top.name)], Top.value, Below)
  /\ Keeps /\ UNCHANGED heard

\* Whoever begins to listen reads what there is.
AddListener ==
  /\ Act /\ api = "pg"
  /\ \E l \in Listeners :
       /\ listeners' = listeners \cup {l}
       /\ heard' = [heard EXCEPT ![l] = [k \in DOMAIN entries |-> Reading(Widget(k))]]
  /\ UNCHANGED <<widgets, entries, stack, file>>

\* Calls under way still have the removed listener in their copy of the keys.
RemoveListener ==
  /\ Act /\ api = "pg"
  /\ \E l \in listeners : listeners' = listeners \ {l}
  /\ UNCHANGED <<widgets, entries, stack, file, heard>>

Save ==
  /\ Act /\ api = "pw"
  /\ file' = [n \in DOMAIN file \cup Kept |-> IF n \in Kept THEN Get(n) ELSE file[n]]
  /\ UNCHANGED <<widgets, entries, listeners, stack, heard>>

\* Loading remembers, as a history, what had been done when it began.
Load ==
  /\ Act /\ api = "pw"
  /\ stack' = Append(stack, [Call("load", "", Kept \cap DOMAIN file) EXCEPT !.value = calls'])
  /\ UNCHANGED <<widgets, entries, listeners, file, heard>>

LoadParam ==
  /\ stack # <<>> /\ Top.does = "load"
  /\ \E n \in Top.left :
       SetParam(n, file[n], Append(Below, [Top EXCEPT !.left = @ \ {n}]))
  /\ Keeps /\ UNCHANGED heard

LoadReturns ==
  /\ stack # <<>> /\ Top.does = "load" /\ Top.left = {}
  /\ stack' = Below
  /\ Keeps /\ UNCHANGED <<widgets, heard>>

\* The file is empty, or one an earlier run of the program has left.
Init ==
  /\ api \in {"pw", "pg"}
  /\ widgets = <<>> /\ entries = <<>> /\ listeners = Listeners /\ stack = <<>>
  /\ file \in [Names -> Values] \cup {<<>>}
  /\ api = "pg" => file = <<>>
  /\ calls = 0 /\ heard = [l \in Listeners |-> <<>>]

Next ==
  \/ AddNumber \/ AddSlider \/ AddBox \/ AddEnum \/ AddBooleans \/ AddButtons
  \/ AddCheckBoxes \/ AddPushButtons
  \/ Set \/ SetInPg \/ ModifyNumber \/ ModifyEnum \/ ClearEnum \/ UserChanges
  \/ Notify \/ Tell \/ ListenerReturns \/ TellReturns \/ SetValue
  \/ AddListener \/ RemoveListener
  \/ Save \/ Load \/ LoadParam \/ LoadReturns

Spec == Init /\ [][Next]_vars

-----------------------------------------------------------------------------
\* However calls nest, a listener knows every parameter's value as soon as no call that
\* is to tell it is under way (generic_widget_changed).
HeardIsCurrent ==
  \A l \in listeners, k \in DOMAIN entries :
    \/ heard[l][k] = Reading(Widget(k))
    \/ \E i \in DOMAIN stack : stack[i].name = k[2] /\ l \in stack[i].left

\* What has been saved comes back when it is loaded, if nobody sets anything meanwhile:
\* of a number, what is left of it in the ranges it has now.  Not the toggle buttons
\* (vx_gtk_param_widget_load_from_key_file).
SavedComesBack ==
  [][LoadReturns /\ Top.value = calls =>
       \A n \in Kept \cap DOMAIN file :
         LET w == Widget(Param(n)) IN
         CASE w.type \in Numbers ->
                Get(n) = Clamp(IF w.type = "double" THEN Clamp(file[n], w.given) ELSE file[n],
                               w.range)
           [] w.type = "check" -> file[n] \in {0, 1} => Get(n) = file[n]
           [] w.type = "enum" -> file[n] \in {w.rows[i] : i \in DOMAIN w.rows} => Get(n) = file[n]
           [] OTHER -> TRUE]_vars
=============================================================================
