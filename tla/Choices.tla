------------------------------- MODULE Choices -------------------------------
(***************************************************************************)
(* The two widgets of the web client a value is chosen with: the selector, *)
(* one value of a list, and the searcher, any number of them.  Each keeps  *)
(* the choice twice, as positions in the list and as values, and an event  *)
(* of either sets the other; the positions are what is shown, the values   *)
(* what is read.                                                           *)
(*                                                                         *)
(* A value is a record whose name is the text it is found by; values of    *)
(* one name are told apart by "of".  Positions of a searcher are a set:    *)
(* the two events bring them to the order of the list.                     *)
(*                                                                         *)
(* Definitions headed "Slip" are plausible mistakes in the definition that *)
(* follows them; no specification uses them.                               *)
(***************************************************************************)
EXTENDS Naturals, Sequences

\* The first position of a list that passes a test given as a set, 0 when none does.
First(list, passing) ==
  IF \E i \in 1..Len(list) : list[i] \in passing
  THEN CHOOSE i \in 1..Len(list) :
         list[i] \in passing /\ \A j \in 1..(i - 1) : list[j] \notin passing
  ELSE 0

AtLeastFirst(i) == IF i = 0 THEN 1 ELSE i

-----------------------------------------------------------------------------
(* The choices of the forms: which value is found by which text, and which  *)
(* values a searcher takes for the same.                                    *)

\* PlatformSelectors: a resource or an application is found by its name, whatever its
\* type, so that of two of one name only the first can be picked.
Suggestion(value) == value.name

\* PlatformSearchers: only the artifacts of projects are compared by name.
Comparator(searcher) == searcher = "projectArtifacts"
-----------------------------------------------------------------------------
(* Selector. *)

\* A selector opens on the value given, whether or not the list has it.
Selector(list, value) ==
  [available |-> list, index |-> AtLeastFirst(First(list, {value})), selected |-> value]

SelectIndex(s, i) ==
  IF s.index = i THEN s ELSE [s EXCEPT !.index = i, !.selected = s.available[i]]

\* A value the list does not have stays selected when the first is shown already.
Select(s, value) ==
  LET i == AtLeastFirst(First(s.available, {value})) IN
  IF value = s.selected THEN s
  ELSE IF i = s.index THEN [s EXCEPT !.selected = value]
  ELSE SelectIndex(s, i)

\* What the user picks is found by its name.
SelectItem(s, name) ==
  SelectIndex(s, AtLeastFirst(First(s.available, {v \in {s.available[i] : i \in DOMAIN s.available} :
                                                    Suggestion(v) = name})))

SetAvailable(s, list) ==
  LET i == AtLeastFirst(First(list, {s.selected}))
      t == [s EXCEPT !.available = list]
  IN IF s.index = i THEN Select(t, list[i]) ELSE SelectIndex(t, i)

-----------------------------------------------------------------------------
(* Searcher.  "byName" is its comparator: values of one name are the same. *)

Alike(byName, a, b) == IF byName THEN a.name = b.name ELSE a = b

Positions(list, values, byName) ==
  {i \in DOMAIN list : \E v \in values : Alike(byName, list[i], v)}

Searcher(list, byName) ==
  [available |-> list, indexes |-> {}, selected |-> {}, byName |-> byName]

SelectIndexes(x, indexes) ==
  IF x.indexes = indexes THEN x
  ELSE [x EXCEPT !.indexes = indexes, !.selected = {x.available[i] : i \in indexes}]

SelectAll(x, values) ==
  LET indexes == Positions(x.available, values, x.byName) IN
  IF x.selected = values THEN x
  ELSE IF x.indexes = indexes THEN [x EXCEPT !.selected = values]
  ELSE SelectIndexes(x, indexes)

\* The values that are found again keep their places; when the places are the same,
\* so are the values that are read, even if the list has newer ones of their names.
SetSearched(x, list) ==
  SelectIndexes([x EXCEPT !.available = list], Positions(list, x.selected, x.byName))

=============================================================================
