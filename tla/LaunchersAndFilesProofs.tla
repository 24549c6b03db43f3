------------------------ MODULE LaunchersAndFilesProofs ----------------------
(***************************************************************************)
(* Proofs that the dialogs that act on a project settle on that project,   *)
(* and that a build is of a version its project has, for any projects,     *)
(* versions and artifacts, and any number of answers on the way.           *)
(*                                                                         *)
(* The invariant says of the widgets that what is selected is one of what  *)
(* is available (Choices), and of the requests that only one for the       *)
(* project chosen is marked as the last.                                   *)
(*                                                                         *)
(* And proofs about the files of a module, for any names, picks and        *)
(* removals, readers, ids and transfers in any order: the form holds what  *)
(* is listed, and a module is processed when its files are at the panel.   *)
(* The invariant of the form says which buffers are still to be filled,    *)
(* and that no reader is left for a file that is gone; that of the         *)
(* services follows each file by its id, from the request for the id to    *)
(* the transfer and the content of the panel.                              *)
(***************************************************************************)
EXTENDS LauncherDialogs, ModuleFiles, SequenceTheorems, FiniteSetTheorems, WellFoundedInduction, TLAPS

-----------------------------------------------------------------------------
(* Choices.                                                                *)

LEMMA Least ==
  ASSUME NEW T \in SUBSET Nat, T # {}
  PROVE  \E m \in T : \A k \in T : ~ (k < m)
<1> DEFINE R == {rs \in Nat \X Nat : rs[1] < rs[2]}
<1>1. IsWellFoundedOn(R, Nat)
  BY NatLessThanWellFounded DEF OpToRel
<1>2. PICK x \in T : \A y \in T : ~ (<<y, x>> \in R)
  BY <1>1, WFMin
<1> QED BY <1>2

\* A value is found when the list has one that passes, and then it is one.
LEMMA FirstFinds ==
  ASSUME NEW list, IsList(list), NEW S
  PROVE  /\ AtLeastFirst(First(list, S)) \in DOMAIN list
         /\ (\E i \in DOMAIN list : list[i] \in S) => list[AtLeastFirst(First(list, S))] \in S
<1> DEFINE T == {i \in 1..Len(list) : list[i] \in S}
<1>1. CASE T = {}
  <2>1. ~ \E i \in 1..Len(list) : list[i] \in S
    BY <1>1
  <2>2. First(list, S) = 0
    BY <2>1 DEF First
  <2> QED BY <2>1, <2>2 DEF AtLeastFirst, IsList
<1>2. CASE T # {}
  <2>1. T \in SUBSET Nat
    BY DEF IsList
  <2>2. PICK m \in T : \A k \in T : ~ (k < m)
    BY <1>2, <2>1, Least
  <2>3. list[m] \in S /\ \A j \in 1..(m - 1) : list[j] \notin S
    BY <2>2 DEF IsList
  <2>4. First(list, S) \in 1..Len(list) /\ list[First(list, S)] \in S
    BY <2>2, <2>3 DEF First
  <2> QED BY <2>4 DEF AtLeastFirst, IsList
<1> QED BY <1>1, <1>2

\* A selector with what it is made of.
IsSelector(s) == s = [available |-> s.available, index |-> s.index, selected |-> s.selected]

LEMMA SelectIndexGives ==
  ASSUME NEW s, IsSelector(s), NEW i
  PROVE  /\ IsSelector(SelectIndex(s, i)) /\ SelectIndex(s, i).available = s.available
         /\ SelectIndex(s, i).index = i
         /\ SelectIndex(s, i).selected = IF s.index = i THEN s.selected ELSE s.available[i]
BY DEF IsSelector, SelectIndex

\* A list that is replaced leaves one of its values selected.
LEMMA SetAvailableGives ==
  ASSUME NEW s, IsSelector(s), NEW list, IsList(list)
  PROVE  /\ IsSelector(SetAvailable(s, list)) /\ SetAvailable(s, list).available = list
         /\ SetAvailable(s, list).selected \in Values(list)
<1> DEFINE i == AtLeastFirst(First(list, {s.selected}))
           t == [s EXCEPT !.available = list]
<1>1. i \in DOMAIN list
  BY FirstFinds
<1>2. t = [available |-> list, index |-> s.index, selected |-> s.selected]
  BY DEF IsSelector
<1>3. IsSelector(t) /\ t.available = list /\ t.index = s.index
  BY <1>2 DEF IsSelector
<1> HIDE DEF i, t
<1>4. CASE s.index = i
  <2> DEFINE j == AtLeastFirst(First(list, {list[i]}))
  <2>1. j \in DOMAIN list
    BY FirstFinds
  <2>2. SetAvailable(s, list) = Select(t, list[i])
    BY <1>4 DEF SetAvailable, i, t
  <2>3. Select(t, list[i]) = IF list[i] = t.selected THEN t
                             ELSE IF j = t.index THEN [t EXCEPT !.selected = list[i]]
                             ELSE SelectIndex(t, j)
    BY <1>3 DEF Select
  <2> HIDE DEF j
  <2>4. CASE list[i] = t.selected
    BY <1>1, <1>3, <2>2, <2>3, <2>4 DEF Values
  <2>5. CASE list[i] # t.selected /\ j = t.index
    <3>1. SetAvailable(s, list) = [t EXCEPT !.selected = list[i]]
      BY <2>2, <2>3, <2>5
    <3>2. [t EXCEPT !.selected = list[i]] = [available |-> list, index |-> s.index, selected |-> list[i]]
      BY <1>2
    <3> QED BY <1>1, <3>1, <3>2 DEF Values, IsSelector
  <2>6. CASE list[i] # t.selected /\ j # t.index
    <3>1. SetAvailable(s, list) = SelectIndex(t, j)
      BY <2>2, <2>3, <2>6
    <3> QED BY <1>3, <2>1, <2>6, <3>1, SelectIndexGives DEF Values
  <2> QED BY <2>4, <2>5, <2>6
<1>5. CASE s.index # i
  <2>1. SetAvailable(s, list) = SelectIndex(t, i)
    BY <1>5 DEF SetAvailable, i, t
  <2> QED BY <1>1, <1>3, <1>5, <2>1, SelectIndexGives DEF Values
<1> QED BY <1>4, <1>5

\* What is picked is one of the list, or what was selected at the same place.
LEMMA SelectItemGives ==
  ASSUME NEW s, IsSelector(s), IsList(s.available), NEW name
  PROVE  \E i \in DOMAIN s.available :
           /\ SelectItem(s, name) = SelectIndex(s, i)
           /\ (\E j \in DOMAIN s.available : s.available[j].name = name)
                => s.available[i].name = name
<1> DEFINE S == {v \in {s.available[i] : i \in DOMAIN s.available} : Suggestion(v) = name}
           i == AtLeastFirst(First(s.available, S))
<1>1. i \in DOMAIN s.available
      /\ ((\E j \in DOMAIN s.available : s.available[j] \in S) => s.available[i] \in S)
  BY FirstFinds
<1>2. SelectItem(s, name) = SelectIndex(s, i)
  BY DEF SelectItem
<1> HIDE DEF i
<1>3. ASSUME NEW j \in DOMAIN s.available
      PROVE  s.available[j] \in S <=> s.available[j].name = name
  BY DEF Suggestion
<1> QED BY <1>1, <1>2, <1>3

\* A list named for a project has as many values, each of the project.
LEMMA NamedAllGives ==
  ASSUME NEW list, NEW p
  PROVE  /\ DOMAIN NamedAll(list, p) = DOMAIN list
         /\ \A i \in DOMAIN list : NamedAll(list, p)[i] = Named(list[i], p)
                                   /\ NamedAll(list, p)[i].name = list[i]
                                   /\ NamedAll(list, p)[i].of = p
         /\ IsList(list) => IsList(NamedAll(list, p))
<1>1. DOMAIN NamedAll(list, p) = DOMAIN list
      /\ \A i \in DOMAIN list : NamedAll(list, p)[i] = Named(list[i], p)
  BY DEF NamedAll
<1>2. ASSUME IsList(list) PROVE IsList(NamedAll(list, p))
  <2> DEFINE n == Len(list)
             all == NamedAll(list, p)
             V == {Named(list[i], p) : i \in DOMAIN list}
  <2>1. n \in Nat \ {0} /\ DOMAIN list = 1..n
    BY <1>2 DEF IsList
  <2>2. all = [i \in 1..n |-> Named(list[i], p)]
    BY <2>1 DEF NamedAll
  <2>3. all \in [1..n -> V]
    BY <2>1, <2>2
  <2> HIDE DEF all, V, n
  <2>4. all \in Seq(V) /\ Len(all) = n
    BY <2>1, <2>3, LenProperties
  <2> QED BY <2>1, <2>3, <2>4 DEF IsList, all
<1> QED BY <1>1, <1>2 DEF Named

\* A searcher that compares values themselves, and keeps the choice twice.
IsSearcher(x) ==
  /\ x = [available |-> x.available, indexes |-> x.indexes, selected |-> x.selected,
          byName |-> x.byName]
  /\ x.byName = FALSE
  /\ x.indexes \subseteq DOMAIN x.available
  /\ x.selected = {x.available[i] : i \in x.indexes}

LEMMA SelectIndexesGives ==
  ASSUME NEW x, IsSearcher(x), NEW indexes \in SUBSET DOMAIN x.available
  PROVE  IsSearcher(SelectIndexes(x, indexes)) /\ SelectIndexes(x, indexes).available = x.available
<1>1. CASE x.indexes = indexes
  BY <1>1 DEF SelectIndexes
<1>2. CASE x.indexes # indexes
  <2> DEFINE c == {x.available[i] : i \in indexes}
  <2>1. SelectIndexes(x, indexes) = [x EXCEPT !.indexes = indexes, !.selected = c]
    BY <1>2 DEF SelectIndexes
  <2>2. x.byName = FALSE
    BY DEF IsSearcher
  <2> HIDE DEF c
  <2>3. [x EXCEPT !.indexes = indexes, !.selected = c] =
          [available |-> x.available, indexes |-> indexes, selected |-> c, byName |-> x.byName]
    <3>1. PICK a, b, d, e : x = [available |-> a, indexes |-> b, selected |-> d, byName |-> e]
      BY DEF IsSearcher
    <3> DEFINE y == [x EXCEPT !.indexes = indexes]
    <3>2. y = [available |-> a, indexes |-> indexes, selected |-> d, byName |-> e]
      BY <3>1
    <3>3. [x EXCEPT !.indexes = indexes, !.selected = c] = [y EXCEPT !.selected = c]
      OBVIOUS
    <3> HIDE DEF y
    <3>4. [y EXCEPT !.selected = c] =
            [available |-> a, indexes |-> indexes, selected |-> c, byName |-> e]
      BY <3>2
    <3>5. x.available = a /\ x.byName = e
      BY <3>1
    <3> QED BY <3>3, <3>4, <3>5
  <2> QED BY <2>1, <2>2, <2>3 DEF IsSearcher, c
<1> QED BY <1>1, <1>2

LEMMA PositionsGive ==
  ASSUME NEW list, NEW S
  PROVE  Positions(list, S, FALSE) = {i \in DOMAIN list : list[i] \in S}
BY DEF Positions, Alike

\* All that the list has.
LEMMA SelectAllGives ==
  ASSUME NEW x, IsSearcher(x)
  PROVE  /\ IsSearcher(SelectAll(x, Values(x.available)))
         /\ SelectAll(x, Values(x.available)).available = x.available
<1> DEFINE all == Values(x.available)
           indexes == Positions(x.available, all, x.byName)
<1>1. indexes = DOMAIN x.available
  <2>1. indexes = {i \in DOMAIN x.available : x.available[i] \in all}
    BY PositionsGive DEF IsSearcher
  <2>2. \A i \in DOMAIN x.available : x.available[i] \in all
    BY DEF Values
  <2> QED BY <2>1, <2>2
<1>2. CASE x.selected = all
  BY <1>2 DEF SelectAll
<1>3. CASE x.selected # all /\ x.indexes = indexes
  BY <1>1, <1>3 DEF IsSearcher, Values
<1>4. CASE x.selected # all /\ x.indexes # indexes
  <2>1. SelectAll(x, all) = SelectIndexes(x, indexes)
    BY <1>4 DEF SelectAll
  <2> QED BY <1>1, <2>1, SelectIndexesGives
<1> QED BY <1>2, <1>3, <1>4

\* A list that is replaced, by itself or by one that has nothing of what is selected.
LEMMA SetSearchedGives ==
  ASSUME NEW x, IsSearcher(x), NEW list,
         list = x.available \/ \A i \in DOMAIN list : list[i] \notin x.selected
  PROVE  IsSearcher(SetSearched(x, list)) /\ SetSearched(x, list).available = list
<1> DEFINE t == [x EXCEPT !.available = list]
           indexes == Positions(list, x.selected, x.byName)
<1>0. x.byName = FALSE
  BY DEF IsSearcher
<1>1. indexes = {i \in DOMAIN list : list[i] \in x.selected}
  BY <1>0, PositionsGive
<1>2. t = [available |-> list, indexes |-> x.indexes, selected |-> x.selected, byName |-> x.byName]
  BY DEF IsSearcher
<1>3. SetSearched(x, list) = SelectIndexes(t, indexes)
  BY DEF SetSearched
<1> HIDE DEF t, indexes
<1>4. CASE list = x.available
  <2>1. IsSearcher(t) /\ t.available = list
    BY <1>0, <1>2, <1>4 DEF IsSearcher
  <2>2. indexes \in SUBSET DOMAIN t.available
    BY <1>1, <2>1
  <2> QED BY <1>3, <2>1, <2>2, SelectIndexesGives
<1>5. CASE \A i \in DOMAIN list : list[i] \notin x.selected
  <2>1. indexes = {}
    BY <1>1, <1>5
  <2>2. CASE x.indexes = {}
    <3>1. x.selected = {}
      BY <2>2 DEF IsSearcher
    <3>2. IsSearcher(t) /\ t.available = list
      BY <1>0, <1>2, <2>2, <3>1 DEF IsSearcher
    <3> QED BY <1>3, <2>1, <3>2, SelectIndexesGives
  <2>3. CASE x.indexes # {}
    <3>1. SelectIndexes(t, indexes) =
            [available |-> list, indexes |-> {}, selected |-> {}, byName |-> x.byName]
      BY <1>2, <2>1, <2>3 DEF SelectIndexes
    <3> QED BY <1>0, <1>3, <3>1 DEF IsSearcher
  <2> QED BY <2>2, <2>3
<1> QED BY <1>4, <1>5

-----------------------------------------------------------------------------
(* The invariant.                                                          *)

\* The requests of which one marked as the last asks for this project.
Requests(p) == {r \in [project : Values(Projects), last : BOOLEAN] : r.last => r.project = p}

Typed ==
  /\ kind \in {"closed", "build", "install"}
  /\ answered \in Values(Projects) \cup {None}
  /\ IsSelector(project) /\ project.available = NamedAll(Projects, None)
  /\ project.index \in DOMAIN Projects /\ project.selected = Named(Projects[project.index], None)
  /\ IsSelector(version)

\* What is selected of the versions is one of the project.
VersionsOfProject ==
  kind = "build" /\ answered # None =>
    /\ version.available = NamedAll(Versions[project.selected.name], None)
    /\ version.selected \in Values(version.available)

\* What an answer lists.
Assembly(p) == IF p = None THEN <<>> ELSE Listed(Assembled[p], p)

ArtifactsOfAnswer ==
  /\ kind = "install" => IsSearcher(search) /\ search.available = Assembly(answered)
  /\ kind = "build" => DOMAIN panels = {}
  /\ \A n \in DOMAIN panels :
       /\ panels[n] = [artifact |-> panels[n].artifact, valid |-> panels[n].valid]
       /\ panels[n].artifact.of = answered

\* The request marked as the last asks for the project chosen.
LastIsOfProject ==
  /\ asked \in Seq(Requests(project.selected.name))
  /\ settled => answered = project.selected.name

IInv == Typed /\ VersionsOfProject /\ ArtifactsOfAnswer /\ LastIsOfProject

LEMMA NameOfProject ==
  ASSUME Typed
  PROVE  project.selected.name \in Values(Projects) /\ project.selected.name # None
BY ConstantsAssumption DEF Typed, Named, Values

LEMMA Consequences == IInv => VersionIsOfProject /\ SettledIsOfProject
<1> SUFFICES ASSUME IInv PROVE VersionIsOfProject /\ SettledIsOfProject
  OBVIOUS
<1>1. ASSUME kind = "build", answered # None
      PROVE  version.selected.name \in Values(Versions[project.selected.name])
  <2> DEFINE list == Versions[project.selected.name]
  <2>1. version.selected \in Values(NamedAll(list, None))
    BY <1>1 DEF IInv, VersionsOfProject
  <2>2. PICK i \in DOMAIN list : version.selected = NamedAll(list, None)[i]
    BY <2>1, NamedAllGives DEF Values
  <2> QED BY <2>2, NamedAllGives DEF Values
<1> QED BY <1>1 DEF IInv, VersionIsOfProject, SettledIsOfProject, LastIsOfProject, ArtifactsOfAnswer

\* A dialog opens on the first project.
LEMMA FirstProject ==
  LET s == Selector(NamedAll(Projects, None), Named(Projects[1], None))
  IN /\ IsSelector(s) /\ s.available = NamedAll(Projects, None)
     /\ s.index \in DOMAIN Projects /\ s.selected = Named(Projects[s.index], None)
     /\ s.selected.name = Projects[1] /\ Projects[1] \in Values(Projects)
<1> DEFINE list == NamedAll(Projects, None)
           i == AtLeastFirst(First(list, {Named(Projects[1], None)}))
<1>1. IsList(Projects) /\ 1 \in DOMAIN Projects
  BY ConstantsAssumption DEF IsList
<1>2. IsList(list) /\ DOMAIN list = DOMAIN Projects
      /\ \A j \in DOMAIN Projects : list[j] = Named(Projects[j], None)
  BY <1>1, NamedAllGives
<1> HIDE DEF list
<1>3. i \in DOMAIN list /\ list[i] \in {Named(Projects[1], None)}
  BY <1>1, <1>2, FirstFinds
<1>4. Selector(list, Named(Projects[1], None)) =
        [available |-> list, index |-> i, selected |-> Named(Projects[1], None)]
  BY DEF Selector
<1> HIDE DEF i
<1>5. Named(Projects[i], None) = Named(Projects[1], None)
  BY <1>2, <1>3
<1> QED BY <1>1, <1>2, <1>3, <1>4, <1>5 DEF IsSelector, Named, Values, list

LEMMA InitInv == Init => IInv
<1> SUFFICES ASSUME Init PROVE IInv
  OBVIOUS
<1>1. Typed
  BY FirstProject DEF Init, Typed, Selector, IsSelector
<1> QED BY <1>1 DEF Init, IInv, VersionsOfProject, ArtifactsOfAnswer, LastIsOfProject, NoPanels

\* One more request is the last, and the others no longer are.
LEMMA AskGives ==
  ASSUME NEW q, asked \in Seq(Requests(q)), NEW p \in Values(Projects), Ask(p)
  PROVE  asked' \in Seq(Requests(p))
<1> DEFINE others == [i \in DOMAIN asked |-> [asked[i] EXCEPT !.last = FALSE]]
           r == [project |-> p, last |-> TRUE]
<1>1. asked' = Append(others, r)
  BY DEF Ask
<1>2. DOMAIN asked = 1..Len(asked) /\ Len(asked) \in Nat
  OBVIOUS
<1>3. \A i \in 1..Len(asked) : asked[i] \in [project : Values(Projects), last : BOOLEAN]
  BY <1>2 DEF Requests
<1>4. \A i \in 1..Len(asked) : [asked[i] EXCEPT !.last = FALSE] \in Requests(p)
  BY <1>3 DEF Requests
<1>5. others \in [1..Len(asked) -> Requests(p)]
  BY <1>2, <1>4
<1>6. others \in Seq(Requests(p))
  BY <1>2, <1>5
<1>7. r \in Requests(p)
  BY DEF Requests
<1> HIDE DEF others, r
<1> QED BY <1>1, <1>6, <1>7

\* A request that is answered leaves others of the kind.
LEMMA RemoveGives ==
  ASSUME NEW R, NEW s \in Seq(R), NEW i \in DOMAIN s
  PROVE  s[i] \in R /\ SubSeq(s, 1, i - 1) \o SubSeq(s, i + 1, Len(s)) \in Seq(R)
<1>1. i \in 1..Len(s) /\ Len(s) \in Nat
  OBVIOUS
<1>2. SubSeq(s, 1, i - 1) \in Seq(R) /\ SubSeq(s, i + 1, Len(s)) \in Seq(R)
  BY <1>1
<1> QED BY <1>2

LEMMA SwitchPreserves ==
  ASSUME IInv, NEW name \in Values(Projects), SwitchProject(name)
  PROVE  IInv'
<1> DEFINE choice == SelectItem(project, name)
<1>1. project' = choice
  BY DEF SwitchProject, SwitchBuild
<1>2. IsList(Projects)
  BY ConstantsAssumption
<1>3. PICK i \in DOMAIN Projects : choice = SelectIndex(project, i) /\ Projects[i] = name
  <2>1. IsList(project.available) /\ DOMAIN project.available = DOMAIN Projects
        /\ \A j \in DOMAIN Projects : project.available[j].name = Projects[j]
    BY <1>2, NamedAllGives DEF IInv, Typed
  <2>2. PICK j \in DOMAIN Projects : Projects[j] = name
    BY DEF Values
  <2> QED BY <2>1, <2>2, SelectItemGives DEF IInv, Typed
<1>4. IsSelector(choice) /\ choice.available = NamedAll(Projects, None) /\ choice.index = i
      /\ choice.selected = Named(Projects[i], None) /\ choice.selected.name = name
  <2>1. project.available[i] = Named(Projects[i], None)
    BY NamedAllGives DEF IInv, Typed
  <2> QED BY <1>3, <2>1, SelectIndexGives DEF IInv, Typed, Named
<1> HIDE DEF choice
<1>5. asked' \in Seq(Requests(name)) /\ settled' = FALSE
      /\ UNCHANGED <<kind, answered, panels, enabled>>
  BY AskGives DEF SwitchProject, IInv, LastIsOfProject
<1>6. CASE kind = "build"
  <2> DEFINE list == NamedAll(Versions[name], None)
  <2>1. version' = SetAvailable(version, list)
    BY <1>6 DEF SwitchProject, SwitchBuild
  <2>2. IsList(list)
    BY ConstantsAssumption, NamedAllGives
  <2> HIDE DEF list
  <2>3. IsSelector(version') /\ version'.available = list /\ version'.selected \in Values(list)
    BY <2>1, <2>2, SetAvailableGives DEF IInv, Typed
  <2>4. Typed'
    BY <1>1, <1>3, <1>4, <1>5, <2>3 DEF IInv, Typed
  <2> QED BY <1>1, <1>4, <1>5, <1>6, <2>3, <2>4 DEF IInv, VersionsOfProject, ArtifactsOfAnswer, LastIsOfProject, list
<1>7. CASE kind = "install"
  <2>1. UNCHANGED <<version, search>>
    BY <1>7 DEF SwitchProject
  <2>2. Typed'
    BY <1>1, <1>3, <1>4, <1>5, <2>1 DEF IInv, Typed
  <2> QED BY <1>1, <1>4, <1>5, <1>7, <2>1, <2>2 DEF IInv, VersionsOfProject, ArtifactsOfAnswer, LastIsOfProject
<1> QED BY <1>6, <1>7 DEF SwitchProject

LEMMA ChooseVersionPreserves ==
  ASSUME IInv, NEW name, ChooseVersion(name)
  PROVE  IInv'
<1>1. /\ kind = "build" /\ answered # None
      /\ version' = SelectItem(version, name)
      /\ UNCHANGED <<kind, project, answered, asked, settled, panels, enabled>>
  BY DEF ChooseVersion, HasValidConfiguration
<1>2. IsSelector(version) /\ version.selected \in Values(version.available)
      /\ version.available = NamedAll(Versions[project.selected.name], None)
  BY <1>1 DEF IInv, Typed, VersionsOfProject
<1>3. IsList(version.available)
  BY <1>2, ConstantsAssumption, NameOfProject, NamedAllGives DEF IInv
<1>4. PICK i \in DOMAIN version.available : version' = SelectIndex(version, i)
  BY <1>1, <1>2, <1>3, SelectItemGives
<1>5. IsSelector(version') /\ version'.available = version.available
      /\ version'.selected \in Values(version.available)
  BY <1>2, <1>4, SelectIndexGives DEF Values
<1>6. Typed'
  BY <1>1, <1>5 DEF IInv, Typed
<1> QED BY <1>1, <1>2, <1>5, <1>6 DEF IInv, VersionsOfProject, ArtifactsOfAnswer, LastIsOfProject

\* The panels follow what is selected of the answer held.
LEMMA SelectArtifactsGives ==
  ASSUME IInv, kind = "install", NEW selected, \A a \in selected : a.of = answered,
         SelectArtifacts(selected)
  PROVE  \A n \in DOMAIN panels' :
           /\ panels'[n] = [artifact |-> panels'[n].artifact, valid |-> panels'[n].valid]
           /\ panels'[n].artifact.of = answered
<1> DEFINE names == {a.name : a \in selected}
           of(n) == CHOOSE a \in selected : a.name = n
<1>1. PICK valid \in [names \ DOMAIN panels -> BOOLEAN] :
        panels' = [n \in names |-> IF n \in DOMAIN panels THEN panels[n]
                                   ELSE [artifact |-> of(n), valid |-> valid[n]]]
  BY DEF SelectArtifacts
<1>2. ASSUME NEW n \in names PROVE of(n) \in selected
  OBVIOUS
<1> HIDE DEF of
<1>3. ASSUME NEW n \in names
      PROVE  /\ panels'[n] = [artifact |-> panels'[n].artifact, valid |-> panels'[n].valid]
             /\ panels'[n].artifact.of = answered
  <2>1. CASE n \in DOMAIN panels
    <3>1. panels'[n] = panels[n]
      BY <1>1, <2>1
    <3> QED BY <2>1, <3>1 DEF IInv, ArtifactsOfAnswer
  <2>2. CASE n \notin DOMAIN panels
    <3>1. panels'[n] = [artifact |-> of(n), valid |-> valid[n]]
      BY <1>1, <2>2
    <3>2. panels'[n].artifact = of(n) /\ panels'[n].valid = valid[n]
      BY <3>1
    <3> QED BY <1>2, <3>1, <3>2
  <2> QED BY <2>1, <2>2
<1>4. DOMAIN panels' = names
  BY <1>1
<1> QED BY <1>3, <1>4

\* What an answer lists is of its project, and so is what is selected of it.
LEMMA ListedIsOf ==
  ASSUME NEW p, NEW x, IsSearcher(x), x.available = Assembly(p)
  PROVE  /\ \A i \in DOMAIN x.available : x.available[i].of = p
         /\ \A a \in x.selected : a.of = p
<1>1. \A i \in DOMAIN Assembly(p) : Assembly(p)[i].of = p
  <2>1. CASE p = None
    BY <2>1 DEF Assembly
  <2>2. CASE p # None
    <3> DEFINE list == SelectSeq(Artifacts, LAMBDA n : n \in Assembled[p])
    <3>1. Assembly(p) = NamedAll(list, p)
      BY <2>2 DEF Assembly, Listed
    <3> HIDE DEF list
    <3> QED BY <3>1, NamedAllGives
  <2> QED BY <2>1, <2>2
<1> QED BY <1>1 DEF IsSearcher

LEMMA ChosenPreserves ==
  ASSUME IInv, NEW x, Chosen(x), kind # "closed",
         kind = "install" => IsSearcher(x) /\ x.available = search.available
  PROVE  IInv'
<1>1. search' = x /\ UNCHANGED <<kind, project, version, answered, asked, settled, switches>>
  BY DEF Chosen
<1>2. CASE kind = "install"
  <2>1. \A a \in x.selected : a.of = answered
    BY <1>2, ListedIsOf DEF IInv, ArtifactsOfAnswer
  <2>2. \A n \in DOMAIN panels' :
           /\ panels'[n] = [artifact |-> panels'[n].artifact, valid |-> panels'[n].valid]
           /\ panels'[n].artifact.of = answered
    BY <1>2, <2>1, SelectArtifactsGives DEF Chosen
  <2> QED BY <1>1, <1>2, <2>2 DEF IInv, Typed, VersionsOfProject, ArtifactsOfAnswer, LastIsOfProject
<1>3. CASE kind = "build"
  <2>1. UNCHANGED <<panels, enabled>>
    BY <1>3 DEF Chosen
  <2> QED BY <1>1, <1>3, <2>1 DEF IInv, Typed, VersionsOfProject, ArtifactsOfAnswer, LastIsOfProject
<1> QED BY <1>2, <1>3 DEF IInv, Typed

LEMMA ChoosePreserves ==
  ASSUME IInv, ChooseAll \/ \E indexes \in SUBSET (DOMAIN Artifacts) : ChooseArtifacts(indexes)
  PROVE  IInv'
<1>1. ASSUME NEW indexes, ChooseArtifacts(indexes)
      PROVE  IInv'
  <2>1. Chosen(SelectIndexes(search, indexes)) /\ indexes \subseteq DOMAIN search.available
        /\ kind # "closed"
    BY <1>1 DEF ChooseArtifacts
  <2>2. kind = "install" => IsSearcher(SelectIndexes(search, indexes))
                            /\ SelectIndexes(search, indexes).available = search.available
    BY <2>1, SelectIndexesGives DEF IInv, ArtifactsOfAnswer
  <2> QED BY <2>1, <2>2, ChosenPreserves
<1>2. CASE ChooseAll
  <2>1. CASE kind = "install"
    <3> DEFINE x == SelectAll(search, Values(search.available))
    <3>1. search.available = Listed(Assembled[answered], answered) /\ IsSearcher(search)
          /\ Chosen(SelectAll(search, Values(Listed(Assembled[answered], answered))))
      BY <1>2, <2>1 DEF ChooseAll, IInv, ArtifactsOfAnswer, Assembly
    <3>2. Chosen(x)
      BY <3>1
    <3>3. IsSearcher(x) /\ x.available = search.available
      BY <3>1, SelectAllGives
    <3> HIDE DEF x
    <3> QED BY <2>1, <3>2, <3>3, ChosenPreserves
  <2>2. CASE kind = "build"
    <3>1. PICK x : Chosen(x)
      BY <1>2, <2>2 DEF ChooseAll
    <3> QED BY <2>2, <3>1, ChosenPreserves
  <2> QED BY <1>2, <2>1, <2>2 DEF ChooseAll
<1> QED BY <1>1, <1>2

LEMMA EditPreserves ==
  ASSUME IInv, NEW name, NEW valid \in BOOLEAN, EditModule(name, valid)
  PROVE  IInv'
<1>1. /\ kind = "install" /\ name \in DOMAIN panels
      /\ panels' = [panels EXCEPT ![name].valid = valid]
      /\ UNCHANGED <<kind, project, version, search, answered, asked, settled, switches>>
  BY DEF EditModule
<1>2. ASSUME NEW n \in DOMAIN panels
      PROVE  /\ panels'[n] = [artifact |-> panels'[n].artifact, valid |-> panels'[n].valid]
             /\ panels'[n].artifact.of = answered
  <2>1. CASE n # name
    <3>1. panels'[n] = panels[n]
      BY <1>1, <2>1
    <3> QED BY <3>1 DEF IInv, ArtifactsOfAnswer
  <2>2. CASE n = name
    <3>1. PICK a, v : panels[n] = [artifact |-> a, valid |-> v] /\ a.of = answered
      BY DEF IInv, ArtifactsOfAnswer
    <3>2. panels'[n] = [panels[n] EXCEPT !.valid = valid]
      BY <1>1, <2>2
    <3>3. panels'[n] = [artifact |-> a, valid |-> valid]
      BY <3>1, <3>2
    <3>4. panels'[n].artifact = a /\ panels'[n].valid = valid
      BY <3>3
    <3> QED BY <3>1, <3>3, <3>4
  <2> QED BY <2>1, <2>2
<1>3. DOMAIN panels' = DOMAIN panels
  BY <1>1
<1> QED BY <1>1, <1>2, <1>3 DEF IInv, Typed, VersionsOfProject, ArtifactsOfAnswer, LastIsOfProject

\* An answer to the last request is one for the project chosen.
LEMMA AnswerPreserves ==
  ASSUME IInv, NEW i, Answer(i)
  PROVE  IInv'
<1> DEFINE p == asked[i].project
           chosen == project.selected.name
<1>1. asked[i] \in Requests(chosen) /\ asked' \in Seq(Requests(chosen))
  BY RemoveGives DEF Answer, IInv, LastIsOfProject
<1>2. UNCHANGED <<kind, project, switches>>
  BY DEF Answer
<1>3. CASE kind = "closed"
  <2>1. UNCHANGED <<version, search, answered, settled, panels, enabled>>
    BY <1>3 DEF Answer
  <2> QED BY <1>1, <1>2, <1>3, <2>1 DEF IInv, Typed, VersionsOfProject, ArtifactsOfAnswer, LastIsOfProject
<1>4. ASSUME kind # "closed"
      PROVE  /\ answered' = p /\ p \in Values(Projects) /\ p # None
             /\ LastIsOfProject'
  <2>1. answered' = p /\ settled' = asked[i].last
    BY <1>4 DEF Answer
  <2>2. p \in Values(Projects) /\ (asked[i].last => p = chosen)
    BY <1>1 DEF Requests
  <2> QED BY <1>1, <1>2, <2>1, <2>2, ConstantsAssumption DEF LastIsOfProject
<1>5. CASE kind = "build"
  <2> DEFINE list == NamedAll(Versions[chosen], None)
  <2>1. UNCHANGED panels /\ version' = IF answered = None THEN Selector(list, list[1]) ELSE version
    BY <1>5 DEF Answer, AnswerBuild
  <2>2. IsList(list)
    BY ConstantsAssumption, NameOfProject, NamedAllGives DEF IInv
  <2> HIDE DEF list
  <2>3. IsSelector(Selector(list, list[1])) /\ Selector(list, list[1]).available = list
        /\ Selector(list, list[1]).selected \in Values(list)
    BY <2>2 DEF Selector, IsSelector, IsList, Values
  <2>4. IsSelector(version') /\ version'.available = list /\ version'.selected \in Values(list)
    <3>1. CASE answered = None
      BY <2>1, <2>3, <3>1
    <3>2. CASE answered # None
      BY <1>5, <2>1, <3>2 DEF IInv, Typed, VersionsOfProject, list
    <3> QED BY <3>1, <3>2
  <2>5. Typed'
    BY <1>2, <1>4, <1>5, <2>4 DEF IInv, Typed
  <2>6. VersionsOfProject'
    BY <1>2, <2>4 DEF VersionsOfProject, list
  <2>7. ArtifactsOfAnswer'
    BY <1>2, <1>5, <2>1 DEF IInv, ArtifactsOfAnswer
  <2> QED BY <1>4, <1>5, <2>5, <2>6, <2>7 DEF IInv
<1>6. CASE kind = "install"
  <2> DEFINE list == Listed(Assembled[p], p)
  <2>1. answered' = p /\ p # None
    BY <1>4, <1>6
  <2>2. search' = SetSearched(search, list) /\ panels' = NoPanels /\ UNCHANGED version
    BY <1>6, <2>1 DEF Answer, ReloadArtifacts
  <2>3. list = Assembly(p) /\ IsSearcher(search) /\ search.available = Assembly(answered)
    BY <1>6, <2>1 DEF Assembly, IInv, ArtifactsOfAnswer
  <2>4. list = search.available \/ \A j \in DOMAIN list : list[j] \notin search.selected
    <3>1. ASSUME NEW j \in DOMAIN list PROVE list[j].of = p
      <4> DEFINE names == SelectSeq(Artifacts, LAMBDA n : n \in Assembled[p])
      <4>1. list = NamedAll(names, p)
        BY DEF Listed
      <4> HIDE DEF names, list
      <4> QED BY <3>1, <4>1, NamedAllGives
    <3>2. \A a \in search.selected : a.of = answered
      BY <2>3, ListedIsOf
    <3> HIDE DEF list
    <3> QED BY <2>3, <3>1, <3>2
  <2> HIDE DEF list
  <2>5. IsSearcher(search') /\ search'.available = list
    BY <2>2, <2>3, <2>4, SetSearchedGives
  <2>6. ArtifactsOfAnswer'
    BY <1>2, <1>6, <2>1, <2>2, <2>3, <2>5 DEF ArtifactsOfAnswer, NoPanels
  <2>7. Typed'
    BY <1>2, <1>4, <1>6, <2>2 DEF IInv, Typed
  <2> QED BY <1>2, <1>4, <1>6, <2>6, <2>7 DEF IInv, VersionsOfProject
<1> QED BY <1>3, <1>5, <1>6 DEF IInv, Typed

LEMMA OpenPreserves ==
  ASSUME IInv, NEW k \in {"build", "install"}, Open(k)
  PROVE  IInv'
<1>1. /\ kind' = k /\ answered' = None /\ settled' = FALSE /\ panels' = NoPanels
      /\ project' = Selector(NamedAll(Projects, None), Named(Projects[1], None))
      /\ version' = Selector(<<Named(None, None)>>, Named(None, None))
      /\ search' = Searcher(<<>>, k = "build")
  BY DEF Open
<1>2. asked' \in Seq(Requests(Projects[1]))
  BY FirstProject, AskGives DEF Open, IInv, LastIsOfProject
<1>3. IsSelector(version')
  BY <1>1 DEF Selector, IsSelector
<1>4. Typed'
  BY <1>1, <1>3, FirstProject DEF Typed
<1>5. LastIsOfProject'
  BY <1>1, <1>2, FirstProject DEF LastIsOfProject
<1>6. k = "install" => IsSearcher(search') /\ search'.available = <<>>
  BY <1>1 DEF Searcher, IsSearcher
<1>7. ArtifactsOfAnswer'
  BY <1>1, <1>6 DEF ArtifactsOfAnswer, Assembly, NoPanels
<1> QED BY <1>1, <1>4, <1>5, <1>7 DEF IInv, VersionsOfProject

LEMMA StepPreserves == IInv /\ [Next]_vars => IInv'
<1> SUFFICES ASSUME IInv, [Next]_vars PROVE IInv'
  OBVIOUS
<1>1. ASSUME NEW k \in {"build", "install"}, Open(k) PROVE IInv'
  BY <1>1, OpenPreserves
<1>2. ASSUME NEW p \in Values(Projects), SwitchProject(p) PROVE IInv'
  BY <1>2, SwitchPreserves
<1>3. ASSUME NEW v, ChooseVersion(v) PROVE IInv'
  BY <1>3, ChooseVersionPreserves
<1>4. CASE ChooseAll \/ \E indexes \in SUBSET (DOMAIN Artifacts) : ChooseArtifacts(indexes)
  BY <1>4, ChoosePreserves
<1>5. ASSUME NEW n, NEW valid \in BOOLEAN, EditModule(n, valid) PROVE IInv'
  BY <1>5, EditPreserves
<1>6. ASSUME NEW i, Answer(i) PROVE IInv'
  BY <1>6, AnswerPreserves
<1>7. CASE LaunchBuild \/ Install
  BY <1>7 DEF LaunchBuild, Install, IInv, Typed, VersionsOfProject, ArtifactsOfAnswer, LastIsOfProject
<1>8. CASE UNCHANGED vars
  BY <1>8 DEF vars, IInv, Typed, VersionsOfProject, ArtifactsOfAnswer, LastIsOfProject
<1> QED BY <1>1, <1>2, <1>3, <1>4, <1>5, <1>6, <1>7, <1>8 DEF Next

\* Once the last answer has come the dialog holds what the project chosen has, and no
\* module of another: BuildLauncherDialog.tsx 48-55; ModulesInstallationDialog.tsx 110-118.
THEOREM DialogSettles == Spec => []SettledIsOfProject
<1> QED BY InitInv, StepPreserves, Consequences, PTL DEF Spec

\* A build is never of a version that only another project has, whatever order the
\* answers come in: BuildLauncherDialog.tsx 74-99.
THEOREM BuildHasVersion == Spec => []VersionIsOfProject
<1> QED BY InitInv, StepPreserves, Consequences, PTL DEF Spec

-----------------------------------------------------------------------------
(* Lists of named things. *)

NoRepeats(seq) == \A i, j \in DOMAIN seq : seq[i].name = seq[j].name => i = j

\* A list p is seq with f over the entry of its name, or at the end.
HasPut(p, S, seq, f) ==
  /\ p \in Seq(S) /\ NoRepeats(p)
  /\ \E i \in DOMAIN p : p[i] = f
  /\ \A i \in DOMAIN p : p[i] = f \/ (i \in DOMAIN seq /\ p[i] = seq[i] /\ seq[i].name # f.name)
  /\ \A i \in DOMAIN seq : i \in DOMAIN p /\ (seq[i].name # f.name => p[i] = seq[i])
  /\ f.name \in NamesOf(seq) => DOMAIN p = DOMAIN seq

LEMMA PutGives ==
  ASSUME NEW S, NEW seq \in Seq(S), NEW f \in S, NoRepeats(seq)
  PROVE  HasPut(Put(seq, f), S, seq, f)
<1> DEFINE p == Put(seq, f)
<1>1. CASE f.name \in NamesOf(seq)
  <2>1. p = [i \in DOMAIN seq |-> IF seq[i].name = f.name THEN f ELSE seq[i]]
    BY <1>1 DEF Put
  <2>2. DOMAIN seq = 1..Len(seq) /\ Len(seq) \in Nat /\ \A i \in 1..Len(seq) : seq[i] \in S
    OBVIOUS
  <2>3. p \in Seq(S) /\ DOMAIN p = DOMAIN seq
    <3>1. p \in [1..Len(seq) -> S]
      BY <2>1, <2>2
    <3> QED BY <3>1, <2>1, <2>2
  <2>4. PICK j \in DOMAIN seq : seq[j].name = f.name
    BY <1>1 DEF NamesOf
  <2>5. p[j] = f
    BY <2>1, <2>4
  <2>6. \A i \in DOMAIN p : p[i].name = seq[i].name
    BY <2>1
  <2>7. NoRepeats(p)
    BY <2>3, <2>6 DEF NoRepeats
  <2>8. \A i \in DOMAIN seq : p[i] = IF seq[i].name = f.name THEN f ELSE seq[i]
    BY <2>1
  <2> HIDE DEF p
  <2> QED BY <2>3, <2>4, <2>5, <2>7, <2>8 DEF p, HasPut
<1>2. CASE f.name \notin NamesOf(seq)
  <2>1. p = Append(seq, f)
    BY <1>2 DEF Put
  <2>2. /\ p \in Seq(S) /\ DOMAIN p = 1..(Len(seq) + 1) /\ DOMAIN seq = 1..Len(seq) /\ Len(seq) \in Nat
        /\ p[Len(seq) + 1] = f /\ \A i \in 1..Len(seq) : p[i] = seq[i]
    BY <2>1
  <2>3. \A i \in DOMAIN seq : seq[i].name # f.name
    BY <1>2 DEF NamesOf
  <2> HIDE DEF p
  <2>4. \A i \in DOMAIN p : i \in DOMAIN seq \/ i = Len(seq) + 1
    BY <2>2
  <2>5. NoRepeats(p)
    BY <2>2, <2>3, <2>4 DEF NoRepeats
  <2>6. /\ \E i \in DOMAIN p : p[i] = f
        /\ \A i \in DOMAIN p : p[i] = f \/ (i \in DOMAIN seq /\ p[i] = seq[i] /\ seq[i].name # f.name)
        /\ \A i \in DOMAIN seq : i \in DOMAIN p /\ (seq[i].name # f.name => p[i] = seq[i])
    BY <2>2, <2>3, <2>4
  <2>7. HasPut(p, S, seq, f)
    BY <1>2, <2>2, <2>5, <2>6, Zenon DEF HasPut
  <2> QED BY <2>7 DEF p
<1> QED BY <1>1, <1>2

\* A list w is seq but for the entry of that name.
Lacks(w, S, seq, n) ==
  /\ w \in Seq(S) /\ NoRepeats(w)
  /\ \A i \in DOMAIN w : \E j \in DOMAIN seq : w[i] = seq[j] /\ seq[j].name # n
  /\ \A j \in DOMAIN seq : seq[j].name # n => \E i \in DOMAIN w : w[i] = seq[j]

LEMMA WithoutGives ==
  ASSUME NEW S, NEW seq \in Seq(S), NEW n, NoRepeats(seq)
  PROVE  Lacks(Without(seq, n), S, seq, n)
<1> DEFINE w == Without(seq, n)
<1>1. CASE n \in NamesOf(seq)
  <2> DEFINE at == CHOOSE i \in DOMAIN seq : seq[i].name = n
  <2>1. at \in DOMAIN seq /\ seq[at].name = n
    BY <1>1 DEF NamesOf
  <2>2. w = SubSeq(seq, 1, at - 1) \o SubSeq(seq, at + 1, Len(seq))
    BY <1>1, Zenon DEF Without, RemoveAt
  <2> HIDE DEF at, w
  <2>3. at \in 1..Len(seq) /\ Len(seq) \in Nat /\ DOMAIN seq = 1..Len(seq)
    BY <2>1
  <2> DEFINE a == SubSeq(seq, 1, at - 1)
             b == SubSeq(seq, at + 1, Len(seq))
  <2>4. a \in Seq(S) /\ Len(a) = at - 1 /\ \A i \in 1..(at - 1) : a[i] = seq[i]
    BY <2>3
  <2>5. b \in Seq(S) /\ Len(b) = Len(seq) - at /\ \A i \in 1..(Len(seq) - at) : b[i] = seq[at + i]
    <3>1. at + 1 \in 1..(Len(seq) + 1) /\ Len(seq) \in at..Len(seq) /\ Len(seq) - (at + 1) + 1 = Len(seq) - at
      BY <2>3
    <3>2. /\ b \in Seq(S) /\ Len(b) = IF at + 1 <= Len(seq) THEN Len(seq) - (at + 1) + 1 ELSE 0
          /\ \A i \in 1..(Len(seq) - (at + 1) + 1) : b[i] = seq[(at + 1) + i - 1]
      BY <2>3, <3>1, SubSeqProperties
    <3>3. \A i \in 1..(Len(seq) - at) : (at + 1) + i - 1 = at + i
      BY <2>3
    <3>4. Len(b) = Len(seq) - at
      <4> DEFINE k == Len(seq)
      <4>1. at \in 1..k /\ k \in Nat /\ Len(b) = IF at + 1 <= k THEN k - (at + 1) + 1 ELSE 0
        BY <2>3, <3>2
      <4> HIDE DEF k
      <4>2. Len(b) = k - at
        BY <4>1
      <4> QED BY <4>2 DEF k
    <3>5. \A i \in 1..(Len(seq) - at) : b[i] = seq[at + i]
      BY <3>1, <3>2, <3>3
    <3> QED BY <3>2, <3>4, <3>5
  <2> HIDE DEF a, b
  <2>6. w = a \o b
    BY <2>2 DEF a, b
  <2>7. /\ w \in Seq(S) /\ DOMAIN w = 1..(Len(seq) - 1)
        /\ \A i \in 1..(Len(seq) - 1) : w[i] = IF i < at THEN seq[i] ELSE seq[i + 1]
    <3>1. w \in Seq(S) /\ Len(w) = Len(seq) - 1
      <4>1. w \in Seq(S) /\ Len(w) = Len(a) + Len(b)
        BY <2>4, <2>5, <2>6, ConcatProperties, Zenon
      <4> QED BY <4>1, <2>3, <2>4, <2>5
    <3>2. \A i \in 1..(Len(seq) - 1) : w[i] = IF i < at THEN a[i] ELSE b[i - (at - 1)]
      BY <2>3, <2>4, <2>5, <2>6
    <3>3. ASSUME NEW i \in 1..(Len(seq) - 1) PROVE w[i] = IF i < at THEN seq[i] ELSE seq[i + 1]
      <4>1. CASE i < at
        BY <4>1, <3>2, <2>3, <2>4
      <4>2. CASE ~ (i < at)
        <5>1. i - (at - 1) \in 1..(Len(seq) - at) /\ at + (i - (at - 1)) = i + 1
          BY <4>2, <2>3
        <5> QED BY <4>2, <5>1, <3>2, <2>5
      <4> QED BY <4>1, <4>2
    <3> QED BY <3>1, <3>3, <2>3
  <2>8. \A j \in DOMAIN seq : seq[j].name # n <=> j # at
    BY <2>1 DEF NoRepeats
  <2>9. ASSUME NEW j \in DOMAIN seq, j # at PROVE \E i \in DOMAIN w : w[i] = seq[j]
    <3>1. CASE j < at
      BY <3>1, <2>3, <2>7
    <3>2. CASE j > at
      <4>1. j - 1 \in 1..(Len(seq) - 1) /\ ~ (j - 1 < at) /\ (j - 1) + 1 = j
        BY <3>2, <2>3
      <4> QED BY <4>1, <2>7
    <3> QED BY <2>9, <3>1, <3>2, <2>3
  <2> DEFINE Q(i) == IF i < at THEN i ELSE i + 1
  <2>10. \A i \in DOMAIN w : Q(i) \in DOMAIN seq /\ Q(i) # at /\ w[i] = seq[Q(i)]
    BY <2>3, <2>7
  <2>11. \A i, j \in DOMAIN w : Q(i) = Q(j) => i = j
    BY <2>3, <2>7
  <2> HIDE DEF Q
  <2>12. NoRepeats(w)
    BY <2>10, <2>11 DEF NoRepeats
  <2> QED BY <2>7, <2>8, <2>9, <2>10, <2>12 DEF w, Lacks
<1>2. CASE n \notin NamesOf(seq)
  <2>1. w = seq /\ \A j \in DOMAIN seq : seq[j].name # n
    BY <1>2 DEF Without, NamesOf
  <2> QED BY <2>1 DEF Lacks
<1> QED BY <1>1, <1>2

LEMMA BytesAreThose ==
  ASSUME NEW seq, NoRepeats(seq), NEW i \in DOMAIN seq
  PROVE  BytesOf(seq, seq[i].name) = seq[i].bytes
<1> DEFINE f == CHOOSE f \in {seq[j] : j \in DOMAIN seq} : f.name = seq[i].name
<1>1. f \in {seq[j] : j \in DOMAIN seq} /\ f.name = seq[i].name
  OBVIOUS
<1> HIDE DEF f
<1>2. f = seq[i]
  BY <1>1 DEF NoRepeats
<1> QED BY <1>2 DEF BytesOf, f

-----------------------------------------------------------------------------
(* The file loader. *)

Entry == [name : Names, file : 0..MaxPicks]
Buffer == [name : Names, bytes : 0..MaxPicks]

\* A list of what was picked, each file under its name, once.
Lists(l, p) ==
  /\ l \in Seq(Entry) /\ NoRepeats(l)
  /\ \A i \in DOMAIN l : l[i].file # 0 => l[i].file \in DOMAIN p /\ p[l[i].file] = l[i].name

\* The form has a buffer for each file listed, which holds the file or is empty and will
\* be filled; and what is read is listed.
Mirrors(l, c, r) ==
  /\ DOMAIN c = DOMAIN l
  /\ \A i \in DOMAIN l :
       /\ c[i].name = l[i].name
       /\ c[i].bytes = l[i].file \/ (c[i].bytes = 0 /\ l[i].file \in Picks /\ r[l[i].file] > 0)
  /\ \A k \in Picks : r[k] > 0 => \E i \in DOMAIN l : l[i].file = k

LoaderTypes ==
  /\ picked \in Seq(Names) /\ Len(picked) <= MaxPicks
  /\ Lists(loaded, picked)
  /\ current \in Seq(Buffer) /\ NoRepeats(current)
  /\ reads \in [Picks -> Nat]
  /\ \A k \in Picks : reads[k] > 0 => k \in DOMAIN picked
  /\ disturbed \in BOOLEAN

LoaderInv == LoaderTypes /\ (~ disturbed => Mirrors(loaded, current, reads))

LEMMA EmptiedGives ==
  ASSUME NEW l \in Seq(Entry), NoRepeats(l)
  PROVE  /\ Emptied(l) \in Seq(Buffer) /\ NoRepeats(Emptied(l)) /\ DOMAIN Emptied(l) = DOMAIN l
         /\ \A i \in DOMAIN l : Emptied(l)[i].name = l[i].name /\ Emptied(l)[i].bytes = 0
<1>1. Len(l) \in Nat /\ DOMAIN l = 1..Len(l) /\ \A i \in 1..Len(l) : l[i].name \in Names
  <2>1. Len(l) \in Nat /\ DOMAIN l = 1..Len(l) /\ \A i \in 1..Len(l) : l[i] \in Entry
    OBVIOUS
  <2> QED BY <2>1 DEF Entry
<1>2. \A n \in Names : [name |-> n, bytes |-> 0] \in Buffer
  BY ModuleFilesAssumption DEF Buffer
<1>3. Emptied(l) \in [1..Len(l) -> Buffer]
  BY <1>1, <1>2 DEF Emptied
<1>4. \A i \in DOMAIN l : Emptied(l)[i].name = l[i].name /\ Emptied(l)[i].bytes = 0
  BY DEF Emptied
<1> QED BY <1>1, <1>3, <1>4 DEF NoRepeats

\* Every change of the list starts a reader for each file that was picked.
LEMMA UpdateFilesKeeps ==
  ASSUME LoaderInv, NEW list, UpdateFiles(list), Lists(list, picked'),
         picked' \in Seq(Names), Len(picked') <= MaxPicks, DOMAIN picked \subseteq DOMAIN picked',
         disturbed' \in BOOLEAN,
         ~ disturbed' => \A k \in Picks : reads[k] > 0 => \E i \in DOMAIN list : list[i].file = k
  PROVE  LoaderInv'
<1>1. /\ loaded' = list /\ current' = Emptied(list)
      /\ reads' = [k \in Picks |-> IF k \in {list[i].file : i \in DOMAIN list} THEN reads[k] + 1 ELSE reads[k]]
  BY DEF UpdateFiles
<1>2. /\ current' \in Seq(Buffer) /\ NoRepeats(current') /\ DOMAIN current' = DOMAIN list
      /\ \A i \in DOMAIN list : current'[i].name = list[i].name /\ current'[i].bytes = 0
  BY <1>1, EmptiedGives DEF Lists
<1>3. reads \in [Picks -> Nat]
  BY DEF LoaderInv, LoaderTypes
<1>4. /\ reads' \in [Picks -> Nat]
      /\ \A k \in Picks : reads'[k] > 0 => reads[k] > 0 \/ \E i \in DOMAIN list : list[i].file = k
      /\ \A i \in DOMAIN list : list[i].file \in Picks => reads'[list[i].file] > 0
  BY <1>1, <1>3
<1>5. \A k \in Picks : k # 0
  BY DEF Picks
<1>6. \A k \in Picks : reads'[k] > 0 => k \in DOMAIN picked'
  BY <1>4, <1>5 DEF LoaderInv, LoaderTypes, Lists
<1>7. LoaderTypes'
  BY <1>1, <1>2, <1>4, <1>6 DEF LoaderTypes
<1>8. \A i \in DOMAIN list : list[i].file = 0 \/ list[i].file \in Picks
  <2>1. \A i \in DOMAIN list : list[i] \in Entry
    BY DEF Lists
  <2> QED BY <2>1, ModuleFilesAssumption DEF Entry, Picks
<1>9. ASSUME ~ disturbed' PROVE Mirrors(loaded', current', reads')
  BY <1>1, <1>2, <1>4, <1>8, <1>9 DEF Mirrors
<1> QED BY <1>7, <1>9 DEF LoaderInv

\* A file that goes while none of its name is read: all that is read stays listed.
LEMMA ReadStaysListed ==
  ASSUME LoaderInv, ~ disturbed, NEW n, ~ BeingRead(n), NEW k \in Picks, reads[k] > 0
  PROVE  \E i \in DOMAIN loaded : loaded[i].file = k /\ loaded[i].name # n
<1>1. PICK i \in DOMAIN loaded : loaded[i].file = k
  BY DEF LoaderInv, Mirrors
<1>2. picked[k] = loaded[i].name
  BY <1>1 DEF LoaderInv, LoaderTypes, Lists, Picks
<1>3. picked[k] # n
  BY DEF BeingRead
<1> QED BY <1>1, <1>2, <1>3

LEMMA PickKeeps == ASSUME LoaderInv, NEW n \in Names, Pick(n) PROVE LoaderInv'
<1> DEFINE f == [name |-> n, file |-> Len(picked) + 1]
           list == Put(loaded, f)
<1>1. /\ picked' = Append(picked, n) /\ Len(picked) < MaxPicks
      /\ UpdateFiles(list) /\ disturbed' = (disturbed \/ BeingRead(n))
  BY DEF Pick
<1>2. picked \in Seq(Names) /\ loaded \in Seq(Entry) /\ NoRepeats(loaded)
  BY DEF LoaderInv, LoaderTypes, Lists
<1>3. /\ picked' \in Seq(Names) /\ Len(picked') <= MaxPicks /\ DOMAIN picked' = 1..(Len(picked) + 1)
      /\ Len(picked) \in Nat /\ DOMAIN picked = 1..Len(picked)
      /\ picked'[Len(picked) + 1] = n /\ \A k \in DOMAIN picked : picked'[k] = picked[k]
  BY <1>1, <1>2, ModuleFilesAssumption
<1>4. f \in Entry /\ f.name = n /\ f.file = Len(picked) + 1
  BY <1>1, <1>3, ModuleFilesAssumption DEF Entry
<1> HIDE DEF f
<1>5. /\ list \in Seq(Entry) /\ NoRepeats(list)
      /\ \A i \in DOMAIN list : list[i] = f \/ (i \in DOMAIN loaded /\ list[i] = loaded[i])
      /\ \A i \in DOMAIN loaded : i \in DOMAIN list /\ (loaded[i].name # n => list[i] = loaded[i])
  <2>1. HasPut(list, Entry, loaded, f)
    BY <1>2, <1>4, PutGives, Zenon
  <2> HIDE DEF list
  <2> QED BY <2>1, <1>4 DEF HasPut
<1> HIDE DEF list
<1>6. ASSUME NEW i \in DOMAIN list, list[i].file # 0
      PROVE  list[i].file \in DOMAIN picked' /\ picked'[list[i].file] = list[i].name
  <2>1. CASE list[i] = f
    BY <2>1, <1>3, <1>4
  <2>2. CASE i \in DOMAIN loaded /\ list[i] = loaded[i]
    BY <2>2, <1>3, <1>6 DEF LoaderInv, LoaderTypes, Lists
  <2> QED BY <2>1, <2>2, <1>5
<1>7. Lists(list, picked')
  BY <1>5, <1>6 DEF Lists
<1>8. ASSUME ~ disturbed', NEW k \in Picks, reads[k] > 0
      PROVE  \E i \in DOMAIN list : list[i].file = k
  <2>1. PICK i \in DOMAIN loaded : loaded[i].file = k /\ loaded[i].name # n
    BY <1>1, <1>8, ReadStaysListed
  <2> QED BY <2>1, <1>5
<1>9. disturbed' \in BOOLEAN
  BY <1>1 DEF LoaderInv, LoaderTypes
<1>10. DOMAIN picked \subseteq DOMAIN picked'
  BY <1>3
<1> QED BY <1>1, <1>3, <1>7, <1>8, <1>9, <1>10, UpdateFilesKeeps

\* What is left of a list.
LEMMA WithoutLists ==
  ASSUME NEW l, NEW p, Lists(l, p), NEW n
  PROVE  Lists(Without(l, n), p)
<1> DEFINE w == Without(l, n)
<1>1. Lacks(w, Entry, l, n)
  BY WithoutGives, Zenon DEF Lists
<1> HIDE DEF w
<1>2. Lists(w, p)
  BY <1>1 DEF Lists, Lacks
<1> QED BY <1>2 DEF w

LEMMA RemoveKeeps == ASSUME LoaderInv, NEW n \in Names, RemoveFile(n) PROVE LoaderInv'
<1> DEFINE list == Without(loaded, n)
<1>1. UpdateFiles(list) /\ disturbed' = (disturbed \/ BeingRead(n)) /\ picked' = picked
  BY DEF RemoveFile
<1>2. loaded \in Seq(Entry) /\ NoRepeats(loaded) /\ Lists(loaded, picked)
  BY DEF LoaderInv, LoaderTypes, Lists
<1>3. Lists(list, picked')
  BY <1>1, <1>2, WithoutLists
<1>4. Lacks(list, Entry, loaded, n)
  BY <1>2, WithoutGives, Zenon
<1> HIDE DEF list
<1>5. ASSUME ~ disturbed', NEW k \in Picks, reads[k] > 0
      PROVE  \E i \in DOMAIN list : list[i].file = k
  <2>1. PICK i \in DOMAIN loaded : loaded[i].file = k /\ loaded[i].name # n
    BY <1>1, <1>5, ReadStaysListed
  <2> QED BY <2>1, <1>4 DEF Lacks
<1>6. disturbed' \in BOOLEAN /\ picked' \in Seq(Names) /\ Len(picked') <= MaxPicks
      /\ DOMAIN picked \subseteq DOMAIN picked'
  BY <1>1 DEF LoaderInv, LoaderTypes
<1> QED BY <1>1, <1>3, <1>5, <1>6, UpdateFilesKeeps

LEMMA EmptyLists == ASSUME NEW p PROVE Lists(<< >>, p) /\ << >> \in Seq(Buffer) /\ NoRepeats(<< >>)
BY DEF Lists, NoRepeats

LEMMA ClearKeeps == ASSUME LoaderInv, Clear PROVE LoaderInv'
<1>1. /\ loaded' = << >> /\ current' = << >> /\ picked' = picked /\ reads' = reads
      /\ disturbed' = (disturbed \/ \E n \in Names : BeingRead(n))
  BY DEF Clear
<1>2. LoaderTypes'
  <2>1. disturbed' \in BOOLEAN
    BY <1>1 DEF LoaderInv, LoaderTypes
  <2> QED BY <1>1, <2>1, EmptyLists DEF LoaderInv, LoaderTypes
<1>3. ASSUME ~ disturbed', NEW k \in Picks PROVE ~ (reads[k] > 0)
  <2>1. reads[k] > 0 => picked[k] \in Names
    BY DEF LoaderInv, LoaderTypes
  <2> QED BY <1>1, <1>3, <2>1 DEF BeingRead
<1>4. ~ disturbed' => Mirrors(loaded', current', reads')
  BY <1>1, <1>3 DEF Mirrors
<1> QED BY <1>2, <1>4 DEF LoaderInv

\* The bytes that were read go to their own file, when the form was not disturbed.
LEMMA ReadEndsKeeps == ASSUME LoaderInv, NEW k \in Picks, ReadEnds(k) PROVE LoaderInv'
<1> DEFINE read == [name |-> picked[k], bytes |-> k]
<1>1. /\ reads[k] > 0 /\ reads' = [reads EXCEPT ![k] = @ - 1]
      /\ picked' = picked /\ loaded' = loaded /\ disturbed' = disturbed
      /\ current' = IF loaded = << >> THEN <<read>> ELSE Put(current, read)
  BY DEF ReadEnds
<1>2. /\ reads \in [Picks -> Nat] /\ current \in Seq(Buffer) /\ NoRepeats(current) /\ Lists(loaded, picked)
      /\ k \in DOMAIN picked /\ picked[k] \in Names
  BY <1>1 DEF LoaderInv, LoaderTypes
<1>3. read \in Buffer /\ read.name = picked[k] /\ read.bytes = k
  BY <1>2, ModuleFilesAssumption DEF Buffer, Picks
<1> HIDE DEF read
<1>4. HasPut(Put(current, read), Buffer, current, read)
  BY <1>2, <1>3, PutGives, Zenon
<1>5. /\ reads' \in [Picks -> Nat]
      /\ \A m \in Picks : reads'[m] > 0 => reads[m] > 0
      /\ \A m \in Picks : m # k /\ reads[m] > 0 => reads'[m] > 0
  BY <1>1, <1>2
<1>6. current' \in Seq(Buffer) /\ NoRepeats(current')
  <2>1. CASE loaded = << >>
    BY <1>1, <1>3, <2>1 DEF NoRepeats
  <2>2. CASE loaded # << >>
    BY <1>1, <1>4, <2>2 DEF HasPut
  <2> QED BY <2>1, <2>2
<1>7. LoaderTypes'
  BY <1>1, <1>5, <1>6 DEF LoaderInv, LoaderTypes
<1>8. ASSUME ~ disturbed PROVE Mirrors(loaded, current', reads')
  <2>1. Mirrors(loaded, current, reads)
    BY <1>8 DEF LoaderInv
  <2>2. PICK i \in DOMAIN loaded : loaded[i].file = k
    BY <1>1, <2>1 DEF Mirrors
  <2>3. loaded # << >> /\ current' = Put(current, read)
    BY <1>1, <2>2
  <2>4. HasPut(current', Buffer, current, read)
    BY <1>4, <2>3
  <2>5. loaded[i].name = picked[k] /\ current[i].name = picked[k]
    BY <1>2, <2>1, <2>2 DEF Lists, Mirrors, Picks
  <2>6. DOMAIN current = DOMAIN loaded /\ DOMAIN current' = DOMAIN loaded
    BY <1>3, <2>1, <2>2, <2>4, <2>5 DEF HasPut, NamesOf, Mirrors
  <2>7. current'[i] = read
    BY <1>3, <2>4, <2>5, <2>6 DEF HasPut
  <2>8. ASSUME NEW j \in DOMAIN loaded
        PROVE  /\ current'[j].name = loaded[j].name
               /\ \/ current'[j].bytes = loaded[j].file
                  \/ current'[j].bytes = 0 /\ loaded[j].file \in Picks /\ reads'[loaded[j].file] > 0
    <3>1. CASE j = i
      BY <3>1, <1>3, <2>2, <2>5, <2>7
    <3>2. CASE j # i
      <4>1. current[j].name # picked[k] /\ loaded[j].name # picked[k]
        BY <3>2, <1>2, <2>1, <2>5, <2>6 DEF Mirrors, NoRepeats
      <4>2. current'[j] = current[j]
        BY <4>1, <1>3, <2>4, <2>6 DEF HasPut
      <4>3. loaded[j].file # k
        BY <4>1, <1>2 DEF Lists, Picks
      <4> QED BY <4>2, <4>3, <1>5, <2>1 DEF Mirrors
    <3> QED BY <3>1, <3>2
  <2> QED BY <1>5, <2>1, <2>6, <2>8 DEF Mirrors
<1> QED BY <1>1, <1>7, <1>8 DEF LoaderInv

LEMMA ReadIsLostKeeps ==
  ASSUME LoaderInv, NEW k \in Picks, ReadsNothing(k) \/ ReadFails(k) PROVE LoaderInv'
<1>1. reads' = [reads EXCEPT ![k] = @ - 1] /\ reads[k] > 0 /\ picked' = picked /\ disturbed' = TRUE
  BY DEF ReadsNothing, ReadFails
<1>2. reads \in [Picks -> Nat]
  BY DEF LoaderInv, LoaderTypes
<1>3. reads' \in [Picks -> Nat] /\ \A m \in Picks : reads'[m] > 0 => reads[m] > 0
  BY <1>1, <1>2
<1>4. Lists(loaded', picked) /\ current' \in Seq(Buffer) /\ NoRepeats(current')
  <2>1. CASE ReadsNothing(k)
    <3>1. loaded' = Without(loaded, picked[k]) /\ current' = Emptied(loaded')
      BY <2>1 DEF ReadsNothing
    <3>2. Lists(loaded', picked)
      BY <3>1, WithoutLists DEF LoaderInv, LoaderTypes
    <3> QED BY <3>1, <3>2, EmptiedGives DEF Lists
  <2>2. CASE ReadFails(k)
    BY <2>2 DEF ReadFails, LoaderInv, LoaderTypes
  <2> QED BY <2>1, <2>2
<1>5. LoaderTypes'
  BY <1>1, <1>3, <1>4 DEF LoaderInv, LoaderTypes
<1> QED BY <1>1, <1>5 DEF LoaderInv

LEMMA LoaderStarts == FilesInit => LoaderInv
<1> SUFFICES ASSUME FilesInit PROVE LoaderInv
  OBVIOUS
<1>1. PICK seq \in Bijection(1..Cardinality(Base), Base) : loaded = FormOf(op, seq)
  BY DEF FilesInit
<1>2. /\ picked = << >> /\ reads = [k \in Picks |-> 0] /\ disturbed = FALSE /\ current = Emptied(loaded)
  BY DEF FilesInit
<1>3. Cardinality(Base) \in Nat
  BY ModuleFilesAssumption, FS_CardinalityType
<1>4. /\ seq \in [1..Cardinality(Base) -> Base]
      /\ \A i, j \in 1..Cardinality(Base) : seq[i] = seq[j] => i = j
  BY DEF Bijection, Injection, IsInjective
<1>5. \A i \in DOMAIN loaded : loaded[i].file = 0
  BY <1>1 DEF FormOf
<1>6. loaded \in Seq(Entry) /\ NoRepeats(loaded)
  <2>1. CASE op = "install"
    BY <2>1, <1>1 DEF FormOf, NoRepeats
  <2>2. CASE op # "install"
    <3>1. loaded = [i \in 1..Cardinality(Base) |-> [name |-> seq[i], file |-> 0]]
      BY <2>2, <1>1, <1>4 DEF FormOf
    <3>2. \A n \in Base : [name |-> n, file |-> 0] \in Entry
      BY ModuleFilesAssumption DEF Entry
    <3>3. loaded \in [1..Cardinality(Base) -> Entry]
      BY <3>1, <3>2, <1>4
    <3>4. \A i \in 1..Cardinality(Base) : loaded[i].name = seq[i]
      BY <3>1
    <3>5. loaded \in Seq(Entry)
      BY <3>3, <1>3
    <3> QED BY <3>3, <3>4, <3>5, <1>4 DEF NoRepeats
  <2> QED BY <2>1, <2>2
<1>7. Lists(loaded, picked)
  BY <1>5, <1>6 DEF Lists
<1>8. /\ current \in Seq(Buffer) /\ NoRepeats(current) /\ DOMAIN current = DOMAIN loaded
      /\ \A i \in DOMAIN loaded : current[i].name = loaded[i].name /\ current[i].bytes = 0
  BY <1>2, <1>6, EmptiedGives
<1>9. picked \in Seq(Names) /\ Len(picked) <= MaxPicks
  BY <1>2, ModuleFilesAssumption
<1>10. reads \in [Picks -> Nat] /\ \A k \in Picks : ~ (reads[k] > 0)
  BY <1>2
<1>11. LoaderTypes
  BY <1>2, <1>7, <1>8, <1>9, <1>10 DEF LoaderTypes
<1>12. Mirrors(loaded, current, reads)
  BY <1>5, <1>8, <1>10 DEF Mirrors
<1> QED BY <1>11, <1>12 DEF LoaderInv

LEMMA LoaderNext == LoaderInv /\ [FilesNext]_filesVars => LoaderInv'
<1> SUFFICES ASSUME LoaderInv, [FilesNext]_filesVars PROVE LoaderInv'
  OBVIOUS
<1>1. ASSUME UNCHANGED loader PROVE LoaderInv'
  BY <1>1 DEF loader, LoaderInv, LoaderTypes
<1>2. CASE LoaderStep
  BY <1>2, PickKeeps, RemoveKeeps, ClearKeeps, ReadEndsKeeps, ReadIsLostKeeps DEF LoaderStep
<1>3. CASE ServiceStep
  <2>1. UNCHANGED loader
    BY <1>3 DEF ServiceStep, Submit, Started, Refused, Strand, Allocated, Transferred
  <2> QED BY <1>1, <2>1
<1>4. CASE UNCHANGED filesVars
  BY <1>1, <1>4 DEF filesVars
<1> QED BY <1>2, <1>3, <1>4 DEF FilesNext

\* With nothing under way, each buffer holds the file of its name.
LEMMA LoaderInvGives == LoaderInv => FormHoldsFiles
<1> SUFFICES ASSUME LoaderInv, ~ disturbed, \A k \in Picks : reads[k] = 0
             PROVE  current = [i \in DOMAIN loaded |-> [name |-> loaded[i].name, bytes |-> loaded[i].file]]
  BY DEF FormHoldsFiles
<1>1. Mirrors(loaded, current, reads) /\ current \in Seq(Buffer)
  BY DEF LoaderInv, LoaderTypes
<1>2. ASSUME NEW i \in DOMAIN loaded
      PROVE  current[i] = [name |-> loaded[i].name, bytes |-> loaded[i].file]
  <2>1. current[i].name = loaded[i].name /\ current[i].bytes = loaded[i].file
    BY <1>1 DEF Mirrors
  <2>2. current[i] \in Buffer
    BY <1>1 DEF Mirrors
  <2> QED BY <2>1, <2>2 DEF Buffer
<1>3. current = [i \in DOMAIN current |-> current[i]]
  BY <1>1
<1> QED BY <1>1, <1>2, <1>3 DEF Mirrors

-----------------------------------------------------------------------------
(* The services. *)

\* The files the operation takes to the panel, of those the form has, and their ids.
Expected(o, list, n) == o # "update" \/ n \in Base \/ BytesOf(list, n) # 0
IdOf(o, n) == <<IF o = "update" /\ n \in Base THEN "base" ELSE "new", n>>

\* What the panel will hold of a file.
Wanted(list, n) == IF BytesOf(list, n) = 0 THEN Old ELSE BytesOf(list, n)

\* Each file that is expected has its id, or it is awaited.
IdsCome ==
  /\ files \in Seq(Buffer) /\ NoRepeats(files)
  /\ ids \in Seq(Ids)
  /\ \A i \in DOMAIN ids :
       LET n == ids[i][2] IN n \in NamesOf(files) /\ Expected(op, files, n) /\ ids[i] = IdOf(op, n)
  /\ \A n \in waiting : n \in NamesOf(files) /\ Expected(op, files, n) /\ IdOf(op, n) = <<"new", n>>
  /\ \A n \in NamesOf(files) : Expected(op, files, n) => n \in waiting \/ \E i \in DOMAIN ids : ids[i] = IdOf(op, n)
  /\ stage \in {"starting", "uploading", "processed"} => waiting = {}

\* What the panel held before, as far as it matters.
PanelIsUntouched ==
  \A n \in Base : content[<<"base", n>>] = Old

\* Each file is at the panel under its id, or on its way there.
FilesArrive ==
  /\ \A i \in DOMAIN ids : content[ids[i]] = Wanted(files, ids[i][2]) \/ \E t \in transfers : t.to = ids[i]
  /\ \A t \in transfers :
       /\ \E i \in DOMAIN ids : ids[i] = t.to
       /\ t.bytes = BytesOf(files, t.to[2])
       /\ t.copy => t.bytes = 0 /\ op = "clone"
  /\ op = "clone" => PanelIsUntouched

ServiceInv ==
  /\ op \in Operations /\ stage \in Stages
  /\ DOMAIN content = Ids
  /\ stage # "editing" => IdsCome
  /\ stage \in {"editing", "allocating", "starting"} => PanelIsUntouched
  /\ stage \in {"uploading", "processed"} /\ (op # "install" \/ InOrder) => FilesArrive
  /\ stage = "processed" => transfers = {}

LEMMA ServiceInvGives == ServiceInv => ProcessedIsStored
<1> SUFFICES ASSUME ServiceInv, stage = "processed", op # "install" \/ InOrder
             PROVE  /\ \A i \in DOMAIN ids : content[ids[i]] = Wanted(files, ids[i][2])
                    /\ \A n \in NamesOf(files) :
                         BytesOf(files, n) # 0 \/ n \in Base => \E i \in DOMAIN ids : ids[i][2] = n
  BY DEF ProcessedIsStored, Wanted
<1>1. IdsCome /\ FilesArrive /\ transfers = {} /\ waiting = {}
  BY DEF ServiceInv, IdsCome
<1>2. \A i \in DOMAIN ids : content[ids[i]] = Wanted(files, ids[i][2])
  BY <1>1 DEF FilesArrive
<1>3. ASSUME NEW n \in NamesOf(files), BytesOf(files, n) # 0 \/ n \in Base
      PROVE  \E i \in DOMAIN ids : ids[i][2] = n
  <2>1. Expected(op, files, n)
    BY <1>3 DEF Expected
  <2>2. PICK i \in DOMAIN ids : ids[i] = IdOf(op, n)
    BY <1>1, <2>1 DEF IdsCome
  <2>3. ids[i][2] = n
    BY <2>2 DEF IdOf
  <2> QED BY <2>3
<1> QED BY <1>2, <1>3

LEMMA ServiceStarts == FilesInit => ServiceInv
<1> SUFFICES ASSUME FilesInit PROVE ServiceInv
  OBVIOUS
<1>1. /\ op \in Operations /\ stage = "editing"
      /\ content = [id \in Ids |-> IF id[1] = "base" /\ id[2] \in Base THEN Old ELSE Blank]
  BY DEF FilesInit
<1>2. DOMAIN content = Ids
  BY <1>1
<1>3. PanelIsUntouched
  BY <1>1, ModuleFilesAssumption DEF PanelIsUntouched, Ids
<1> QED BY <1>1, <1>2, <1>3 DEF ServiceInv, Stages

\* An update keeps ids in any order, and has one for each of its files that stays.
LEMMA KeptGives ==
  ASSUME NEW seq \in Bijection(1..Cardinality(Kept), Kept)
  PROVE  /\ seq \in Seq(Kept)
         /\ \A i \in DOMAIN seq : seq[i] \in Kept
         /\ \A id \in Kept : \E i \in DOMAIN seq : seq[i] = id
<1>1. IsFiniteSet(Kept)
  <2>1. IsFiniteSet({"base"})
    BY FS_Singleton
  <2>2. IsFiniteSet({"base"} \X Base)
    BY <2>1, FS_Product, ModuleFilesAssumption
  <2>3. Kept \in SUBSET ({"base"} \X Base)
    BY DEF Kept
  <2> QED BY <2>2, <2>3, FS_Subset
<1>2. Cardinality(Kept) \in Nat
  BY <1>1, FS_CardinalityType
<1>3. /\ seq \in [1..Cardinality(Kept) -> Kept]
      /\ \A id \in Kept : \E i \in 1..Cardinality(Kept) : seq[i] = id
  BY DEF Bijection, Surjection, Injection
<1> QED BY <1>2, <1>3

LEMMA SubmitKeeps == ASSUME LoaderInv, ServiceInv, Submit PROVE ServiceInv'
<1>1. /\ stage = "editing" /\ files' = current /\ waiting' = ToAllocate /\ op' = op /\ content' = content
      /\ ids' \in Bijection(1..Cardinality(Kept), Kept)
      /\ stage' = IF ToAllocate = {} THEN "starting" ELSE "allocating"
  BY DEF Submit
<1>2. /\ ids' \in Seq(Kept)
      /\ \A i \in DOMAIN ids' : ids'[i] \in Kept
      /\ \A id \in Kept : \E i \in DOMAIN ids' : ids'[i] = id
  BY <1>1, KeptGives
<1>3. current \in Seq(Buffer) /\ NoRepeats(current)
  BY DEF LoaderInv, LoaderTypes
<1>4. Kept \subseteq Ids
  BY ModuleFilesAssumption DEF Kept, Ids
<1>5. ids' \in Seq(Ids)
  BY <1>2, <1>4
<1>6. ASSUME NEW id \in Kept PROVE id[2] \in NamesOf(files') /\ Expected(op', files', id[2]) /\ id = IdOf(op', id[2])
  BY <1>1 DEF Kept, Expected, IdOf
<1>7. ASSUME NEW n \in waiting'
      PROVE  n \in NamesOf(files') /\ Expected(op', files', n) /\ IdOf(op', n) = <<"new", n>>
  BY <1>1 DEF ToAllocate, Expected, IdOf
<1>8. ASSUME NEW n \in NamesOf(files'), Expected(op', files', n)
      PROVE  n \in waiting' \/ \E i \in DOMAIN ids' : ids'[i] = IdOf(op', n)
  <2>1. CASE op = "update" /\ n \in Base
    <3>1. <<"base", n>> \in Kept /\ IdOf(op', n) = <<"base", n>>
      BY <1>1, <2>1 DEF Kept, IdOf
    <3> QED BY <1>2, <3>1
  <2>2. CASE ~ (op = "update" /\ n \in Base)
    BY <1>1, <1>8, <2>2 DEF ToAllocate, Expected
  <2> QED BY <2>1, <2>2
<1>9. stage' \in {"starting", "uploading", "processed"} => waiting' = {}
  BY <1>1
<1>10. IdsCome'
  BY <1>1, <1>2, <1>3, <1>5, <1>6, <1>7, <1>8, <1>9 DEF IdsCome
<1>11. PanelIsUntouched'
  BY <1>1 DEF ServiceInv, PanelIsUntouched
<1> QED BY <1>1, <1>10, <1>11 DEF ServiceInv, Stages

LEMMA AllocatedKeeps == ASSUME ServiceInv, NEW n \in Names, Allocated(n) PROVE ServiceInv'
<1>1. /\ stage = "allocating" /\ n \in waiting /\ waiting' = waiting \ {n}
      /\ ids' = Append(ids, <<"new", n>>) /\ stage' = IF waiting' = {} THEN "starting" ELSE stage
      /\ op' = op /\ files' = files /\ content' = content
  BY DEF Allocated
<1>2. IdsCome /\ ids \in Seq(Ids)
  BY <1>1 DEF ServiceInv, IdsCome
<1>3. n \in NamesOf(files) /\ Expected(op, files, n) /\ IdOf(op, n) = <<"new", n>> /\ IdOf(op, n)[2] = n
  BY <1>1, <1>2 DEF IdsCome, IdOf
<1>4. <<"new", n>> \in Ids
  BY DEF Ids
<1>5. /\ ids' \in Seq(Ids) /\ DOMAIN ids' = 1..(Len(ids) + 1) /\ DOMAIN ids = 1..Len(ids) /\ Len(ids) \in Nat
      /\ ids'[Len(ids) + 1] = IdOf(op, n) /\ \A i \in DOMAIN ids : ids'[i] = ids[i]
  BY <1>1, <1>2, <1>3, <1>4
<1>6. /\ \A i \in DOMAIN ids' : ids'[i] = IdOf(op, n) \/ (i \in DOMAIN ids /\ ids'[i] = ids[i])
      /\ \E i \in DOMAIN ids' : ids'[i] = IdOf(op, n)
      /\ \A i \in DOMAIN ids : i \in DOMAIN ids'
  BY <1>5
<1>7. \A m : (Expected(op', files', m) <=> Expected(op, files, m)) /\ IdOf(op', m) = IdOf(op, m)
  BY <1>1
<1>8. ASSUME NEW i \in DOMAIN ids'
      PROVE  ids'[i][2] \in NamesOf(files') /\ Expected(op', files', ids'[i][2]) /\ ids'[i] = IdOf(op', ids'[i][2])
  <2>1. CASE ids'[i] = IdOf(op, n)
    BY <2>1, <1>1, <1>3, <1>7
  <2>2. CASE i \in DOMAIN ids /\ ids'[i] = ids[i]
    BY <2>2, <1>1, <1>2, <1>7 DEF IdsCome
  <2> QED BY <2>1, <2>2, <1>6
<1>9. \A m \in waiting' : m \in NamesOf(files') /\ Expected(op', files', m) /\ IdOf(op', m) = <<"new", m>>
  BY <1>1, <1>2, <1>7 DEF IdsCome
<1>10. ASSUME NEW m \in NamesOf(files'), Expected(op', files', m)
       PROVE  m \in waiting' \/ \E i \in DOMAIN ids' : ids'[i] = IdOf(op', m)
  <2>1. m \in waiting \/ \E i \in DOMAIN ids : ids[i] = IdOf(op, m)
    BY <1>1, <1>2, <1>7, <1>10 DEF IdsCome
  <2>2. CASE m = n
    BY <2>2, <1>6, <1>7
  <2>3. CASE m # n
    BY <2>1, <2>3, <1>1, <1>5, <1>6, <1>7
  <2> QED BY <2>2, <2>3
<1>11. stage' \in {"starting", "uploading", "processed"} => waiting' = {}
  BY <1>1
<1>12. IdsCome'
  BY <1>1, <1>2, <1>5, <1>8, <1>9, <1>10, <1>11 DEF IdsCome
<1>13. PanelIsUntouched'
  BY <1>1 DEF ServiceInv, PanelIsUntouched
<1> QED BY <1>1, <1>12, <1>13 DEF ServiceInv, Stages

\* What is sent: the buffers of the form, or a copy of what the base module has.
LEMMA TransfersGive ==
  ASSUME IdsCome, PanelIsUntouched, op \in Operations, op # "install" \/ InOrder
  PROVE  /\ \A i \in DOMAIN ids : content[ids[i]] = Wanted(files, ids[i][2]) \/ \E t \in Transfers : t.to = ids[i]
         /\ \A t \in Transfers :
              /\ \E i \in DOMAIN ids : ids[i] = t.to
              /\ t.bytes = BytesOf(files, t.to[2])
              /\ t.copy => t.bytes = 0 /\ op = "clone"
<1>1. CASE op = "install"
  <2>1. Transfers = InstallTransfers
    BY <1>1 DEF Transfers
  <2>2. Len(ids) = Len(files) /\ \A i \in DOMAIN files : ids[i][2] = files[i].name
    BY <1>1 DEF InOrder
  <2>3. DOMAIN ids = DOMAIN files
    BY <2>2 DEF IdsCome
  <2>4. \A i \in DOMAIN files : BytesOf(files, ids[i][2]) = files[i].bytes
    BY <2>2, BytesAreThose DEF IdsCome
  <2>5. ASSUME NEW i \in DOMAIN ids PROVE \E t \in Transfers : t.to = ids[i]
    <3>1. [to |-> ids[i], bytes |-> files[i].bytes, copy |-> FALSE] \in Transfers
      BY <2>1, <2>3 DEF InstallTransfers
    <3> QED BY <3>1
  <2>6. ASSUME NEW t \in Transfers
        PROVE  (\E i \in DOMAIN ids : ids[i] = t.to) /\ t.bytes = BytesOf(files, t.to[2]) /\ ~ t.copy
    <3>1. PICK i \in DOMAIN files : t = [to |-> ids[i], bytes |-> files[i].bytes, copy |-> FALSE]
      BY <2>1 DEF InstallTransfers
    <3> QED BY <3>1, <2>3, <2>4
  <2> QED BY <2>5, <2>6
<1>2. CASE op = "update"
  <2>1. Transfers = UpdateTransfers
    BY <1>2 DEF Transfers
  <2>2. ASSUME NEW i \in DOMAIN ids
        PROVE  content[ids[i]] = Wanted(files, ids[i][2]) \/ \E t \in Transfers : t.to = ids[i]
    <3>1. CASE BytesOf(files, ids[i][2]) # 0
      <4>1. [to |-> ids[i], bytes |-> BytesOf(files, ids[i][2]), copy |-> FALSE] \in Transfers
        BY <2>1, <3>1 DEF UpdateTransfers
      <4> QED BY <4>1
    <3>2. CASE BytesOf(files, ids[i][2]) = 0
      <4>1. ids[i][2] \in Base
        BY <1>2, <3>2 DEF IdsCome, Expected
      <4>2. ids[i] = <<"base", ids[i][2]>>
        BY <1>2, <4>1 DEF IdsCome, IdOf
      <4>3. content[ids[i]] = Old
        BY <4>1, <4>2 DEF PanelIsUntouched
      <4> QED BY <3>2, <4>3 DEF Wanted
    <3> QED BY <3>1, <3>2
  <2>3. ASSUME NEW t \in Transfers
        PROVE  (\E i \in DOMAIN ids : ids[i] = t.to) /\ t.bytes = BytesOf(files, t.to[2]) /\ ~ t.copy
    <3>1. PICK i \in DOMAIN ids : t = [to |-> ids[i], bytes |-> BytesOf(files, ids[i][2]), copy |-> FALSE]
      BY <2>1 DEF UpdateTransfers
    <3> QED BY <3>1
  <2> QED BY <2>2, <2>3
<1>3. CASE op = "clone"
  <2>1. Transfers = CloneTransfers
    BY <1>3 DEF Transfers
  <2>2. \A i \in DOMAIN ids :
          [to |-> ids[i], bytes |-> BytesOf(files, ids[i][2]), copy |-> BytesOf(files, ids[i][2]) = 0] \in Transfers
    BY <2>1 DEF CloneTransfers
  <2>3. ASSUME NEW t \in Transfers
        PROVE  (\E i \in DOMAIN ids : ids[i] = t.to) /\ t.bytes = BytesOf(files, t.to[2]) /\ (t.copy => t.bytes = 0)
    <3>1. PICK i \in DOMAIN ids :
            t = [to |-> ids[i], bytes |-> BytesOf(files, ids[i][2]), copy |-> BytesOf(files, ids[i][2]) = 0]
      BY <2>1 DEF CloneTransfers
    <3> QED BY <3>1
  <2>4. ASSUME NEW i \in DOMAIN ids PROVE \E t \in Transfers : t.to = ids[i]
    BY <2>2
  <2> QED BY <1>3, <2>3, <2>4
<1> QED BY <1>1, <1>2, <1>3 DEF Operations

LEMMA StartedKeeps == ASSUME ServiceInv, Started PROVE ServiceInv'
<1>1. /\ stage = "starting" /\ transfers' = Transfers
      /\ stage' = IF Transfers = {} THEN "processed" ELSE "uploading"
      /\ op' = op /\ files' = files /\ waiting' = waiting /\ ids' = ids /\ content' = content
  BY DEF Started
<1>2. IdsCome /\ PanelIsUntouched /\ waiting = {} /\ op \in Operations
  BY <1>1 DEF ServiceInv, IdsCome
<1>3. IdsCome' /\ PanelIsUntouched'
  BY <1>1, <1>2 DEF IdsCome, PanelIsUntouched
<1>4. ASSUME (op # "install" \/ InOrder)' PROVE FilesArrive'
  <2>1. op # "install" \/ InOrder
    BY <1>1, <1>4 DEF InOrder
  <2> QED BY <1>1, <1>2, <1>3, <2>1, TransfersGive DEF FilesArrive
<1>5. stage' \in {"uploading", "processed"} /\ (stage' = "processed" => transfers' = {})
  BY <1>1
<1> QED BY <1>1, <1>3, <1>4, <1>5 DEF ServiceInv, Stages

LEMMA TransferredKeeps == ASSUME ServiceInv, NEW s \in transfers, Transferred(s) PROVE ServiceInv'
<1>1. /\ stage = "uploading" /\ (IF s.copy THEN s.to[2] \in Base ELSE s.bytes # 0)
      /\ content' = [content EXCEPT ![s.to] = IF s.copy THEN content[<<"base", s.to[2]>>] ELSE s.bytes]
      /\ transfers' = transfers \ {s}
      /\ stage' = IF transfers' = {} THEN "processed" ELSE stage
      /\ op' = op /\ files' = files /\ waiting' = waiting /\ ids' = ids
  BY DEF Transferred
<1>2. IdsCome /\ waiting = {} /\ op \in Operations /\ DOMAIN content = Ids
  BY <1>1 DEF ServiceInv, IdsCome
<1>3. IdsCome'
  BY <1>1, <1>2 DEF IdsCome
<1>4. ASSUME (op # "install" \/ InOrder)' PROVE FilesArrive'
  <2>1. FilesArrive
    BY <1>1, <1>4 DEF InOrder, ServiceInv
  <2>2. PICK m \in DOMAIN ids : ids[m] = s.to
    BY <2>1 DEF FilesArrive
  <2>3. s.to \in Ids
    BY <1>2, <2>2 DEF IdsCome
  <2>4. /\ s.bytes = BytesOf(files, s.to[2])
        /\ s.copy => s.bytes = 0 /\ op = "clone" /\ PanelIsUntouched
    BY <2>1 DEF FilesArrive
  <2>5. content'[s.to] = Wanted(files, s.to[2])
    <3>1. CASE s.copy
      BY <3>1, <1>1, <1>2, <2>3, <2>4 DEF PanelIsUntouched, Wanted
    <3>2. CASE ~ s.copy
      BY <3>2, <1>1, <1>2, <2>3, <2>4 DEF Wanted
    <3> QED BY <3>1, <3>2
  <2>6. \A id \in Ids : id # s.to => content'[id] = content[id]
    BY <1>1, <1>2
  <2>7. ASSUME NEW i \in DOMAIN ids
        PROVE  content'[ids[i]] = Wanted(files, ids[i][2]) \/ \E t \in transfers' : t.to = ids[i]
    <3>1. CASE ids[i] = s.to
      BY <3>1, <2>5
    <3>2. CASE ids[i] # s.to
      <4>1. content'[ids[i]] = content[ids[i]]
        BY <3>2, <1>2, <2>6 DEF IdsCome
      <4>2. content[ids[i]] = Wanted(files, ids[i][2]) \/ \E t \in transfers : t.to = ids[i]
        BY <2>1 DEF FilesArrive
      <4> QED BY <3>2, <4>1, <4>2, <1>1
    <3> QED BY <3>1, <3>2
  <2>8. ASSUME op = "clone" PROVE PanelIsUntouched'
    <3>1. \A n \in Base : <<"base", n>> \in Ids
      BY ModuleFilesAssumption DEF Ids
    <3>2. \A n \in Base : <<"base", n>> # s.to
      BY <1>2, <2>2, <2>8 DEF IdsCome, IdOf
    <3> QED BY <3>1, <3>2, <2>1, <2>6, <2>8 DEF PanelIsUntouched, FilesArrive
  <2> QED BY <1>1, <2>1, <2>7, <2>8 DEF FilesArrive
<1>5. stage' \in {"uploading", "processed"} /\ (stage' = "processed" => transfers' = {}) /\ DOMAIN content' = Ids
  BY <1>1, <1>2
<1> QED BY <1>1, <1>2, <1>3, <1>4, <1>5 DEF ServiceInv, Stages

LEMMA ServiceNext == LoaderInv /\ ServiceInv /\ [FilesNext]_filesVars => ServiceInv'
<1> SUFFICES ASSUME LoaderInv, ServiceInv, [FilesNext]_filesVars PROVE ServiceInv'
  OBVIOUS
<1>1. ASSUME UNCHANGED <<op, service>> PROVE ServiceInv'
  BY <1>1 DEF service, ServiceInv, IdsCome, PanelIsUntouched, FilesArrive, InOrder
<1>2. CASE LoaderStep
  <2>1. UNCHANGED <<op, service>>
    BY <1>2 DEF LoaderStep, Pick, RemoveFile, Clear, ReadEnds, ReadsNothing, ReadFails
  <2> QED BY <1>1, <2>1
<1>3. CASE Refused \/ Strand
  <2>1. /\ stage \in {"allocating", "starting", "uploading"} /\ stage' \in {"refused", "stranded"}
        /\ op' = op /\ files' = files /\ waiting' = waiting /\ ids' = ids /\ content' = content
    BY <1>3 DEF Refused, Strand
  <2>2. IdsCome'
    BY <2>1 DEF ServiceInv, IdsCome
  <2> QED BY <2>1, <2>2 DEF ServiceInv, Stages
<1>4. CASE UNCHANGED filesVars
  BY <1>1, <1>4 DEF filesVars
<1>5. CASE Submit \/ Started \/ (\E n \in Names : Allocated(n)) \/ (\E t \in transfers : Transferred(t))
  BY <1>5, SubmitKeeps, StartedKeeps, AllocatedKeeps, TransferredKeeps
<1> QED BY <1>2, <1>3, <1>4, <1>5 DEF FilesNext, ServiceStep

\* When all is read, the form holds the content of exactly the files it lists, unless one
\* went while it was read or could not be read (ManagedFileLoader.tsx 170-220): for any
\* names, picks and removals, and readers that end in any order.
THEOREM FormHoldsWhatIsPicked == FilesSpec => []FormHoldsFiles
<1>1. FilesSpec => []LoaderInv
  BY LoaderStarts, LoaderNext, PTL DEF FilesSpec
<1> QED BY <1>1, LoaderInvGives, PTL

\* A module is processed when each of its files is at the panel under its own name
\* (ModuleUpdatingService.ts 26-101, ModuleCloningService.ts 26-110), whatever order ids
\* and transfers come in; an installation, which pairs files and ids by their places
\* (ModuleInstallationService.ts 53-57), when the ids came in the order of the files.
THEOREM ProcessedModulesHaveTheirFiles == FilesSpec => []ProcessedIsStored
<1>1. FilesInit => LoaderInv /\ ServiceInv
  BY LoaderStarts, ServiceStarts
<1>2. LoaderInv /\ ServiceInv /\ [FilesNext]_filesVars => LoaderInv' /\ ServiceInv'
  BY LoaderNext, ServiceNext
<1> QED BY <1>1, <1>2, ServiceInvGives, PTL DEF FilesSpec

=============================================================================
