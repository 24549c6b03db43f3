--------------------------- MODULE LauncherDialogs ---------------------------
(***************************************************************************)
(* The two dialogs of the web client that act on a project that is chosen  *)
(* in them: the one that launches a build and the one that installs        *)
(* modules.  Choosing a project asks the server what the project has (its  *)
(* configuration, its assembled artifacts); the answers come in any order, *)
(* and until they come the dialog shows, and sends, what the project       *)
(* before had, beside the project that is chosen now.                      *)
(*                                                                         *)
(* Covered: both dialogs, opened without a project; the selectors and the  *)
(* searcher they are made of (Choices).  Left out: what a module is        *)
(* configured with, beyond whether it is valid; failed requests, which     *)
(* leave the dialog waiting; the resource of a build.                      *)
(*                                                                         *)
(* Definitions headed "Slip" are plausible mistakes in the definition that *)
(* follows them; no specification uses them.                               *)
(***************************************************************************)
EXTENDS Choices, FiniteSets

CONSTANTS
  Projects,      \* a sequence of projects
  Versions,      \* [project -> sequence of versions]
  Artifacts,     \* a sequence of names of artifacts
  Has,           \* [project -> [version -> set of names]]: what the project has
  Configured,    \* [project -> set of names]: what is configured to be built
  Assembled,     \* [project -> set of names]: what has been built
  MaxAsked,      \* bound: answers on the way
  MaxSwitches    \* bound: projects chosen in one dialog

None == "none"
Values(list) == {list[i] : i \in DOMAIN list}

\* There is a project, and each has a version.
IsList(list) == Len(list) \in Nat \ {0} /\ DOMAIN list = 1..Len(list)

ASSUME ConstantsAssumption ==
  /\ IsList(Projects) /\ None \notin Values(Projects)
  /\ \A p \in Values(Projects) :
       IsList(Versions[p]) /\ DOMAIN Has[p] = Values(Versions[p])
  /\ MaxAsked \in Nat \ {0} /\ MaxSwitches \in Nat

VARIABLES
  kind,      \* "build" or "install": the dialog; "closed"
  project,   \* its selector of projects
  version,   \* the build's selector of versions
  search,    \* its searcher of artifacts
  answered,  \* the project of the answer the dialog holds, None before the first
  asked,     \* the requests on the way, each with: is it the last one made?
  settled,   \* history: the answer held is that of the last request
  panels,    \* the modules to install: name -> the artifact, and is it valid?
  enabled,   \* the button that installs
  switches   \* projects chosen

vars == <<kind, project, version, search, answered, asked, settled, panels, enabled, switches>>

Named(n, p) == [name |-> n, of |-> p]
NamedAll(list, p) == [i \in DOMAIN list |-> Named(list[i], p)]

\* The artifacts of a set of names, in their order, as one project has them.
Listed(names, p) ==
  NamedAll(SelectSeq(Artifacts, LAMBDA n : n \in names), p)

NoPanels == [n \in {} |-> None]

-----------------------------------------------------------------------------
(* Building. *)

\* The artifacts of the version that the configuration held also has; they are the
\* artifacts of the configuration, whoever's it is.
AvailableArtifacts(p, v, config) == Listed(Has[p][v] \cap Configured[config], config)

\* A configuration without artifacts is not valid, and the dialog says no more.
HasValidConfiguration(config) == config # None /\ Configured[config] # {}

Ask(p) ==
  /\ Len(asked) < MaxAsked
  /\ asked' = Append([i \in DOMAIN asked |-> [asked[i] EXCEPT !.last = FALSE]],
                     [project |-> p, last |-> TRUE])

\* Slip: the versions stay those of the project before.
SwitchBuildKeeping(name) ==
  /\ project' = SelectItem(project, name)
  /\ UNCHANGED <<version, search>>

\* The version is chosen again in the versions of the project; only if that makes it
\* another one are the artifacts, with the configuration held.
SwitchBuild(name) ==
  /\ project' = SelectItem(project, name)
  /\ version' = SetAvailable(version, NamedAll(Versions[name], None))
  /\ search' = IF version'.selected = version.selected THEN search
               ELSE SetSearched(search, AvailableArtifacts(name, version'.selected.name, answered))

\* The project of a dialog is one its selector shows.
SwitchProject(name) ==
  /\ kind \in {"build", "install"} /\ switches < MaxSwitches
  /\ kind = "build" => HasValidConfiguration(answered)
  /\ name # project.selected.name
  /\ IF kind = "build"
     THEN SwitchBuild(name)
     ELSE project' = SelectItem(project, name) /\ UNCHANGED <<version, search>>
  /\ Ask(name)
  /\ settled' = FALSE
  /\ switches' = switches + 1
  /\ UNCHANGED <<kind, answered, panels, enabled>>

ChooseVersion(name) ==
  /\ kind = "build" /\ HasValidConfiguration(answered)
  /\ name \in {v.name : v \in Values(version.available)} \ {version.selected.name}
  /\ version' = SelectItem(version, name)
  /\ search' = SetSearched(search, AvailableArtifacts(project.selected.name, name, answered))
  /\ UNCHANGED <<kind, project, answered, asked, settled, panels, enabled, switches>>

\* The selectors of the build are made when it is first shown, after its first answer.
AnswerBuild(p) ==
  /\ version' = IF answered = None
                THEN LET versions == NamedAll(Versions[project.selected.name], None)
                     IN Selector(versions, versions[1])
                ELSE version
  /\ search' = IF answered = None
               THEN Searcher(AvailableArtifacts(project.selected.name, version'.selected.name, p),
                             Comparator("projectArtifacts"))
               ELSE search
  /\ UNCHANGED <<panels, enabled>>

\* The request names the project chosen, the configuration held, and the artifacts of
\* the configuration that are selected.
LaunchBuild ==
  /\ kind = "build" /\ HasValidConfiguration(answered)
  /\ kind' = "closed"
  /\ UNCHANGED <<project, version, search, answered, asked, settled, panels, enabled, switches>>

-----------------------------------------------------------------------------
(* Installing. *)

\* The modules follow the artifacts selected: a panel for each, kept by its name; a new
\* one may be valid as it is.  Then all of them are validated.
SelectArtifacts(selected) ==
  LET names == {a.name : a \in selected}
      of(n) == CHOOSE a \in selected : a.name = n
  IN
  /\ \E valid \in [names \ DOMAIN panels -> BOOLEAN] :
       panels' = [n \in names |->
                   IF n \in DOMAIN panels THEN panels[n]
                   ELSE [artifact |-> of(n), valid |-> valid[n]]]
  /\ enabled' = (names # {} /\ \A n \in names : panels'[n].valid)

\* Slip: the modules of the project before stay.
ReloadArtifactsKeeping(p) ==
  /\ search' = SetSearched(search, Listed(Assembled[p], p))
  /\ UNCHANGED <<version, panels, enabled>>

\* The artifacts of the answer replace those shown; those selected may be found among
\* them, the modules are cleared in any case, and the button keeps what it was.
ReloadArtifacts(p) ==
  /\ search' = SetSearched(search, Listed(Assembled[p], p))
  /\ panels' = NoPanels
  /\ enabled' \in IF search'.selected = search.selected THEN {enabled}
                  ELSE IF search'.selected = {} THEN {FALSE} ELSE BOOLEAN
  /\ UNCHANGED version

\* A change of a module validates that module only.
EditModule(name, valid) ==
  /\ kind = "install" /\ name \in DOMAIN panels
  /\ panels' = [panels EXCEPT ![name].valid = valid]
  /\ enabled' = valid
  /\ UNCHANGED <<kind, project, version, search, answered, asked, settled, switches>>

Install ==
  /\ kind = "install" /\ enabled
  /\ kind' = "closed"
  /\ UNCHANGED <<project, version, search, answered, asked, settled, panels, enabled, switches>>

-----------------------------------------------------------------------------
(* Both. *)

Chosen(x) ==
  /\ x # search
  /\ search' = x
  /\ IF kind = "install"
     THEN SelectArtifacts(x.selected)
     ELSE UNCHANGED <<panels, enabled>>
  /\ UNCHANGED <<kind, project, version, answered, asked, settled, switches>>

ChooseArtifacts(indexes) ==
  /\ kind = "install" \/ (kind = "build" /\ HasValidConfiguration(answered))
  /\ indexes \subseteq DOMAIN search.available
  /\ Chosen(SelectIndexes(search, indexes))

\* The button selects what the dialog would list now, which the searcher may not have.
ChooseAll ==
  \/ /\ kind = "install" /\ answered # None
     /\ Chosen(SelectAll(search, Values(Listed(Assembled[answered], answered))))
  \/ /\ kind = "build" /\ HasValidConfiguration(answered)
     /\ Chosen(SelectAll(search,
          Values(AvailableArtifacts(project.selected.name, version.selected.name, answered))))

\* An answer is taken for that of the project chosen, whichever it is.
Answer(i) ==
  /\ i \in DOMAIN asked
  /\ asked' = SubSeq(asked, 1, i - 1) \o SubSeq(asked, i + 1, Len(asked))
  /\ IF kind = "closed"
     THEN UNCHANGED <<version, search, answered, settled, panels, enabled>>
     ELSE /\ answered' = asked[i].project
          /\ settled' = asked[i].last
          /\ IF kind = "build" THEN AnswerBuild(answered') ELSE ReloadArtifacts(answered')
  /\ UNCHANGED <<kind, project, switches>>

\* A dialog opens on the first project, and asks for it.
Open(k) ==
  /\ kind = "closed" /\ asked = <<>>
  /\ kind' = k
  /\ project' = Selector(NamedAll(Projects, None), Named(Projects[1], None))
  /\ version' = Selector(<<Named(None, None)>>, Named(None, None))
  /\ search' = Searcher(<<>>, k = "build")
  /\ answered' = None
  /\ Ask(Projects[1])
  /\ settled' = FALSE
  /\ panels' = NoPanels /\ enabled' = FALSE
  /\ switches' = 0

Init ==
  /\ kind = "closed"
  /\ project = Selector(NamedAll(Projects, None), Named(Projects[1], None))
  /\ version = Selector(<<Named(None, None)>>, Named(None, None))
  /\ search = Searcher(<<>>, TRUE)
  /\ answered = None /\ asked = <<>> /\ settled = FALSE
  /\ panels = NoPanels /\ enabled = FALSE
  /\ switches = 0

Next ==
  \/ \E k \in {"build", "install"} : Open(k)
  \/ \E p \in Values(Projects) : SwitchProject(p)
  \/ \E v \in UNION {Values(Versions[p]) : p \in Values(Projects)} : ChooseVersion(v)
  \/ \E indexes \in SUBSET (DOMAIN Artifacts) : ChooseArtifacts(indexes)
  \/ ChooseAll
  \/ \E n \in Values(Artifacts), valid \in BOOLEAN : EditModule(n, valid)
  \/ \E i \in 1..MaxAsked : Answer(i)
  \/ LaunchBuild \/ Install

Spec == Init /\ [][Next]_vars

-----------------------------------------------------------------------------
(* Properties. *)

\* Once the answer to the last request is the last to have come, the dialog holds what
\* the project chosen has, and no module to install is an artifact of another project.
\* BuildLauncherDialog.tsx 48-55, 89-93; ModulesInstallationDialog.tsx 110-118.
SettledIsOfProject ==
  settled =>
    /\ answered = project.selected.name
    /\ \A n \in DOMAIN panels : panels[n].artifact.of = project.selected.name

\* The version a build is launched with is one the project chosen has: the request
\* looks it up there.  BuildLauncherDialog.tsx 74-87, 89-99.
VersionIsOfProject ==
  kind = "build" /\ answered # None =>
    version.selected.name \in Values(Versions[project.selected.name])

=============================================================================
