------------------------------ MODULE EntityForms ------------------------------
(***************************************************************************)
(* The forms of the web client: the dialogs that add and edit resources,   *)
(* projects, applications and configurations, and the pages a user signs   *)
(* in, registers and checks a network on.  A form is one field of text beside another, a     *)
(* button, and a list of the names in use that is asked for when the form  *)
(* opens and may come at any time, after the user has typed or clicked.    *)
(*                                                                         *)
(* All the forms are one machine and a rule each; a rule says which fields *)
(* the form has, which it validates, and what opening and closing it does. *)
(* A text is blank, odd (its pattern refuses it) or good; a name may be    *)
(* free or taken, and the one the entity being edited had.                 *)
(*                                                                         *)
(* Covered: one form at a time; names taken by others while it is open;    *)
(* the Enter key, whose click comes later.  Left out: the contents of the  *)
(* requests, an answer lost with its connection (PlatformClient), leaving  *)
(* a page by a link, settings of a project other than the URL.             *)
(*                                                                         *)
(* Definitions headed "Slip" are plausible mistakes in the definition that *)
(* follows them; no specification uses them.                               *)
(***************************************************************************)
EXTENDS Naturals

CONSTANTS
  Forms,      \* the forms followed: a subset of DOMAIN Rules
  MaxEnters   \* bound: presses of Enter whose click is still to come

\* The values a field can be given.  A mask keeps what it refuses out of the field.
Patterned == {"", "odd", "good"}
Plain     == {"", "good"}
Chosen    == {"good"}                        \* a selector: something is always selected
Names     == {"", "odd", "free", "taken"}

-----------------------------------------------------------------------------
(* The rules of the forms. *)

OpenShiftResourceFields ==
  [values |-> [apiUrl |-> Patterned, privateRegistryUrl |-> Patterned,
               applicationsDomain |-> Patterned, userName |-> Patterned, password |-> Patterned],
   required |-> {"apiUrl", "privateRegistryUrl", "applicationsDomain", "userName", "password"}]

GitResourceFields ==
  [values |-> [url |-> Patterned, userName |-> Patterned, password |-> Patterned],
   required |-> {"url"}]

ArtifactsResourceFields ==
  [values |-> [url |-> Patterned, userName |-> Patterned, password |-> Patterned],
   required |-> {"url"}]

ProxyResourceFields ==
  [values |-> [host |-> Patterned, port |-> Plain, userName |-> Patterned, password |-> Patterned],
   required |-> {"host"}]

FilebeatApplicationFields ==
  [values |-> [url |-> Plain, resourceId |-> Chosen], required |-> {"url", "resourceId"}]

ProjectFields ==
  [values |-> [notifications |-> Patterned], required |-> {}]

Named(values) == [f \in {"name"} \cup DOMAIN values |-> IF f = "name" THEN Names ELSE values[f]]

\* A dialog with a name and more fields: every change validates everything, closing
\* clears the fields, Enter is a click.
Dialog(f) ==
  LET values == Named(f.values) IN
  [values |-> values,
   required |-> f.required \cup {"name"},
   checked |-> DOMAIN values,           \* fields whose errors disable the button
   watched |-> DOMAIN values,           \* fields whose change validates
   listed |-> {"name"},                 \* fields checked against a list asked for
   cleared |-> DOMAIN values,           \* fields blank after closing
   own |-> {},                          \* the name the entity may keep
   ready |-> FALSE,                     \* does opening the form validate it?
   entered |-> TRUE,
   paired |-> FALSE,                    \* is the name unique in its profile only?
   preset |-> {},                       \* fields filled as a blank form opens
   page |-> FALSE,                      \* does the form stay until it is answered?
   leaves |-> FALSE,                    \* is it left when it is accepted?
   locks |-> {}, unlocks |-> {}]        \* fields disabled by a click, enabled by the answer

Editing(rule) ==
  [rule EXCEPT !.values.name = @ \cup {"own"}, !.own = {"own"}]

ResourceAdditionDialog(f) == Dialog(f)

\* Each field is filled and then watched, which validates the form as it opens.
ResourceEditingDialog(f) == [Editing(Dialog(f)) EXCEPT !.ready = TRUE]

\* Only the name is looked at.
ProjectAdditionDialog ==
  [Dialog(ProjectFields) EXCEPT
    !.checked = {"name"}, !.watched = {"name"}, !.cleared = {"name"}, !.entered = FALSE]

ProjectEditingDialog ==
  [Editing(Dialog(ProjectFields)) EXCEPT !.checked = {"name"}, !.cleared = {"name"}]

ApplicationAdditionDialog(f) ==
  [Dialog(f) EXCEPT !.entered = FALSE, !.cleared = {"name", "url"}]

ApplicationEditingDialog(f) ==
  [Editing(Dialog(f)) EXCEPT !.entered = FALSE, !.cleared = {"name", "url"}, !.ready = TRUE]

\* The names in use are given to the dialog; the content of the file has no pattern.
PreparedConfigurationAdditionDialog ==
  [Dialog([values |-> [profile |-> Patterned, content |-> Plain],
           required |-> {"profile", "content"}]) EXCEPT
    !.checked = {"name", "profile"}, !.listed = {}, !.entered = FALSE, !.paired = TRUE]

AuthorizationPage ==
  LET values == [name |-> Patterned, password |-> Patterned] IN
  [Dialog([values |-> values, required |-> DOMAIN values]) EXCEPT
    !.values = values, !.checked = DOMAIN values, !.watched = DOMAIN values,
    !.listed = {}, !.cleared = {}, !.page = TRUE, !.leaves = TRUE,
    !.locks = DOMAIN values, !.unlocks = DOMAIN values]

\* The full name has a pattern that nothing checks, and the fields that enable()
\* disables once more stay disabled.
RegistrationPage ==
  LET values == [fullName |-> Patterned, email |-> Names, name |-> Names, password |-> Patterned] IN
  [Dialog([values |-> values, required |-> DOMAIN values]) EXCEPT
    !.checked = {"name", "email", "password"}, !.listed = {"name", "email"},
    !.cleared = {}, !.page = TRUE, !.leaves = TRUE,
    !.locks = DOMAIN values, !.unlocks = {"name", "password"}]

\* Whatever is answered, the page stays; masks keep the port and the timeout right.
NetworkAccessesPage ==
  LET values == [hostName |-> Plain, port |-> Plain, timeout |-> Plain] IN
  [Dialog([values |-> values, required |-> DOMAIN values]) EXCEPT
    !.values = values, !.required = DOMAIN values,
    !.checked = {"port", "timeout"}, !.watched = DOMAIN values,
    !.listed = {}, !.cleared = {}, !.entered = FALSE, !.preset = {"timeout"}, !.page = TRUE,
    !.locks = DOMAIN values, !.unlocks = DOMAIN values]

Rules ==
  [addOpenShift |-> ResourceAdditionDialog(OpenShiftResourceFields),
   addGit |-> ResourceAdditionDialog(GitResourceFields),
   addArtifacts |-> ResourceAdditionDialog(ArtifactsResourceFields),
   addProxy |-> ResourceAdditionDialog(ProxyResourceFields),
   editOpenShift |-> ResourceEditingDialog(OpenShiftResourceFields),
   editGit |-> ResourceEditingDialog(GitResourceFields),
   editArtifacts |-> ResourceEditingDialog(ArtifactsResourceFields),
   editProxy |-> ResourceEditingDialog(ProxyResourceFields),
   addProject |-> ProjectAdditionDialog,
   editProject |-> ProjectEditingDialog,
   addFilebeat |-> ApplicationAdditionDialog(FilebeatApplicationFields),
   editFilebeat |-> ApplicationEditingDialog(FilebeatApplicationFields),
   addConfiguration |-> PreparedConfigurationAdditionDialog,
   authorize |-> AuthorizationPage,
   register |-> RegistrationPage,
   checkNetwork |-> NetworkAccessesPage]

ASSUME FormsAssumption ==
  /\ Forms # {} /\ Forms \subseteq DOMAIN Rules
  /\ MaxEnters \in Nat

-----------------------------------------------------------------------------
VARIABLES
  form,        \* the form shown, or shown last
  open,        \* is it shown?
  text, error, \* of each field
  frozen,      \* the fields that are disabled
  enabled,     \* is the button enabled?
  lists,       \* the names in use, as far as the form has been told
  awaited,     \* the lists still to come
  current,     \* history: validated since the last list came
  existing,    \* the names in use
  enters,      \* clicks of the Enter key still to come
  sent,        \* history: requests this dialog has sent
  unanswered   \* requests of a page still to be answered

formVars == <<form, open, text, error, frozen, enabled, lists, awaited, current, existing,
          enters, sent, unanswered>>

Rule == Rules[form]

\* The fields whose name is in use.
Duplicates(r, t, l) ==
  IF r.paired
  THEN {f \in {"name"} : t[f] \in l[f] /\ t["profile"] = "good"}
  ELSE {f \in r.listed : t[f] \in l[f] \ r.own}

\* validateDuplicates: an error is set, and in one dialog also taken away.
Marked(r, t, e, l) ==
  [f \in DOMAIN t |->
    \/ f \in Duplicates(r, t, l)
    \/ IF r.paired /\ f = "name" THEN t[f] \in {"", "odd"} ELSE e[f]]

Disabled(r, t, e) ==
  \/ \E f \in r.required : t[f] = ""
  \/ \E f \in r.checked : e[f]

\* Slip: the errors of the fields are forgotten.
ValidateFilled(r, t, e) ==
  /\ error' = Marked(r, t, e, lists)
  /\ enabled' = ~ Disabled(r, t, [f \in DOMAIN t |-> FALSE])
  /\ current' = TRUE

Validate(r, t, e) ==
  /\ error' = Marked(r, t, e, lists)
  /\ enabled' = ~ Disabled(r, t, error')
  /\ current' = TRUE

-----------------------------------------------------------------------------
(* Opening a form, and its lists. *)

\* The texts a form can open with; an edited entity has what its form requires.
OpeningTexts(r) ==
  LET filled == r.own # {} IN
  {t \in [DOMAIN r.values -> {"", "good", "own"}] :
     \A f \in DOMAIN r.values :
       t[f] \in (IF f = "name" /\ filled THEN {"own"}
                 ELSE IF r.values[f] = Chosen \/ f \in r.preset \/ (filled /\ f \in r.required) THEN {"good"}
                 ELSE IF filled THEN {"", "good"}
                 ELSE {""})}

Blank(r) == [f \in DOMAIN r.values |-> FALSE]

Open(k) ==
  LET r == Rules[k] IN
  /\ ~ open /\ enters = 0 /\ unanswered = 0
  /\ form' = k
  /\ open' = TRUE
  /\ text' \in OpeningTexts(r)
  /\ error' = Blank(r)
  /\ enabled' = (r.ready /\ ~ Disabled(r, text', error'))
  /\ frozen' = {}
  /\ lists' = [f \in {"name", "email"} |-> IF r.paired THEN {"taken"} ELSE {}]
  /\ awaited' = r.listed
  /\ current' = TRUE
  /\ existing' = {"taken"}
  /\ sent' = 0
  /\ UNCHANGED <<enters, unanswered>>

\* Somebody else takes the name that was free.
TakeName ==
  /\ open /\ existing # {"taken", "free"}
  /\ existing' = {"taken", "free"}
  /\ UNCHANGED <<form, open, text, error, frozen, enabled, lists, awaited, current, enters,
                 sent, unanswered>>

\* Slip: the list is kept for the next change of a field.
ListArrivesUnseen(f) ==
  /\ f \in awaited
  /\ lists' = [lists EXCEPT ![f] = existing]
  /\ awaited' = awaited \ {f}
  /\ current' = FALSE
  /\ UNCHANGED <<form, open, text, error, frozen, enabled, existing, enters, sent, unanswered>>

\* The answer shows what is a duplicate; the button is left as it is.
ListArrives(f) ==
  /\ f \in awaited
  /\ lists' = [lists EXCEPT ![f] = existing]
  /\ awaited' = awaited \ {f}
  /\ error' = Marked(Rule, text, error, lists')
  /\ current' = FALSE
  /\ UNCHANGED <<form, open, text, frozen, enabled, existing, enters, sent, unanswered>>

-----------------------------------------------------------------------------
(* Typing. *)

\* A change sets the error its pattern calls for before anything is validated.
Type(f, v) ==
  /\ open /\ f \in DOMAIN text \ frozen
  /\ v \in Rule.values[f] \ {text[f]}
  /\ text' = [text EXCEPT ![f] = v]
  /\ LET e == [error EXCEPT ![f] = (v = "odd")] IN
     IF f \in Rule.watched
     THEN Validate(Rule, text', e)
     ELSE error' = e /\ UNCHANGED <<enabled, current>>
  /\ UNCHANGED <<form, open, frozen, lists, awaited, existing, enters, sent, unanswered>>

-----------------------------------------------------------------------------
(* Sending and closing. *)

\* Slip: a dialog that is closed keeps its texts.
CloseKeeping ==
  /\ open' = FALSE
  /\ UNCHANGED <<text, error, enabled, current>>

\* A dialog that is closed clears its fields, one after the other; a field that was
\* not blank is validated with the rest, and the name is the first.
Close ==
  LET blank == [f \in DOMAIN text |-> IF f \in Rule.cleared THEN "" ELSE text[f]]
      e     == [f \in DOMAIN text |-> IF f \in Rule.cleared THEN FALSE ELSE error[f]]
      changed == {f \in Rule.cleared : text[f] # ""}
  IN
  /\ open' = FALSE
  /\ text' = blank
  /\ IF changed \cap Rule.watched # {}
     THEN Validate(Rule, blank, e)
     ELSE UNCHANGED <<error, enabled, current>>

Lock == frozen' = frozen \cup Rule.locks /\ enabled' = FALSE

\* A dialog sends its request and closes before the answer; a page is disabled until
\* it is answered.
Click ==
  IF ~ enabled
  THEN UNCHANGED <<open, text, error, frozen, enabled, current, sent, unanswered>>
  ELSE
    IF Rule.page
    THEN /\ Lock
         /\ unanswered' = unanswered + 1
         /\ UNCHANGED <<open, text, error, current, sent>>
    ELSE /\ sent' = sent + 1
         /\ Close
         /\ UNCHANGED <<frozen, unanswered>>

PressButton ==
  /\ open /\ enabled
  /\ Click
  /\ UNCHANGED <<form, lists, awaited, existing, enters>>

PressEnter ==
  /\ open /\ Rule.entered /\ enters < MaxEnters
  /\ enters' = enters + 1
  /\ UNCHANGED <<form, open, text, error, frozen, enabled, lists, awaited, current, existing,
                 sent, unanswered>>

\* The click of the Enter key comes later, whatever the form has become.
EnterFires ==
  /\ enters > 0
  /\ enters' = enters - 1
  /\ Click
  /\ UNCHANGED <<form, lists, awaited, existing>>

CloseDialog ==
  /\ open /\ ~ Rule.page
  /\ Close
  /\ UNCHANGED <<form, frozen, lists, awaited, existing, enters, sent, unanswered>>

\* The button is enabled whatever the fields hold.
Unlock(accepted) == frozen' = frozen \ Rule.unlocks /\ enabled' = TRUE

\* A page where users sign in is left when its user is accepted.
Answer(accepted) ==
  /\ unanswered > 0
  /\ unanswered' = unanswered - 1
  /\ Unlock(accepted)
  /\ open' = (open /\ ~ (accepted /\ Rule.leaves))
  /\ UNCHANGED <<form, text, error, lists, awaited, current, existing, enters, sent>>

-----------------------------------------------------------------------------
FormInit ==
  /\ form \in Forms
  /\ open = FALSE
  /\ text = [f \in DOMAIN Rule.values |-> ""]
  /\ error = Blank(Rule)
  /\ frozen = {} /\ enabled = FALSE
  /\ lists = [f \in {"name", "email"} |-> {}]
  /\ awaited = {}
  /\ current = TRUE
  /\ existing = {"taken"}
  /\ enters = 0 /\ sent = 0 /\ unanswered = 0

FormNext ==
  \/ \E k \in Forms : Open(k)
  \/ TakeName
  \/ \E f \in {"name", "email"} : ListArrives(f)
  \/ \E f \in DOMAIN text : \E v \in Rule.values[f] : Type(f, v)
  \/ PressButton \/ PressEnter \/ EnterFires \/ CloseDialog
  \/ \E accepted \in BOOLEAN : Answer(accepted)

FormSpec == FormInit /\ [][FormNext]_formVars

-----------------------------------------------------------------------------
(* Properties. *)

\* A button that can be clicked has a form behind it whose required fields are filled
\* and whose checked fields hold neither what their pattern refuses nor a name known
\* to be in use, unless a list has come since the form was last validated.
\* ResourceAdditionDialog.ts 43-60; RegistrationPage.ts 93-127.
ButtonIsJustified ==
  enabled /\ current =>
    /\ \A f \in Rule.required : text[f] # ""
    /\ \A f \in Rule.checked : text[f] # "odd"
    /\ Duplicates(Rule, text, lists) = {}

\* A name the form knows to be in use is shown as an error, whichever came first, the
\* name or the list.  ResourceAdditionDialog.ts 51-59, 139-142;
\* PeparedConfigurationAdditionDialog.ts 41-49.
DuplicateIsShown ==
  open => \A f \in Duplicates(Rule, text, lists) : error[f]

\* A dialog sends one request at most, though its button may be clicked by the mouse
\* and by presses of Enter that come later; a page has one request on the way at most.
\* ResourceAdditionDialog.ts 98-99, 132-135; AuthorizationPage.ts 72-81, 169-181.
SentOnce == IF Rule.page THEN unanswered <= 1 ELSE sent <= 1

=============================================================================
