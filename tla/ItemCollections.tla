--------------------------- MODULE ItemCollections ---------------------------
(***************************************************************************)
(* The collections a form of the web client is edited in: variables,       *)
(* ports, labels, files, properties.  A collection validates the item that *)
(* changed against the others; an item that is blank, ill-formed or named  *)
(* as another blocks the collection, nothing can be added, and every item  *)
(* but the one that changed is disabled, until that one is mended or       *)
(* deleted.                                                                *)
(*                                                                         *)
(* Blocking is told to the items through two event lists, "consume" and    *)
(* "cleared", which an item joins while it is added, after it has been     *)
(* validated; the model keeps the item's own flag apart from the reason.   *)
(*                                                                         *)
(* A collection opens with the items that were saved.  Nothing validates a *)
(* blocked collection when the form around it is saved, so they may be     *)
(* blank or duplicates; "sound" says that they are not.                    *)
(*                                                                         *)
(* On the page of network accesses the labels of the pod are such a        *)
(* collection too, and a check of the network sets from outside what a     *)
(* validation sets: no item can be added or deleted while the check is     *)
(* under way, and the field made last is disabled; when it ends items can  *)
(* be added and deleted, and that field is enabled, whatever the           *)
(* collection had said.  An item it had blocked for is then "released".    *)
(*                                                                         *)
(* Covered: the seven kinds of collection, and the labels of the network   *)
(* page.  Left out: the values beside the keys (disabled with them, never  *)
(* validated), and rendering: a button does what the state it was drawn    *)
(* from last allows, which on the network page is redrawn as a whole when  *)
(* a check starts and when it ends.                                        *)
(*                                                                         *)
(* Definitions headed "Slip" are plausible mistakes in the definition that *)
(* follows them; no specification uses them.                               *)
(***************************************************************************)
EXTENDS Integers, FiniteSets

CONSTANTS
  Kinds,     \* the kinds of collection followed: a subset of DOMAIN Rules
  Texts,     \* the keys that can be typed and that the patterns accept
  MaxOpen,   \* bound: items a collection opens with
  MaxId      \* bound: the last item that can be added

Blank == "blank"
Odd   == "odd"       \* a key that the pattern of the collection refuses
None  == -1

-----------------------------------------------------------------------------
(* The kinds. *)

\* A key and its pattern; only a blank key is refused.
KeyedByText ==
  [strict |-> FALSE,   \* is a key refused when its field shows an error?
   masked |-> FALSE,   \* does a mask keep odd keys out of the field?
   parsed |-> FALSE,   \* are the saved keys values of another type than typed ones?
   sticky |-> FALSE,   \* is the duplicate told to the field only when it changes?
   checked |-> FALSE]  \* is it on the page that checks the network?

environmentVariablesCollection == KeyedByText
variablesCollection == KeyedByText
stringCollection == KeyedByText
keyValueCollection == KeyedByText
fileCollection == [KeyedByText EXCEPT !.strict = TRUE]

\* It opens with no item, and is not in a box.
nodeSelectorLabels == [keyValueCollection EXCEPT !.checked = TRUE]

\* Saved ports are numbers, typed ones are texts.
portsCollection == [KeyedByText EXCEPT !.masked = TRUE, !.parsed = TRUE]

\* ManagedProperty keeps the duplicate in a property of its own, and has no pattern.
propertiesCollection == [KeyedByText EXCEPT !.masked = TRUE, !.sticky = TRUE]

Rules ==
  [environment |-> environmentVariablesCollection, variables |-> variablesCollection,
   strings |-> stringCollection, keyValues |-> keyValueCollection,
   labels |-> nodeSelectorLabels, files |-> fileCollection,
   ports |-> portsCollection, properties |-> propertiesCollection]

ASSUME ItemsAssumption ==
  /\ Kinds # {} /\ Kinds \subseteq DOMAIN Rules
  /\ Texts \cap {Blank, Odd} = {}
  /\ MaxId \in Nat /\ MaxOpen \in 0..(MaxId + 1)

-----------------------------------------------------------------------------
VARIABLES
  kind,
  ids,        \* the items, in the order of their numbers
  key,        \* what each holds: a text, and whether it was saved as another type
  error,      \* does its field show an error?
  duplicate,  \* the property of a sticky item
  disabled,   \* is its field disabled?
  blocked,    \* additionDisabled
  exclusion,  \* editingDisabled: the item that can be edited, None when all can
  next,       \* the number of the next item
  checking,   \* deletionDisabled: a check of the network is under way
  released,   \* history: a check has ended while an item was the exclusion, and nothing
              \* was validated since
  sound       \* history: the items it opened with are valid, and nothing was added or
              \* changed past an item that had been released

itemsVars ==
  <<kind, ids, key, error, duplicate, disabled, blocked, exclusion, next, checking, released, sound>>

Numbers == 0..MaxId
Typed(t) == [text |-> t, parsed |-> FALSE]

\* The number of the item that was made last, which may be deleted since.
Latest == next - 1

\* The state of a collection as one value, for the steps inside an operation.
Collection ==
  [ids |-> ids, key |-> key, error |-> error, duplicate |-> duplicate,
   disabled |-> disabled, blocked |-> blocked, exclusion |-> exclusion]

Becomes(c) ==
  /\ ids' = c.ids /\ key' = c.key /\ error' = c.error /\ duplicate' = c.duplicate
  /\ disabled' = c.disabled /\ blocked' = c.blocked /\ exclusion' = c.exclusion

-----------------------------------------------------------------------------
(* Validation. *)

\* validator: the item itself is refused.
Invalid(k, c, i) ==
  \/ c.key[i].text = Blank
  \/ Rules[k].strict /\ c.error[i]

Same(c, i, j) == i # j /\ c.key[i] = c.key[j]

\* duplicateHandler: a text field is told each time, losing the error of its pattern.
Told(k, c, i, value) ==
  IF ~ Rules[k].sticky THEN [c EXCEPT !.error[i] = value]
  ELSE IF c.duplicate[i] = value THEN c
  ELSE [c EXCEPT !.duplicate[i] = value, !.error[i] = value]

\* The items in the events of editingDisabled.
Unblocked(c, listening) ==
  [c EXCEPT !.blocked = FALSE, !.exclusion = None,
            !.disabled = [i \in Numbers |-> IF i \in listening /\ c.exclusion # None THEN FALSE
                                            ELSE c.disabled[i]]]

BlockedExcept(c, except, listening) ==
  [c EXCEPT !.blocked = TRUE, !.exclusion = except,
            !.disabled = [i \in Numbers |-> IF i \in listening THEN i # except
                                            ELSE c.disabled[i]]]

\* Slip: the item that changed is compared with all but refused for itself only.
ValidateItemsAlone(k, c, except, listening) ==
  LET u == Unblocked(c, listening) IN
  IF Invalid(k, u, except) THEN BlockedExcept(u, except, listening)
  ELSE Told(k, u, except, FALSE)

\* validateItemsExcept: the items are gone through in order; the first that is refused,
\* or is named as the one that changed, ends it.
ValidateItemsExcept(k, c, except, listening) ==
  LET u == Unblocked(c, listening)
      Stops(i) == Invalid(k, u, i) \/ Same(u, i, except)
      First(i) == i \in u.ids /\ Stops(i) /\ \A j \in u.ids : j < i => ~ Stops(j)
  IN
  IF \A i \in u.ids : ~ Stops(i) THEN Told(k, u, except, FALSE)
  ELSE LET refused == \E i \in u.ids : First(i) /\ Invalid(k, u, i) IN
       BlockedExcept(IF refused THEN u ELSE Told(k, u, except, TRUE), except, listening)

-----------------------------------------------------------------------------
(* Items. *)

\* Slip: the item listens before it is validated and is not told what has happened.
AddItemUntold(k, c, i, v) ==
  ValidateItemsExcept(k,
    [c EXCEPT !.ids = @ \cup {i}, !.key[i] = v, !.error[i] = FALSE, !.duplicate[i] = FALSE,
              !.disabled[i] = TRUE],
    i, c.ids)

\* The new item is validated, then listens, and is told at once if items are disabled.
AddItem(k, c, i, v) ==
  LET added == ValidateItemsExcept(k,
                 [c EXCEPT !.ids = @ \cup {i}, !.key[i] = v, !.error[i] = FALSE,
                           !.duplicate[i] = FALSE, !.disabled[i] = FALSE],
                 i, c.ids)
  IN IF added.exclusion = None THEN added
     ELSE [added EXCEPT !.disabled[i] = (added.exclusion # i)]

DeleteItem(c, i) ==
  LET enabled == IF c.exclusion = i THEN Unblocked(c, c.ids) ELSE [c EXCEPT !.blocked = FALSE]
  IN [enabled EXCEPT !.ids = @ \ {i}]

Empty ==
  [ids |-> {}, key |-> [i \in Numbers |-> Typed(Blank)], error |-> [i \in Numbers |-> FALSE],
   duplicate |-> [i \in Numbers |-> FALSE], disabled |-> [i \in Numbers |-> FALSE],
   blocked |-> FALSE, exclusion |-> None]

\* Opened(k, saved)[n] is the collection with the first n of the items saved.
Opened(k, saved, size) ==
  LET with[n \in 0..size] ==
        IF n = 0 THEN Empty ELSE AddItem(k, with[n - 1], n - 1, saved[n - 1])
  IN with[size]

\* The keys that can have been saved.
Savable(k) ==
  [text : Texts \cup {Blank} \cup (IF Rules[k].masked THEN {} ELSE {Odd}),
   parsed : {Rules[k].parsed}]

-----------------------------------------------------------------------------
ItemsInit ==
  /\ kind \in Kinds
  /\ checking = FALSE /\ released = FALSE
  /\ \E size \in 0..(IF Rules[kind].checked THEN 0 ELSE MaxOpen) : \E saved \in [0..(size - 1) -> Savable(kind)] :
       LET c == Opened(kind, saved, size) IN
       /\ ids = c.ids /\ key = c.key /\ error = c.error /\ duplicate = c.duplicate
       /\ disabled = c.disabled /\ blocked = c.blocked /\ exclusion = c.exclusion
       /\ next = IF size = 0 THEN 1 ELSE size
       /\ sound = (\A i \in 0..(size - 1) :
                     /\ saved[i].text # Blank
                     /\ \A j \in 0..(size - 1) : i # j => saved[i] # saved[j])

\* The button stands beside the last item, or alone.
AddNewItem ==
  /\ ~ blocked /\ next <= MaxId
  /\ Becomes(AddItem(kind, Collection, next, Typed(Blank)))
  /\ next' = next + 1
  /\ released' = FALSE /\ sound' = (sound /\ ~ released)
  /\ UNCHANGED <<kind, checking>>

\* The button of an item is disabled with it, and during a check.
Delete(i) ==
  /\ i \in ids /\ exclusion \in {None, i} /\ ~ checking
  /\ Becomes(DeleteItem(Collection, i))
  /\ released' = FALSE
  /\ UNCHANGED <<kind, next, checking, sound>>

\* A change of the text sets the error of its pattern, then validates.
Type(i, t) ==
  /\ i \in ids /\ ~ disabled[i]
  /\ key[i] # Typed(t)
  /\ t = Odd => ~ Rules[kind].masked
  /\ Becomes(ValidateItemsExcept(kind,
               [Collection EXCEPT !.key[i] = Typed(t), !.error[i] = (t = Odd)], i, ids))
  /\ released' = FALSE /\ sound' = (sound /\ (released => i = exclusion))
  /\ UNCHANGED <<kind, next, checking>>

\* The box around the collection is unchecked.
Clear ==
  /\ ids # {} /\ ~ Rules[kind].checked
  /\ Becomes([Unblocked(Collection, ids) EXCEPT !.ids = {}])
  /\ UNCHANGED <<kind, next, checking, released, sound>>

\* disable: the check takes the field made last, and the buttons.  The other fields can
\* be typed in, and are validated, while it is under way.
StartCheck ==
  /\ Rules[kind].checked /\ ~ checking
  /\ checking' = TRUE /\ released' = FALSE
  /\ Becomes([Collection EXCEPT !.disabled[Latest] = TRUE, !.blocked = TRUE])
  /\ UNCHANGED <<kind, next, sound>>

\* enable, upon the answer or the failure: not told what a validation had said.
EndCheck ==
  /\ checking
  /\ checking' = FALSE /\ released' = (exclusion # None)
  /\ Becomes([Collection EXCEPT !.disabled[Latest] = FALSE, !.blocked = FALSE])
  /\ UNCHANGED <<kind, next, sound>>

ItemsNext ==
  \/ AddNewItem
  \/ \E i \in Numbers : Delete(i)
  \/ \E i \in Numbers, t \in Texts \cup {Blank, Odd} : Type(i, t)
  \/ Clear
  \/ StartCheck
  \/ EndCheck

ItemsSpec == ItemsInit /\ [][ItemsNext]_itemsVars

-----------------------------------------------------------------------------
(* Properties. *)

\* What a validation and a check have set agree, whichever came last.  A collection that
\* cannot be added to has an item that mends it, or its check is still to end; an item it
\* is blocked for is there, and is forgotten by a check that ended at most; exactly the
\* others are disabled, but for the field a check has taken or given back.
\* ManagedCollection.tsx 91-146, OpenShiftPodConfigurator.ts 41-53.
BlockedHasWayOut ==
  /\ blocked => exclusion # None \/ checking
  /\ exclusion # None => exclusion \in ids /\ (blocked \/ released)
  /\ \A i \in ids :
       /\ disabled[i] => exclusion \notin {None, i} \/ (checking /\ i = Latest)
       /\ exclusion \notin {None, i} => disabled[i] \/ (released /\ i = Latest)

\* Of a collection that opened with valid items only the item that may be edited can be
\* blank or named as another: none can when items can be added.  Excepted is what is
\* added or typed past an item that the end of a check has released.
\* ManagedCollection.tsx 116-146.
OnlyExclusionIsBad ==
  sound => \A i \in ids \ {exclusion} :
             /\ key[i].text # Blank
             /\ \A j \in ids \ {exclusion} : ~ Same(Collection, i, j)

=============================================================================
