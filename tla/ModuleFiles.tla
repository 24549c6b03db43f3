------------------------------ MODULE ModuleFiles ------------------------------
(***************************************************************************)
(* The additional files of a module, from the dialog of the web client to  *)
(* the panel: the file loader of the form (ManagedFileLoader.tsx), whose   *)
(* files are read by callbacks, and the three services that install,       *)
(* update or clone a module once its files are there (three services).     *)
(*                                                                         *)
(* Covered: files picked, replaced and removed while others are read; the  *)
(* button clicked at any moment; ids that are allocated in any order;      *)
(* transfers that end in any order; a request that is never answered.      *)
(* Left out: the rest of the configuration, refused sizes (the loader      *)
(* takes no empty file and none that is too large), what FilePond does     *)
(* with the files a module already has.                                    *)
(*                                                                         *)
(* Definitions headed "Slip" are plausible mistakes in the definition that *)
(* follows them; no specification uses them.                               *)
(***************************************************************************)
EXTENDS Naturals, Sequences, FiniteSets, SequencesExt

CONSTANTS
  Names,       \* names of files
  Base,        \* names of the files of the module that is updated or cloned
  Old, Blank,  \* content at the panel: what Base holds, nothing
  MaxPicks,    \* bound: files the user picks
  MaxRemovals  \* bound: removals, by name or of all

ASSUME ModuleFilesAssumption ==
  /\ Base \subseteq Names /\ IsFiniteSet(Base)
  /\ MaxPicks \in Nat /\ MaxRemovals \in Nat
  /\ Old \notin Nat /\ Blank \notin Nat /\ Old # Blank

Operations == {"install", "update", "clone"}
Stages == {"editing", "allocating", "starting", "uploading", "processed", "refused", "stranded"}
Ids == {"base", "new"} \X Names
Picks == 1..MaxPicks

VARIABLES
  op,         \* the service behind the button
  picked,     \* history: the name of each file picked
  loaded,     \* loadedFiles: sequence of [name, file], file 0 being one of Base
  current,    \* currentFiles: sequence of [name, bytes], 0 being an empty buffer
  reads,      \* [Picks -> Nat]: readers under way for each file
  removals,   \* removals so far
  disturbed,  \* history: a file went while it was read, or could not be read
  stage,      \* where the operation is
  files,      \* additionalFiles of the configuration that was submitted
  waiting,    \* names whose id is awaited
  ids,        \* ids in the order they came
  transfers,  \* uploads and copies under way
  content     \* [Ids -> bytes]: FileService of the panel

loader == <<picked, loaded, current, reads, removals, disturbed>>
service == <<stage, files, waiting, ids, transfers, content>>
filesVars == <<op, loader, service>>

NamesOf(seq) == {seq[i].name : i \in DOMAIN seq}
BytesOf(seq, n) == (CHOOSE f \in {seq[i] : i \in DOMAIN seq} : f.name = n).bytes
Emptied(seq) == [i \in DOMAIN seq |-> [name |-> seq[i].name, bytes |-> 0]]
\* The list without the entry of that name, of which there never are two.
Without(seq, n) ==
  IF n \in NamesOf(seq) THEN RemoveAt(seq, CHOOSE i \in DOMAIN seq : seq[i].name = n) ELSE seq
\* Puts f over the entry of its name, or at the end.
Put(seq, f) ==
  IF f.name \in NamesOf(seq)
  THEN [i \in DOMAIN seq |-> IF seq[i].name = f.name THEN f ELSE seq[i]]
  ELSE Append(seq, f)

\* A dialog that updates or clones a module opens with its files, in some order, unread.
FormOf(o, seq) ==
  IF o = "install" THEN << >> ELSE [i \in DOMAIN seq |-> [name |-> seq[i], file |-> 0]]

FilesInit ==
  /\ op \in Operations
  /\ \E seq \in Bijection(1..Cardinality(Base), Base) : loaded = FormOf(op, seq)
  /\ current = Emptied(loaded)
  /\ picked = << >> /\ reads = [k \in Picks |-> 0] /\ removals = 0 /\ disturbed = FALSE
  /\ stage = "editing" /\ files = << >> /\ waiting = {} /\ ids = << >> /\ transfers = {}
  /\ content = [id \in Ids |-> IF id[1] = "base" /\ id[2] \in Base THEN Old ELSE Blank]

-----------------------------------------------------------------------------
\* Slip: only the last file of the list is read again.
UpdateFilesLast(list) ==
  /\ loaded' = list
  /\ current' = Emptied(list)
  /\ reads' = [k \in Picks |-> IF list # << >> /\ k = list[Len(list)].file THEN reads[k] + 1 ELSE reads[k]]

\* Every change of the list empties all buffers and reads all picked files again.
UpdateFiles(list) ==
  /\ loaded' = list
  /\ current' = Emptied(list)
  /\ reads' = [k \in Picks |-> IF k \in {list[i].file : i \in DOMAIN list} THEN reads[k] + 1 ELSE reads[k]]

BeingRead(n) == \E k \in Picks : reads[k] > 0 /\ picked[k] = n

Pick(n) ==
  /\ stage = "editing" /\ Len(picked) < MaxPicks
  /\ picked' = Append(picked, n)
  /\ UpdateFiles(Put(loaded, [name |-> n, file |-> Len(picked) + 1]))
  /\ disturbed' = (disturbed \/ BeingRead(n))
  /\ UNCHANGED <<op, removals, service>>

RemoveFile(n) ==
  /\ stage = "editing" /\ removals < MaxRemovals
  /\ n \in NamesOf(loaded)
  /\ removals' = removals + 1
  /\ UpdateFiles(Without(loaded, n))
  /\ disturbed' = (disturbed \/ BeingRead(n))
  /\ UNCHANGED <<op, picked, service>>

\* clearFiles, when the panel of the files is unchecked.
Clear ==
  /\ stage = "editing" /\ removals < MaxRemovals
  /\ removals' = removals + 1
  /\ loaded' = << >> /\ current' = << >>
  /\ disturbed' = (disturbed \/ \E n \in Names : BeingRead(n))
  /\ UNCHANGED <<op, picked, reads, service>>

\* A reader ends: its bytes go over the entry of its name, whoever that is by now; a
\* file that was removed meanwhile comes back.
ReadEnds(k) ==
  /\ stage = "editing" /\ reads[k] > 0
  /\ reads' = [reads EXCEPT ![k] = @ - 1]
  /\ LET read == [name |-> picked[k], bytes |-> k]
     IN  current' = IF loaded = << >> THEN <<read>> ELSE Put(current, read)
  /\ UNCHANGED <<op, picked, loaded, removals, disturbed, service>>

\* The file turned out empty: it goes, and the buffers of all others are emptied.
ReadsNothing(k) ==
  /\ stage = "editing" /\ reads[k] > 0
  /\ reads' = [reads EXCEPT ![k] = @ - 1]
  /\ loaded' = Without(loaded, picked[k])
  /\ current' = Emptied(loaded')
  /\ disturbed' = TRUE
  /\ UNCHANGED <<op, picked, removals, service>>

\* onloadend of a file that cannot be read throws.
ReadFails(k) ==
  /\ stage = "editing" /\ reads[k] > 0
  /\ reads' = [reads EXCEPT ![k] = @ - 1]
  /\ disturbed' = TRUE
  /\ UNCHANGED <<op, picked, loaded, current, removals, service>>

-----------------------------------------------------------------------------
\* An update keeps the ids it has and allocates new ones for what was read, the others
\* allocate all; files of a base module come with empty buffers.
ToAllocate ==
  {n \in NamesOf(current) : op # "update" \/ (BytesOf(current, n) # 0 /\ n \notin Base)}

\* An update keeps the ids of the module whose files are still in the form, in the order
\* the module has them, which may be any.
Kept == IF op = "update" THEN {<<"base", n>> : n \in Base \cap NamesOf(current)} ELSE {}

Submit ==
  /\ stage = "editing"
  /\ files' = current
  /\ waiting' = ToAllocate
  /\ ids' \in Bijection(1..Cardinality(Kept), Kept)
  /\ stage' = IF ToAllocate = {} THEN "starting" ELSE "allocating"
  /\ UNCHANGED <<op, loader, transfers, content>>

Allocated(n) ==
  /\ stage = "allocating" /\ n \in waiting
  /\ waiting' = waiting \ {n}
  /\ ids' = Append(ids, <<"new", n>>)
  /\ stage' = IF waiting' = {} THEN "starting" ELSE stage
  /\ UNCHANGED <<op, loader, files, transfers, content>>

\* An installation pairs files and ids by their places.
InstallTransfers == {[to |-> ids[i], bytes |-> files[i].bytes, copy |-> FALSE] : i \in DOMAIN files}

\* An update sends what was read, by name.
UpdateTransfers ==
  {[to |-> ids[i], bytes |-> BytesOf(files, ids[i][2]), copy |-> FALSE] :
     i \in {j \in DOMAIN ids : BytesOf(files, ids[j][2]) # 0}}

\* Slip: a clone sends the buffer of every file.
CloneSendsAll == {[to |-> ids[i], bytes |-> BytesOf(files, ids[i][2]), copy |-> FALSE] : i \in DOMAIN ids}

\* A clone sends what was read and has the rest copied from the base module, by name.
CloneTransfers ==
  {LET bytes == BytesOf(files, ids[i][2])
   IN  [to |-> ids[i], bytes |-> bytes, copy |-> bytes = 0] : i \in DOMAIN ids}

Transfers ==
  CASE op = "install" -> InstallTransfers
    [] op = "update" -> UpdateTransfers
    [] OTHER -> CloneTransfers

\* The panel has recorded the module: its files are sent, or it is processed at once.
Started ==
  /\ stage = "starting"
  /\ transfers' = Transfers
  /\ stage' = IF Transfers = {} THEN "processed" ELSE "uploading"
  /\ UNCHANGED <<op, loader, files, waiting, ids, content>>

\* Another module of the project has the name.
Refused ==
  /\ stage = "starting" /\ op # "update"
  /\ stage' = "refused"
  /\ UNCHANGED <<op, loader, files, waiting, ids, transfers, content>>

\* Slip: the module is processed when the first of its files has arrived.
TransferredFirst(t) ==
  /\ stage = "uploading" /\ t \in transfers
  /\ IF t.copy THEN t.to[2] \in Base ELSE t.bytes # 0
  /\ content' = [content EXCEPT ![t.to] = IF t.copy THEN content[<<"base", t.to[2]>>] ELSE t.bytes]
  /\ transfers' = transfers \ {t}
  /\ stage' = "processed"
  /\ UNCHANGED <<op, loader, files, waiting, ids>>

\* A transfer ends; after the last the module is processed. The panel never answers an
\* upload without a chunk, and fails to copy a file the base module does not have.
Transferred(t) ==
  /\ stage = "uploading" /\ t \in transfers
  /\ IF t.copy THEN t.to[2] \in Base ELSE t.bytes # 0
  /\ content' = [content EXCEPT ![t.to] = IF t.copy THEN content[<<"base", t.to[2]>>] ELSE t.bytes]
  /\ transfers' = transfers \ {t}
  /\ stage' = IF transfers' = {} THEN "processed" ELSE stage
  /\ UNCHANGED <<op, loader, files, waiting, ids>>

\* A request is never answered, or the page is left: nothing will process the module.
Strand ==
  /\ stage \in {"allocating", "starting", "uploading"}
  /\ stage' = "stranded"
  /\ UNCHANGED <<op, loader, files, waiting, ids, transfers, content>>

LoaderStep ==
  \/ \E n \in Names : Pick(n) \/ RemoveFile(n)
  \/ Clear
  \/ \E k \in Picks : ReadEnds(k) \/ ReadsNothing(k) \/ ReadFails(k)

ServiceStep ==
  \/ Submit \/ Started \/ Refused \/ Strand
  \/ \E n \in Names : Allocated(n)
  \/ \E t \in transfers : Transferred(t)

FilesNext == LoaderStep \/ ServiceStep

FilesSpec == FilesInit /\ [][FilesNext]_filesVars

\* Requests that are not lost are answered.
FilesFairness ==
  /\ WF_filesVars(Started)
  /\ \A n \in Names : WF_filesVars(Allocated(n))
  /\ WF_filesVars(\E t \in transfers : Transferred(t))

FilesFairSpec == FilesSpec /\ FilesFairness

-----------------------------------------------------------------------------
\* When all is read, the form holds the content of exactly the files it lists, unless a
\* file was removed or replaced while it was read (ManagedFileLoader's onloadend looks
\* at the name only) or could not be read.
FormHoldsFiles ==
  (stage = "editing" /\ ~ disturbed /\ \A k \in Picks : reads[k] = 0) =>
    current = [i \in DOMAIN loaded |-> [name |-> loaded[i].name, bytes |-> loaded[i].file]]

\* The ids came in the order of the files they were asked for.
InOrder == Len(ids) = Len(files) /\ \A i \in DOMAIN files : ids[i][2] = files[i].name

\* A module is processed when each of its files is at the panel under its own name, with
\* the content of the form or of the base module. Only the installation, which pairs
\* files and ids by their places, needs the ids to come in order.
ProcessedIsStored ==
  stage = "processed" /\ (op # "install" \/ InOrder) =>
    /\ \A i \in DOMAIN ids : content[ids[i]] = 
         LET bytes == BytesOf(files, ids[i][2]) IN IF bytes = 0 THEN Old ELSE bytes
    /\ \A n \in NamesOf(files) :
         BytesOf(files, n) # 0 \/ n \in Base => \E i \in DOMAIN ids : ids[i][2] = n

\* An operation whose files were all read when it was submitted, and none of whose
\* requests is lost, ends.
SubmittedEnds ==
  (stage = "allocating" /\ \A n \in NamesOf(files) : BytesOf(files, n) # 0 \/ (op # "install" /\ n \in Base)) ~>
    stage \in {"processed", "refused", "stranded"}
=============================================================================
