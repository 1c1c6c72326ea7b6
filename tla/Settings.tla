------------------------------ MODULE Settings ------------------------------
(***************************************************************************)
(* config.yaml: the editors that write the file, Apply that loads it,      *)
(* start-up and stop.                                                      *)
(*                                                                         *)
(* A tab of the browser holds the text it loaded and its hash (`base').    *)
(* Saves run under one lock and Apply under another; neither stops a hand  *)
(* from editing the file or from pointing a link elsewhere in between.     *)
(***************************************************************************)
EXTENDS StoreLayout, TLC

CONSTANTS
  Texts,       \* what a config.yaml may say: [music, library, kind]
  Envs,        \* settings of the environment and mounts: [trash, origins, inbox, binds]
  LinkAt,      \* the place that is a directory or a link
  Targets,     \* where the link may point
  Tabs,
  None,
  MaxWrites, MaxOutside, MaxApplies   \* bounds: writes of the file, steps from outside, loads

ASSUME TextsAreTexts ==
  \A t \in Texts : t.kind \in {"fine", "silent", "unreadable", "rejected"}

VARIABLES
  env,        \* the environment, fixed
  target,     \* where LinkAt points, None when it is a directory
  file,       \* config.yaml: what it says, the naming rules and the switch, and its time
  served,     \* the loaded configuration and the file's time when it was read, or None
  closed,     \* its library was closed and not opened again
  attached,   \* the registry was given the Trash
  tab,        \* per tab: what it loaded and the save it has under way
  saving,     \* the tab that holds the save lock, or None
  apply,      \* the load under way
  hand,       \* a hand wrote the file since the lock's holder read it
  budget

vars == <<env, target, file, served, closed, attached, tab, saving, apply, hand, budget>>
world == <<env, target>>
running == <<served, closed, attached>>

-----------------------------------------------------------------------------
LinksAt(t) == IF t = None THEN <<>> ELSE (LinkAt :> t)
Links == LinksAt(target)

\* The rule's verdict on each text in each world.
AcceptedWorlds ==
  {w \in Texts \X Envs \X (Targets \cup {None}) :
     LayoutAccepted(w[1], w[2], LinksAt(w[3]), w[2].binds)}
Accepted(t) == <<t, env, target>> \in AcceptedWorlds
Reachable(t) ==
  TrashChain(env, [links |-> Links, binds |-> env.binds, dirs |-> Places,
                   music |-> Ident(Resolved(t.music, Links), env.binds)]).ok

\* Validate, Save: refused are what beets cannot read, a text that does not say
\* where the music and the library are, and a layout.
CheckPasses(t) == t.kind \notin {"unreadable", "silent"} /\ Accepted(t) /\ Reachable(t)

\* Apply asks for the layout, of a silent text too.
OnDiskPasses(t) == t.kind # "unreadable" /\ Accepted(t) /\ Reachable(t)

NoSave == [st |-> "idle", text |-> None, naming |-> None, keep |-> None]
NoApply == [st |-> "idle", mtime |-> 0, doc |-> None]

Up == served # None
SwapFree == apply.st = "idle"
Saved(f) == [text |-> f.text, naming |-> f.naming, keep |-> f.keep]

\* A handle's time is the file's at its read, whatever was written since.
PendingAt(mtime) == mtime > served.mtime

Init ==
  /\ env \in Envs
  /\ target \in Targets \cup {None}
  /\ file \in [text : Texts, naming : {1}, keep : {FALSE}, mtime : {0}]
  /\ served = None /\ closed = FALSE /\ attached = FALSE
  /\ tab = [r \in Tabs |-> [base |-> None, save |-> NoSave]]
  /\ saving = None /\ apply = NoApply /\ hand = FALSE
  /\ budget = [writes |-> 0, outside |-> 0, applies |-> 0]

Spend(what, max) ==
  /\ budget[what] < max
  /\ budget' = [budget EXCEPT ![what] = @ + 1]

-----------------------------------------------------------------------------
(* Start-up and stop *)

\* A config beets cannot use, or a layout the rule refuses, is no start.
Boot ==
  /\ ~Up
  /\ file.text.kind \in {"fine", "silent"}
  /\ Accepted(file.text)
  /\ served' = [doc |-> Saved(file), mtime |-> file.mtime]
  /\ attached' = TRUE
  /\ closed' = FALSE
  /\ UNCHANGED <<world, file, tab, saving, apply, hand, budget>>

\* A crash or a stop: what a tab loaded stays in the browser.
Stop ==
  /\ Up
  /\ Spend("outside", MaxOutside)
  /\ served' = None /\ attached' = FALSE /\ closed' = FALSE
  /\ saving' = None /\ apply' = NoApply /\ hand' = FALSE
  /\ tab' = [r \in Tabs |-> [tab[r] EXCEPT !.save = NoSave]]
  /\ UNCHANGED <<world, file>>

-----------------------------------------------------------------------------
(* The editors *)

\* GET /config: the text with its hash.
Load(r) ==
  /\ Up /\ tab[r].save = NoSave /\ tab[r].base # Saved(file)
  /\ tab' = [tab EXCEPT ![r].base = Saved(file)]
  /\ UNCHANGED <<world, running, file, saving, apply, hand, budget>>

SetSave(r, s) == tab' = [tab EXCEPT ![r].save = s]

\* Save of the whole text: its check runs before the lock is asked for.
Submit(r, t) ==
  /\ Up /\ tab[r].save = NoSave /\ tab[r].base # None
  /\ t # tab[r].base.text /\ CheckPasses(t)
  /\ SetSave(r, [tab[r].base EXCEPT !.text = t] @@ [st |-> "checked"])
  /\ UNCHANGED <<world, running, file, saving, apply, hand, budget>>

\* Mutant: the hash was compared with the check, before the lock.
CompareBefore(r) ==
  /\ Up /\ tab[r].save.st = "checked" /\ saving = None /\ budget.writes < MaxWrites
  /\ SetSave(r, [tab[r].save EXCEPT !.st = "locked"]) /\ saving' = r /\ hand' = FALSE
  /\ UNCHANGED <<world, running, file, apply, budget>>

\* Under the lock the file's hash must be the one the tab loaded.
Compare(r) ==
  /\ Up /\ tab[r].save.st = "checked" /\ saving = None /\ budget.writes < MaxWrites
  /\ IF Saved(file) = tab[r].base
     THEN SetSave(r, [tab[r].save EXCEPT !.st = "locked"]) /\ saving' = r /\ hand' = FALSE
     ELSE SetSave(r, NoSave) /\ UNCHANGED <<saving, hand>>
  /\ UNCHANGED <<world, running, file, apply, budget>>

\* The naming form: hash, document and check under the lock.
SaveNaming(r) ==
  /\ Up /\ budget.writes < MaxWrites /\ tab[r].save = NoSave /\ tab[r].base # None /\ saving = None
  /\ Saved(file) = tab[r].base /\ CheckPasses(file.text)
  /\ SetSave(r, [Saved(file) EXCEPT !.naming = 3 - @] @@ [st |-> "locked"])
  /\ saving' = r /\ hand' = FALSE
  /\ UNCHANGED <<world, running, file, apply, budget>>

\* The switch of the import page: under both locks, and only on a file that is
\* the loaded one.  It goes on to load what it wrote.
SwitchOperation(r) ==
  /\ Up /\ budget.writes < MaxWrites /\ ~closed /\ SwapFree /\ saving = None
  /\ tab[r].save = NoSave /\ tab[r].base # None
  /\ ~PendingAt(file.mtime)
  /\ Saved(file) = tab[r].base /\ CheckPasses(file.text)
  /\ SetSave(r, [Saved(file) EXCEPT !.keep = ~@] @@ [st |-> "locked"])
  /\ saving' = r /\ hand' = FALSE
  /\ apply' = [NoApply EXCEPT !.st = "writing"] /\ Spend("applies", MaxApplies)
  /\ UNCHANGED <<world, running, file>>

\* write_atomic_text, then the lock is let go; a write that fails changes nothing.
Write(r) ==
  /\ saving = r
  /\ budget' = [budget EXCEPT !.writes = @ + 1]
  /\ \/ /\ file' = [text |-> tab[r].save.text, naming |-> tab[r].save.naming,
                    keep |-> tab[r].save.keep, mtime |-> file.mtime + 1]
        /\ apply' = IF apply.st = "writing" THEN [apply EXCEPT !.st = "asked"] ELSE apply
     \/ /\ UNCHANGED file
        /\ apply' = IF apply.st = "writing" THEN NoApply ELSE apply
  /\ SetSave(r, NoSave)
  /\ saving' = None /\ hand' = FALSE
  /\ UNCHANGED <<world, running>>

-----------------------------------------------------------------------------
(* Apply: the load of the file, under the swap lock *)

StartApply ==
  /\ Up /\ SwapFree /\ Spend("applies", MaxApplies)
  /\ apply' = [NoApply EXCEPT !.st = "asked"]
  /\ UNCHANGED <<world, running, file, tab, saving, hand>>

\* on_disk_refusal: the first read of the file, for its layout and its includes.
CheckOnDisk ==
  /\ apply.st = "asked"
  /\ apply' = IF OnDiskPasses(file.text) THEN [apply EXCEPT !.st = "passed"] ELSE NoApply
  /\ UNCHANGED <<world, running, file, tab, saving, hand, budget>>

\* Mutant: the time is taken once the library is open.
RebuildThenTime ==
  /\ apply.st = "read"
  /\ \/ /\ apply.doc.text.kind # "rejected"
        /\ served' = [doc |-> apply.doc, mtime |-> file.mtime]
        /\ closed' = FALSE
        /\ apply' = [apply EXCEPT !.st = "opened"]
     \/ /\ closed' = FALSE
        /\ apply' = [apply EXCEPT !.st = "opened"]
        /\ UNCHANGED served
  /\ UNCHANGED <<world, attached, file, tab, saving, hand, budget>>

\* read_beets_config takes the file's time first ...
TakeTime ==
  /\ apply.st = "passed"
  /\ apply' = [apply EXCEPT !.st = "stat", !.mtime = file.mtime]
  /\ UNCHANGED <<world, running, file, tab, saving, hand, budget>>

\* ... and then its text: the second read, which may find another file.
ReadConfig ==
  /\ apply.st = "stat"
  /\ apply' = IF file.text.kind = "unreadable" THEN NoApply
              ELSE [apply EXCEPT !.st = "read", !.doc = Saved(file)]
  /\ UNCHANGED <<world, running, file, tab, saving, hand, budget>>

\* The old library is closed, the new one opened; what raises is put back, with
\* its old time, and what cannot be put back leaves no open library.
Rebuild ==
  /\ apply.st = "read"
  /\ \/ /\ apply.doc.text.kind # "rejected"
        /\ served' = [doc |-> apply.doc, mtime |-> apply.mtime]
        /\ closed' = FALSE
        /\ apply' = [apply EXCEPT !.st = "opened"]
     \/ /\ closed' = FALSE
        /\ apply' = [apply EXCEPT !.st = "opened"]
        /\ UNCHANGED served
     \/ /\ closed' = TRUE
        /\ apply' = NoApply
        /\ UNCHANGED served
  /\ UNCHANGED <<world, attached, file, tab, saving, hand, budget>>

\* The layout of what is served now is asked again, by what is on the disk now.
Attach ==
  /\ apply.st = "opened"
  /\ attached' = Accepted(served.doc.text)
  /\ apply' = NoApply
  /\ UNCHANGED <<world, served, closed, file, tab, saving, hand, budget>>

-----------------------------------------------------------------------------
(* From outside *)

\* A hand writes config.yaml; its time goes forward.
HandEdit(t) ==
  /\ Spend("outside", MaxOutside)
  /\ t # file.text
  /\ file' = [file EXCEPT !.text = t, !.mtime = @ + 1]
  /\ hand' = (saving # None)
  /\ UNCHANGED <<world, running, tab, saving, apply>>

\* The place LinkAt becomes a link, another link, or a directory.
PointLink(t) ==
  /\ Spend("outside", MaxOutside)
  /\ t # target /\ target' = t
  /\ UNCHANGED <<env, running, file, tab, saving, apply, hand>>

EditStep == \E r \in Tabs :
  \/ Load(r) \/ Compare(r) \/ SaveNaming(r) \/ SwitchOperation(r) \/ Write(r)
  \/ \E t \in Texts : Submit(r, t)
ApplyStep == StartApply \/ CheckOnDisk \/ TakeTime \/ ReadConfig \/ Rebuild \/ Attach
OutsideStep ==
  \/ \E t \in Texts : HandEdit(t)
  \/ \E t \in Targets \cup {None} : PointLink(t)

Next == Boot \/ Stop \/ EditStep \/ ApplyStep \/ OutsideStep

Spec == Init /\ [][Next]_vars

-----------------------------------------------------------------------------
(* Properties *)

\* The page says that nothing waits for Apply only when what is served is what
\* config.yaml says, whoever wrote it during the load.
NotPendingIsServed == Up /\ ~PendingAt(file.mtime) => served.doc = Saved(file)

\* A save writes over the text its tab loaded and over nothing else: two tabs
\* never take back each other's save.  (A hand that writes between the compare
\* and the write is the one thing the locks cannot see.)
NoSaveIsLost ==
  [][\A r \in Tabs : saving = r /\ saving' = None /\ file' # file =>
       hand \/ Saved(file) = tab[r].base]_vars
=============================================================================
