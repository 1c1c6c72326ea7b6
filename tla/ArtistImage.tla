---------------------------- MODULE ArtistImage ----------------------------
(***************************************************************************)
(* The artist portraits: the image cache with its disk slots and its       *)
(* memory tier (artwork/cache.py), the lookup that fills it                *)
(* (artwork/service.py, artwork/filler.py), the requests that serve it and *)
(* the ones that pin, reset and rename (api/artists.py), and the sweep,    *)
(* which has a cache of its own over the same directory                    *)
(* (artist_art_jobs/runner.py).                                            *)
(*                                                                         *)
(* A step is what one thread does between two points where another can     *)
(* come in: one file published, moved or removed, one look at the disk,    *)
(* one hold of the memory tier's lock.  A mime sidecar goes with its       *)
(* image.  The memory tier is never full here, and the directory can       *)
(* always be read: it may refuse to be written.                            *)
(***************************************************************************)
EXTENDS Integers, FiniteSets

CONSTANTS
    Keys,          \* artists, by normalized name; a key also names its fill
    Pages,         \* what is on the screen of a browser tab
    Small,         \* pages that show a thumb
    MaxImages,     \* images found or uploaded
    MaxTouches,    \* uploads, resets, renames and sweeps
    MaxFaults,     \* times the directory begins to refuse writes
    MaxAsks,       \* requests of the pages
    MaxAtOnce      \* of all these under way when another one comes in

Sweep == "sweep"
Tasks == Pages \union Keys \union {Sweep}
Workers == Tasks \ Pages

None == 0
Absent == [kind |-> "absent", img |-> None]
Negative == [kind |-> "negative", img |-> None]
Strand(i) == [kind |-> "image", img |-> i]
Tag(tier, i) == [tier |-> tier, img |-> i]    \* st_mtime_ns, or a hash of the bytes
NoTag == Tag("none", None)
Later == Tag("later", None)                   \* to be read when the answer is ready
Nobody == [op |-> "none"]

VARIABLES
    pin, auto, miss,   \* key -> .override, .bin, .miss, until it runs out
    thumb, thumbTag,   \* key -> .thumb.bin, .thumb.src
    mem,               \* key -> what the memory tier holds
    claims,            \* keys being written back
    refusing,          \* the directory refuses to be written
    task,              \* task -> what it is doing
    shown,             \* page -> what it shows, and whether it was told since
    armed,             \* the filler's art:changed is on its timer
    user,              \* the reset or the rename under way
    upload,            \* the upload under way
    made, touches, faults, asks,   \* counts, bounded
    past,              \* ghost: <<image, key>>, what an accepted reset is to forget
    held,              \* ghost: keys an image was stored for and not forgotten
    doubt              \* ghost: <<what, key or image>> the code leaves to chance

slots == <<pin, auto, miss, thumb, thumbTag>>
tier == <<mem, claims>>
people == <<user, upload>>
counts == <<made, touches, faults, asks>>
ghosts == <<past, held, doubt>>
vars == <<slots, tier, refusing, task, shown, armed, people, counts, ghosts>>

Idle(t) == task[t].at = "idle"
Asleep(k) == [at |-> "idle", key |-> k, tag |-> NoTag,
              src |-> NoTag, img |-> None, hand |-> None, late |-> FALSE]

\* There is room for one more at once.
Room == Cardinality({t \in Tasks : ~Idle(t)}) + Cardinality({user, upload} \ {Nobody})
            < MaxAtOnce

-----------------------------------------------------------------------------
(* The cache as one look at it finds it.                                   *)

Remembered(k) == mem[k].kind = "image"
Slot(k) == IF pin[k] # None THEN pin[k] ELSE auto[k]

\* What get would serve, None for a miss or a negative.
Portrait(k) == CASE Slot(k) # None -> Slot(k)
                 [] Slot(k) = None /\ miss[k] -> None
                 [] OTHER -> mem[k].img

\* The tag that confirms what a page has, without reading the bytes.
Validator(k) == CASE Slot(k) # None -> Tag("disk", Slot(k))
                  [] Slot(k) = None /\ Remembered(k) /\ ~miss[k] ->
                        Tag("memory", mem[k].img)
                  [] OTHER -> NoTag

HasFreshNegative(k) == miss[k] \/ mem[k] = Negative
HasPortrait(k) == Slot(k) # None \/ Remembered(k)

-----------------------------------------------------------------------------
(* What the steps are made of.                                             *)

Set(f, k, v) == [f EXCEPT ![k] = v]
Unless(refused, f, k, v) == IF refused THEN f ELSE Set(f, k, v)
Remember(k, what) == Set(mem, k, what)
Go(t, where) == [task EXCEPT ![t].at = where]
GoWith(t, where, i) == [task EXCEPT ![t].at = where, ![t].img = i]

\* art:changed reaches every page, those that wait for an answer too.
Told(tasks) == [t \in Tasks |->
    IF t \in Pages /\ tasks[t].at # "idle" THEN [tasks[t] EXCEPT !.late = TRUE]
    ELSE tasks[t]]
Emit(tasks) ==
    /\ task' = Told(tasks)
    /\ shown' = [r \in Pages |-> [shown[r] EXCEPT !.fresh = FALSE]]

\* What the cache holds of k.
Images(k) == {pin[k], auto[k], mem[k].img} \ {None}
DoubtIf(cond, what, x) == IF cond THEN {<<what, x>>} ELSE {}
Doubt(cond, what, x) == doubt' = doubt \union DoubtIf(cond, what, x)

\* What the steps of get leave alone.
GetFrame == UNCHANGED <<pin, thumb, thumbTag, refusing, shown, armed, people, counts,
                        past, held>>

-----------------------------------------------------------------------------
(* get: the disk first, then the memory tier with its write-back.          *)

Look(t) ==
    LET k == task[t].key IN
    /\ task[t].at = "get"
    /\ task' = CASE Slot(k) # None -> GoWith(t, "got", Slot(k))
                 [] Slot(k) = None /\ miss[k] -> GoWith(t, "negative", None)
                 [] OTHER -> GoWith(t, "memory", None)
    /\ UNCHANGED <<auto, miss, tier, doubt>> /\ GetFrame

LookInMemory(t) ==
    LET there == IF t = Sweep THEN Absent ELSE mem[task[t].key] IN
    /\ task[t].at = "memory"
    /\ task' = CASE there.kind = "image" -> GoWith(t, "claim", there.img)
                 [] there.kind = "negative" -> Go(t, "negative")
                 [] there.kind = "absent" -> Go(t, "got")
    /\ UNCHANGED <<auto, miss, tier, doubt>> /\ GetFrame

\* Mutant: every reader of a strand publishes it.
BeginUnclaimed(t) ==
    LET k == task[t].key IN
    /\ task[t].at = "claim"
    /\ IF mem[k] = Strand(task[t].img)
       THEN task' = Go(t, "publish") /\ claims' = claims \union {k}
       ELSE task' = Go(t, "got") /\ UNCHANGED claims
    /\ UNCHANGED <<auto, miss, mem, doubt>> /\ GetFrame

\* One reader publishes a strand; the others have their bytes already.
BeginWriteBack(t) ==
    LET k == task[t].key IN
    /\ task[t].at = "claim"
    /\ IF k \notin claims /\ mem[k] = Strand(task[t].img)
       THEN task' = Go(t, "publish") /\ claims' = claims \union {k}
       ELSE task' = Go(t, "got") /\ UNCHANGED claims
    /\ UNCHANGED <<auto, miss, mem, doubt>> /\ GetFrame

EndWriteBack(t) == claims' = claims \ {task[t].key}

\* The marker goes first, the bytes come last.
Publish(t) ==
    LET k == task[t].key IN
    /\ \/ /\ task[t].at = "publish"
          /\ miss' = Set(miss, k, FALSE)
          /\ task' = Go(t, "bytes")
          /\ UNCHANGED <<auto, doubt>>
       \/ /\ task[t].at = "bytes"
          /\ auto' = Set(auto, k, task[t].img)
          /\ task' = Go(t, "release")
          /\ Doubt(auto[k] \notin {None, task[t].img}, "taken back", k)
          /\ UNCHANGED miss
    /\ ~refusing
    /\ UNCHANGED tier /\ GetFrame

PublishRefused(t) ==
    /\ task[t].at \in {"publish", "bytes"} /\ refusing
    /\ task' = Go(t, "got")
    /\ EndWriteBack(t)
    /\ UNCHANGED <<auto, miss, mem, doubt>> /\ GetFrame

\* Mutant: the strand is dropped, whatever became of it meanwhile.
ReleaseBlindly(t) ==
    LET k == task[t].key IN
    /\ task[t].at = "release"
    /\ mem' = Remember(k, Absent)
    /\ task' = Go(t, "got")
    /\ EndWriteBack(t)
    /\ UNCHANGED <<auto, miss, doubt>> /\ GetFrame

\* Disk has it: the strand goes, unless it is gone or replaced already, and
\* then what was published is taken back.
Release(t) ==
    LET k == task[t].key IN
    /\ task[t].at = "release"
    /\ IF mem[k] = Strand(task[t].img)
       THEN /\ mem' = Remember(k, Absent)
            /\ task' = Go(t, "got")
            /\ EndWriteBack(t)
            /\ Doubt(user # Nobody /\ user.key = k /\ user.at # "pin",
                     "kept in the gap", task[t].img)
       ELSE task' = Go(t, "take back") /\ UNCHANGED <<tier, doubt>>
    /\ UNCHANGED <<auto, miss>> /\ GetFrame

\* Best effort, and of whatever the slot holds by now.
TakeBack(t) ==
    LET k == task[t].key IN
    /\ task[t].at = "take back"
    /\ auto' = Unless(refusing, auto, k, None)
    /\ task' = Go(t, "got")
    /\ EndWriteBack(t)
    /\ doubt' = doubt \union {<<"in passing", k>>}
            \union DoubtIf(auto[k] \notin {None, task[t].img}, "taken back", k)
            \union DoubtIf(refusing, "left behind", task[t].img)
    /\ UNCHANGED <<miss, mem>> /\ GetFrame

-----------------------------------------------------------------------------
(* A lookup: the fill of a key, or the sweep at an artist.                 *)

WorkFrame == UNCHANGED <<pin, thumb, thumbTag, refusing, claims, people, touches, faults,
                         asks, past>>

\* The sources answer with an image, with none, or not at all.
Resolve(t) ==
    /\ t \in Workers /\ task[t].at = "got" /\ task[t].img = None
    /\ \/ /\ made < MaxImages
          /\ made' = made + 1
          /\ task' = GoWith(t, "store", made + 1)
       \/ task' = Go(t, "negate") /\ UNCHANGED made
    /\ UNCHANGED <<auto, miss, mem, shown, armed, held, doubt>> /\ WorkFrame

StorePositive(t) ==
    LET k == task[t].key IN
    /\ ~refusing
    /\ \/ /\ task[t].at = "store"
          /\ miss' = Set(miss, k, FALSE)
          /\ task' = Go(t, "store bytes")
          /\ UNCHANGED <<auto, held>>
       \/ /\ task[t].at = "store bytes"
          /\ auto' = Set(auto, k, task[t].img)
          /\ task' = Go(t, "stored")
          /\ held' = held \union {k}
          /\ UNCHANGED miss
    /\ UNCHANGED <<mem, made, shown, armed, doubt>> /\ WorkFrame

\* What the disk refuses the memory tier takes.
StoreRefused(t) ==
    LET k == task[t].key IN
    /\ task[t].at \in {"store", "store bytes"} /\ refusing
    /\ task' = Go(t, "done")
    /\ IF t = Sweep THEN UNCHANGED <<mem, held>>
       ELSE mem' = Remember(k, Strand(task[t].img)) /\ held' = held \union {k}
    /\ Doubt(t # Sweep /\ miss[k], "covered", k)
    /\ UNCHANGED <<auto, miss, made, shown, armed>> /\ WorkFrame

StoreNegative(t) ==
    LET k == task[t].key IN
    /\ task[t].at = "negate"
    /\ IF refusing
       THEN /\ mem' = IF t = Sweep THEN mem ELSE Remember(k, Negative)
            /\ task' = Go(t, "done")
            /\ UNCHANGED miss
       ELSE /\ miss' = Set(miss, k, TRUE)
            /\ task' = Go(t, "stored")
            /\ UNCHANGED mem
    /\ Doubt(Remembered(k), IF refusing THEN "negated" ELSE "covered", k)
    /\ UNCHANGED <<auto, made, shown, armed, held>> /\ WorkFrame

\* Disk has taken it: the memory tier forgets the key.
Stored(t) ==
    LET k == task[t].key IN
    /\ task[t].at = "stored"
    /\ mem' = IF t = Sweep THEN mem ELSE Remember(k, Absent)
    /\ task' = Go(t, "done")
    /\ Doubt(t # Sweep /\ Remembered(k), IF task[t].img = None THEN "negated"
                                         ELSE "forgotten", k)
    /\ UNCHANGED <<auto, miss, made, shown, armed, held>> /\ WorkFrame

Looked(t) == \/ task[t].at \in {"done", "negative"}
             \/ (task[t].at = "got" /\ task[t].img # None)

\* The fill answers the pages that wait for it, with what it found.
Answered(k) == [t \in Tasks |->
    CASE t = k -> Asleep(k)
      [] t # k /\ task[t].at = "wait" /\ task[t].key = k ->
            [task[t] EXCEPT !.at = "filled", !.hand = task[k].img]
      [] OTHER -> task[t]]

\* Mutant: a fill announces only what it looked up itself.
EndFillAtStore(k) ==
    /\ Looked(k)
    /\ task' = Answered(k)
    /\ armed' = (armed \/ (task[k].at = "done" /\ task[k].img # None))
    /\ UNCHANGED <<auto, miss, mem, made, shown, held, doubt>> /\ WorkFrame

\* ... and whatever it found is announced, when the timer has run.
EndFill(k) ==
    /\ Looked(k)
    /\ task' = Answered(k)
    /\ armed' = (armed \/ task[k].img # None)
    /\ UNCHANGED <<auto, miss, mem, made, shown, held, doubt>> /\ WorkFrame

Notify ==
    /\ armed /\ armed' = FALSE
    /\ Emit(task)
    /\ UNCHANGED <<slots, tier, refusing, people, counts, ghosts>>

StartFill(tasks, k) == IF Idle(k) THEN [tasks EXCEPT ![k] = [Asleep(k) EXCEPT !.at = "get"]]
                       ELSE tasks

SweepFrame == UNCHANGED <<slots, tier, refusing, armed, people, made, faults,
                          asks, ghosts>>

\* The sweep has a cache of its own, with a memory tier it never reads again:
\* it asks for an artist once.  It is not claimed while a reset holds the swap
\* lock.
StartSweep(k) ==
    /\ Idle(Sweep) /\ touches < MaxTouches /\ Room
    /\ ~(user.op = "reset" /\ user.at \in {"pin", "auto", "memory"})
    /\ touches' = touches + 1
    /\ task' = [task EXCEPT ![Sweep] = [Asleep(k) EXCEPT !.at = "get"]]
    /\ UNCHANGED shown /\ SweepFrame

EndSweep ==
    /\ Looked(Sweep)
    /\ Emit([task EXCEPT ![Sweep] = Asleep(None)])
    /\ UNCHANGED touches /\ SweepFrame

-----------------------------------------------------------------------------
(* A page asks for a portrait.                                             *)

PageFrame == UNCHANGED <<pin, auto, miss, tier, armed, people, refusing, made, touches,
                         faults, ghosts>>

Answer(r, i, tag) ==
    /\ shown' = [shown EXCEPT ![r] =
            [key |-> task[r].key, img |-> i,
             tag |-> IF i = None THEN NoTag ELSE tag, fresh |-> ~task[r].late]]
    /\ task' = [task EXCEPT ![r] = Asleep(None)]

\* The tag first: what the page has may be good still.
Ask(r, k) ==
    LET tag == Validator(k)  small == r \in Small IN
    /\ Idle(r) /\ asks < MaxAsks /\ Room
    /\ asks' = asks + 1
    /\ IF tag # NoTag /\ shown[r].key = k /\ shown[r].tag = tag
       THEN /\ shown' = [shown EXCEPT ![r].fresh = TRUE]
            /\ UNCHANGED task
       ELSE /\ task' = [task EXCEPT ![r] = [Asleep(k) EXCEPT
                    !.tag = tag,
                    !.at = IF tag = NoTag THEN "missing" ELSE IF small THEN "thumb" ELSE "get"]]
            /\ UNCHANGED shown
    /\ UNCHANGED <<thumb, thumbTag>> /\ PageFrame

\* A thumb made of what the slot holds is served as it is.
GetThumb(r) ==
    LET k == task[r].key  src == Validator(k) IN
    /\ task[r].at = "thumb"
    /\ IF src # NoTag /\ thumbTag[k] = src /\ thumb[k] # None
       THEN Answer(r, thumb[k], IF task[r].tag = Later THEN src ELSE task[r].tag)
       ELSE /\ task' = IF src = NoTag THEN GoWith(r, "got", None)
                       ELSE [task EXCEPT ![r].at = "get", ![r].src = src]
            /\ UNCHANGED shown
    /\ UNCHANGED <<thumb, thumbTag, asks>> /\ PageFrame

\* The thumb's bytes, then the tag it was made under; none of a strand.
Derives(r) == task[r].at = "got" /\ r \in Small /\ task[r].img # None
              /\ task[r].src.tier = "disk" /\ ~refusing

DeriveThumb(r) ==
    LET k == task[r].key IN
    /\ Derives(r)
    /\ thumb' = Set(thumb, k, task[r].img)
    /\ task' = Go(r, "derived")
    /\ UNCHANGED <<thumbTag, shown, asks>> /\ PageFrame

TagThumb(r) ==
    LET k == task[r].key IN
    /\ task[r].at = "derived"
    /\ thumbTag' = Unless(refusing, thumbTag, k, task[r].src)
    /\ task' = Go(r, "ready")
    /\ UNCHANGED <<thumb, shown, asks>> /\ PageFrame

\* An answer from the cache goes out under the tag read at its start, one
\* made of a fill's bytes under the tag read at its end.
Serve(r) ==
    /\ r \in Pages
    /\ \/ task[r].at = "got" /\ task[r].img # None /\ ~Derives(r)
       \/ task[r].at = "ready"
    /\ Answer(r, task[r].img, IF task[r].tag = Later THEN Validator(task[r].key)
                              ELSE task[r].tag)
    /\ UNCHANGED <<thumb, thumbTag, asks>> /\ PageFrame

\* Nothing there after all: the lookup, if it is not known to be in vain.
FallThrough(r) ==
    /\ r \in Pages /\ task[r].img = None /\ task[r].at \in {"got", "negative"}
    /\ IF task[r].tag = Later
       THEN Answer(r, task[r].hand, Tag("hash", task[r].hand))
       ELSE /\ task' = [task EXCEPT ![r].at = "missing", ![r].tag = NoTag, ![r].src = NoTag]
            /\ UNCHANGED shown
    /\ UNCHANGED <<thumb, thumbTag, asks>> /\ PageFrame

Missing(r) ==
    LET k == task[r].key IN
    /\ task[r].at = "missing"
    /\ IF HasFreshNegative(k) THEN Answer(r, None, NoTag)
       ELSE task' = StartFill(Go(r, "wait"), k) /\ UNCHANGED shown
    /\ UNCHANGED <<thumb, thumbTag, asks>> /\ PageFrame

\* The wait for a fill is short.
GiveUp(r) ==
    /\ task[r].at = "wait"
    /\ Answer(r, None, NoTag)
    /\ UNCHANGED <<thumb, thumbTag, asks>> /\ PageFrame

ServeFilled(r) ==
    LET k == task[r].key IN
    /\ task[r].at = "filled"
    /\ IF r \in Small /\ task[r].hand # None
       THEN task' = [task EXCEPT ![r].at = "thumb", ![r].tag = Later] /\ UNCHANGED shown
       ELSE Answer(r, task[r].hand, IF Validator(k) = NoTag THEN Tag("hash", task[r].hand)
                                    ELSE Validator(k))
    /\ UNCHANGED <<thumb, thumbTag, asks>> /\ PageFrame

-----------------------------------------------------------------------------
(* What people do: pin an image, reset, rename.                            *)

SameCounts == UNCHANGED <<faults, asks>>

\* Refused while the sweep is at work, which may start a moment later.
StartUpload(k) ==
    /\ upload = Nobody /\ Idle(Sweep)
    /\ touches < MaxTouches /\ made < MaxImages /\ Room
    /\ touches' = touches + 1
    /\ made' = made + 1
    /\ upload' = [op |-> "upload", key |-> k, img |-> made + 1]
    /\ UNCHANGED <<slots, tier, refusing, task, shown, armed, user, ghosts>> /\ SameCounts

WriteOverride ==
    LET k == upload.key IN
    /\ upload # Nobody
    /\ upload' = Nobody
    /\ pin' = Unless(refusing, pin, k, upload.img)
    /\ IF refusing THEN UNCHANGED <<task, shown, held>>
       ELSE Emit(task) /\ held' = held \union {k}
    /\ UNCHANGED <<auto, miss, thumb, thumbTag, tier, refusing, armed, user, made, touches,
                   past, doubt>> /\ SameCounts

Begin(what) == /\ user = Nobody /\ touches < MaxTouches /\ Room
               /\ touches' = touches + 1
               /\ user' = what
               /\ UNCHANGED <<tier, refusing, armed, upload, made>> /\ SameCounts
Goes(where) == /\ user' = [user EXCEPT !.at = where]
               /\ UNCHANGED <<refusing, armed, upload, made, touches, claims>> /\ SameCounts

\* Reset: the override to the Trash, the automatic slots, the memory tier,
\* all under the swap lock; then a fill is started and the pages are told.
StartReset(k) ==
    /\ Idle(Sweep)
    /\ Begin([op |-> "reset", key |-> k, at |-> "pin"])
    /\ past' = past \union (Images(k) \X {k})
    /\ held' = held \ {k}
    /\ UNCHANGED <<slots, task, shown, doubt>>

ResetPin ==
    LET k == user.key IN
    /\ user.op = "reset" /\ user.at = "pin"
    /\ pin' = Set(pin, k, None)
    /\ Goes("auto")
    /\ UNCHANGED <<auto, miss, thumb, thumbTag, mem, task, shown, ghosts>>

\* The Trash could not take it: a 503, and everything stays.
ResetPinRefused ==
    LET k == user.key IN
    /\ user.op = "reset" /\ user.at = "pin" /\ pin[k] # None
    /\ user' = Nobody
    /\ past' = past \ (Images(k) \X {k})
    /\ held' = held \union {k}
    /\ UNCHANGED <<slots, tier, refusing, task, shown, armed, upload, made, touches,
                   doubt>> /\ SameCounts

ClearSlots ==
    LET k == user.key IN
    /\ user.op = "reset" /\ user.at = "auto"
    /\ auto' = Unless(refusing, auto, k, None)
    /\ miss' = Unless(refusing, miss, k, FALSE)
    /\ thumb' = Unless(refusing, thumb, k, None)
    /\ thumbTag' = Unless(refusing, thumbTag, k, NoTag)
    /\ Doubt(refusing, "not cleared", auto[k])
    /\ Goes("memory")
    /\ UNCHANGED <<pin, mem, task, shown, past, held>>

ClearMemory ==
    /\ user.op = "reset" /\ user.at = "memory"
    /\ mem' = Remember(user.key, Absent)
    /\ held' = held \ {user.key}
    /\ Goes("refill")
    /\ UNCHANGED <<slots, task, shown, past, doubt>>

Refill ==
    /\ user.op = "reset" /\ user.at = "refill"
    /\ user' = Nobody
    /\ Emit(StartFill(task, user.key))
    /\ UNCHANGED <<slots, tier, refusing, armed, upload, made, touches, ghosts>> /\ SameCounts

\* Rename: the old name's portrait goes to the new one, a pin before an
\* automatic image; of two pins, or of two automatic images, the target's
\* stays and the other goes.
StartRename(o, n) ==
    /\ o # n
    /\ Begin([op |-> "rename", key |-> o, to |-> n, at |->
            CASE pin[n] # None \/ (HasPortrait(n) /\ pin[o] = None) -> "purge"
              [] pin[n] = None /\ HasPortrait(n) /\ pin[o] # None -> "pin"
              [] OTHER -> "move pin"])
    /\ held' = held \ {o}
    /\ UNCHANGED <<slots, task, shown, past, doubt>>

Renaming(where) == user.op = "rename" /\ user.at = where
Cleared(f, k, v) == Unless(refusing, f, k, v)

PurgeOld ==
    LET o == user.key IN
    /\ Renaming("purge")
    /\ pin' = Cleared(pin, o, None) /\ auto' = Cleared(auto, o, None)
    /\ miss' = Cleared(miss, o, FALSE)
    /\ thumb' = Cleared(thumb, o, None) /\ thumbTag' = Cleared(thumbTag, o, NoTag)
    /\ Goes("forget")
    /\ UNCHANGED <<mem, task, shown, ghosts>>

\* A slot that is not there moves nothing; a negative never travels.
Moved(f, absent) == IF f[user.key] = absent \/ refusing THEN f
                    ELSE [f EXCEPT ![user.key] = absent, ![user.to] = f[user.key]]
\* A reader of the new name is publishing still what comes back to it.
ComesBack(i, n) == n \in claims /\ \E t \in Tasks : task[t].key = n /\ task[t].img = i /\ i # None
HeldIf(moved) == IF moved THEN held \union {user.to} ELSE held

MovePin ==
    LET o == user.key  n == user.to IN
    /\ (Renaming("pin") \/ Renaming("move pin"))
    /\ pin' = Moved(pin, None) /\ held' = HeldIf(pin' # pin)
    /\ past' = past \ {<<pin[o], n>>}
    /\ Goes(IF user.at = "pin" THEN "old slots" ELSE "move auto")
    /\ UNCHANGED <<auto, miss, thumb, thumbTag, mem, task, shown, doubt>>

DropOldSlots ==
    LET o == user.key  n == user.to IN
    /\ Renaming("old slots")
    /\ auto' = Cleared(auto, o, None)
    /\ miss' = Cleared(Cleared(miss, o, FALSE), n, FALSE)
    /\ thumb' = Cleared(thumb, o, None) /\ thumbTag' = Cleared(thumbTag, o, NoTag)
    /\ Goes("forget")
    /\ UNCHANGED <<pin, mem, task, shown, ghosts>>

MoveAuto ==
    LET o == user.key  n == user.to IN
    /\ Renaming("move auto")
    /\ miss' = Cleared(Cleared(miss, o, FALSE), n, FALSE)
    /\ auto' = Moved(auto, None) /\ held' = HeldIf(auto' # auto)
    /\ thumb' = Moved(thumb, None) /\ thumbTag' = Moved(thumbTag, NoTag)
    /\ past' = past \ {<<auto[o], n>>}
    /\ Doubt(ComesBack(auto[o], n), "taken back", n)
    /\ Goes("move strand")
    /\ UNCHANGED <<pin, mem, task, shown>>

MoveStrand ==
    LET o == user.key  n == user.to IN
    /\ Renaming("move strand")
    /\ mem' = IF Remembered(o) THEN Remember(n, mem[o]) ELSE mem
    /\ held' = HeldIf(mem' # mem)
    /\ doubt' = doubt \union DoubtIf(Remembered(o) /\ miss[n], "covered", n)
                     \union DoubtIf(ComesBack(mem[o].img, n), "taken back", n)
    /\ past' = past \ {<<mem[o].img, n>>}
    /\ Goes("forget")
    /\ UNCHANGED <<slots, task, shown>>

\* Nothing is to be left under the old name; the pages are told.
ForgetOld ==
    /\ Renaming("forget")
    /\ mem' = Remember(user.key, Absent)
    /\ held' = held \ {user.key}
    /\ user' = Nobody
    /\ Emit(task)
    /\ UNCHANGED <<slots, claims, refusing, armed, upload, made, touches, past, doubt>>
    /\ SameCounts

-----------------------------------------------------------------------------
(* The directory and the clock.                                            *)

EnvFrame == UNCHANGED <<pin, auto, thumb, thumbTag, claims, task, shown, armed, people,
                        made, touches, asks, ghosts>>

\* Someone is about to write: a refusal, or its end, is noticed nowhere else.
Writing == \/ \E t \in Tasks : task[t].at \in {"publish", "bytes", "take back", "store",
                                               "store bytes", "negate", "derived"}
           \/ \E r \in Small : task[r].at = "got" /\ task[r].src.tier = "disk"
           \/ upload # Nobody
           \/ user # Nobody /\ user.at \in {"auto", "purge", "pin", "move pin", "old slots",
                                           "move auto"}

Refuse == /\ Writing /\ ~refusing /\ faults < MaxFaults
          /\ refusing' = TRUE /\ faults' = faults + 1
          /\ UNCHANGED <<miss, mem>> /\ EnvFrame
Recover == /\ Writing /\ refusing /\ refusing' = FALSE
           /\ UNCHANGED <<miss, mem, faults>> /\ EnvFrame

\* A marker runs out; nobody is told that a strand comes out from under it.
Expire(k) ==
    /\ miss[k]
    /\ miss' = Set(miss, k, FALSE)
    /\ UNCHANGED <<mem, refusing, faults>> /\ EnvFrame
ExpireInMemory(k) ==
    /\ mem[k] = Negative
    /\ mem' = Remember(k, Absent)
    /\ UNCHANGED <<miss, refusing, faults>> /\ EnvFrame

-----------------------------------------------------------------------------
Init ==
    \* An image may be pinned from an earlier life; it counts as one upload and
    \* one request.
    /\ held \in {{}} \union {{k} : k \in Keys}
    /\ made = Cardinality(held)
    /\ pin = [k \in Keys |-> IF k \in held THEN made ELSE None]
    /\ auto = [k \in Keys |-> None] /\ thumb = auto
    /\ miss = [k \in Keys |-> FALSE]
    /\ thumbTag = [k \in Keys |-> NoTag]
    /\ mem = [k \in Keys |-> Absent]
    /\ claims = {}
    /\ refusing = FALSE
    /\ \E k \in Keys :
        /\ task = [t \in Tasks |-> Asleep(IF t \in Keys THEN t ELSE None)]
        /\ shown = [r \in Pages |-> [key |-> k, img |-> None, tag |-> NoTag,
                                     fresh |-> FALSE]]
    /\ armed = FALSE /\ user = Nobody /\ upload = Nobody
    /\ touches = 0 /\ faults = 0 /\ asks = made
    /\ past = {} /\ doubt = {}

Get(t) == \/ Look(t) \/ LookInMemory(t) \/ BeginWriteBack(t) \/ Publish(t)
          \/ PublishRefused(t) \/ Release(t) \/ TakeBack(t)
Lookup(t) == Resolve(t) \/ StorePositive(t) \/ StoreRefused(t) \/ StoreNegative(t) \/ Stored(t)
PageStep(r) == \/ \E k \in Keys : Ask(r, k)
               \/ GetThumb(r) \/ DeriveThumb(r) \/ TagThumb(r) \/ Serve(r)
               \/ FallThrough(r) \/ Missing(r) \/ GiveUp(r) \/ ServeFilled(r)
SweepStep == EndSweep \/ \E k \in Keys : StartSweep(k)
PeopleStep == \/ \E k \in Keys : StartUpload(k) \/ StartReset(k)
              \/ \E o, n \in Keys : StartRename(o, n)
              \/ WriteOverride \/ ResetPin \/ ResetPinRefused \/ ClearSlots \/ ClearMemory
              \/ Refill \/ PurgeOld \/ MovePin \/ DropOldSlots \/ MoveAuto \/ MoveStrand
              \/ ForgetOld
Environment == \/ Refuse \/ Recover
               \/ \E k \in Keys : Expire(k) \/ ExpireInMemory(k)

Next == \/ \E t \in Tasks : Get(t)
        \/ \E t \in Workers : Lookup(t)
        \/ \E k \in Keys : EndFill(k)
        \/ \E r \in Pages : PageStep(r)
        \/ Notify \/ SweepStep \/ PeopleStep \/ Environment

Spec == Init /\ [][Next]_vars

-----------------------------------------------------------------------------
(* Properties.                                                             *)

\* Nothing is under way that touches the cache.
Quiet == /\ \A t \in Tasks : task[t].at \in {"idle", "wait", "filled", "missing", "ready"}
         /\ user = Nobody /\ upload = Nobody
Chance(what, x) == <<what, x>> \in doubt

\* What a reset was accepted to forget is not there when everyone has finished
\* ("the reset must stay reset", cache.py:438), unless a rename brought it from
\* another name.  It may be, though: see ResetForgets.
Returned(k) == {i \in Images(k) : <<i, k>> \in past}
ResetStaysReset == Quiet => \A k \in Keys : \A i \in Returned(k) : Chance("not cleared", i)

\* A reset forgets what it cleared, though readers publish and take back a
\* strand of it all the while, unless the disk refused to give that image up,
\* or a reader finished publishing it after the slots were cleared and before
\* the memory tier was (cache.py:418-472, 643-674, api/artists.py:939-996).
Survives(i) == \E what \in {"left behind", "not cleared", "kept in the gap"} : Chance(what, i)
ResetForgets == Quiet => \A k \in Keys : \A i \in Returned(k) : Survives(i)

\* An image that was stored is there until a reset or a rename forgets it,
\* whoever reads, publishes and releases it (cache.py:304-330), unless a reader
\* took back what it had published over another image, or what a rename brought
\* back meanwhile, or a later lookup dropped a strand.
MayBeGone(k) == \E what \in {"taken back", "forgotten", "negated"} : Chance(what, k)
StoredIsKept == Quiet => \A k \in held : MayBeGone(k) \/ Slot(k) # None \/ Remembered(k)

\* What a page was given under the tag of another image.
Mistagged(r) == shown[r].tag.tier \in {"disk", "memory"} /\ shown[r].tag.img # shown[r].img

\* A page that has asked since it was last told shows what would be served
\* now, or is going to be told (filler.py:104-146, api/artists.py:425-493).
PagesAreCurrent ==
    Quiet /\ ~armed => \A r \in Pages :
        \/ ~shown[r].fresh \/ Mistagged(r)
        \/ \E what \in {"in passing", "taken back", "covered", "negated"} :
                Chance(what, shown[r].key)
        \/ shown[r].img = Portrait(shown[r].key)

=============================================================================
