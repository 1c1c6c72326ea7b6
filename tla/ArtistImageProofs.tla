------------------------- MODULE ArtistImageProofs -------------------------
(***************************************************************************)
(* Proofs about the portraits: what a reset forgets stays forgotten, and   *)
(* what was stored is kept, for any artists, pages and bounds.             *)
(***************************************************************************)
EXTENDS ArtistImage, FiniteSetTheorems, TLAPS

-----------------------------------------------------------------------------
(* The types, as far as the proofs need them.                              *)

Tags == [tier : {"none", "disk", "memory", "later"}, img : Nat]
Places == {"idle", "get", "memory", "claim", "publish", "bytes", "release", "take back",
           "got", "negative", "store", "store bytes", "negate", "stored", "done",
           "wait", "filled", "missing", "thumb", "derived", "ready"}
TaskStates == [at : Places, key : Keys \union {None}, tag : Tags, src : Tags,
               img : Nat, hand : Nat, late : BOOLEAN]
TaskType == /\ task \in [Tasks -> TaskStates]
            /\ \A t \in Tasks : task[t].at # "idle" => task[t].key \in Keys
\* What the memory tier can hold of a key.
Memories == [kind : {"absent", "negative", "image"}, img : Nat]
CacheType ==
    /\ pin \in [Keys -> Nat] /\ auto \in [Keys -> Nat]
    /\ mem \in [Keys -> Memories]
    /\ \A k \in Keys : mem[k].kind = "image" <=> mem[k].img # None
UserPlaces == {"pin", "auto", "memory", "refill", "purge", "move pin", "old slots",
               "move auto", "move strand", "forget"}
Resets == [op : {"reset"}, key : Keys, at : UserPlaces]
Renames == [op : {"rename"}, key : Keys, to : Keys, at : UserPlaces]
PeopleType ==
    /\ user = Nobody \/ user \in Resets \/ (user \in Renames /\ user.key # user.to)
    /\ upload = Nobody \/ upload \in [op : {"upload"}, key : Keys, img : Nat]
Type == TaskType /\ CacheType /\ PeopleType

-----------------------------------------------------------------------------
(* What the steps do to the tasks and to people.                           *)

Publishing(t) == task[t].at \in {"publish", "bytes", "release", "take back"}
Storing(t) == task[t].at \in {"store", "store bytes"}
Busy(t) == Publishing(t) \/ Storing(t)

Same(u) == /\ task'[u].at = task[u].at
           /\ task'[u].key = task[u].key
           /\ task'[u].img = task[u].img
Moves(t, where, i) == /\ \A u \in Tasks \ {t} : Same(u)
                      /\ task'[t].at = where
                      /\ task'[t].key = task[t].key
                      /\ task'[t].img = i
Calm == \A u \in Tasks : Busy(u) \/ Busy(u)' => Same(u)

\* A task goes on.
LEMMA GoFacts ==
    ASSUME TaskType, NEW t \in Tasks, NEW where \in Places, where # "idle",
           task[t].at # "idle", task' = Go(t, where)
    PROVE  TaskType' /\ Moves(t, where, task[t].img)
<1>1. task' \in [Tasks -> TaskStates] /\ \A u \in Tasks \ {t} : task'[u] = task[u]
  BY DEF TaskType, TaskStates, Go
<1>2. task'[t].at = where /\ task'[t].key = task[t].key /\ task'[t].img = task[t].img
  BY DEF TaskType, TaskStates, Go
<1> QED BY <1>1, <1>2 DEF TaskType, Moves, Same

\* A task goes on with an image.
LEMMA GoWithFacts ==
    ASSUME TaskType, NEW t \in Tasks, NEW where \in Places, where # "idle", NEW i \in Nat,
           task[t].at # "idle", task' = GoWith(t, where, i)
    PROVE  TaskType' /\ Moves(t, where, i)
<1>1. task' \in [Tasks -> TaskStates] /\ \A u \in Tasks \ {t} : task'[u] = task[u]
  BY DEF TaskType, TaskStates, GoWith
<1>2. task'[t].at = where /\ task'[t].key = task[t].key /\ task'[t].img = i
  BY DEF TaskType, TaskStates, GoWith
<1> QED BY <1>1, <1>2 DEF TaskType, Moves, Same

\* Being told changes nothing else about a task.
LEMMA ToldFacts ==
    ASSUME NEW tasks \in [Tasks -> TaskStates]
    PROVE  /\ Told(tasks) \in [Tasks -> TaskStates]
           /\ \A t \in Tasks : /\ Told(tasks)[t].at = tasks[t].at
                               /\ Told(tasks)[t].key = tasks[t].key
                               /\ Told(tasks)[t].img = tasks[t].img
BY DEF Told, TaskStates

\* A reset or a rename goes on.
LEMMA GoesFacts ==
    ASSUME PeopleType, user # Nobody, NEW where \in UserPlaces, Goes(where)
    PROVE  /\ PeopleType'
           /\ user'.op = user.op /\ user'.key = user.key /\ user'.at = where
           /\ user.op = "rename" => user'.to = user.to
           /\ user' # Nobody
           /\ upload' = upload /\ made' = made /\ claims' = claims
BY DEF PeopleType, Goes, Resets, Renames, Nobody, SameCounts

SameCache == pin' = pin /\ auto' = auto /\ mem' = mem
SamePeople == user' = user /\ upload' = upload
SameGhosts == past' = past /\ held' = held /\ doubt' = doubt
SameClaims == claims' = claims
SameMade == made' = made
Still == SameCache /\ SamePeople /\ SameGhosts /\ SameClaims /\ SameMade
CalmStep == Calm /\ Still

\* What a task finds in the cache is a number.
LEMMA SlotType ==
    ASSUME CacheType, NEW k \in Keys
    PROVE  Slot(k) \in Nat /\ Validator(k) \in Tags /\ NoTag \in Tags
<1>1. /\ pin[k] \in Nat /\ auto[k] \in Nat
      /\ mem[k].img \in Nat
  BY DEF CacheType, Memories
<1>2. Slot(k) \in Nat
  BY <1>1 DEF Slot
<1>3. Validator(k) \in {Tag("disk", Slot(k)), Tag("memory", mem[k].img), NoTag}
  BY DEF Validator
<1>4. \A i \in Nat : Tag("disk", i) \in Tags /\ Tag("memory", i) \in Tags /\ Tag("none", i) \in Tags
  BY DEF Tag, Tags
<1> QED BY <1>1, <1>2, <1>3, <1>4 DEF NoTag, None

Sound(what) == what \in Memories /\ (what.kind = "image" <=> what.img # None)
\* The memory tier takes what it is given.
LEMMA RememberType ==
    ASSUME CacheType, NEW k \in Keys, NEW what, Sound(what), mem' = Remember(k, what),
           pin' \in [Keys -> Nat], auto' \in [Keys -> Nat]
    PROVE  /\ CacheType'
           /\ mem'[k] = what /\ \A n \in Keys \ {k} : mem'[n] = mem[n]
<1>1. /\ mem' \in [Keys -> Memories]
      /\ mem'[k] = what /\ \A n \in Keys \ {k} : mem'[n] = mem[n]
  BY DEF CacheType, Remember, Set, Sound
<1> QED BY <1>1 DEF CacheType, Sound

\* What the memory tier is given is sound, and an image is told from the rest.
LEMMA Memory ==
    /\ Sound(Absent) /\ Sound(Negative)
    /\ \A i \in Nat \ {None} : Sound(Strand(i))
    /\ \A i : Strand(i).img = i /\ Strand(i).kind = "image"
    /\ Absent.img = None /\ Negative.img = None
    /\ Absent.kind = "absent" /\ Negative.kind = "negative"
BY DEF Sound, Memories, Absent, Negative, Strand, None

\* A step of a task that does not hold an image to be written is calm.
LEMMA MovesCalmly ==
    ASSUME NEW t \in Tasks, NEW where, NEW i, Moves(t, where, i),
           ~Busy(t),
           where \notin {"publish", "bytes", "release", "take back", "store", "store bytes"}
    PROVE  Calm
BY DEF Moves, Calm, Same, Busy, Publishing, Storing

\* The first look at the disk, and the one at the memory tier.
LEMMA LookEffect ==
    ASSUME Type, NEW t \in Tasks, Look(t)
    PROVE  Type' /\ CalmStep
<1> USE DEF Type, Places
<1>1. task[t].key \in Keys /\ task[t].at = "get"
  BY DEF Look, TaskType
<1>2. Still /\ CacheType' /\ PeopleType'
  BY DEF Look, GetFrame, Still, SameCache, SamePeople, SameGhosts, SameClaims, SameMade,
         tier, people, counts, CacheType, PeopleType
<1>3. PICK where \in {"got", "negative", "memory"}, i \in Nat : task' = GoWith(t, where, i)
  BY <1>1, SlotType DEF Look, None
<1>4. TaskType' /\ Moves(t, where, i)
  BY <1>1, <1>3, GoWithFacts
<1>5. Calm
  BY <1>1, <1>4, MovesCalmly DEF Busy, Publishing, Storing
<1> QED BY <1>2, <1>4, <1>5 DEF CalmStep

\* The look at the memory tier leaves the cache alone.
LEMMA LookInMemoryEffect ==
    ASSUME Type, NEW t \in Tasks, LookInMemory(t)
    PROVE  Type' /\ CalmStep
<1> USE DEF Type, Places
<1>1. task[t].key \in Keys /\ task[t].at = "memory"
  BY DEF LookInMemory, TaskType
<1>2. Still /\ CacheType' /\ PeopleType'
  BY DEF LookInMemory, GetFrame, Still, SameCache, SamePeople, SameGhosts, SameClaims, SameMade,
         tier, people, counts, CacheType, PeopleType
<1>3. PICK where \in {"got", "negative", "claim"}, i \in Nat : Moves(t, where, i) /\ TaskType'
  <2> DEFINE there == IF t = Sweep THEN Absent ELSE mem[task[t].key]
  <2>1. there.kind \in {"absent", "negative", "image"} /\ there.img \in Nat
    BY <1>1 DEF CacheType, Memories, Absent, None
  <2>2. task[t].img \in Nat
    BY DEF TaskType, TaskStates
  <2>3. CASE there.kind = "image"
    <3>1. task' = GoWith(t, "claim", there.img)
      BY <2>3 DEF LookInMemory
    <3> HIDE DEF there
    <3>2. TaskType' /\ Moves(t, "claim", there.img)
      BY <1>1, <2>1, <3>1, GoWithFacts
    <3> QED BY <2>1, <3>2
  <2>4. CASE there.kind # "image"
    <3>1. \E where \in {"negative", "got"} : task' = Go(t, where)
      BY <2>1, <2>4 DEF LookInMemory
    <3> QED BY <1>1, <2>2, <3>1, GoFacts
  <2> QED BY <2>3, <2>4
<1>4. Calm
  BY <1>1, <1>3, MovesCalmly DEF Busy, Publishing, Storing
<1> QED BY <1>2, <1>3, <1>4 DEF CalmStep

\* The write-back of a strand, from the claim to the end.
LEMMA BeginWriteBackEffect ==
    ASSUME Type, NEW t \in Tasks, BeginWriteBack(t)
    PROVE  /\ Type'
           /\ SameCache /\ SamePeople /\ SameGhosts /\ SameMade
           /\ \/ Calm /\ SameClaims
              \/ LET k == task[t].key IN
                 /\ ~Busy(t) /\ k \in Keys /\ Moves(t, "publish", task[t].img)
                 /\ k \notin claims /\ claims' = claims \union {k}
                 /\ mem[k] = Strand(task[t].img)
<1> USE DEF Type, Places
<1>1. task[t].key \in Keys /\ task[t].at = "claim" /\ ~Busy(t)
  BY DEF BeginWriteBack, TaskType, Busy, Publishing, Storing
<1>2. SameCache /\ SamePeople /\ SameGhosts /\ SameMade /\ CacheType' /\ PeopleType'
  BY DEF BeginWriteBack, GetFrame, SameCache, SamePeople, SameGhosts, SameMade,
         people, counts, CacheType, PeopleType
<1>3. CASE task' = Go(t, "publish") /\ claims' = claims \union {task[t].key}
           /\ task[t].key \notin claims /\ mem[task[t].key] = Strand(task[t].img)
  BY <1>1, <1>2, <1>3, GoFacts
<1>4. CASE task' = Go(t, "got") /\ UNCHANGED claims
  <2>1. TaskType' /\ Moves(t, "got", task[t].img)
    BY <1>1, <1>4, GoFacts
  <2> QED BY <1>1, <1>2, <1>4, <2>1, MovesCalmly DEF SameClaims
<1> QED BY <1>3, <1>4 DEF BeginWriteBack

\* A claimant clears the marker, then writes the bytes.
LEMMA PublishEffect ==
    ASSUME Type, NEW t \in Tasks, Publish(t)
    PROVE  /\ Type'
           /\ pin' = pin /\ mem' = mem /\ past' = past /\ held' = held
           /\ SamePeople /\ SameMade /\ SameClaims
           /\ task[t].key \in Keys
           /\ \/ /\ task[t].at = "publish" /\ Moves(t, "bytes", task[t].img)
                 /\ auto' = auto /\ doubt' = doubt
              \/ LET k == task[t].key IN
                 /\ task[t].at = "bytes" /\ Moves(t, "release", task[t].img)
                 /\ auto' = Set(auto, k, task[t].img)
                 /\ doubt' = doubt \union
                        DoubtIf(auto[k] \notin {None, task[t].img}, "taken back", k)
<1> USE DEF Type, Places
<1>1. task[t].key \in Keys /\ task[t].at \in {"publish", "bytes"} /\ task[t].img \in Nat
  BY DEF Publish, TaskType, TaskStates
<1>2. /\ pin' = pin /\ mem' = mem /\ past' = past /\ held' = held
      /\ SamePeople /\ SameMade /\ SameClaims
  BY DEF Publish, GetFrame, SamePeople, SameMade, SameClaims, people, counts, tier
<1>3. CASE task[t].at = "publish" /\ task' = Go(t, "bytes") /\ UNCHANGED <<auto, doubt>>
  BY <1>1, <1>2, <1>3, GoFacts DEF CacheType, PeopleType, SamePeople
<1>4. CASE /\ task[t].at = "bytes" /\ task' = Go(t, "release")
           /\ auto' = Set(auto, task[t].key, task[t].img)
           /\ Doubt(auto[task[t].key] \notin {None, task[t].img}, "taken back", task[t].key)
  <2>1. TaskType' /\ Moves(t, "release", task[t].img)
    BY <1>1, <1>4, GoFacts
  <2>2. CacheType' /\ PeopleType'
    BY <1>1, <1>2, <1>4 DEF CacheType, PeopleType, SamePeople, Set
  <2> QED BY <1>1, <1>2, <1>4, <2>1, <2>2 DEF Doubt
<1> QED BY <1>3, <1>4 DEF Publish

\* A claimant that is refused gives its claim back.
LEMMA PublishRefusedEffect ==
    ASSUME Type, NEW t \in Tasks, PublishRefused(t)
    PROVE  /\ Type'
           /\ SameCache /\ SamePeople /\ SameGhosts /\ SameMade
           /\ task[t].key \in Keys /\ task[t].at \in {"publish", "bytes"}
           /\ Moves(t, "got", task[t].img) /\ claims' = claims \ {task[t].key}
<1> USE DEF Type, Places
<1>1. task[t].key \in Keys /\ task[t].at \in {"publish", "bytes"}
  BY DEF PublishRefused, TaskType
<1>2. SameCache /\ SamePeople /\ SameGhosts /\ SameMade /\ CacheType' /\ PeopleType'
  BY DEF PublishRefused, GetFrame, SameCache, SamePeople, SameGhosts, SameMade,
         people, counts, CacheType, PeopleType
<1>3. TaskType' /\ Moves(t, "got", task[t].img) /\ claims' = claims \ {task[t].key}
  BY <1>1, GoFacts DEF PublishRefused, EndWriteBack
<1> QED BY <1>1, <1>2, <1>3

\* The strand goes, or what was published is to be taken back.
LEMMA ReleaseEffect ==
    ASSUME Type, NEW t \in Tasks, Release(t)
    PROVE  /\ Type'
           /\ pin' = pin /\ auto' = auto /\ past' = past /\ held' = held
           /\ SamePeople /\ SameMade
           /\ task[t].key \in Keys /\ task[t].at = "release"
           /\ LET k == task[t].key IN
              \/ /\ mem[k] = Strand(task[t].img) /\ mem' = Remember(k, Absent)
                 /\ Moves(t, "got", task[t].img) /\ claims' = claims \ {k}
                 /\ doubt' = doubt \union DoubtIf(user # Nobody /\ user.key = k /\ user.at # "pin",
                                                  "kept in the gap", task[t].img)
              \/ /\ mem[k] # Strand(task[t].img) /\ mem' = mem
                 /\ Moves(t, "take back", task[t].img) /\ SameClaims
                 /\ doubt' = doubt
<1> USE DEF Type, Places
<1>1. task[t].key \in Keys /\ task[t].at = "release"
  BY DEF Release, TaskType
<1>2. /\ pin' = pin /\ auto' = auto /\ past' = past /\ held' = held
      /\ SamePeople /\ SameMade /\ PeopleType'
  BY DEF Release, GetFrame, SamePeople, SameMade, people, counts, PeopleType
<1>3. CASE mem[task[t].key] = Strand(task[t].img)
  <2>1. TaskType' /\ Moves(t, "got", task[t].img)
    <3>1. task' = Go(t, "got")
      BY <1>3 DEF Release
    <3> QED BY <1>1, <3>1, GoFacts
  <2>2. CacheType'
    <3>1. mem' = Remember(task[t].key, Absent)
      BY <1>3 DEF Release
    <3> QED BY <1>1, <1>2, <3>1, RememberType, Memory DEF CacheType
  <2> QED BY <1>1, <1>2, <1>3, <2>1, <2>2 DEF Release, EndWriteBack, Doubt
<1>4. CASE mem[task[t].key] # Strand(task[t].img)
  <2>1. TaskType' /\ Moves(t, "take back", task[t].img)
    <3>1. task' = Go(t, "take back")
      BY <1>4 DEF Release
    <3> QED BY <1>1, <3>1, GoFacts
  <2>2. CacheType' /\ mem' = mem /\ SameClaims /\ doubt' = doubt
    BY <1>2, <1>4 DEF Release, CacheType, tier, SameClaims
  <2> QED BY <1>1, <1>2, <1>4, <2>1, <2>2
<1> QED BY <1>3, <1>4

\* The slot is emptied, if the directory lets it.
LEMMA TakeBackEffect ==
    ASSUME Type, NEW t \in Tasks, TakeBack(t)
    PROVE  /\ Type'
           /\ pin' = pin /\ mem' = mem /\ past' = past /\ held' = held
           /\ SamePeople /\ SameMade
           /\ task[t].key \in Keys /\ task[t].at = "take back"
           /\ LET k == task[t].key IN
              /\ Moves(t, "got", task[t].img) /\ claims' = claims \ {k}
              /\ auto' = Unless(refusing, auto, k, None)
              /\ doubt \subseteq doubt'
              /\ auto[k] \notin {None, task[t].img} => <<"taken back", k>> \in doubt'
              /\ refusing => <<"left behind", task[t].img>> \in doubt'
<1> USE DEF Type, Places
<1>1. task[t].key \in Keys /\ task[t].at = "take back"
  BY DEF TakeBack, TaskType
<1>2. /\ pin' = pin /\ mem' = mem /\ past' = past /\ held' = held
      /\ SamePeople /\ SameMade /\ PeopleType'
  BY DEF TakeBack, GetFrame, SamePeople, SameMade, people, counts, PeopleType
<1>3. TaskType' /\ Moves(t, "got", task[t].img)
  BY <1>1, GoFacts DEF TakeBack
<1>4. auto' = Unless(refusing, auto, task[t].key, None) /\ claims' = claims \ {task[t].key}
  BY DEF TakeBack, EndWriteBack
<1>5. CacheType'
  BY <1>1, <1>2, <1>4 DEF CacheType, Unless, Set, None
<1>6. /\ doubt \subseteq doubt'
      /\ auto[task[t].key] \notin {None, task[t].img} => <<"taken back", task[t].key>> \in doubt'
      /\ refusing => <<"left behind", task[t].img>> \in doubt'
  BY DEF TakeBack, DoubtIf
<1> QED BY <1>1, <1>2, <1>3, <1>4, <1>5, <1>6

\* A lookup: what it finds is stored, on disk or in memory, or a negative is.
LEMMA ResolveEffect ==
    ASSUME Type, made \in Nat, NEW t \in Tasks, Resolve(t)
    PROVE  /\ Type'
           /\ SameCache /\ SamePeople /\ SameGhosts /\ SameClaims
           /\ \/ Calm /\ SameMade
              \/ ~Busy(t) /\ Moves(t, "store", made + 1) /\ made' = made + 1
<1> USE DEF Type, Places
<1>1. task[t].at = "got" /\ ~Busy(t)
  BY DEF Resolve, Busy, Publishing, Storing
<1>2. SameCache /\ SamePeople /\ SameGhosts /\ SameClaims /\ CacheType' /\ PeopleType'
  BY DEF Resolve, WorkFrame, SameCache, SamePeople, SameGhosts, SameClaims, people,
         CacheType, PeopleType
<1>3. CASE task' = GoWith(t, "store", made + 1) /\ made' = made + 1
  <2>1. made + 1 \in Nat
    OBVIOUS
  <2>2. TaskType' /\ Moves(t, "store", made + 1)
    BY <1>1, <1>3, <2>1, GoWithFacts
  <2> QED BY <1>1, <1>2, <1>3, <2>2
<1>4. CASE task' = Go(t, "negate") /\ UNCHANGED made
  <2>1. TaskType' /\ Moves(t, "negate", task[t].img)
    BY <1>1, <1>4, GoFacts
  <2> QED BY <1>1, <1>2, <1>4, <2>1, MovesCalmly DEF SameMade
<1> QED BY <1>3, <1>4 DEF Resolve

\* A lookup clears the marker, then writes the bytes.
LEMMA StorePositiveEffect ==
    ASSUME Type, NEW t \in Tasks, StorePositive(t)
    PROVE  /\ Type'
           /\ pin' = pin /\ mem' = mem /\ past' = past /\ doubt' = doubt
           /\ SamePeople /\ SameMade /\ SameClaims
           /\ task[t].key \in Keys
           /\ \/ /\ task[t].at = "store" /\ Moves(t, "store bytes", task[t].img)
                 /\ auto' = auto /\ held' = held
              \/ LET k == task[t].key IN
                 /\ task[t].at = "store bytes" /\ Moves(t, "stored", task[t].img)
                 /\ auto' = Set(auto, k, task[t].img) /\ held' = held \union {k}
<1> USE DEF Type, Places
<1>1. task[t].key \in Keys /\ task[t].at \in {"store", "store bytes"} /\ task[t].img \in Nat
  BY DEF StorePositive, TaskType, TaskStates
<1>2. /\ pin' = pin /\ mem' = mem /\ past' = past /\ doubt' = doubt
      /\ SamePeople /\ SameMade /\ SameClaims
  BY DEF StorePositive, WorkFrame, SamePeople, SameMade, SameClaims, people
<1>3. CASE task[t].at = "store" /\ task' = Go(t, "store bytes") /\ UNCHANGED <<auto, held>>
  <2>1. TaskType' /\ Moves(t, "store bytes", task[t].img)
    BY <1>1, <1>3, GoFacts
  <2> QED BY <1>1, <1>2, <1>3, <2>1 DEF CacheType, PeopleType, SamePeople
<1>4. CASE /\ task[t].at = "store bytes" /\ task' = Go(t, "stored")
           /\ auto' = Set(auto, task[t].key, task[t].img)
           /\ held' = held \union {task[t].key}
  <2>1. TaskType' /\ Moves(t, "stored", task[t].img)
    BY <1>1, <1>4, GoFacts
  <2>2. CacheType' /\ PeopleType'
    BY <1>1, <1>2, <1>4 DEF CacheType, PeopleType, SamePeople, Set
  <2> QED BY <1>1, <1>2, <1>4, <2>1, <2>2
<1> QED BY <1>3, <1>4 DEF StorePositive

\* What the directory refuses the memory tier takes.
LEMMA StoreRefusedEffect ==
    ASSUME Type, NEW t \in Tasks, StoreRefused(t), task[t].img # None
    PROVE  /\ Type'
           /\ pin' = pin /\ auto' = auto /\ past' = past /\ doubt \subseteq doubt'
           /\ SamePeople /\ SameMade /\ SameClaims
           /\ LET k == task[t].key IN
              /\ k \in Keys /\ Storing(t) /\ Moves(t, "done", task[t].img)
              /\ \/ mem' = mem /\ held' = held
                 \/ mem' = Remember(k, Strand(task[t].img)) /\ held' = held \union {k}
<1> USE DEF Type, Places
<1>1. task[t].key \in Keys /\ task[t].at \in {"store", "store bytes"} /\ task[t].img \in Nat
  BY DEF StoreRefused, TaskType, TaskStates
<1>2. /\ pin' = pin /\ auto' = auto /\ past' = past /\ doubt \subseteq doubt'
      /\ SamePeople /\ SameMade /\ SameClaims
  BY DEF StoreRefused, WorkFrame, SamePeople, SameMade, SameClaims, people, Doubt
<1>3. task' = Go(t, "done")
  BY DEF StoreRefused
<1>4. TaskType' /\ Moves(t, "done", task[t].img)
  BY <1>1, <1>3, GoFacts
<1>5. \/ mem' = mem /\ held' = held
      \/ mem' = Remember(task[t].key, Strand(task[t].img)) /\ held' = held \union {task[t].key}
  BY DEF StoreRefused
<1>6. CacheType' /\ PeopleType'
  <2>1. CASE mem' = mem
    BY <1>2, <2>1 DEF CacheType, PeopleType, SamePeople
  <2>2. CASE mem' = Remember(task[t].key, Strand(task[t].img))
    BY <1>1, <1>2, <2>2, RememberType, Memory DEF CacheType, PeopleType, SamePeople
  <2> QED BY <1>5, <2>1, <2>2
<1> QED BY <1>1, <1>2, <1>4, <1>5, <1>6 DEF Storing

\* The memory tier forgets a key, and says so if that was an image.
Forgets ==
    /\ Calm /\ SamePeople /\ SameMade /\ SameClaims
    /\ pin' = pin /\ auto' = auto /\ past' = past /\ held' = held
    /\ doubt \subseteq doubt'
    /\ \/ mem' = mem
       \/ \E k \in Keys, what \in {Absent, Negative} :
            mem' = Remember(k, what) /\ (Remembered(k) => MayBeGone(k)')

\* A negative takes the place of a strand only with a word.
LEMMA StoreNegativeEffect ==
    ASSUME Type, NEW t \in Tasks, StoreNegative(t)
    PROVE  Type' /\ Forgets
<1> USE DEF Type, Places
<1>1. task[t].key \in Keys /\ task[t].at = "negate" /\ ~Busy(t)
  BY DEF StoreNegative, TaskType, Busy, Publishing, Storing
<1>2. /\ pin' = pin /\ auto' = auto /\ past' = past /\ held' = held /\ doubt \subseteq doubt'
      /\ SamePeople /\ SameMade /\ SameClaims
  BY DEF StoreNegative, WorkFrame, SamePeople, SameMade, SameClaims, people, Doubt
<1>3. PICK where \in {"done", "stored"} : task' = Go(t, where)
  BY DEF StoreNegative
<1>4. TaskType' /\ Moves(t, where, task[t].img)
  BY <1>1, <1>3, GoFacts
<1>5. Calm
  BY <1>1, <1>4, MovesCalmly
<1>6. \/ mem' = mem
      \/ /\ mem' = Remember(task[t].key, Negative)
         /\ Remembered(task[t].key) => <<"negated", task[t].key>> \in doubt'
  BY DEF StoreNegative, Doubt, DoubtIf
<1>7. CASE mem' = mem
  BY <1>2, <1>4, <1>5, <1>7 DEF CacheType, PeopleType, SamePeople, Forgets
<1>8. CASE /\ mem' = Remember(task[t].key, Negative)
           /\ Remembered(task[t].key) => <<"negated", task[t].key>> \in doubt'
  <2>1. CacheType' /\ PeopleType'
    BY <1>1, <1>2, <1>8, RememberType, Memory DEF CacheType, PeopleType, SamePeople
  <2>2. PICK k \in Keys : k = task[t].key
    BY <1>1
  <2>3. mem' = Remember(k, Negative) /\ (Remembered(k) => MayBeGone(k)')
    BY <1>8, <2>2 DEF MayBeGone, Chance
  <2>4. Forgets
    BY <1>2, <1>5, <2>3 DEF Forgets
  <2> QED BY <1>4, <2>1, <2>4
<1> QED BY <1>6, <1>7, <1>8

\* So does the end of a store.
LEMMA StoredEffect ==
    ASSUME Type, NEW t \in Tasks, Stored(t)
    PROVE  Type' /\ Forgets
<1> USE DEF Type, Places
<1>1. task[t].key \in Keys /\ task[t].at = "stored" /\ ~Busy(t)
  BY DEF Stored, TaskType, Busy, Publishing, Storing
<1>2. /\ pin' = pin /\ auto' = auto /\ past' = past /\ held' = held /\ doubt \subseteq doubt'
      /\ SamePeople /\ SameMade /\ SameClaims
  BY DEF Stored, WorkFrame, SamePeople, SameMade, SameClaims, people, Doubt
<1>3. task' = Go(t, "done")
  BY DEF Stored
<1>4. TaskType' /\ Moves(t, "done", task[t].img)
  BY <1>1, <1>3, GoFacts
<1>5. Calm
  BY <1>1, <1>4, MovesCalmly
<1>6. \/ mem' = mem
      \/ /\ mem' = Remember(task[t].key, Absent)
         /\ Remembered(task[t].key) =>
                \E what \in {"negated", "forgotten"} : <<what, task[t].key>> \in doubt'
  BY DEF Stored, Doubt, DoubtIf
<1>7. CASE mem' = mem
  BY <1>2, <1>4, <1>5, <1>7 DEF CacheType, PeopleType, SamePeople, Forgets
<1>8. CASE /\ mem' = Remember(task[t].key, Absent)
           /\ Remembered(task[t].key) =>
                \E what \in {"negated", "forgotten"} : <<what, task[t].key>> \in doubt'
  <2>1. CacheType' /\ PeopleType'
    BY <1>1, <1>2, <1>8, RememberType, Memory DEF CacheType, PeopleType, SamePeople
  <2>2. PICK k \in Keys : k = task[t].key
    BY <1>1
  <2>3. mem' = Remember(k, Absent) /\ (Remembered(k) => MayBeGone(k)')
    BY <1>8, <2>2 DEF MayBeGone, Chance
  <2>4. Forgets
    BY <1>2, <1>5, <2>3 DEF Forgets
  <2> QED BY <1>4, <2>1, <2>4
<1> QED BY <1>6, <1>7, <1>8

-----------------------------------------------------------------------------
(* The steps that leave the cache, and what is about to be written, alone. *)

\* One task that holds no image to be written goes on to hold none.
LEMMA OneCalmTask ==
    ASSUME TaskType, NEW t \in Tasks, ~Busy(t),
           task' \in [Tasks -> TaskStates],
           \A u \in Tasks \ {t} : task'[u] = task[u],
           ~Busy(t)', task'[t].at # "idle" => task'[t].key \in Keys
    PROVE  TaskType' /\ Calm
BY DEF TaskType, Calm, Same, Busy, Publishing, Storing

\* A task that does nothing has its type, and so has one that begins.
LEMMA AsleepType ==
    ASSUME NEW k \in Keys \union {None}
    PROVE  /\ Asleep(k) \in TaskStates
           /\ Asleep(k).at = "idle" /\ Asleep(k).key = k
           /\ \A where \in Places :
                /\ [Asleep(k) EXCEPT !.at = where] \in TaskStates
                /\ [Asleep(k) EXCEPT !.at = where].at = where
                /\ [Asleep(k) EXCEPT !.at = where].key = k
<1>1. NoTag \in Tags
  BY DEF NoTag, Tag, Tags, None
<1>2. "idle" \in Places
  BY DEF Places
<1>3. Asleep(k) \in TaskStates /\ Asleep(k).at = "idle" /\ Asleep(k).key = k
  BY <1>1, <1>2 DEF Asleep, TaskStates, None
<1>4. ASSUME NEW where \in Places
      PROVE  /\ [Asleep(k) EXCEPT !.at = where] \in TaskStates
             /\ [Asleep(k) EXCEPT !.at = where].at = where
             /\ [Asleep(k) EXCEPT !.at = where].key = k
  BY <1>3 DEF TaskStates
<1> QED BY <1>3, <1>4

\* What is left alone keeps its type.
LEMMA StillTypes ==
    ASSUME CacheType, PeopleType, Still
    PROVE  CacheType' /\ PeopleType'
BY DEF CacheType, PeopleType, Still, SameCache, SamePeople

\* The fill answers those who wait.
LEMMA EndFillEffect ==
    ASSUME Type, NEW k \in Keys, EndFill(k)
    PROVE  Type' /\ CalmStep
<1> USE DEF Type
<1>1. Still
  BY DEF EndFill, WorkFrame, Still, SameCache, SamePeople, SameGhosts, SameClaims, SameMade, people
<1>2. k \in Tasks
  BY DEF Tasks
<1>3. ~Busy(k)
  BY DEF EndFill, Looked, Busy, Publishing, Storing
<1>4. task' = Answered(k)
  BY DEF EndFill
<1>5. task[k].img \in Nat /\ Asleep(k) \in TaskStates /\ Asleep(k).at = "idle" /\ Asleep(k).key = k
  BY <1>2, AsleepType DEF TaskType, TaskStates
<1>6. /\ task' \in [Tasks -> TaskStates]
      /\ task'[k] = Asleep(k)
      /\ \A t \in Tasks \ {k} :
            /\ task'[t].key = task[t].key
            /\ \/ task'[t].at = task[t].at /\ task'[t].img = task[t].img
               \/ task[t].at = "wait" /\ task'[t].at = "filled"
  <2>1. ASSUME NEW t \in Tasks, t # k, task[t].at = "wait", task[t].key = k
        PROVE  /\ Answered(k)[t] \in TaskStates /\ Answered(k)[t].at = "filled"
               /\ Answered(k)[t].key = task[t].key
    <3>1. task[t] \in TaskStates
      BY DEF TaskType
    <3>2. Answered(k)[t] = [task[t] EXCEPT !.at = "filled", !.hand = task[k].img]
      BY <2>1 DEF Answered
    <3> QED BY <1>5, <3>1, <3>2 DEF TaskStates, Places
  <2>2. ASSUME NEW t \in Tasks, t # k, ~(task[t].at = "wait" /\ task[t].key = k)
        PROVE  Answered(k)[t] = task[t]
    BY <2>2 DEF Answered
  <2>3. Answered(k)[k] = Asleep(k)
    BY <1>2 DEF Answered
  <2>4. Answered(k) = [t \in Tasks |-> Answered(k)[t]]
    BY DEF Answered
  <2>5. \A t \in Tasks : Answered(k)[t] \in TaskStates
    BY <1>5, <2>1, <2>2, <2>3 DEF TaskType
  <2>6. Answered(k) \in [Tasks -> TaskStates]
    BY <2>4, <2>5
  <2>7. ASSUME NEW t \in Tasks, t # k
        PROVE  /\ Answered(k)[t].key = task[t].key
               /\ \/ Answered(k)[t].at = task[t].at /\ Answered(k)[t].img = task[t].img
                  \/ task[t].at = "wait" /\ Answered(k)[t].at = "filled"
    <3>1. CASE task[t].at = "wait" /\ task[t].key = k
      BY <2>1, <2>7, <3>1
    <3>2. CASE ~(task[t].at = "wait" /\ task[t].key = k)
      <4>1. Answered(k)[t] = task[t]
        BY <2>2, <2>7, <3>2
      <4> QED BY <4>1
    <3> QED BY <3>1, <3>2
  <2> QED BY <1>4, <2>3, <2>6, <2>7
<1>7. TaskType'
  BY <1>5, <1>6 DEF TaskType
<1>8. Calm
  <2>1. ~Busy(k)'
    BY <1>5, <1>6 DEF Busy, Publishing, Storing
  <2> QED BY <1>3, <1>6, <2>1 DEF Calm, Same, Busy, Publishing, Storing
<1> QED BY <1>1, <1>7, <1>8, StillTypes DEF CalmStep

\* Everybody is told.
LEMMA TellingIsCalm ==
    ASSUME TaskType, Emit(task)
    PROVE  TaskType' /\ Calm
<1>1. task' = Told(task)
  BY DEF Emit
<1> QED BY <1>1, ToldFacts DEF TaskType, Calm, Same

\* The timer tells the pages.
LEMMA NotifyEffect ==
    ASSUME Type, Notify
    PROVE  Type' /\ CalmStep
<1> USE DEF Type
<1>1. Still
  BY DEF Notify, Still, SameCache, SamePeople, SameGhosts, SameClaims, SameMade, people, slots, tier,
         counts, ghosts
<1>2. TaskType' /\ Calm
  BY TellingIsCalm DEF Notify
<1> QED BY <1>1, <1>2, StillTypes DEF CalmStep

\* The sweep comes to an artist, and leaves it.
LEMMA StartSweepEffect ==
    ASSUME Type, NEW k \in Keys, StartSweep(k)
    PROVE  Type' /\ CalmStep
<1> USE DEF Type
<1>1. Still
  BY DEF StartSweep, SweepFrame, Still, SameCache, SamePeople, SameGhosts, SameClaims, SameMade, people,
         slots, tier, ghosts
<1>2. Sweep \in Tasks /\ ~Busy(Sweep)
  BY DEF Tasks, StartSweep, Idle, Busy, Publishing, Storing
<1>3. task' = [task EXCEPT ![Sweep] = [Asleep(k) EXCEPT !.at = "get"]]
  BY DEF StartSweep
<1>4. [Asleep(k) EXCEPT !.at = "get"] \in TaskStates /\ [Asleep(k) EXCEPT !.at = "get"].at = "get"
      /\ [Asleep(k) EXCEPT !.at = "get"].key = k
  <2>1. "get" \in Places
    BY DEF Places
  <2> QED BY <2>1, AsleepType
<1>5. /\ task' \in [Tasks -> TaskStates] /\ \A u \in Tasks \ {Sweep} : task'[u] = task[u]
      /\ task'[Sweep].at = "get" /\ task'[Sweep].key = k
  BY <1>2, <1>3, <1>4 DEF TaskType
<1>6. TaskType' /\ Calm
  BY <1>2, <1>5, OneCalmTask DEF Busy, Publishing, Storing
<1> QED BY <1>1, <1>6, StillTypes DEF CalmStep

\* The sweep is done with an artist, and the pages are told.
LEMMA EndSweepEffect ==
    ASSUME Type, EndSweep
    PROVE  Type' /\ CalmStep
<1> USE DEF Type
<1>1. Still
  BY DEF EndSweep, SweepFrame, Still, SameCache, SamePeople, SameGhosts, SameClaims, SameMade, people,
         slots, tier, ghosts
<1>2. Sweep \in Tasks /\ ~Busy(Sweep)
  BY DEF Tasks, EndSweep, Looked, Busy, Publishing, Storing
<1> DEFINE tasks == [task EXCEPT ![Sweep] = Asleep(None)]
<1>3. /\ tasks \in [Tasks -> TaskStates] /\ \A u \in Tasks \ {Sweep} : tasks[u] = task[u]
      /\ tasks[Sweep].at = "idle"
  BY <1>2, AsleepType DEF TaskType
<1>4. task' = Told(tasks)
  BY DEF EndSweep, Emit
<1> HIDE DEF tasks
<1>5. /\ task' \in [Tasks -> TaskStates]
      /\ \A u \in Tasks \ {Sweep} : Same(u)
      /\ task'[Sweep].at = "idle"
  BY <1>2, <1>3, <1>4, ToldFacts DEF Same
<1>6. TaskType' /\ Calm
  BY <1>2, <1>5 DEF TaskType, Calm, Same, Busy, Publishing, Storing
<1> QED BY <1>1, <1>6, StillTypes DEF CalmStep

-----------------------------------------------------------------------------
(* The steps of a page.                                                    *)

\* A page's place in its request, with a tag or two, is a state of a task.
LEMMA PageStates ==
    ASSUME NEW rec \in TaskStates
    PROVE  /\ \A where \in Places, tag \in Tags :
                /\ [rec EXCEPT !.at = where, !.tag = tag] \in TaskStates
                /\ [rec EXCEPT !.at = where, !.src = tag] \in TaskStates
           /\ \A where \in Places, tag \in Tags, src \in Tags :
                [rec EXCEPT !.at = where, !.tag = tag, !.src = src] \in TaskStates
BY DEF TaskStates

\* A page goes on, or it is answered and idle again.
LEMMA CalmPage ==
    ASSUME Type, NEW r \in Pages, NEW rec \in TaskStates,
           task[r].at \notin {"publish", "bytes", "release", "take back", "store", "store bytes"},
           task' = [task EXCEPT ![r] = rec], Still,
           rec.at \notin {"publish", "bytes", "release", "take back", "store", "store bytes"},
           rec.at # "idle" => rec.key \in Keys
    PROVE  Type' /\ CalmStep
<1>1. r \in Tasks /\ ~Busy(r)
  BY DEF Tasks, Busy, Publishing, Storing
<1>2. /\ task' \in [Tasks -> TaskStates] /\ \A u \in Tasks \ {r} : task'[u] = task[u]
      /\ task'[r] = rec
  BY <1>1 DEF Type, TaskType
<1>3. TaskType' /\ Calm
  BY <1>1, <1>2, OneCalmTask DEF Type, Busy, Publishing, Storing
<1> QED BY <1>3, StillTypes DEF Type, CalmStep

\* A page gets its answer.
LEMMA CalmAnswer ==
    ASSUME Type, NEW r \in Pages, NEW i, NEW tag, Answer(r, i, tag), Still,
           task[r].at \notin {"publish", "bytes", "release", "take back", "store", "store bytes"}
    PROVE  Type' /\ CalmStep
<1>1. Asleep(None) \in TaskStates /\ Asleep(None).at = "idle"
  BY AsleepType
<1>2. task' = [task EXCEPT ![r] = Asleep(None)]
  BY DEF Answer
<1> QED BY <1>1, <1>2, CalmPage

\* The steps of a page leave the cache alone.
LEMMA PageStill ==
    ASSUME PageFrame
    PROVE  Still
BY DEF PageFrame, Still, SameCache, SamePeople, SameGhosts, SameClaims, SameMade, people, tier, ghosts

\* A page that goes on with nothing but another place.
LEMMA CalmGo ==
    ASSUME Type, NEW r \in Pages, NEW where \in Places \ {"idle"}, Still,
           task[r].at \notin {"idle", "publish", "bytes", "release", "take back", "store", "store bytes"},
           where \notin {"publish", "bytes", "release", "take back", "store", "store bytes"},
           task' = Go(r, where) \/ task' = GoWith(r, where, None)
    PROVE  Type' /\ CalmStep
<1>1. r \in Tasks /\ ~Busy(r)
  BY DEF Tasks, Busy, Publishing, Storing
<1>2. None \in Nat
  BY DEF None
<1>3. PICK i : TaskType' /\ Moves(r, where, i)
  <2>1. CASE task' = Go(r, where)
    BY <1>1, <2>1, GoFacts DEF Type
  <2>2. CASE task' = GoWith(r, where, None)
    BY <1>1, <1>2, <2>2, GoWithFacts DEF Type
  <2> QED BY <2>1, <2>2
<1>4. Calm
  BY <1>1, <1>3, MovesCalmly
<1> QED BY <1>3, <1>4, StillTypes DEF Type, CalmStep

\* A page asks.
LEMMA AskEffect ==
    ASSUME Type, NEW r \in Pages, NEW k \in Keys, Ask(r, k)
    PROVE  Type' /\ CalmStep
<1>1. Still
  BY PageStill DEF Ask
<1>2. task[r].at = "idle"
  BY DEF Ask, Idle
<1>3. CASE UNCHANGED task
  BY <1>1, <1>3, StillTypes DEF Type, TaskType, CalmStep, Calm, Same, Busy, Publishing, Storing
<1>4. CASE \E where \in {"missing", "thumb", "get"}, tag \in Tags :
            task' = [task EXCEPT ![r] = [Asleep(k) EXCEPT !.tag = tag, !.at = where]]
  <2>1. PICK where \in {"missing", "thumb", "get"}, tag \in Tags :
            task' = [task EXCEPT ![r] = [Asleep(k) EXCEPT !.tag = tag, !.at = where]]
    BY <1>4
  <2> DEFINE rec == [Asleep(k) EXCEPT !.tag = tag, !.at = where]
  <2>2. Asleep(k) \in TaskStates /\ Asleep(k).key = k
    BY AsleepType
  <2>3. rec \in TaskStates /\ rec.at = where /\ rec.key = k
    BY <2>2 DEF TaskStates, Places
  <2> HIDE DEF rec
  <2>4. task' = [task EXCEPT ![r] = rec]
    BY <2>1 DEF rec
  <2> QED BY <1>1, <1>2, <2>3, <2>4, CalmPage
<1>5. Validator(k) \in Tags
  BY SlotType DEF Type
<1> QED BY <1>3, <1>4, <1>5 DEF Ask

\* A thumb is looked for.
LEMMA GetThumbEffect ==
    ASSUME Type, NEW r \in Pages, GetThumb(r)
    PROVE  Type' /\ CalmStep
<1>1. Still
  BY PageStill DEF GetThumb
<1>2. task[r].at = "thumb" /\ r \in Tasks /\ task[r] \in TaskStates /\ task[r].key \in Keys
  BY DEF GetThumb, Tasks, Type, TaskType
<1> DEFINE src == Validator(task[r].key)
<1>3. src \in Tags
  BY <1>2, SlotType DEF Type
<1> HIDE DEF src
<1>4. CASE \E i, tag : Answer(r, i, tag)
  BY <1>1, <1>2, <1>4, CalmAnswer
<1>5. CASE task' = GoWith(r, "got", None)
  <2>1. "got" \in Places \ {"idle"}
    BY DEF Places
  <2> QED BY <1>1, <1>2, <1>5, <2>1, CalmGo
<1>6. CASE task' = [task EXCEPT ![r].at = "get", ![r].src = src]
  <2> DEFINE rec == [task[r] EXCEPT !.at = "get", !.src = src]
  <2>1. rec \in TaskStates /\ rec.at = "get" /\ rec.key = task[r].key
    BY <1>2, <1>3 DEF TaskStates, Places
  <2>2. task' = [task EXCEPT ![r] = rec]
    BY <1>6
  <2> HIDE DEF rec
  <2> QED BY <1>1, <1>2, <2>1, <2>2, CalmPage
<1> QED BY <1>4, <1>5, <1>6 DEF GetThumb, src

\* A thumb is made.
LEMMA DeriveThumbEffect ==
    ASSUME Type, NEW r \in Pages, DeriveThumb(r)
    PROVE  Type' /\ CalmStep
<1>1. Still
  BY PageStill DEF DeriveThumb
<1>2. task[r].at = "got" /\ task' = Go(r, "derived")
  BY DEF DeriveThumb, Derives
<1>3. "derived" \in Places \ {"idle"}
  BY DEF Places
<1> QED BY <1>1, <1>2, <1>3, CalmGo

\* A thumb gets its tag.
LEMMA TagThumbEffect ==
    ASSUME Type, NEW r \in Pages, TagThumb(r)
    PROVE  Type' /\ CalmStep
<1>1. Still
  BY PageStill DEF TagThumb
<1>2. task[r].at = "derived" /\ task' = Go(r, "ready")
  BY DEF TagThumb
<1>3. "ready" \in Places \ {"idle"}
  BY DEF Places
<1> QED BY <1>1, <1>2, <1>3, CalmGo

\* A page is served from the cache.
LEMMA ServeEffect ==
    ASSUME Type, NEW r \in Pages, Serve(r)
    PROVE  Type' /\ CalmStep
<1>1. Still
  BY PageStill DEF Serve
<1>2. task[r].at \in {"got", "ready"} /\ \E i, tag : Answer(r, i, tag)
  BY DEF Serve
<1> QED BY <1>1, <1>2, CalmAnswer

\* A page finds nothing there after all.
LEMMA FallThroughEffect ==
    ASSUME Type, NEW r \in Pages, FallThrough(r)
    PROVE  Type' /\ CalmStep
<1>1. Still
  BY PageStill DEF FallThrough
<1>2. /\ task[r].at \in {"got", "negative"} /\ r \in Tasks /\ task[r] \in TaskStates
      /\ task[r].key \in Keys
  BY DEF FallThrough, Tasks, Type, TaskType
<1>3. CASE \E i, tag : Answer(r, i, tag)
  BY <1>1, <1>2, <1>3, CalmAnswer
<1>4. CASE task' = [task EXCEPT ![r].at = "missing", ![r].tag = NoTag, ![r].src = NoTag]
  <2> DEFINE rec == [task[r] EXCEPT !.at = "missing", !.tag = NoTag, !.src = NoTag]
  <2>1. NoTag \in Tags
    BY <1>2, SlotType DEF Type
  <2>2. rec \in TaskStates /\ rec.at = "missing" /\ rec.key = task[r].key
    BY <1>2, <2>1 DEF TaskStates, Places
  <2>3. task' = [task EXCEPT ![r] = rec]
    BY <1>4
  <2> HIDE DEF rec
  <2> QED BY <1>1, <1>2, <2>2, <2>3, CalmPage
<1> QED BY <1>3, <1>4 DEF FallThrough

\* A page waits for a fill, or is told there is nothing.
LEMMA MissingEffect ==
    ASSUME Type, NEW r \in Pages, Missing(r)
    PROVE  Type' /\ CalmStep
<1>1. Still
  BY PageStill DEF Missing
<1>2. task[r].at = "missing" /\ r \in Tasks /\ task[r].key \in Keys /\ task[r].key \in Tasks
  BY DEF Missing, Tasks, Type, TaskType
<1> DEFINE k == task[r].key
<1>3. CASE \E i, tag : Answer(r, i, tag)
  BY <1>1, <1>2, <1>3, CalmAnswer
<1>4. CASE task' = StartFill(Go(r, "wait"), k)
  <2>1. "wait" \in Places \ {"idle"}
    BY DEF Places
  <2>2. CASE ~Idle(k)
    <3>1. task' = Go(r, "wait")
      BY <1>4, <2>2 DEF StartFill
    <3> QED BY <1>1, <1>2, <2>1, <3>1, CalmGo
  <2>3. CASE Idle(k)
    <3> DEFINE fill == [Asleep(k) EXCEPT !.at = "get"]
    <3>1. fill \in TaskStates /\ fill.at = "get" /\ fill.key = k
      <4>1. "get" \in Places
        BY DEF Places
      <4> QED BY <1>2, <4>1, AsleepType
    <3>2. task' = [Go(r, "wait") EXCEPT ![k] = fill]
      BY <1>4, <2>3 DEF StartFill
    <3> HIDE DEF fill
    <3>3. /\ task' \in [Tasks -> TaskStates]
          /\ \A u \in Tasks \ {r, k} : task'[u] = task[u]
          /\ task'[k] = fill /\ task[k].at = "idle" /\ k # r
          /\ task'[r].at = "wait" /\ task'[r].key = task[r].key
      BY <1>2, <2>1, <2>3, <3>1, <3>2 DEF Go, Type, TaskType, TaskStates, Idle
    <3>4. TaskType' /\ Calm
      BY <1>2, <3>1, <3>3 DEF Type, TaskType, Calm, Same, Busy, Publishing, Storing
    <3> QED BY <1>1, <3>4, StillTypes DEF Type, CalmStep
  <2> QED BY <2>2, <2>3
<1> QED BY <1>3, <1>4 DEF Missing

\* A page gives up its wait.
LEMMA GiveUpEffect ==
    ASSUME Type, NEW r \in Pages, GiveUp(r)
    PROVE  Type' /\ CalmStep
<1>1. Still
  BY PageStill DEF GiveUp
<1>2. task[r].at = "wait" /\ \E i, tag : Answer(r, i, tag)
  BY DEF GiveUp
<1> QED BY <1>1, <1>2, CalmAnswer

\* A page is served what a fill found.
LEMMA ServeFilledEffect ==
    ASSUME Type, NEW r \in Pages, ServeFilled(r)
    PROVE  Type' /\ CalmStep
<1>1. Still
  BY PageStill DEF ServeFilled
<1>2. /\ task[r].at = "filled" /\ r \in Tasks /\ task[r] \in TaskStates
      /\ task[r].key \in Keys
  BY DEF ServeFilled, Tasks, Type, TaskType
<1>3. CASE \E i, tag : Answer(r, i, tag)
  BY <1>1, <1>2, <1>3, CalmAnswer
<1>4. CASE task' = [task EXCEPT ![r].at = "thumb", ![r].tag = Later]
  <2> DEFINE rec == [task[r] EXCEPT !.at = "thumb", !.tag = Later]
  <2>1. Later \in Tags
    BY DEF Later, Tag, Tags, None
  <2>2. rec \in TaskStates /\ rec.at = "thumb" /\ rec.key = task[r].key
    BY <1>2, <2>1 DEF TaskStates, Places
  <2>3. task' = [task EXCEPT ![r] = rec]
    BY <1>4
  <2> HIDE DEF rec
  <2> QED BY <1>1, <1>2, <2>2, <2>3, CalmPage
<1> QED BY <1>3, <1>4 DEF ServeFilled

\* A page's step, any of them.
LEMMA PageEffect ==
    ASSUME Type, NEW r \in Pages, PageStep(r)
    PROVE  Type' /\ CalmStep
BY AskEffect, GetThumbEffect, DeriveThumbEffect, TagThumbEffect, ServeEffect, FallThroughEffect,
   MissingEffect, GiveUpEffect, ServeFilledEffect DEF PageStep

-----------------------------------------------------------------------------
(* The directory and the clock.                                            *)

\* The directory refuses or recovers, or a marker on disk runs out.
LEMMA DirectoryEffect ==
    ASSUME Type, Refuse \/ Recover \/ \E k \in Keys : Expire(k)
    PROVE  Type' /\ CalmStep
<1>1. Still /\ UNCHANGED task
  BY DEF Refuse, Recover, Expire, EnvFrame, Still, SameCache, SamePeople, SameGhosts, SameClaims,
         SameMade, people, ghosts
<1> QED BY <1>1, StillTypes DEF Type, TaskType, CalmStep, Calm, Same, Busy, Publishing, Storing

\* A marker in the memory tier runs out.
LEMMA ExpireInMemoryEffect ==
    ASSUME Type, NEW k \in Keys, ExpireInMemory(k)
    PROVE  Type' /\ Forgets
<1>1. /\ pin' = pin /\ auto' = auto /\ past' = past /\ held' = held /\ doubt' = doubt
      /\ SamePeople /\ SameMade /\ SameClaims /\ UNCHANGED task
      /\ mem' = Remember(k, Absent) /\ ~Remembered(k)
  BY DEF ExpireInMemory, EnvFrame, SamePeople, SameMade, SameClaims, people, ghosts, Remembered, Negative
<1>2. TaskType' /\ Calm
  BY <1>1 DEF Type, TaskType, Calm, Same, Busy, Publishing, Storing
<1>3. CacheType' /\ PeopleType'
  BY <1>1, RememberType, Memory DEF Type, CacheType, PeopleType, SamePeople
<1> QED BY <1>1, <1>2, <1>3 DEF Type, Forgets

-----------------------------------------------------------------------------
(* What people do.                                                         *)

\* Tasks that are left alone are calm.
LEMMA TasksUnchanged ==
    ASSUME TaskType, UNCHANGED task
    PROVE  TaskType' /\ Calm
BY DEF TaskType, Calm, Same, Busy, Publishing, Storing

\* An upload begins with an image of its own.
LEMMA StartUploadEffect ==
    ASSUME Type, made \in Nat, NEW k \in Keys, StartUpload(k)
    PROVE  /\ Type' /\ Calm
           /\ SameCache /\ SameGhosts /\ SameClaims /\ user' = user
           /\ upload = Nobody /\ made' = made + 1
           /\ upload' # Nobody /\ upload'.img = made + 1 /\ upload'.key = k
<1>1. TaskType' /\ Calm
  BY TasksUnchanged DEF StartUpload, Type
<1>2. /\ SameCache /\ SameGhosts /\ SameClaims /\ user' = user /\ upload = Nobody /\ made' = made + 1
      /\ upload' = [op |-> "upload", key |-> k, img |-> made + 1]
  BY DEF StartUpload, SameCache, SameGhosts, SameClaims, slots, tier, ghosts
<1>3. upload' # Nobody /\ upload'.img = made + 1 /\ upload'.key = k
  BY <1>2 DEF Nobody
<1>4. CacheType' /\ PeopleType'
  BY <1>2 DEF Type, CacheType, PeopleType, SameCache
<1> QED BY <1>1, <1>2, <1>3, <1>4 DEF Type

\* The pin is written, or refused.
LEMMA WriteOverrideEffect ==
    ASSUME Type, WriteOverride
    PROVE  /\ Type' /\ Calm
           /\ auto' = auto /\ mem' = mem /\ past' = past /\ doubt' = doubt
           /\ SameMade /\ SameClaims /\ user' = user
           /\ upload # Nobody /\ upload' = Nobody /\ upload.key \in Keys
           /\ \/ pin' = pin /\ held' = held
              \/ pin' = Set(pin, upload.key, upload.img) /\ held' = held \union {upload.key}
<1>1. /\ auto' = auto /\ mem' = mem /\ past' = past /\ doubt' = doubt
      /\ SameMade /\ SameClaims /\ user' = user /\ upload # Nobody /\ upload' = Nobody
      /\ \/ pin' = pin /\ held' = held /\ UNCHANGED task
         \/ /\ pin' = Set(pin, upload.key, upload.img) /\ held' = held \union {upload.key}
            /\ Emit(task)
  BY DEF WriteOverride, tier, Unless, SameMade, SameClaims
<1>2. upload.key \in Keys /\ upload.img \in Nat
  BY <1>1 DEF Type, PeopleType
<1>3. TaskType' /\ Calm
  BY <1>1, TasksUnchanged, TellingIsCalm DEF Type
<1>4. CacheType' /\ PeopleType'
  BY <1>1, <1>2 DEF Type, CacheType, PeopleType, Set
<1> QED BY <1>1, <1>2, <1>3, <1>4 DEF Type

\* A reset begins: what is there is to be forgotten.
LEMMA StartResetEffect ==
    ASSUME Type, NEW k \in Keys, StartReset(k)
    PROVE  /\ Type' /\ Calm /\ SameCache /\ SameClaims /\ SameMade
           /\ upload' = upload /\ doubt' = doubt
           /\ user = Nobody
           /\ user' # Nobody /\ user'.op = "reset" /\ user'.key = k /\ user'.at = "pin"
           /\ past' = past \union (Images(k) \X {k}) /\ held' = held \ {k}
<1>1. TaskType' /\ Calm
  BY TasksUnchanged DEF StartReset, Type
<1>2. /\ SameCache /\ SameClaims /\ SameMade /\ upload' = upload /\ doubt' = doubt /\ user = Nobody
      /\ user' = [op |-> "reset", key |-> k, at |-> "pin"]
      /\ past' = past \union (Images(k) \X {k}) /\ held' = held \ {k}
  BY DEF StartReset, Begin, SameCache, SameClaims, SameMade, slots, tier
<1>3. user' # Nobody /\ user'.op = "reset" /\ user'.key = k /\ user'.at = "pin"
  BY <1>2 DEF Nobody
<1>4. CacheType' /\ PeopleType'
  BY <1>2 DEF Type, CacheType, PeopleType, SameCache, Resets, UserPlaces
<1> QED BY <1>1, <1>2, <1>3, <1>4 DEF Type

\* A step of a reset or a rename.
Onward(where) ==
    /\ Calm /\ SameMade /\ SameClaims /\ upload' = upload
    /\ user # Nobody /\ user.key \in Keys
    /\ user' # Nobody /\ user'.op = user.op /\ user'.key = user.key /\ user'.at = where
    /\ user.op = "rename" => user.to \in Keys /\ user.to # user.key /\ user'.to = user.to

\* A step of a reset or a rename keeps its key and its target.
LEMMA OnwardFacts ==
    ASSUME Type, user # Nobody, NEW where \in UserPlaces, Goes(where), UNCHANGED task
    PROVE  Onward(where) /\ PeopleType' /\ TaskType'
BY GoesFacts, TasksUnchanged DEF Type, PeopleType, Resets, Renames, Onward, SameMade, SameClaims

\* Whoever resets or renames is there.
LEMMA Somebody ==
    ASSUME user.op \in {"reset", "rename"}
    PROVE  user # Nobody
BY DEF Nobody

\* The pin goes to the Trash.
LEMMA ResetPinEffect ==
    ASSUME Type, ResetPin
    PROVE  /\ Type' /\ Onward("auto") /\ user.op = "reset" /\ user.at = "pin"
           /\ pin' = Set(pin, user.key, None) /\ auto' = auto /\ mem' = mem
           /\ SameGhosts
<1>1. /\ user.op = "reset" /\ user.at = "pin" /\ Goes("auto") /\ UNCHANGED task
      /\ pin' = Set(pin, user.key, None) /\ auto' = auto /\ mem' = mem /\ SameGhosts
  BY DEF ResetPin, SameGhosts, ghosts
<1>2. user # Nobody
  BY <1>1, Somebody
<1>3. Onward("auto") /\ PeopleType' /\ TaskType'
  BY <1>1, <1>2, OnwardFacts DEF UserPlaces
<1>4. CacheType'
  BY <1>1 DEF Type, CacheType, Set, None
<1> QED BY <1>1, <1>3, <1>4 DEF Type

\* The Trash takes nothing, and everything stays.
LEMMA ResetPinRefusedEffect ==
    ASSUME Type, ResetPinRefused
    PROVE  /\ Type' /\ Calm /\ SameCache /\ SameClaims /\ SameMade
           /\ upload' = upload /\ doubt' = doubt
           /\ user # Nobody /\ user.op = "reset" /\ user.at = "pin" /\ user.key \in Keys
           /\ pin[user.key] # None /\ user' = Nobody
           /\ past' = past \ (Images(user.key) \X {user.key})
           /\ held' = held \union {user.key}
<1>1. TaskType' /\ Calm
  BY TasksUnchanged DEF ResetPinRefused, Type
<1>2. /\ SameCache /\ SameClaims /\ SameMade /\ upload' = upload /\ doubt' = doubt
      /\ user.op = "reset" /\ user.at = "pin" /\ pin[user.key] # None /\ user' = Nobody
      /\ past' = past \ (Images(user.key) \X {user.key}) /\ held' = held \union {user.key}
  BY DEF ResetPinRefused, SameCache, SameClaims, SameMade, slots, tier
<1>3. user # Nobody
  BY <1>2 DEF Nobody
<1>4. CacheType' /\ PeopleType' /\ user.key \in Keys
  BY <1>2, <1>3 DEF Type, CacheType, PeopleType, SameCache, Resets, Renames
<1> QED BY <1>1, <1>2, <1>3, <1>4 DEF Type

\* The automatic slots go, or stay with a word.
LEMMA ClearSlotsEffect ==
    ASSUME Type, ClearSlots
    PROVE  /\ Type' /\ Onward("memory") /\ user.op = "reset" /\ user.at = "auto"
           /\ pin' = pin /\ auto' = Unless(refusing, auto, user.key, None) /\ mem' = mem
           /\ past' = past /\ held' = held /\ doubt \subseteq doubt'
           /\ refusing => <<"not cleared", auto[user.key]>> \in doubt'
<1>1. /\ user.op = "reset" /\ user.at = "auto" /\ Goes("memory") /\ UNCHANGED task
      /\ pin' = pin /\ auto' = Unless(refusing, auto, user.key, None) /\ mem' = mem
      /\ past' = past /\ held' = held /\ doubt \subseteq doubt'
      /\ refusing => <<"not cleared", auto[user.key]>> \in doubt'
  BY DEF ClearSlots, Doubt, DoubtIf
<1>2. user # Nobody
  BY <1>1, Somebody
<1>3. Onward("memory") /\ PeopleType' /\ TaskType'
  BY <1>1, <1>2, OnwardFacts DEF UserPlaces
<1>4. CacheType'
  BY <1>1 DEF Type, CacheType, Set, Unless, None
<1> QED BY <1>1, <1>3, <1>4 DEF Type

\* The strand goes.
LEMMA ClearMemoryEffect ==
    ASSUME Type, ClearMemory
    PROVE  /\ Type' /\ Onward("refill") /\ user.op = "reset" /\ user.at = "memory"
           /\ pin' = pin /\ auto' = auto /\ mem' = Remember(user.key, Absent)
           /\ past' = past /\ held' = held \ {user.key} /\ doubt' = doubt
<1>1. /\ user.op = "reset" /\ user.at = "memory" /\ Goes("refill") /\ UNCHANGED task
      /\ pin' = pin /\ auto' = auto /\ mem' = Remember(user.key, Absent)
      /\ past' = past /\ held' = held \ {user.key} /\ doubt' = doubt
  BY DEF ClearMemory, slots
<1>2. user # Nobody
  BY <1>1, Somebody
<1>3. Onward("refill") /\ PeopleType' /\ TaskType'
  BY <1>1, <1>2, OnwardFacts DEF UserPlaces
<1>4. CacheType'
  BY <1>1, <1>3, RememberType, Memory DEF Type, CacheType, Onward
<1> QED BY <1>1, <1>3, <1>4 DEF Type

\* A fill is started, and everybody is told.
LEMMA RefillEffect ==
    ASSUME Type, Refill
    PROVE  /\ Type' /\ Calm /\ SameCache /\ SameClaims /\ SameMade /\ SameGhosts
           /\ upload' = upload
           /\ user # Nobody /\ user.op = "reset" /\ user.at = "refill" /\ user' = Nobody
<1>1. /\ SameCache /\ SameClaims /\ SameMade /\ SameGhosts /\ upload' = upload
      /\ user.op = "reset" /\ user.at = "refill" /\ user' = Nobody
      /\ task' = Told(StartFill(task, user.key))
  BY DEF Refill, Emit, SameCache, SameClaims, SameMade, SameGhosts, slots, tier, ghosts
<1>2. user # Nobody
  BY <1>1, Somebody
<1>3. CacheType' /\ PeopleType' /\ user.key \in Keys /\ user.key \in Tasks
  BY <1>1, <1>2 DEF Type, CacheType, PeopleType, SameCache, Resets, Renames, Tasks
<1> DEFINE k == user.key  tasks == StartFill(task, k)
<1>4. CASE Idle(k)
  <2> DEFINE fill == [Asleep(k) EXCEPT !.at = "get"]
  <2>1. fill \in TaskStates /\ fill.at = "get" /\ fill.key = k
    <3>1. "get" \in Places
      BY DEF Places
    <3> QED BY <1>3, <3>1, AsleepType
  <2>2. tasks = [task EXCEPT ![k] = fill]
    BY <1>4 DEF StartFill
  <2> HIDE DEF fill
  <2>3. /\ tasks \in [Tasks -> TaskStates]
        /\ \A u \in Tasks \ {k} : tasks[u] = task[u]
        /\ tasks[k] = fill
    BY <1>3, <2>1, <2>2 DEF Type, TaskType
  <2> HIDE DEF tasks
  <2>4. /\ task' \in [Tasks -> TaskStates]
        /\ \A u \in Tasks \ {k} : Same(u)
        /\ task'[k].at = "get" /\ task'[k].key = k /\ task[k].at = "idle"
    BY <1>1, <1>3, <1>4, <2>1, <2>3, ToldFacts DEF Same, Idle, tasks
  <2>5. TaskType' /\ Calm
    BY <1>3, <2>4 DEF Type, TaskType, Calm, Same, Busy, Publishing, Storing
  <2> QED BY <1>1, <1>2, <1>3, <2>5 DEF Type
<1>5. CASE ~Idle(k)
  <2>1. task' = Told(task)
    BY <1>1, <1>5 DEF StartFill
  <2>2. TaskType' /\ Calm
    BY <2>1, ToldFacts DEF Type, TaskType, Calm, Same
  <2> QED BY <1>1, <1>2, <1>3, <2>2 DEF Type
<1> QED BY <1>4, <1>5

\* A slot moves from the old name to the new one, or nothing does.
LEMMA MovedFacts ==
    ASSUME NEW f \in [Keys -> Nat], user.key \in Keys, user.to \in Keys, user.key # user.to
    PROVE  /\ Moved(f, None) \in [Keys -> Nat]
           /\ \A k \in Keys \ {user.key, user.to} : Moved(f, None)[k] = f[k]
           /\ \/ Moved(f, None) = f
              \/ /\ f[user.key] # None /\ Moved(f, None) # f
                 /\ Moved(f, None)[user.key] = None
                 /\ Moved(f, None)[user.to] = f[user.key]
<1>1. CASE f[user.key] = None \/ refusing
  BY <1>1 DEF Moved
<1>2. CASE ~(f[user.key] = None \/ refusing)
  <2>1. Moved(f, None) = [f EXCEPT ![user.key] = None, ![user.to] = f[user.key]]
    BY <1>2 DEF Moved
  <2> QED BY <1>2, <2>1 DEF None
<1> QED BY <1>1, <1>2

\* A rename begins: the old name is to hold nothing.
LEMMA StartRenameEffect ==
    ASSUME Type, NEW o \in Keys, NEW n \in Keys, StartRename(o, n)
    PROVE  /\ Type' /\ Calm /\ SameCache /\ SameClaims /\ SameMade
           /\ upload' = upload /\ doubt' = doubt /\ past' = past /\ user = Nobody
           /\ user' # Nobody /\ user'.op = "rename" /\ user'.key = o
           /\ held' = held \ {o}
<1>1. TaskType' /\ Calm
  BY TasksUnchanged DEF StartRename, Type
<1>2. PICK where \in {"purge", "pin", "move pin"} :
         /\ SameCache /\ SameClaims /\ SameMade /\ upload' = upload /\ doubt' = doubt
         /\ past' = past /\ user = Nobody /\ held' = held \ {o} /\ o # n
         /\ user' = [op |-> "rename", key |-> o, to |-> n, at |-> where]
  BY DEF StartRename, Begin, SameCache, SameClaims, SameMade, slots, tier
<1>3. user' \in Renames /\ user'.key # user'.to /\ user'.op = "rename" /\ user'.key = o
  BY <1>2 DEF Renames, UserPlaces
<1>4. user' # Nobody
  BY <1>2 DEF Nobody
<1>5. CacheType' /\ PeopleType'
  BY <1>2, <1>3 DEF Type, CacheType, PeopleType, SameCache
<1> QED BY <1>1, <1>2, <1>3, <1>4, <1>5 DEF Type

\* All slots of the old name go.
LEMMA PurgeOldEffect ==
    ASSUME Type, PurgeOld
    PROVE  /\ Type' /\ Onward("forget") /\ user.op = "rename"
           /\ pin' = Cleared(pin, user.key, None) /\ auto' = Cleared(auto, user.key, None)
           /\ mem' = mem /\ SameGhosts
<1>1. /\ user.op = "rename" /\ Goes("forget") /\ UNCHANGED task
      /\ pin' = Cleared(pin, user.key, None) /\ auto' = Cleared(auto, user.key, None)
      /\ mem' = mem /\ SameGhosts
  BY DEF PurgeOld, Renaming, SameGhosts, ghosts
<1>2. user # Nobody
  BY <1>1, Somebody
<1>3. Onward("forget") /\ PeopleType' /\ TaskType'
  BY <1>1, <1>2, OnwardFacts DEF UserPlaces
<1>4. CacheType'
  BY <1>1 DEF Type, CacheType, Set, Cleared, Unless, None
<1> QED BY <1>1, <1>3, <1>4 DEF Type

\* The pin goes to the new name.
LEMMA MovePinEffect ==
    ASSUME Type, MovePin
    PROVE  /\ Type' /\ (Onward("old slots") \/ Onward("move auto")) /\ user.op = "rename"
           /\ pin' = Moved(pin, None) /\ auto' = auto /\ mem' = mem /\ doubt' = doubt
           /\ past' = past \ {<<pin[user.key], user.to>>}
           /\ held' = HeldIf(pin' # pin)
<1>1. PICK where \in {"old slots", "move auto"} :
         /\ user.op = "rename" /\ Goes(where) /\ UNCHANGED task
         /\ pin' = Moved(pin, None) /\ auto' = auto /\ mem' = mem /\ doubt' = doubt
         /\ past' = past \ {<<pin[user.key], user.to>>} /\ held' = HeldIf(pin' # pin)
  BY DEF MovePin, Renaming
<1>2. user # Nobody
  BY <1>1, Somebody
<1>3. Onward(where) /\ PeopleType' /\ TaskType'
  BY <1>1, <1>2, OnwardFacts DEF UserPlaces
<1>4. CacheType'
  BY <1>1, <1>3, MovedFacts DEF Type, CacheType, Onward
<1> QED BY <1>1, <1>3, <1>4 DEF Type

\* The automatic image of the old name goes.
LEMMA DropOldSlotsEffect ==
    ASSUME Type, DropOldSlots
    PROVE  /\ Type' /\ Onward("forget") /\ user.op = "rename"
           /\ pin' = pin /\ auto' = Cleared(auto, user.key, None)
           /\ mem' = mem /\ SameGhosts
<1>1. /\ user.op = "rename" /\ Goes("forget") /\ UNCHANGED task
      /\ pin' = pin /\ auto' = Cleared(auto, user.key, None)
      /\ mem' = mem /\ SameGhosts
  BY DEF DropOldSlots, Renaming, SameGhosts, ghosts
<1>2. user # Nobody
  BY <1>1, Somebody
<1>3. Onward("forget") /\ PeopleType' /\ TaskType'
  BY <1>1, <1>2, OnwardFacts DEF UserPlaces
<1>4. CacheType'
  BY <1>1 DEF Type, CacheType, Set, Cleared, Unless, None
<1> QED BY <1>1, <1>3, <1>4 DEF Type

\* The automatic image goes to the new name.
LEMMA MoveAutoEffect ==
    ASSUME Type, MoveAuto
    PROVE  /\ Type' /\ Onward("move strand") /\ user.op = "rename"
           /\ pin' = pin /\ auto' = Moved(auto, None) /\ mem' = mem
           /\ past' = past \ {<<auto[user.key], user.to>>}
           /\ held' = HeldIf(auto' # auto) /\ doubt \subseteq doubt'
           /\ ComesBack(auto[user.key], user.to) => <<"taken back", user.to>> \in doubt'
<1>1. /\ user.op = "rename" /\ Goes("move strand") /\ UNCHANGED task
      /\ pin' = pin /\ auto' = Moved(auto, None) /\ mem' = mem
      /\ past' = past \ {<<auto[user.key], user.to>>}
      /\ held' = HeldIf(auto' # auto) /\ doubt \subseteq doubt'
      /\ ComesBack(auto[user.key], user.to) => <<"taken back", user.to>> \in doubt'
  BY DEF MoveAuto, Renaming, Doubt, DoubtIf
<1>2. user # Nobody
  BY <1>1, Somebody
<1>3. Onward("move strand") /\ PeopleType' /\ TaskType'
  BY <1>1, <1>2, OnwardFacts DEF UserPlaces
<1>4. CacheType'
  BY <1>1, <1>3, MovedFacts DEF Type, CacheType, Onward
<1> QED BY <1>1, <1>3, <1>4 DEF Type

\* The strand goes to the new name.
LEMMA MoveStrandEffect ==
    ASSUME Type, MoveStrand
    PROVE  /\ Type' /\ Onward("forget") /\ user.op = "rename"
           /\ pin' = pin /\ auto' = auto
           /\ \/ mem' = mem /\ held' = held /\ ~Remembered(user.key)
              \/ /\ Remembered(user.key) /\ mem' = Remember(user.to, mem[user.key])
                 /\ held' \subseteq held \union {user.to}
           /\ past' = past \ {<<mem[user.key].img, user.to>>}
           /\ doubt \subseteq doubt'
           /\ ComesBack(mem[user.key].img, user.to) => <<"taken back", user.to>> \in doubt'
<1>1. /\ user.op = "rename" /\ Goes("forget") /\ UNCHANGED task
      /\ pin' = pin /\ auto' = auto
      /\ mem' = IF Remembered(user.key) THEN Remember(user.to, mem[user.key]) ELSE mem
      /\ held' = HeldIf(mem' # mem)
      /\ past' = past \ {<<mem[user.key].img, user.to>>}
      /\ doubt \subseteq doubt'
      /\ ComesBack(mem[user.key].img, user.to) => <<"taken back", user.to>> \in doubt'
  BY DEF MoveStrand, Renaming, DoubtIf, slots
<1>2. user # Nobody
  BY <1>1, Somebody
<1>3. Onward("forget") /\ PeopleType' /\ TaskType'
  BY <1>1, <1>2, OnwardFacts DEF UserPlaces
<1>4. CacheType'
  <2>1. CASE ~Remembered(user.key)
    BY <1>1, <2>1 DEF Type, CacheType
  <2>2. CASE Remembered(user.key)
    <3>1. Sound(mem[user.key]) /\ user.to \in Keys
      BY <1>1, <1>3 DEF Type, CacheType, Sound, Onward
    <3>2. mem' = Remember(user.to, mem[user.key])
      BY <1>1, <2>2
    <3> QED BY <1>1, <3>1, <3>2, RememberType DEF Type, CacheType
  <2> QED BY <2>1, <2>2
<1>5. \/ mem' = mem /\ held' = held /\ ~Remembered(user.key)
      \/ /\ Remembered(user.key) /\ mem' = Remember(user.to, mem[user.key])
         /\ held' \subseteq held \union {user.to}
  BY <1>1 DEF HeldIf
<1> QED BY <1>1, <1>3, <1>4, <1>5 DEF Type

\* Nothing is left under the old name.
LEMMA ForgetOldEffect ==
    ASSUME Type, ForgetOld
    PROVE  /\ Type' /\ Calm /\ SameClaims /\ SameMade /\ upload' = upload
           /\ user # Nobody /\ user.op = "rename" /\ user.key \in Keys /\ user' = Nobody
           /\ pin' = pin /\ auto' = auto /\ mem' = Remember(user.key, Absent)
           /\ past' = past /\ doubt' = doubt /\ held' = held \ {user.key}
<1>1. /\ SameClaims /\ SameMade /\ upload' = upload
      /\ user.op = "rename" /\ user' = Nobody /\ Emit(task)
      /\ pin' = pin /\ auto' = auto /\ mem' = Remember(user.key, Absent)
      /\ past' = past /\ doubt' = doubt /\ held' = held \ {user.key}
  BY DEF ForgetOld, Renaming, SameClaims, SameMade, slots
<1>2. user # Nobody
  BY <1>1, Somebody
<1>3. TaskType' /\ Calm
  BY <1>1, TellingIsCalm DEF Type
<1>4. user.key \in Keys
  BY <1>1, <1>2 DEF Type, PeopleType, Resets, Renames
<1>5. CacheType' /\ PeopleType'
  BY <1>1, <1>4, RememberType, Memory DEF Type, CacheType, PeopleType
<1> QED BY <1>1, <1>2, <1>3, <1>4, <1>5 DEF Type

-----------------------------------------------------------------------------
(* The steps that matter, one by one.                                      *)

\* A step of a reader or of a lookup that holds an image to be written.
Writes(t) == \/ BeginWriteBack(t) \/ Publish(t) \/ PublishRefused(t) \/ Release(t) \/ TakeBack(t)
             \/ Resolve(t) \/ StorePositive(t) \/ StoreRefused(t)
\* A step of a request that changes the cache by hand.
ByHand == \/ \E k \in Keys : StartUpload(k) \/ StartReset(k)
          \/ \E o, n \in Keys : StartRename(o, n)
          \/ WriteOverride \/ ResetPin \/ ResetPinRefused \/ ClearSlots \/ ClearMemory
          \/ Refill \/ PurgeOld \/ MovePin \/ DropOldSlots \/ MoveAuto \/ MoveStrand
          \/ ForgetOld

\* A step leaves the cache and its writers alone, or forgets a strand, or is a
\* writer's or a person's.
LEMMA Steps ==
    ASSUME Type, [Next]_vars
    PROVE  \/ Type' /\ CalmStep
           \/ Type' /\ Forgets
           \/ \E t \in Tasks : Writes(t)
           \/ ByHand
<1>1. ASSUME NEW t \in Tasks, Get(t)
      PROVE  (Type' /\ CalmStep) \/ Writes(t)
  BY <1>1, LookEffect, LookInMemoryEffect DEF Get, Writes
<1>2. ASSUME NEW t \in Workers, Lookup(t)
      PROVE  t \in Tasks /\ ((Type' /\ Forgets) \/ Writes(t))
  BY <1>2, StoreNegativeEffect, StoredEffect DEF Lookup, Writes, Workers
<1>3. ASSUME NEW k \in Keys, EndFill(k) PROVE Type' /\ CalmStep
  BY <1>3, EndFillEffect
<1>4. ASSUME NEW r \in Pages, PageStep(r) PROVE Type' /\ CalmStep
  BY <1>4, PageEffect
<1>5. ASSUME Notify \/ SweepStep PROVE Type' /\ CalmStep
  BY <1>5, NotifyEffect, StartSweepEffect, EndSweepEffect DEF SweepStep
<1>6. ASSUME PeopleStep PROVE ByHand
  BY <1>6 DEF PeopleStep, ByHand
<1>7. ASSUME Environment PROVE Type' /\ (CalmStep \/ Forgets)
  <2>1. CASE Refuse \/ Recover \/ \E k \in Keys : Expire(k)
    BY <2>1, DirectoryEffect
  <2>2. CASE \E k \in Keys : ExpireInMemory(k)
    BY <2>2, ExpireInMemoryEffect
  <2> QED BY <1>7, <2>1, <2>2 DEF Environment
<1>8. ASSUME UNCHANGED vars PROVE Type' /\ CalmStep
  <2>1. Still /\ UNCHANGED task
    BY <1>8 DEF vars, slots, tier, people, counts, ghosts, Still, SameCache, SamePeople, SameGhosts,
         SameClaims, SameMade
  <2> QED BY <2>1, StillTypes, TasksUnchanged DEF Type, CalmStep
<1> QED BY <1>1, <1>2, <1>3, <1>4, <1>5, <1>6, <1>7, <1>8 DEF Next

-----------------------------------------------------------------------------
(* The images: each is made once, and what is to be stored is nowhere yet. *)

Made == 1 .. made
CountInv ==
    /\ made \in Nat
    /\ \A k \in Keys : pin[k] <= made /\ auto[k] <= made /\ mem[k].img <= made
    /\ past \subseteq Made \X Keys
    /\ upload # Nobody => upload.img \in Made
    /\ \A t \in Tasks : Busy(t) => task[t].img \in Made

Unseen(i) == /\ \A k \in Keys : pin[k] # i /\ auto[k] # i /\ mem[k].img # i /\ <<i, k>> \notin past
             /\ \A t \in Tasks : Publishing(t) => task[t].img # i
FreshInv ==
    /\ \A t \in Tasks : Storing(t) => Unseen(task[t].img)
    /\ \A t, u \in Tasks : Storing(t) /\ Storing(u) /\ t # u => task[t].img # task[u].img
    /\ upload # Nobody => /\ Unseen(upload.img)
                          /\ \A t \in Tasks : Storing(t) => task[t].img # upload.img

\* What is in a place of the cache is an image made before.
LEMMA ImagesMade ==
    ASSUME Type, CountInv, NEW k \in Keys
    PROVE  Images(k) \subseteq Made
<1>1. \A i \in Nat : i <= made /\ i # None => i \in Made
  BY DEF CountInv, Made, None
<1> QED BY <1>1 DEF Images, Type, CacheType, Memories, CountInv

\* Where nothing is written no image comes in.
LEMMA CountCalm ==
    ASSUME Type, CountInv, CalmStep \/ Forgets
    PROVE  CountInv'
<1>1. \A t \in Tasks : Busy(t)' => Busy(t) /\ task'[t].img = task[t].img
  BY DEF CalmStep, Forgets, Calm, Same, Busy, Publishing, Storing
<1>2. CASE CalmStep
  BY <1>1, <1>2 DEF CountInv, CalmStep, Still, SameCache, SamePeople, SameGhosts, SameMade, Made
<1>3. CASE Forgets
  <2>1. \A k \in Keys : mem'[k].img <= made
    <3>1. CASE mem' = mem
      BY <3>1 DEF CountInv
    <3>2. ASSUME NEW k \in Keys, NEW what \in {Absent, Negative}, mem' = Remember(k, what)
          PROVE  \A n \in Keys : mem'[n].img <= made
      <4>1. \A n \in Keys : mem'[n] = IF n = k THEN what ELSE mem[n]
        BY <3>2 DEF Remember, Set, Type, CacheType
      <4> QED BY <4>1, Memory DEF CountInv, None
    <3> QED BY <1>3, <3>1, <3>2 DEF Forgets
  <2> QED BY <1>1, <1>3, <2>1 DEF CountInv, Forgets, SamePeople, SameMade, Made
<1> QED BY <1>2, <1>3

\* A task that moves holds an image made before, if any.
LEMMA MovesCount ==
    ASSUME CountInv, NEW t \in Tasks, NEW where, NEW i, Moves(t, where, i),
           i \in Made \/ where \notin {"publish", "bytes", "release", "take back", "store", "store bytes"}
    PROVE  \A u \in Tasks : Busy(u)' => task'[u].img \in Made
BY DEF CountInv, Moves, Same, Busy, Publishing, Storing

\* Images stay made, if what the places hold was made before.
LEMMA CountKept ==
    ASSUME CountInv, SameMade, SamePeople, past' = past,
           \A u \in Tasks : Busy(u)' => task'[u].img \in Made,
           \A k \in Keys : pin'[k] <= made /\ auto'[k] <= made /\ mem'[k].img <= made
    PROVE  CountInv'
BY DEF CountInv, SameMade, SamePeople, Made

\* A writer's step makes an image or brings none that is new.
LEMMA CountWrites ==
    ASSUME Type, CountInv, NEW t \in Tasks, Writes(t)
    PROVE  CountInv'
<1>0. Busy(t) => task[t].img \in Made /\ task[t].img # None /\ task[t].img <= made
  BY DEF CountInv, Made, None
<1>1. CASE BeginWriteBack(t)
  <2>1. SameCache /\ SamePeople /\ SameGhosts /\ SameMade
    BY <1>1, BeginWriteBackEffect
  <2>2. \A u \in Tasks : Busy(u)' => task'[u].img \in Made
    <3>1. CASE Calm
      BY <3>1 DEF Calm, Same, CountInv, Busy, Publishing, Storing
    <3>2. CASE Moves(t, "publish", task[t].img) /\ task[t].key \in Keys /\ mem[task[t].key] = Strand(task[t].img)
      <4>1. task[t].img \in Nat /\ task[t].img <= made /\ task[t].img # None
        BY <3>2, Memory DEF Type, CacheType, Memories, CountInv
      <4>2. task[t].img \in Made
        BY <4>1 DEF CountInv, None, Made
      <4> QED BY <3>2, <4>2, MovesCount
    <3> QED BY <1>1, <3>1, <3>2, BeginWriteBackEffect
  <2> QED BY <2>1, <2>2, CountKept DEF CountInv, SameCache, SameGhosts
<1>2. CASE Publish(t)
  <2>1. pin' = pin /\ mem' = mem /\ past' = past /\ SamePeople /\ SameMade /\ Busy(t)
    BY <1>2, PublishEffect DEF Busy, Publishing
  <2>2. \A u \in Tasks : Busy(u)' => task'[u].img \in Made
    BY <1>0, <1>2, <2>1, PublishEffect, MovesCount
  <2>3. \A k \in Keys : auto'[k] <= made
    <3>1. auto' = auto \/ auto' = Set(auto, task[t].key, task[t].img)
      BY <1>2, PublishEffect
    <3> QED BY <1>0, <2>1, <3>1 DEF CountInv, Set, Type, CacheType
  <2> QED BY <2>1, <2>2, <2>3, CountKept DEF CountInv
<1>3. CASE PublishRefused(t)
  <2>1. SameCache /\ SamePeople /\ SameGhosts /\ SameMade
    BY <1>3, PublishRefusedEffect
  <2>2. \A u \in Tasks : Busy(u)' => task'[u].img \in Made
    BY <1>3, PublishRefusedEffect, MovesCount
  <2> QED BY <2>1, <2>2, CountKept DEF CountInv, SameCache, SameGhosts
<1>4. CASE Release(t)
  <2>1. pin' = pin /\ auto' = auto /\ past' = past /\ SamePeople /\ SameMade /\ Busy(t)
    BY <1>4, ReleaseEffect DEF Busy, Publishing
  <2>2. \A u \in Tasks : Busy(u)' => task'[u].img \in Made
    BY <1>0, <1>4, <2>1, ReleaseEffect, MovesCount
  <2>3. \A k \in Keys : mem'[k].img <= made
    <3>1. mem' = mem \/ mem' = Remember(task[t].key, Absent)
      BY <1>4, ReleaseEffect
    <3> QED BY <3>1, Memory DEF CountInv, Remember, Set, Type, CacheType, None
  <2> QED BY <2>1, <2>2, <2>3, CountKept DEF CountInv
<1>5. CASE TakeBack(t)
  <2>1. /\ pin' = pin /\ mem' = mem /\ past' = past /\ SamePeople /\ SameMade
        /\ auto' = Unless(refusing, auto, task[t].key, None)
    BY <1>5, TakeBackEffect
  <2>2. \A u \in Tasks : Busy(u)' => task'[u].img \in Made
    BY <1>5, TakeBackEffect, MovesCount
  <2>3. \A k \in Keys : auto'[k] <= made
    BY <2>1 DEF CountInv, Unless, Set, Type, CacheType, None
  <2> QED BY <2>1, <2>2, <2>3, CountKept DEF CountInv
<1>6. CASE Resolve(t)
  <2>0. made \in Nat
    BY DEF CountInv
  <2>1. CASE Calm /\ SameMade
    <3>1. SameCache /\ SamePeople /\ SameGhosts
      BY <1>6, <2>0, ResolveEffect
    <3>2. \A u \in Tasks : Busy(u)' => task'[u].img \in Made
      BY <2>1 DEF CountInv, Calm, Same, Busy, Publishing, Storing
    <3> QED BY <2>1, <3>1, <3>2, CountKept DEF CountInv, SameCache, SameGhosts
  <2>2. CASE Moves(t, "store", made + 1) /\ made' = made + 1
    <3>1. SameCache /\ SamePeople /\ SameGhosts
      BY <1>6, <2>0, ResolveEffect
    <3>2. \A i \in Nat : i <= made => i <= made + 1
      BY <2>0
    <3>3. Made \subseteq Made' /\ made + 1 \in Made'
      BY <2>0, <2>2 DEF Made
    <3>4. \A u \in Tasks : Busy(u)' => task'[u].img \in Made'
      BY <2>2, <3>3 DEF CountInv, Moves, Same, Busy, Publishing, Storing
    <3>5. \A k \in Keys : pin[k] <= made + 1 /\ auto[k] <= made + 1 /\ mem[k].img <= made + 1
      BY <3>2 DEF CountInv, Type, CacheType, Memories
    <3>6. past' \subseteq Made' \X Keys /\ (upload' # Nobody => upload'.img \in Made')
      BY <3>1, <3>3 DEF CountInv, SamePeople, SameGhosts
    <3> QED BY <2>0, <2>2, <3>1, <3>4, <3>5, <3>6 DEF CountInv, SameCache
  <2> QED BY <1>6, <2>0, <2>1, <2>2, ResolveEffect
<1>7. CASE StorePositive(t)
  <2>1. pin' = pin /\ mem' = mem /\ past' = past /\ SamePeople /\ SameMade /\ Busy(t)
    BY <1>7, StorePositiveEffect DEF Busy, Storing
  <2>2. \A u \in Tasks : Busy(u)' => task'[u].img \in Made
    BY <1>0, <1>7, <2>1, StorePositiveEffect, MovesCount
  <2>3. \A k \in Keys : auto'[k] <= made
    <3>1. auto' = auto \/ auto' = Set(auto, task[t].key, task[t].img)
      BY <1>7, StorePositiveEffect
    <3> QED BY <1>0, <2>1, <3>1 DEF CountInv, Set, Type, CacheType
  <2> QED BY <2>1, <2>2, <2>3, CountKept DEF CountInv
<1>8. CASE StoreRefused(t)
  <2>0. Busy(t)
    BY <1>8 DEF StoreRefused, Busy, Storing
  <2>1. /\ pin' = pin /\ auto' = auto /\ past' = past /\ SamePeople /\ SameMade
        /\ mem' = mem \/ mem' = Remember(task[t].key, Strand(task[t].img))
    BY <1>0, <1>8, <2>0, StoreRefusedEffect
  <2>2. \A u \in Tasks : Busy(u)' => task'[u].img \in Made
    BY <1>0, <1>8, <2>0, StoreRefusedEffect, MovesCount
  <2>3. \A k \in Keys : mem'[k].img <= made
    BY <1>0, <2>0, <2>1, Memory DEF CountInv, Remember, Set, Type, CacheType
  <2> QED BY <2>1, <2>2, <2>3, CountKept DEF CountInv
<1> QED BY <1>1, <1>2, <1>3, <1>4, <1>5, <1>6, <1>7, <1>8 DEF Writes

\* A calm step gives nobody an image to write.
LEMMA CalmCount ==
    ASSUME CountInv, Calm
    PROVE  \A u \in Tasks : Busy(u)' => task'[u].img \in Made
BY DEF CountInv, Calm, Same, Busy, Publishing, Storing

\* No place of the cache holds anything but what it held, or what another did.
LEMMA CountKeptByHand ==
    ASSUME CountInv, Calm, SameMade, upload' = upload \/ upload' = Nobody,
           past' \subseteq Made \X Keys,
           \A k \in Keys : pin'[k] <= made /\ auto'[k] <= made /\ mem'[k].img <= made
    PROVE  CountInv'
BY CalmCount DEF CountInv, SameMade, Made

\* A person's step makes an image or brings none that is new.
LEMMA CountByHand ==
    ASSUME Type, CountInv, ByHand
    PROVE  CountInv'
<1> USE DEF SameCache, SameGhosts
<1>0. /\ None <= made /\ made \in Nat
      /\ \A k \in Keys : pin[k] <= made /\ auto[k] <= made /\ mem[k].img <= made
      /\ past \subseteq Made \X Keys
      /\ pin \in [Keys -> Nat] /\ auto \in [Keys -> Nat]
  BY DEF CountInv, None, Type, CacheType
<1>1. ASSUME NEW k \in Keys, StartUpload(k) PROVE CountInv'
  <2>1. /\ SameCache /\ SameGhosts /\ made' = made + 1 /\ Calm
        /\ upload'.img = made + 1
    BY <1>0, <1>1, StartUploadEffect
  <2>2. \A i \in Nat : i <= made => i <= made + 1
    BY <1>0
  <2>3. Made \subseteq Made' /\ made + 1 \in Made'
    BY <1>0, <2>1 DEF Made
  <2>4. \A u \in Tasks : Busy(u)' => task'[u].img \in Made'
    BY <2>1, <2>3, CalmCount
  <2>5. \A n \in Keys : pin[n] <= made + 1 /\ auto[n] <= made + 1 /\ mem[n].img <= made + 1
    BY <1>0, <2>2 DEF Type, CacheType, Memories
  <2> QED BY <1>0, <2>1, <2>3, <2>4, <2>5 DEF CountInv
<1>2. ASSUME NEW k \in Keys, StartReset(k) PROVE CountInv'
  <2>1. /\ SameCache /\ SameMade /\ Calm /\ upload' = upload
        /\ past' = past \union (Images(k) \X {k})
    BY <1>2, StartResetEffect
  <2>2. past' \subseteq Made \X Keys
    BY <1>0, <2>1, ImagesMade
  <2> QED BY <1>0, <2>1, <2>2, CountKeptByHand
<1>3. ASSUME NEW o \in Keys, NEW n \in Keys, StartRename(o, n) PROVE CountInv'
  BY <1>0, <1>3, StartRenameEffect, CountKeptByHand
<1>4. CASE WriteOverride
  <2>1. /\ auto' = auto /\ mem' = mem /\ past' = past /\ SameMade /\ Calm
        /\ upload # Nobody /\ upload' = Nobody /\ upload.key \in Keys
        /\ pin' = pin \/ pin' = Set(pin, upload.key, upload.img)
    BY <1>4, WriteOverrideEffect
  <2>2. upload.img <= made
    BY <2>1 DEF CountInv, Made
  <2>3. \A k \in Keys : pin'[k] <= made
    BY <1>0, <2>1, <2>2 DEF Set
  <2> QED BY <1>0, <2>1, <2>3, CountKeptByHand
<1>5. CASE ResetPin
  <2>1. /\ auto' = auto /\ mem' = mem /\ past' = past /\ SameMade /\ Calm /\ upload' = upload
        /\ pin' = Set(pin, user.key, None)
    BY <1>5, ResetPinEffect DEF Onward
  <2>2. \A k \in Keys : pin'[k] <= made
    BY <1>0, <2>1 DEF Set
  <2> QED BY <1>0, <2>1, <2>2, CountKeptByHand
<1>6. CASE ResetPinRefused
  BY <1>0, <1>6, ResetPinRefusedEffect, CountKeptByHand
<1>7. CASE ClearSlots
  <2>1. /\ pin' = pin /\ mem' = mem /\ past' = past /\ SameMade /\ Calm /\ upload' = upload
        /\ auto' = Unless(refusing, auto, user.key, None)
    BY <1>7, ClearSlotsEffect DEF Onward
  <2>2. \A k \in Keys : auto'[k] <= made
    BY <1>0, <2>1 DEF Unless, Set
  <2> QED BY <1>0, <2>1, <2>2, CountKeptByHand
<1>8. CASE ClearMemory \/ ForgetOld
  <2>1. /\ pin' = pin /\ auto' = auto /\ past' = past /\ SameMade /\ Calm /\ upload' = upload
        /\ mem' = Remember(user.key, Absent)
    BY <1>8, ClearMemoryEffect, ForgetOldEffect DEF Onward
  <2>2. \A k \in Keys : mem'[k].img <= made
    BY <1>0, <2>1, Memory DEF Remember, Set, Type, CacheType
  <2> QED BY <1>0, <2>1, <2>2, CountKeptByHand
<1>9. CASE Refill
  BY <1>0, <1>9, RefillEffect, CountKeptByHand
<1>10. CASE PurgeOld \/ DropOldSlots
  <2>1. /\ mem' = mem /\ past' = past /\ SameMade /\ Calm /\ upload' = upload
        /\ pin' = pin \/ pin' = Cleared(pin, user.key, None)
        /\ auto' = Cleared(auto, user.key, None)
    BY <1>10, PurgeOldEffect, DropOldSlotsEffect DEF Onward
  <2>2. \A k \in Keys : pin'[k] <= made /\ auto'[k] <= made
    BY <1>0, <2>1 DEF Cleared, Unless, Set
  <2> QED BY <1>0, <2>1, <2>2, CountKeptByHand
<1>11. CASE MovePin
  <2>1. /\ auto' = auto /\ mem' = mem /\ SameMade /\ Calm /\ upload' = upload
        /\ pin' = Moved(pin, None) /\ past' \subseteq past
        /\ user.key \in Keys /\ user.to \in Keys /\ user.to # user.key
    BY <1>11, MovePinEffect DEF Onward
  <2>2. \A k \in Keys : pin'[k] <= made
    BY <1>0, <2>1, MovedFacts
  <2> QED BY <1>0, <2>1, <2>2, CountKeptByHand
<1>12. CASE MoveAuto
  <2>1. /\ pin' = pin /\ mem' = mem /\ SameMade /\ Calm /\ upload' = upload
        /\ auto' = Moved(auto, None) /\ past' \subseteq past
        /\ user.key \in Keys /\ user.to \in Keys /\ user.to # user.key
    BY <1>12, MoveAutoEffect DEF Onward
  <2>2. \A k \in Keys : auto'[k] <= made
    BY <1>0, <2>1, MovedFacts
  <2> QED BY <1>0, <2>1, <2>2, CountKeptByHand
<1>13. CASE MoveStrand
  <2>1. /\ pin' = pin /\ auto' = auto /\ SameMade /\ Calm /\ upload' = upload
        /\ past' \subseteq past
        /\ user.key \in Keys /\ user.to \in Keys
        /\ mem' = mem \/ mem' = Remember(user.to, mem[user.key])
    BY <1>13, MoveStrandEffect DEF Onward
  <2>2. \A k \in Keys : mem'[k].img <= made
    BY <1>0, <2>1 DEF Remember, Set, Type, CacheType
  <2> QED BY <1>0, <2>1, <2>2, CountKeptByHand
<1> QED BY <1>1, <1>2, <1>3, <1>4, <1>5, <1>6, <1>7, <1>8, <1>9, <1>10, <1>11, <1>12, <1>13
        DEF ByHand

-----------------------------------------------------------------------------
(* The types hold, and so do the counts.                                   *)

\* A writer's step keeps the types.
LEMMA TypeWrites ==
    ASSUME Type, CountInv, NEW t \in Tasks, Writes(t)
    PROVE  Type'
<1>1. made \in Nat
  BY DEF CountInv
<1>2. ASSUME StoreRefused(t) PROVE task[t].img # None
  <2>1. Busy(t)
    BY <1>2 DEF StoreRefused, Busy, Storing
  <2> QED BY <2>1 DEF CountInv, Made, None
<1> QED BY <1>1, <1>2, BeginWriteBackEffect, PublishEffect, PublishRefusedEffect, ReleaseEffect,
           TakeBackEffect, ResolveEffect, StorePositiveEffect, StoreRefusedEffect DEF Writes

\* A person's step keeps the types.
LEMMA TypeByHand ==
    ASSUME Type, CountInv, ByHand
    PROVE  Type'
<1>1. made \in Nat
  BY DEF CountInv
<1> QED BY <1>1, StartUploadEffect, StartResetEffect, StartRenameEffect, WriteOverrideEffect,
           ResetPinEffect, ResetPinRefusedEffect, ClearSlotsEffect, ClearMemoryEffect,
           RefillEffect, PurgeOldEffect, MovePinEffect, DropOldSlotsEffect, MoveAutoEffect,
           MoveStrandEffect, ForgetOldEffect DEF ByHand

\* Every step keeps the types and the counts.
LEMMA TypeNext ==
    ASSUME Type, CountInv, [Next]_vars
    PROVE  Type' /\ CountInv'
BY Steps, TypeWrites, TypeByHand, CountCalm, CountWrites, CountByHand

-----------------------------------------------------------------------------
(* What is to be stored or pinned stays unseen until then.                 *)

\* i is about to be stored or pinned.
Pending(i) == \/ \E t \in Tasks : Storing(t) /\ task[t].img = i
              \/ upload # Nobody /\ upload.img = i

\* What is pending stays unseen, if nobody puts it anywhere and no more is pending.
LEMMA FreshKept ==
    ASSUME FreshInv, CountInv', upload' # Nobody => upload' = upload,
           \A u \in Tasks : Storing(u)' => Storing(u) /\ task'[u].img = task[u].img,
           \A i : Unseen(i) /\ i # None /\ Pending(i)' => Unseen(i)'
    PROVE  FreshInv'
<1>1. ASSUME NEW u \in Tasks, Storing(u)' PROVE Unseen(task[u].img)'
  <2>1. PICK i : i = task'[u].img
    OBVIOUS
  <2>2. i = task[u].img /\ Storing(u) /\ Pending(i)' /\ i # None
    BY <1>1, <2>1 DEF Pending, CountInv, Made, None, Busy
  <2>3. Unseen(i)'
    BY <2>2 DEF FreshInv
  <2> QED BY <2>1, <2>3 DEF Unseen
<1>2. ASSUME upload' # Nobody PROVE Unseen(upload.img)'
  <2>1. PICK i : i = upload'.img
    OBVIOUS
  <2>2. i = upload.img /\ upload # Nobody /\ Pending(i)' /\ i # None
    BY <1>2, <2>1 DEF Pending, CountInv, Made, None
  <2>3. Unseen(i)'
    BY <2>2 DEF FreshInv
  <2> QED BY <2>1, <2>3 DEF Unseen
<1> QED BY <1>1, <1>2 DEF FreshInv

\* What a task that moves holds is where it was, or on its way there.
LEMMA CalmUnseen ==
    ASSUME NEW i, Unseen(i), Calm
    PROVE  \A u \in Tasks : Publishing(u)' => task'[u].img # i
BY DEF Unseen, Calm, Same, Busy, Publishing, Storing

\* A calm step lets nobody begin to publish.
LEMMA CalmPublishing ==
    ASSUME Calm
    PROVE  \A t \in Tasks : Publishing(t)' => Publishing(t) /\ Same(t)
BY DEF Calm, Same, Busy, Publishing, Storing

\* ... nor to store.
LEMMA CalmStoring ==
    ASSUME Calm
    PROVE  \A u \in Tasks : Storing(u)' => Storing(u) /\ task'[u].img = task[u].img
BY DEF Calm, Same, Busy, Publishing, Storing

\* Nor does one that moves what was seen before.
LEMMA MovesUnseen ==
    ASSUME NEW i, Unseen(i), NEW t \in Tasks, NEW where, NEW j, Moves(t, where, j),
           j # i \/ where \notin {"publish", "bytes", "release", "take back"}
    PROVE  \A u \in Tasks : Publishing(u)' => task'[u].img # i
BY DEF Unseen, Moves, Same, Publishing

\* A task that moves does not begin to store.
LEMMA MovesStoring ==
    ASSUME NEW t \in Tasks, NEW where, Moves(t, where, task[t].img),
           where \notin {"store", "store bytes"} \/ Storing(t)
    PROVE  \A u \in Tasks : Storing(u)' => Storing(u) /\ task'[u].img = task[u].img
BY DEF Moves, Same, Storing

\* A place holds what it held, or what it may hold.
LEMMA SlotUnseen ==
    ASSUME NEW i, NEW f \in [Keys -> Nat], \A k \in Keys : f[k] # i,
           NEW n \in Keys, NEW v, v # i
    PROVE  /\ \A k \in Keys : Set(f, n, v)[k] # i
           /\ \A refused : \A k \in Keys : Unless(refused, f, n, v)[k] # i
BY DEF Set, Unless

\* The memory tier holds what it held, or what it may hold.
LEMMA MemoryUnseen ==
    ASSUME CacheType, NEW i, \A k \in Keys : mem[k].img # i,
           NEW n \in Keys, NEW what, what.img # i, mem' = Remember(n, what)
    PROVE  \A k \in Keys : mem'[k].img # i
BY DEF Remember, Set, CacheType

\* Where nothing is written nothing is seen for the first time.
LEMMA FreshCalm ==
    ASSUME Type, CountInv', FreshInv, CalmStep \/ Forgets
    PROVE  FreshInv'
<1>1. Calm /\ SamePeople /\ pin' = pin /\ auto' = auto /\ past' = past
  BY DEF CalmStep, Forgets, Still, SameCache, SameGhosts
<1>2. ASSUME NEW i, Unseen(i), i # None PROVE Unseen(i)'
  <2>1. \A k \in Keys : mem[k].img # i
    BY <1>2 DEF Unseen
  <2>2. \A k \in Keys : mem'[k].img # i
    <3>1. CASE mem' = mem
      BY <2>1, <3>1
    <3>2. ASSUME NEW n \in Keys, NEW what \in {Absent, Negative}, mem' = Remember(n, what)
          PROVE  \A k \in Keys : mem'[k].img # i
      BY <1>2, <2>1, <3>2, MemoryUnseen, Memory DEF Type
    <3> QED BY <3>1, <3>2 DEF CalmStep, Still, SameCache, Forgets
  <2>3. \A u \in Tasks : Publishing(u)' => task'[u].img # i
    BY <1>1, <1>2, CalmUnseen
  <2> QED BY <1>1, <1>2, <2>2, <2>3 DEF Unseen
<1> QED BY <1>1, <1>2, FreshKept, CalmStoring DEF SamePeople

\* What a lookup has stored is not to be stored again.
LEMMA PendingOthers ==
    ASSUME FreshInv, NEW t \in Tasks, Storing(t), NEW where, NEW j, Moves(t, where, j),
           where \notin {"store", "store bytes"}, upload' = upload
    PROVE  \A i : Pending(i)' => i # task[t].img
BY DEF FreshInv, Pending, Moves, Same, Storing

\* A writer puts down what it holds, which nobody else is to put down.
LEMMA FreshWrites ==
    ASSUME Type, CountInv, CountInv', FreshInv, NEW t \in Tasks, Writes(t)
    PROVE  FreshInv'
<1>0. pin \in [Keys -> Nat] /\ auto \in [Keys -> Nat] /\ CacheType /\ made \in Nat
  BY DEF Type, CacheType, CountInv
<1>1. CASE BeginWriteBack(t)
  <2>1. SameCache /\ SamePeople /\ SameGhosts
    BY <1>1, BeginWriteBackEffect
  <2>2. CASE Calm
    BY <2>1, <2>2, FreshKept, CalmStoring, CalmUnseen DEF Unseen, SameCache, SameGhosts, SamePeople
  <2>3. CASE /\ Moves(t, "publish", task[t].img)
             /\ task[t].key \in Keys /\ mem[task[t].key] = Strand(task[t].img)
    <3>1. \A i : Unseen(i) => task[t].img # i
      BY <2>3, Memory DEF Unseen
    <3>2. \A i : Unseen(i) => Unseen(i)'
      BY <2>1, <2>3, <3>1, MovesUnseen DEF Unseen, SameCache, SameGhosts
    <3> QED BY <2>1, <2>3, <3>2, MovesStoring, FreshKept DEF SamePeople
  <2> QED BY <1>1, <2>2, <2>3, BeginWriteBackEffect
<1>2. CASE Publish(t)
  <2>1. /\ pin' = pin /\ mem' = mem /\ past' = past /\ SamePeople /\ Publishing(t)
        /\ task[t].key \in Keys
    BY <1>2, PublishEffect DEF Publishing
  <2>2. \E where \in {"bytes", "release"} : Moves(t, where, task[t].img)
    BY <1>2, PublishEffect
  <2>3. auto' = auto \/ auto' = Set(auto, task[t].key, task[t].img)
    BY <1>2, PublishEffect
  <2>4. ASSUME NEW i, Unseen(i) PROVE Unseen(i)'
    <3>1. task[t].img # i /\ \A k \in Keys : auto[k] # i
      BY <2>1, <2>4 DEF Unseen
    <3>2. \A k \in Keys : auto'[k] # i
      BY <1>0, <2>1, <2>3, <3>1, SlotUnseen
    <3>3. \A u \in Tasks : Publishing(u)' => task'[u].img # i
      BY <2>2, <2>4, <3>1, MovesUnseen
    <3> QED BY <2>1, <2>4, <3>2, <3>3 DEF Unseen
  <2>5. \A u \in Tasks : Storing(u)' => Storing(u) /\ task'[u].img = task[u].img
    BY <2>2, MovesStoring
  <2> QED BY <2>1, <2>4, <2>5, FreshKept DEF SamePeople
<1>3. CASE PublishRefused(t)
  <2>1. SameCache /\ SamePeople /\ SameGhosts /\ Moves(t, "got", task[t].img)
    BY <1>3, PublishRefusedEffect
  <2>2. \A i : Unseen(i) => Unseen(i)'
    BY <2>1, MovesUnseen DEF Unseen, SameCache, SameGhosts
  <2>3. \A u \in Tasks : Storing(u)' => Storing(u) /\ task'[u].img = task[u].img
    BY <2>1, MovesStoring
  <2> QED BY <2>1, <2>2, <2>3, FreshKept DEF SamePeople
<1>4. CASE Release(t)
  <2>1. /\ pin' = pin /\ auto' = auto /\ past' = past /\ SamePeople /\ Publishing(t)
        /\ task[t].key \in Keys
    BY <1>4, ReleaseEffect DEF Publishing
  <2>2. \E where \in {"got", "take back"} : Moves(t, where, task[t].img)
    BY <1>4, ReleaseEffect
  <2>3. mem' = mem \/ mem' = Remember(task[t].key, Absent)
    BY <1>4, ReleaseEffect
  <2>4. ASSUME NEW i, Unseen(i), i # None PROVE Unseen(i)'
    <3>1. task[t].img # i /\ \A k \in Keys : mem[k].img # i
      BY <2>1, <2>4 DEF Unseen
    <3>2. \A k \in Keys : mem'[k].img # i
      BY <1>0, <2>1, <2>3, <2>4, <3>1, MemoryUnseen, Memory
    <3>3. \A u \in Tasks : Publishing(u)' => task'[u].img # i
      BY <2>2, <2>4, <3>1, MovesUnseen
    <3> QED BY <2>1, <2>4, <3>2, <3>3 DEF Unseen
  <2>5. \A u \in Tasks : Storing(u)' => Storing(u) /\ task'[u].img = task[u].img
    BY <2>2, MovesStoring
  <2> QED BY <2>1, <2>4, <2>5, FreshKept DEF SamePeople
<1>5. CASE TakeBack(t)
  <2>1. /\ pin' = pin /\ mem' = mem /\ past' = past /\ SamePeople
        /\ auto' = Unless(refusing, auto, task[t].key, None)
        /\ task[t].key \in Keys /\ Moves(t, "got", task[t].img)
    BY <1>5, TakeBackEffect
  <2>2. ASSUME NEW i, Unseen(i), i # None PROVE Unseen(i)'
    <3>1. \A k \in Keys : auto'[k] # i
      BY <1>0, <2>1, <2>2, SlotUnseen DEF Unseen
    <3>2. \A u \in Tasks : Publishing(u)' => task'[u].img # i
      BY <2>1, <2>2, MovesUnseen
    <3> QED BY <2>1, <2>2, <3>1, <3>2 DEF Unseen
  <2>3. \A u \in Tasks : Storing(u)' => Storing(u) /\ task'[u].img = task[u].img
    BY <2>1, MovesStoring
  <2> QED BY <2>1, <2>2, <2>3, FreshKept DEF SamePeople
<1>6. CASE Resolve(t)
  <2>1. SameCache /\ SamePeople /\ SameGhosts
    BY <1>0, <1>6, ResolveEffect
  <2>2. CASE Calm
    BY <2>1, <2>2, FreshKept, CalmStoring, CalmUnseen DEF Unseen, SameCache, SameGhosts, SamePeople
  <2>3. CASE ~Busy(t) /\ Moves(t, "store", made + 1)
    <3>1. \A i \in Nat : i <= made => i # made + 1
      BY <1>0
    <3>2. Unseen(made + 1)
      BY <1>0, <3>1 DEF Unseen, CountInv, Type, CacheType, Memories, Made, Busy
    <3>3. \A i : Unseen(i) => Unseen(i)'
      BY <2>1, <2>3, MovesUnseen DEF Unseen, SameCache, SameGhosts
    <3>4. \A u \in Tasks \ {t} : Storing(u)' => /\ Storing(u) /\ task'[u].img = task[u].img
                                                /\ task[u].img # made + 1
      <4>1. \A u \in Tasks \ {t} : Storing(u)' => Storing(u) /\ task'[u].img = task[u].img
        BY <2>3 DEF Moves, Same, Storing
      <4>2. \A u \in Tasks : Storing(u) => task[u].img # made + 1
        BY <1>0, <3>1 DEF CountInv, Made, Busy
      <4> QED BY <4>1, <4>2
    <3>5. upload # Nobody => upload.img # made + 1
      BY <1>0, <3>1 DEF CountInv, Made
    <3>6. /\ \A u \in Tasks : Storing(u)' => Unseen(task'[u].img)
          /\ upload' # Nobody => Unseen(upload'.img)
      BY <2>1, <2>3, <3>2, <3>4 DEF FreshInv, SamePeople, Moves
    <3>7. /\ \A u \in Tasks : Storing(u)' => Unseen(task[u].img)'
          /\ upload' # Nobody => Unseen(upload.img)'
      <4>1. ASSUME NEW j, Unseen(j) PROVE \A u \in Tasks : task'[u].img = j => Unseen(task[u].img)'
        BY <3>3, <4>1 DEF Unseen
      <4>2. ASSUME NEW j, Unseen(j) PROVE upload'.img = j => Unseen(upload.img)'
        BY <3>3, <4>2 DEF Unseen
      <4> QED BY <3>6, <4>1, <4>2
    <3>8. \A u, v \in Tasks : Storing(u)' /\ Storing(v)' /\ u # v => task'[u].img # task'[v].img
      BY <2>3, <3>4 DEF FreshInv, Moves
    <3>9. upload' # Nobody => \A u \in Tasks : Storing(u)' => task'[u].img # upload'.img
      BY <2>1, <2>3, <3>4, <3>5 DEF FreshInv, Moves, SamePeople
    <3> QED BY <3>7, <3>8, <3>9 DEF FreshInv
  <2> QED BY <1>0, <1>6, <2>2, <2>3, ResolveEffect
<1>7. CASE StorePositive(t)
  <2>1. /\ pin' = pin /\ mem' = mem /\ past' = past /\ SamePeople /\ Storing(t)
        /\ task[t].key \in Keys
    BY <1>7, StorePositiveEffect DEF Storing
  <2>2. CASE Moves(t, "store bytes", task[t].img) /\ auto' = auto
    <3>1. \A i : Unseen(i) => Unseen(i)'
      BY <2>1, <2>2, MovesUnseen DEF Unseen
    <3> QED BY <2>1, <2>2, <3>1, MovesStoring, FreshKept DEF SamePeople
  <2>3. CASE Moves(t, "stored", task[t].img) /\ auto' = Set(auto, task[t].key, task[t].img)
    <3>1. \A i : Pending(i)' => i # task[t].img
      BY <2>1, <2>3, PendingOthers DEF SamePeople
    <3>2. ASSUME NEW i, Unseen(i), i # task[t].img PROVE Unseen(i)'
      <4>1. \A k \in Keys : auto'[k] # i
        BY <1>0, <2>1, <2>3, <3>2, SlotUnseen DEF Unseen
      <4>2. \A u \in Tasks : Publishing(u)' => task'[u].img # i
        BY <2>3, <3>2, MovesUnseen
      <4> QED BY <2>1, <3>2, <4>1, <4>2 DEF Unseen
    <3>3. \A u \in Tasks : Storing(u)' => Storing(u) /\ task'[u].img = task[u].img
      BY <2>1, <2>3, MovesStoring
    <3> QED BY <2>1, <3>1, <3>2, <3>3, FreshKept DEF SamePeople
  <2> QED BY <1>7, <2>2, <2>3, StorePositiveEffect
<1>8. CASE StoreRefused(t)
  <2>1. Storing(t) /\ task[t].img # None
    <3>1. Storing(t)
      BY <1>8 DEF StoreRefused, Storing
    <3> QED BY <3>1 DEF CountInv, Made, None, Busy
  <2>2. /\ pin' = pin /\ auto' = auto /\ past' = past /\ SamePeople
        /\ task[t].key \in Keys /\ Moves(t, "done", task[t].img)
        /\ mem' = mem \/ mem' = Remember(task[t].key, Strand(task[t].img))
    BY <1>8, <2>1, StoreRefusedEffect
  <2>3. \A i : Pending(i)' => i # task[t].img
    BY <2>1, <2>2, PendingOthers DEF SamePeople
  <2>4. ASSUME NEW i, Unseen(i), i # task[t].img PROVE Unseen(i)'
    <3>1. \A k \in Keys : mem'[k].img # i
      <4>1. \A k \in Keys : mem[k].img # i
        BY <2>4 DEF Unseen
      <4>2. CASE mem' = Remember(task[t].key, Strand(task[t].img))
        <5>1. Strand(task[t].img).img # i
          BY <2>4, Memory
        <5> QED BY <1>0, <2>2, <4>1, <4>2, <5>1, MemoryUnseen
      <4> QED BY <2>2, <4>1, <4>2
    <3>2. \A u \in Tasks : Publishing(u)' => task'[u].img # i
      BY <2>2, <2>4, MovesUnseen
    <3> QED BY <2>2, <2>4, <3>1, <3>2 DEF Unseen
  <2>5. \A u \in Tasks : Storing(u)' => Storing(u) /\ task'[u].img = task[u].img
    BY <2>1, <2>2, MovesStoring
  <2> QED BY <2>2, <2>3, <2>4, <2>5, FreshKept DEF SamePeople
<1> QED BY <1>1, <1>2, <1>3, <1>4, <1>5, <1>6, <1>7, <1>8 DEF Writes

Nowhere(i) == \A k \in Keys : pin[k] # i /\ auto[k] # i /\ mem[k].img # i /\ <<i, k>> \notin past
\* What people do moves images about, and empties places.
LEMMA FreshShuffle ==
    ASSUME FreshInv, CountInv', Calm, upload' # Nobody => upload' = upload,
           \A i : Nowhere(i) /\ i # None /\ Pending(i)' => Nowhere(i)'
    PROVE  FreshInv'
<1>1. ASSUME NEW i, Unseen(i), i # None, Pending(i)' PROVE Unseen(i)'
  <2>1. Nowhere(i)'
    BY <1>1 DEF Unseen, Nowhere
  <2> QED BY <1>1, <2>1, CalmUnseen DEF Unseen, Nowhere
<1> QED BY <1>1, FreshKept, CalmStoring

\* A person puts down the upload, or what was seen before.
LEMMA FreshByHand ==
    ASSUME Type, CountInv, CountInv', FreshInv, ByHand
    PROVE  FreshInv'
<1> USE DEF SameCache, SameGhosts
<1>0. pin \in [Keys -> Nat] /\ auto \in [Keys -> Nat] /\ CacheType /\ made \in Nat
  BY DEF Type, CacheType, CountInv
<1>1. ASSUME NEW k \in Keys, StartUpload(k) PROVE FreshInv'
  <2>1. /\ SameCache /\ SameGhosts /\ Calm /\ upload' # Nobody /\ upload'.img = made + 1
    BY <1>0, <1>1, StartUploadEffect
  <2>2. \A i \in Nat : i <= made => i # made + 1
    BY <1>0
  <2>3. Unseen(made + 1)
    BY <1>0, <2>2 DEF Unseen, CountInv, Type, CacheType, Memories, Made, Busy
  <2>4. \A u \in Tasks : Storing(u) => task[u].img # made + 1
    BY <1>0, <2>2 DEF CountInv, Made, Busy
  <2>5. \A u \in Tasks : Storing(u)' => Storing(u) /\ task'[u].img = task[u].img
    BY <2>1, CalmStoring
  <2>6. \A i : Unseen(i) => Unseen(i)'
    BY <2>1, CalmUnseen DEF Unseen
  <2>7. ASSUME NEW j, Unseen(j)
        PROVE  /\ \A u \in Tasks : task'[u].img = j => Unseen(task[u].img)'
               /\ upload'.img = j => Unseen(upload.img)'
    BY <2>6, <2>7 DEF Unseen
  <2>8. \A u \in Tasks : Storing(u)' => Unseen(task[u].img)'
    BY <2>5, <2>7 DEF FreshInv
  <2>9. Unseen(upload.img)'
    BY <2>1, <2>3, <2>7
  <2> QED BY <2>1, <2>4, <2>5, <2>8, <2>9 DEF FreshInv
<1>2. ASSUME NEW k \in Keys, StartReset(k) PROVE FreshInv'
  <2>1. SameCache /\ Calm /\ upload' = upload /\ past' = past \union (Images(k) \X {k})
    BY <1>2, StartResetEffect
  <2>2. \A i : Nowhere(i) => Nowhere(i)'
    BY <2>1 DEF Nowhere, Images
  <2> QED BY <2>1, <2>2, FreshShuffle
<1>3. ASSUME NEW o \in Keys, NEW n \in Keys, StartRename(o, n) PROVE FreshInv'
  <2>1. SameCache /\ Calm /\ upload' = upload /\ past' = past
    BY <1>3, StartRenameEffect
  <2> QED BY <2>1, FreshShuffle DEF Nowhere
<1>4. CASE WriteOverride
  <2>1. /\ auto' = auto /\ mem' = mem /\ past' = past /\ Calm
        /\ upload # Nobody /\ upload' = Nobody /\ upload.key \in Keys
        /\ pin' = pin \/ pin' = Set(pin, upload.key, upload.img)
    BY <1>4, WriteOverrideEffect
  <2>2. \A i : Pending(i)' => i # upload.img
    BY <2>1, CalmStoring DEF FreshInv, Pending
  <2>3. ASSUME NEW i, Nowhere(i), i # upload.img PROVE Nowhere(i)'
    <3>1. \A k \in Keys : pin[k] # i
      BY <2>3 DEF Nowhere
    <3>2. \A k \in Keys : pin'[k] # i
      BY <1>0, <2>1, <2>3, <3>1, SlotUnseen
    <3> QED BY <2>1, <2>3, <3>2 DEF Nowhere
  <2> QED BY <2>1, <2>2, <2>3, FreshShuffle
<1>5. CASE ResetPin
  <2>1. /\ auto' = auto /\ mem' = mem /\ past' = past /\ Calm /\ upload' = upload
        /\ pin' = Set(pin, user.key, None) /\ user.key \in Keys
    BY <1>5, ResetPinEffect DEF Onward
  <2>2. ASSUME NEW i, Nowhere(i), i # None PROVE Nowhere(i)'
    <3>1. \A k \in Keys : pin'[k] # i
      BY <1>0, <2>1, <2>2, SlotUnseen DEF Nowhere
    <3> QED BY <2>1, <2>2, <3>1 DEF Nowhere
  <2> QED BY <2>1, <2>2, FreshShuffle
<1>6. CASE ResetPinRefused
  <2>1. SameCache /\ Calm /\ upload' = upload /\ past' \subseteq past
    BY <1>6, ResetPinRefusedEffect
  <2> QED BY <2>1, FreshShuffle DEF Nowhere
<1>7. CASE ClearSlots
  <2>1. /\ pin' = pin /\ mem' = mem /\ past' = past /\ Calm /\ upload' = upload
        /\ auto' = Unless(refusing, auto, user.key, None) /\ user.key \in Keys
    BY <1>7, ClearSlotsEffect DEF Onward
  <2>2. ASSUME NEW i, Nowhere(i), i # None PROVE Nowhere(i)'
    <3>1. \A k \in Keys : auto'[k] # i
      BY <1>0, <2>1, <2>2, SlotUnseen DEF Nowhere
    <3> QED BY <2>1, <2>2, <3>1 DEF Nowhere
  <2> QED BY <2>1, <2>2, FreshShuffle
<1>8. CASE ClearMemory \/ ForgetOld
  <2>1. /\ pin' = pin /\ auto' = auto /\ past' = past /\ Calm
        /\ upload' = upload /\ mem' = Remember(user.key, Absent) /\ user.key \in Keys
    BY <1>8, ClearMemoryEffect, ForgetOldEffect DEF Onward
  <2>2. ASSUME NEW i, Nowhere(i), i # None PROVE Nowhere(i)'
    <3>0. (\A k \in Keys : mem[k].img # i) /\ Absent.img # i
      BY <2>2, Memory DEF Nowhere
    <3>1. \A k \in Keys : mem'[k].img # i
      BY <1>0, <2>1, <3>0, MemoryUnseen
    <3> QED BY <2>1, <2>2, <3>1 DEF Nowhere
  <2> QED BY <2>1, <2>2, FreshShuffle
<1>9. CASE Refill
  <2>1. SameCache /\ Calm /\ upload' = upload /\ past' = past
    BY <1>9, RefillEffect
  <2> QED BY <2>1, FreshShuffle DEF Nowhere
<1>10. CASE PurgeOld \/ DropOldSlots
  <2>1. /\ mem' = mem /\ past' = past /\ Calm /\ upload' = upload /\ user.key \in Keys
        /\ pin' = pin \/ pin' = Unless(refusing, pin, user.key, None)
        /\ auto' = Unless(refusing, auto, user.key, None)
    BY <1>10, PurgeOldEffect, DropOldSlotsEffect DEF Onward, Cleared
  <2>2. ASSUME NEW i, Nowhere(i), i # None PROVE Nowhere(i)'
    <3>0. \A k \in Keys : auto[k] # i /\ pin[k] # i
      BY <2>2 DEF Nowhere
    <3>1. \A k \in Keys : auto'[k] # i
      BY <1>0, <2>1, <2>2, <3>0, SlotUnseen
    <3>2. \A k \in Keys : pin'[k] # i
      BY <1>0, <2>1, <2>2, <3>0, SlotUnseen
    <3> QED BY <2>1, <2>2, <3>1, <3>2 DEF Nowhere
  <2> QED BY <2>1, <2>2, FreshShuffle
<1>11. CASE MovePin
  <2>1. /\ auto' = auto /\ mem' = mem /\ past' \subseteq past /\ Calm /\ upload' = upload
        /\ pin' = Moved(pin, None)
        /\ user.key \in Keys /\ user.to \in Keys /\ user.key # user.to
    BY <1>11, MovePinEffect DEF Onward
  <2>2. ASSUME NEW i, Nowhere(i), i # None PROVE Nowhere(i)'
    <3>0. /\ \A k \in Keys \ {user.key, user.to} : pin'[k] = pin[k]
          /\ pin' = pin \/ (pin'[user.key] = None /\ pin'[user.to] = pin[user.key])
      BY <1>0, <2>1, MovedFacts
    <3>1. \A k \in Keys : pin'[k] # i
      BY <2>1, <2>2, <3>0 DEF Nowhere
    <3> QED BY <2>1, <2>2, <3>1 DEF Nowhere
  <2> QED BY <2>1, <2>2, FreshShuffle
<1>12. CASE MoveAuto
  <2>1. /\ pin' = pin /\ mem' = mem /\ past' \subseteq past /\ Calm /\ upload' = upload
        /\ auto' = Moved(auto, None)
        /\ user.key \in Keys /\ user.to \in Keys /\ user.key # user.to
    BY <1>12, MoveAutoEffect DEF Onward
  <2>2. ASSUME NEW i, Nowhere(i), i # None PROVE Nowhere(i)'
    <3>0. /\ \A k \in Keys \ {user.key, user.to} : auto'[k] = auto[k]
          /\ auto' = auto \/ (auto'[user.key] = None /\ auto'[user.to] = auto[user.key])
      BY <1>0, <2>1, MovedFacts
    <3>1. \A k \in Keys : auto'[k] # i
      BY <2>1, <2>2, <3>0 DEF Nowhere
    <3> QED BY <2>1, <2>2, <3>1 DEF Nowhere
  <2> QED BY <2>1, <2>2, FreshShuffle
<1>13. CASE MoveStrand
  <2>1. /\ pin' = pin /\ auto' = auto /\ past' \subseteq past /\ Calm /\ upload' = upload
        /\ user.key \in Keys /\ user.to \in Keys
        /\ mem' = mem \/ mem' = Remember(user.to, mem[user.key])
    BY <1>13, MoveStrandEffect DEF Onward
  <2>2. ASSUME NEW i, Nowhere(i), i # None PROVE Nowhere(i)'
    <3>1. \A k \in Keys : mem'[k].img # i
      BY <1>0, <2>1, <2>2, MemoryUnseen DEF Nowhere
    <3> QED BY <2>1, <2>2, <3>1 DEF Nowhere
  <2> QED BY <2>1, <2>2, FreshShuffle
<1> QED BY <1>1, <1>2, <1>3, <1>4, <1>5, <1>6, <1>7, <1>8, <1>9, <1>10, <1>11, <1>12, <1>13
        DEF ByHand

\* Every step leaves unseen what is pending.
LEMMA FreshNext ==
    ASSUME Type, CountInv, FreshInv, [Next]_vars
    PROVE  FreshInv'
<1>1. Type' /\ CountInv'
  BY TypeNext
<1> QED BY <1>1, Steps, FreshCalm, FreshWrites, FreshByHand

-----------------------------------------------------------------------------
(* One reader at a time publishes a strand.                                *)

ClaimInv ==
    /\ \A t \in Tasks : Publishing(t) => task[t].key \in claims
    /\ \A t, u \in Tasks : Publishing(t) /\ Publishing(u) /\ task[t].key = task[u].key => t = u

\* People write nothing back, and claim nothing.
LEMMA ByHandCalm ==
    ASSUME Type, CountInv, ByHand
    PROVE  Calm /\ SameClaims
<1>1. made \in Nat
  BY DEF CountInv
<1> QED BY <1>1, StartUploadEffect, StartResetEffect, StartRenameEffect, WriteOverrideEffect,
           ResetPinEffect, ResetPinRefusedEffect, ClearSlotsEffect, ClearMemoryEffect,
           RefillEffect, PurgeOldEffect, MovePinEffect, DropOldSlotsEffect, MoveAutoEffect,
           MoveStrandEffect, ForgetOldEffect DEF ByHand, Onward

\* A claim is held by one: it is taken when it is free, and given back by its holder.
LEMMA ClaimMoves ==
    ASSUME ClaimInv, NEW t \in Tasks, NEW where, NEW j, Moves(t, where, j),
           \/ Publishing(t) /\ claims' = claims
           \/ where \notin {"publish", "bytes", "release", "take back"} /\ claims' = claims
           \/ /\ where \notin {"publish", "bytes", "release", "take back"}
              /\ Publishing(t) /\ claims' = claims \ {task[t].key}
           \/ task[t].key \notin claims /\ claims' = claims \union {task[t].key}
    PROVE  ClaimInv'
<1>1. \A u \in Tasks : task'[u].key = task[u].key
  BY DEF Moves, Same
<1>2. \A u \in Tasks \ {t} : Publishing(u)' => Publishing(u)
  BY DEF Moves, Same, Publishing
<1>3. Publishing(t)' <=> where \in {"publish", "bytes", "release", "take back"}
  BY DEF Moves, Publishing
<1>4. \A u \in Tasks : Publishing(u)' => task'[u].key \in claims'
  BY <1>1, <1>2, <1>3 DEF ClaimInv
<1>5. \A u \in Tasks \ {t} : Publishing(t)' /\ Publishing(u)' => task'[t].key # task'[u].key
  BY <1>1, <1>2, <1>3 DEF ClaimInv
<1> QED BY <1>1, <1>2, <1>4, <1>5 DEF ClaimInv

\* A calm step touches no claim.
LEMMA ClaimCalm ==
    ASSUME ClaimInv, Calm, SameClaims
    PROVE  ClaimInv'
<1>1. \A u \in Tasks : Publishing(u)' => Publishing(u) /\ task'[u].key = task[u].key
  BY DEF Calm, Same, Busy, Publishing, Storing
<1> QED BY <1>1 DEF ClaimInv, SameClaims

\* A writer publishes under a claim of its own.
LEMMA ClaimWrites ==
    ASSUME Type, CountInv, ClaimInv, NEW t \in Tasks, Writes(t)
    PROVE  ClaimInv'
<1>1. CASE BeginWriteBack(t)
  <2>1. CASE Calm /\ SameClaims
    BY <2>1, ClaimCalm
  <2> QED BY <1>1, <2>1, BeginWriteBackEffect, ClaimMoves
<1>2. CASE Publish(t)
  <2>1. Publishing(t) /\ claims' = claims /\ \E where : Moves(t, where, task[t].img)
    BY <1>2, PublishEffect DEF SameClaims, Publishing
  <2> QED BY <2>1, ClaimMoves
<1>3. CASE PublishRefused(t)
  <2>1. Publishing(t) /\ claims' = claims \ {task[t].key} /\ Moves(t, "got", task[t].img)
    BY <1>3, PublishRefusedEffect DEF Publishing
  <2> QED BY <2>1, ClaimMoves
<1>4. CASE Release(t)
  <2>1. Publishing(t)
    BY <1>4, ReleaseEffect DEF Publishing
  <2>2. \/ claims' = claims \ {task[t].key} /\ Moves(t, "got", task[t].img)
        \/ claims' = claims /\ Moves(t, "take back", task[t].img)
    BY <1>4, ReleaseEffect DEF SameClaims
  <2> QED BY <2>1, <2>2, ClaimMoves
<1>5. CASE TakeBack(t)
  <2>1. Publishing(t) /\ claims' = claims \ {task[t].key} /\ Moves(t, "got", task[t].img)
    BY <1>5, TakeBackEffect DEF Publishing
  <2> QED BY <2>1, ClaimMoves
<1>6. CASE Resolve(t)
  <2>1. SameClaims /\ (Calm \/ Moves(t, "store", made + 1))
    BY <1>6, ResolveEffect DEF CountInv
  <2>2. CASE Calm
    BY <2>1, <2>2, ClaimCalm
  <2>3. CASE Moves(t, "store", made + 1)
    BY <2>1, <2>3, ClaimMoves DEF SameClaims
  <2> QED BY <2>1, <2>2, <2>3
<1>7. CASE StorePositive(t)
  <2>1. claims' = claims /\ \E where \in {"store bytes", "stored"} : Moves(t, where, task[t].img)
    BY <1>7, StorePositiveEffect DEF SameClaims
  <2> QED BY <2>1, ClaimMoves
<1>8. CASE StoreRefused(t)
  <2>1. Storing(t)
    BY <1>8 DEF StoreRefused, Storing
  <2>2. task[t].img # None
    BY <2>1 DEF CountInv, Made, None, Busy
  <2>3. claims' = claims /\ Moves(t, "done", task[t].img)
    BY <1>8, <2>2, StoreRefusedEffect DEF SameClaims
  <2> QED BY <2>3, ClaimMoves
<1> QED BY <1>1, <1>2, <1>3, <1>4, <1>5, <1>6, <1>7, <1>8 DEF Writes

\* Every step leaves one publisher of a key.
LEMMA ClaimNext ==
    ASSUME Type, CountInv, ClaimInv, [Next]_vars
    PROVE  ClaimInv'
<1> QED BY ClaimCalm, Steps, ByHandCalm, ClaimWrites DEF CalmStep, Still, Forgets

-----------------------------------------------------------------------------
(* What a reset is to forget is gone, or is about to go.                   *)

Resetting(k, where) == user.op = "reset" /\ user.key = k /\ user.at \in where
\* A reader has just published i, and has to look at what became of it.
Checks(t, i, k) == task[t].key = k /\ task[t].img = i /\ task[t].at \in {"release", "take back"}
Gone(i, k) ==
    /\ pin[k] = i => Resetting(k, {"pin"})
    /\ auto[k] = i => Resetting(k, {"pin", "auto"}) \/ \E t \in Tasks : Checks(t, i, k)
    /\ mem[k].img = i => Resetting(k, {"pin", "auto", "memory"})
ResetInv == \A k \in Keys, i \in Made : <<i, k>> \in past /\ ~Survives(i) => Gone(i, k)

\* It is enough to look at what a reset is to forget still, and nothing excuses.
LEMMA ResetKept ==
    ASSUME CountInv, ResetInv, doubt \subseteq doubt', past' \subseteq past,
           \A k \in Keys, i \in Made :
                /\ <<i, k>> \in past' /\ <<i, k>> \in past /\ i # None
                /\ ~Survives(i) /\ ~Survives(i)' /\ Gone(i, k)
                => Gone(i, k)'
    PROVE  ResetInv'
<1>1. ASSUME NEW k \in Keys, NEW i, <<i, k>> \in past', ~Survives(i)' PROVE Gone(i, k)'
  <2>1. <<i, k>> \in past /\ i \in Made /\ i # None
    BY <1>1 DEF CountInv, Made, None
  <2>2. ~Survives(i)
    BY <1>1 DEF Survives, Chance
  <2> QED BY <1>1, <2>1, <2>2 DEF ResetInv
<1> QED BY <1>1 DEF ResetInv

\* Who has published and is to check has still to, after a calm step.
LEMMA CalmChecks ==
    ASSUME Calm
    PROVE  \A i, k : (\E t \in Tasks : Checks(t, i, k)) => \E t \in Tasks : Checks(t, i, k)'
<1>1. \A i, k : \A t \in Tasks : Checks(t, i, k) => Checks(t, i, k)'
  BY DEF Calm, Same, Checks, Busy, Publishing, Storing
<1> QED BY <1>1

\* ... and when it moves before it checks.
LEMMA MovesChecks ==
    ASSUME NEW t \in Tasks, NEW where, Moves(t, where, task[t].img),
           where \in {"release", "take back"} \/ task[t].at \notin {"release", "take back"}
    PROVE  \A i, k : (\E u \in Tasks : Checks(u, i, k)) => \E u \in Tasks : Checks(u, i, k)'
<1>1. \A i, k : \A u \in Tasks : Checks(u, i, k) => Checks(u, i, k)'
  BY DEF Moves, Same, Checks
<1> QED BY <1>1

\* ... and when another moves.
LEMMA MovesOthersCheck ==
    ASSUME NEW t \in Tasks, NEW where, NEW j, Moves(t, where, j)
    PROVE  \A i, k : i # task[t].img \/ k # task[t].key =>
                ((\E u \in Tasks : Checks(u, i, k)) => \E u \in Tasks : Checks(u, i, k)')
<1>1. ASSUME NEW i, NEW k, i # task[t].img \/ k # task[t].key, NEW u \in Tasks, Checks(u, i, k)
      PROVE  \E v \in Tasks : Checks(v, i, k)'
  <2>1. u # t
    BY <1>1 DEF Checks
  <2>2. Checks(u, i, k)'
    BY <1>1, <2>1 DEF Moves, Same, Checks
  <2> QED BY <2>2
<1> QED BY <1>1

\* The cache is as it was, and so are the people.
LEMMA GoneStill ==
    ASSUME NEW i, NEW k, Gone(i, k), user' = user,
           pin'[k] = pin[k], auto'[k] = auto[k], mem'[k] = mem[k] \/ mem'[k].img # i,
           (\E t \in Tasks : Checks(t, i, k)) => \E t \in Tasks : Checks(t, i, k)'
    PROVE  Gone(i, k)'
BY DEF Gone, Resetting

\* Where nothing is written nothing comes back.
LEMMA ResetCalm ==
    ASSUME Type, CountInv, ResetInv, CalmStep \/ Forgets
    PROVE  ResetInv'
<1>1. /\ Calm /\ user' = user /\ pin' = pin /\ auto' = auto /\ past' = past
      /\ doubt \subseteq doubt'
  BY DEF CalmStep, Forgets, Still, SameCache, SameGhosts, SamePeople
<1>2. ASSUME NEW k \in Keys, NEW i, i # None PROVE mem'[k] = mem[k] \/ mem'[k].img # i
  <2>1. CASE mem' = mem
    BY <2>1
  <2>2. ASSUME NEW n \in Keys, NEW what \in {Absent, Negative}, mem' = Remember(n, what)
        PROVE  mem'[k] = mem[k] \/ mem'[k].img # i
    BY <1>2, <2>2, Memory DEF Remember, Set, Type, CacheType
  <2> QED BY <2>1, <2>2 DEF CalmStep, Still, SameCache, Forgets
<1>3. ASSUME NEW k \in Keys, NEW i, i # None, Gone(i, k) PROVE Gone(i, k)'
  BY <1>1, <1>2, <1>3, CalmChecks, GoneStill
<1> QED BY <1>1, <1>3, ResetKept

\* A writer that brings back what a reset is to forget is to check, or is seen to end
\* in the gap.
LEMMA ResetWrites ==
    ASSUME Type, CountInv, FreshInv, ResetInv, NEW t \in Tasks, Writes(t)
    PROVE  ResetInv'
<1> USE DEF SameCache, SameGhosts, SamePeople
<1>0. pin \in [Keys -> Nat] /\ auto \in [Keys -> Nat] /\ mem \in [Keys -> Memories]
  BY DEF Type, CacheType
<1>1. CASE BeginWriteBack(t)
  <2>1. /\ SameCache /\ SamePeople /\ SameGhosts
        /\ Calm \/ (~Busy(t) /\ Moves(t, "publish", task[t].img))
    BY <1>1, BeginWriteBackEffect
  <2>2. \A i, k : (\E u \in Tasks : Checks(u, i, k)) => \E u \in Tasks : Checks(u, i, k)'
    BY <2>1, CalmChecks, MovesChecks DEF Busy, Publishing
  <2> QED BY <2>1, <2>2, GoneStill, ResetKept
<1>2. CASE Publish(t)
  <2>1. /\ pin' = pin /\ mem' = mem /\ past' = past /\ SamePeople /\ task[t].key \in Keys
        /\ task[t].at \in {"publish", "bytes"} /\ doubt \subseteq doubt'
    BY <1>2, PublishEffect
  <2>2. \A i, k : (\E u \in Tasks : Checks(u, i, k)) => \E u \in Tasks : Checks(u, i, k)'
    <3>1. PICK where : Moves(t, where, task[t].img)
      BY <1>2, PublishEffect
    <3> QED BY <2>1, <3>1, MovesChecks
  <2>3. CASE auto' = auto
    BY <2>1, <2>2, <2>3, GoneStill, ResetKept
  <2>4. CASE Moves(t, "release", task[t].img) /\ auto' = Set(auto, task[t].key, task[t].img)
    <3>1. /\ auto'[task[t].key] = task[t].img
          /\ \A k \in Keys \ {task[t].key} : auto'[k] = auto[k]
      BY <1>0, <2>1, <2>4 DEF Set
    <3>2. Checks(t, task[t].img, task[t].key)'
      BY <2>4 DEF Moves, Checks
    <3>3. ASSUME NEW k \in Keys, NEW i, Gone(i, k) PROVE Gone(i, k)'
      <4>1. CASE k # task[t].key
        BY <2>1, <2>2, <3>1, <3>3, <4>1, GoneStill
      <4>2. CASE k = task[t].key
        <5>1. auto'[k] = i => \E u \in Tasks : Checks(u, i, k)'
          BY <2>4, <3>1, <4>2 DEF Moves, Checks
        <5> QED BY <2>1, <3>3, <5>1 DEF Gone, Resetting
      <4> QED BY <4>1, <4>2
    <3> QED BY <2>1, <3>3, ResetKept
  <2> QED BY <1>2, <2>3, <2>4, PublishEffect
<1>3. CASE PublishRefused(t)
  <2>1. /\ SameCache /\ SamePeople /\ SameGhosts
        /\ Moves(t, "got", task[t].img) /\ task[t].at \in {"publish", "bytes"}
    BY <1>3, PublishRefusedEffect
  <2>2. \A i, k : (\E u \in Tasks : Checks(u, i, k)) => \E u \in Tasks : Checks(u, i, k)'
    BY <2>1, MovesChecks
  <2> QED BY <2>1, <2>2, GoneStill, ResetKept
<1>4. CASE Release(t)
  <2>1. /\ pin' = pin /\ auto' = auto /\ past' = past /\ SamePeople /\ task[t].key \in Keys
        /\ task[t].at = "release" /\ doubt \subseteq doubt'
    BY <1>4, ReleaseEffect
  <2>2. CASE mem' = mem /\ Moves(t, "take back", task[t].img)
    <3>1. \A i, k : (\E u \in Tasks : Checks(u, i, k)) => \E u \in Tasks : Checks(u, i, k)'
      BY <2>2, MovesChecks
    <3> QED BY <2>1, <2>2, <3>1, GoneStill, ResetKept
  <2>3. CASE /\ mem[task[t].key] = Strand(task[t].img) /\ mem' = Remember(task[t].key, Absent)
             /\ Moves(t, "got", task[t].img)
             /\ doubt' = doubt \union DoubtIf(user # Nobody /\ user.key = task[t].key /\ user.at # "pin",
                                              "kept in the gap", task[t].img)
    <3>1. ASSUME NEW k \in Keys, NEW i, i # None, ~Survives(i)', Gone(i, k) PROVE Gone(i, k)'
      <4>1. mem'[k] = mem[k] \/ mem'[k].img # i
        BY <1>0, <2>1, <2>3, <3>1, Memory DEF Remember, Set
      <4>2. CASE i # task[t].img \/ k # task[t].key
        <5>1. (\E u \in Tasks : Checks(u, i, k)) => \E u \in Tasks : Checks(u, i, k)'
          BY <2>3, <4>2, MovesOthersCheck
        <5> QED BY <2>1, <3>1, <4>1, <5>1, GoneStill
      <4>3. CASE i = task[t].img /\ k = task[t].key
        <5>1. Resetting(k, {"pin", "auto", "memory"})
          BY <2>3, <3>1, <4>3, Memory DEF Gone
        <5>2. user # Nobody
          BY <5>1 DEF Resetting, Nobody
        <5>3. user.at = "pin"
          BY <2>3, <3>1, <4>3, <5>1, <5>2 DEF Resetting, DoubtIf, Survives, Chance
        <5>4. Resetting(k, {"pin"})'
          BY <2>1, <5>1, <5>3 DEF Resetting
        <5> QED BY <5>4 DEF Gone, Resetting
      <4> QED BY <4>2, <4>3
    <3> QED BY <2>1, <3>1, ResetKept
  <2> QED BY <1>4, <2>2, <2>3, ReleaseEffect
<1>5. CASE TakeBack(t)
  <2>1. /\ pin' = pin /\ mem' = mem /\ past' = past /\ SamePeople /\ task[t].key \in Keys
        /\ auto' = Unless(refusing, auto, task[t].key, None) /\ doubt \subseteq doubt'
        /\ Moves(t, "got", task[t].img)
        /\ refusing => <<"left behind", task[t].img>> \in doubt'
    BY <1>5, TakeBackEffect
  <2>2. ASSUME NEW k \in Keys, NEW i, i # None, ~Survives(i)', Gone(i, k) PROVE Gone(i, k)'
    <3>1. CASE k # task[t].key
      <4>1. (\E u \in Tasks : Checks(u, i, k)) => \E u \in Tasks : Checks(u, i, k)'
        BY <2>1, <3>1, MovesOthersCheck
      <4>2. auto'[k] = auto[k]
        BY <1>0, <2>1, <3>1 DEF Unless, Set
      <4> QED BY <2>1, <2>2, <4>1, <4>2, GoneStill
    <3>2. CASE k = task[t].key /\ ~refusing
      <4>1. auto'[k] = None
        BY <1>0, <2>1, <3>2 DEF Unless, Set
      <4> QED BY <2>1, <2>2, <4>1 DEF Gone, Resetting
    <3>3. CASE k = task[t].key /\ refusing
      <4>1. auto' = auto
        BY <2>1, <3>3 DEF Unless
      <4>2. i # task[t].img
        BY <2>1, <2>2, <3>3 DEF Survives, Chance
      <4>3. (\E u \in Tasks : Checks(u, i, k)) => \E u \in Tasks : Checks(u, i, k)'
        BY <2>1, <4>2, MovesOthersCheck
      <4> QED BY <2>1, <2>2, <4>1, <4>3, GoneStill
    <3> QED BY <3>1, <3>2, <3>3
  <2> QED BY <2>1, <2>2, ResetKept
<1>6. CASE Resolve(t)
  <2>1. /\ SameCache /\ SamePeople /\ SameGhosts
        /\ Calm \/ (~Busy(t) /\ Moves(t, "store", made + 1))
    BY <1>6, ResolveEffect DEF CountInv
  <2>2. \A i, k : (\E u \in Tasks : Checks(u, i, k)) => \E u \in Tasks : Checks(u, i, k)'
    <3>1. CASE Moves(t, "store", made + 1) /\ ~Busy(t)
      <4>1. \A i, k : \A u \in Tasks : Checks(u, i, k) => Checks(u, i, k)'
        BY <3>1 DEF Moves, Same, Checks, Busy, Publishing
      <4> QED BY <4>1
    <3> QED BY <2>1, <3>1, CalmChecks
  <2> QED BY <2>1, <2>2, GoneStill, ResetKept
<1>7. CASE StorePositive(t)
  <2>1. /\ pin' = pin /\ mem' = mem /\ past' = past /\ SamePeople /\ task[t].key \in Keys
        /\ doubt' = doubt /\ Storing(t)
        /\ auto' = auto \/ auto' = Set(auto, task[t].key, task[t].img)
    BY <1>7, StorePositiveEffect DEF Storing
  <2>2. PICK where : Moves(t, where, task[t].img)
    BY <1>7, StorePositiveEffect
  <2>3. \A i, k : (\E u \in Tasks : Checks(u, i, k)) => \E u \in Tasks : Checks(u, i, k)'
    BY <2>1, <2>2, MovesChecks DEF Storing
  <2>4. \A k \in Keys : auto'[k] = auto[k] \/ auto'[k] = task[t].img
    BY <1>0, <2>1 DEF Set
  <2>5. \A k : <<task[t].img, k>> \notin past \/ k \notin Keys
    BY <2>1 DEF FreshInv, Unseen
  <2>6. ASSUME NEW k \in Keys, NEW i, <<i, k>> \in past, Gone(i, k) PROVE Gone(i, k)'
    <3>1. i # task[t].img
      BY <2>5, <2>6
    <3>2. CASE auto'[k] = auto[k]
      BY <2>1, <2>3, <2>6, <3>2, GoneStill
    <3>3. CASE auto'[k] # i
      BY <2>1, <2>6, <3>3 DEF Gone, Resetting
    <3> QED BY <2>4, <3>1, <3>2, <3>3
  <2> QED BY <2>1, <2>6, ResetKept
<1>8. CASE StoreRefused(t)
  <2>1. Storing(t)
    BY <1>8 DEF StoreRefused, Storing
  <2>2. task[t].img # None
    BY <2>1 DEF CountInv, Made, None, Busy
  <2>3. /\ pin' = pin /\ auto' = auto /\ past' = past /\ SamePeople /\ task[t].key \in Keys
        /\ doubt \subseteq doubt' /\ Moves(t, "done", task[t].img)
        /\ mem' = mem \/ mem' = Remember(task[t].key, Strand(task[t].img))
    BY <1>8, <2>2, StoreRefusedEffect
  <2>4. \A i, k : (\E u \in Tasks : Checks(u, i, k)) => \E u \in Tasks : Checks(u, i, k)'
    BY <2>1, <2>3, MovesChecks DEF Storing
  <2>5. \A k \in Keys : mem'[k] = mem[k] \/ mem'[k].img = task[t].img
    BY <1>0, <2>3, Memory DEF Remember, Set
  <2>6. \A k : <<task[t].img, k>> \notin past \/ k \notin Keys
    BY <2>1 DEF FreshInv, Unseen
  <2>7. ASSUME NEW k \in Keys, NEW i, <<i, k>> \in past, Gone(i, k) PROVE Gone(i, k)'
    <3>1. mem'[k] = mem[k] \/ mem'[k].img # i
      BY <2>5, <2>6, <2>7
    <3> QED BY <2>3, <2>4, <2>7, <3>1, GoneStill
  <2> QED BY <2>3, <2>7, ResetKept
<1> QED BY <1>1, <1>2, <1>3, <1>4, <1>5, <1>6, <1>7, <1>8 DEF Writes

\* Nobody resets k: it holds nothing of what it is to forget, but for a reader.
LEMMA GoneUndisturbed ==
    ASSUME Calm, NEW i, NEW k, Gone(i, k), i # None,
           ~Resetting(k, {"pin", "auto", "memory"}),
           pin'[k] = pin[k] \/ pin'[k] # i,
           auto'[k] = auto[k] \/ auto'[k] # i,
           mem'[k] = mem[k] \/ mem'[k].img # i
    PROVE  Gone(i, k)'
<1>1. (\E t \in Tasks : Checks(t, i, k)) => \E t \in Tasks : Checks(t, i, k)'
  BY CalmChecks
<1> QED BY <1>1 DEF Gone, Resetting

\* A reset empties place after place, and a rename that brings the image is no reset's
\* matter.
LEMMA ResetByHand ==
    ASSUME Type, CountInv, FreshInv, ResetInv, ByHand
    PROVE  ResetInv'
<1> USE DEF SameCache, SameGhosts
<1>0. /\ pin \in [Keys -> Nat] /\ auto \in [Keys -> Nat] /\ mem \in [Keys -> Memories]
      /\ made \in Nat /\ Calm
  BY ByHandCalm DEF Type, CacheType, CountInv
<1>1. ASSUME NEW k \in Keys, StartUpload(k) PROVE ResetInv'
  <2>1. SameCache /\ SameGhosts /\ user' = user
    BY <1>0, <1>1, StartUploadEffect
  <2> QED BY <1>0, <2>1, CalmChecks, GoneStill, ResetKept
<1>2. ASSUME NEW n \in Keys, StartReset(n) PROVE ResetInv'
  <2>1. /\ SameCache /\ doubt' = doubt /\ user = Nobody
        /\ user'.op = "reset" /\ user'.key = n /\ user'.at = "pin"
        /\ past' = past \union (Images(n) \X {n})
    BY <1>2, StartResetEffect
  <2>2. ASSUME NEW k \in Keys, NEW i, <<i, k>> \in past', ~Survives(i)' PROVE Gone(i, k)'
    <3>1. CASE k = n
      BY <2>1, <3>1 DEF Gone, Resetting
    <3>2. CASE k # n
      <4>1. <<i, k>> \in past
        BY <2>1, <2>2, <3>2
      <4>2. i \in Made /\ i # None /\ ~Survives(i)
        <5>1. i \in Made /\ i # None
          BY <4>1 DEF CountInv, Made, None
        <5>2. ~Survives(i)
          BY <2>1, <2>2 DEF Survives, Chance
        <5> QED BY <5>1, <5>2
      <4>3. Gone(i, k) /\ ~Resetting(k, {"pin", "auto", "memory"})
        BY <2>1, <4>1, <4>2 DEF ResetInv, Resetting, Nobody
      <4> QED BY <1>0, <2>1, <4>2, <4>3, GoneUndisturbed
    <3> QED BY <3>1, <3>2
  <2> QED BY <2>2 DEF ResetInv
<1>3. ASSUME NEW o \in Keys, NEW n \in Keys, StartRename(o, n) PROVE ResetInv'
  <2>1. SameCache /\ doubt' = doubt /\ past' = past /\ user = Nobody
    BY <1>3, StartRenameEffect
  <2>2. \A k : ~Resetting(k, {"pin", "auto", "memory"})
    BY <2>1 DEF Resetting, Nobody
  <2>3. \A k \in Keys, i \in Made : i # None /\ Gone(i, k) => Gone(i, k)'
    BY <1>0, <2>1, <2>2, GoneUndisturbed
  <2> QED BY <2>1, <2>3, ResetKept
<1>4. CASE WriteOverride
  <2>1. /\ auto' = auto /\ mem' = mem /\ past' = past /\ doubt' = doubt /\ user' = user
        /\ upload # Nobody /\ upload.key \in Keys
        /\ pin' = pin \/ pin' = Set(pin, upload.key, upload.img)
    BY <1>4, WriteOverrideEffect
  <2>2. ASSUME NEW k \in Keys, NEW i, <<i, k>> \in past, Gone(i, k) PROVE Gone(i, k)'
    <3>1. i # upload.img
      BY <2>1, <2>2 DEF FreshInv, Unseen
    <3>2. pin'[k] = pin[k] \/ pin'[k] # i
      BY <1>0, <2>1, <3>1 DEF Set
    <3>3. (\E t \in Tasks : Checks(t, i, k)) => \E t \in Tasks : Checks(t, i, k)'
      BY <1>0, CalmChecks
    <3> QED BY <2>1, <2>2, <3>2, <3>3 DEF Gone, Resetting
  <2> QED BY <2>1, <2>2, ResetKept
<1>5. CASE ResetPin
  <2>1. /\ auto' = auto /\ mem' = mem /\ past' = past /\ doubt' = doubt
        /\ user.op = "reset" /\ user.at = "pin" /\ user.key \in Keys
        /\ user'.op = user.op /\ user'.key = user.key /\ user'.at = "auto"
        /\ pin' = Set(pin, user.key, None)
    BY <1>5, ResetPinEffect DEF Onward
  <2>2. ASSUME NEW k \in Keys, NEW i, i # None, Gone(i, k) PROVE Gone(i, k)'
    <3>1. CASE k = user.key
      <4>1. pin'[k] = None
        BY <1>0, <2>1, <3>1 DEF Set
      <4> QED BY <2>1, <2>2, <3>1, <4>1 DEF Gone, Resetting
    <3>2. CASE k # user.key
      <4>1. pin'[k] = pin[k]
        BY <1>0, <2>1, <3>2 DEF Set
      <4> QED BY <1>0, <2>1, <2>2, <3>2, <4>1, GoneUndisturbed DEF Resetting
    <3> QED BY <3>1, <3>2
  <2> QED BY <2>1, <2>2, ResetKept
<1>6. CASE ResetPinRefused
  <2>1. /\ SameCache /\ doubt' = doubt /\ user.key \in Keys
        /\ past' = past \ (Images(user.key) \X {user.key})
    BY <1>6, ResetPinRefusedEffect
  <2>2. ASSUME NEW k \in Keys, NEW i, i # None, <<i, k>> \in past', Gone(i, k) PROVE Gone(i, k)'
    <3>1. CASE k = user.key
      <4>1. i \notin Images(k)
        BY <2>1, <2>2, <3>1
      <4> QED BY <2>1, <2>2, <4>1 DEF Images, Gone
    <3>2. CASE k # user.key
      BY <1>0, <2>1, <2>2, <3>2, GoneUndisturbed DEF Resetting
    <3> QED BY <3>1, <3>2
  <2> QED BY <2>1, <2>2, ResetKept
<1>7. CASE ClearSlots
  <2>1. /\ pin' = pin /\ mem' = mem /\ past' = past /\ doubt \subseteq doubt'
        /\ user.op = "reset" /\ user.at = "auto" /\ user.key \in Keys
        /\ user'.op = user.op /\ user'.key = user.key /\ user'.at = "memory"
        /\ auto' = Unless(refusing, auto, user.key, None)
        /\ refusing => <<"not cleared", auto[user.key]>> \in doubt'
    BY <1>7, ClearSlotsEffect DEF Onward
  <2>2. ASSUME NEW k \in Keys, NEW i, i # None, ~Survives(i)', Gone(i, k) PROVE Gone(i, k)'
    <3>1. CASE k = user.key
      <4>1. auto'[k] # i
        <5>1. CASE refusing
          <6>1. auto' = auto /\ auto[k] # i
            BY <2>1, <2>2, <3>1, <5>1 DEF Unless, Survives, Chance
          <6> QED BY <6>1
        <5>2. CASE ~refusing
          BY <1>0, <2>1, <2>2, <3>1, <5>2 DEF Unless, Set
        <5> QED BY <5>1, <5>2
      <4> QED BY <2>1, <2>2, <3>1, <4>1 DEF Gone, Resetting
    <3>2. CASE k # user.key
      <4>1. auto'[k] = auto[k]
        BY <1>0, <2>1, <3>2 DEF Set, Unless
      <4> QED BY <1>0, <2>1, <2>2, <3>2, <4>1, GoneUndisturbed DEF Resetting
    <3> QED BY <3>1, <3>2
  <2> QED BY <2>1, <2>2, ResetKept
<1>8. CASE ClearMemory
  <2>1. /\ pin' = pin /\ auto' = auto /\ past' = past /\ doubt' = doubt
        /\ user.op = "reset" /\ user.at = "memory" /\ user.key \in Keys
        /\ mem' = Remember(user.key, Absent)
    BY <1>8, ClearMemoryEffect DEF Onward
  <2>2. ASSUME NEW k \in Keys, NEW i, i # None, Gone(i, k) PROVE Gone(i, k)'
    <3>1. CASE k = user.key
      <4>1. mem'[k].img # i
        BY <1>0, <2>1, <2>2, <3>1, Memory DEF Remember, Set
      <4>2. pin[k] # i /\ (auto[k] = i => \E t \in Tasks : Checks(t, i, k))
        BY <2>1, <2>2 DEF Gone, Resetting
      <4>3. (\E t \in Tasks : Checks(t, i, k)) => \E t \in Tasks : Checks(t, i, k)'
        BY <1>0, CalmChecks
      <4> QED BY <2>1, <4>1, <4>2, <4>3 DEF Gone
    <3>2. CASE k # user.key
      <4>1. mem'[k] = mem[k]
        BY <1>0, <2>1, <3>2 DEF Remember, Set
      <4> QED BY <1>0, <2>1, <2>2, <3>2, <4>1, GoneUndisturbed DEF Resetting
    <3> QED BY <3>1, <3>2
  <2> QED BY <2>1, <2>2, ResetKept
<1>9. CASE Refill
  <2>1. SameCache /\ SameGhosts /\ user.at = "refill"
    BY <1>9, RefillEffect
  <2>2. \A k : ~Resetting(k, {"pin", "auto", "memory"})
    BY <2>1 DEF Resetting
  <2>3. \A k \in Keys, i \in Made : i # None /\ Gone(i, k) => Gone(i, k)'
    BY <1>0, <2>1, <2>2, GoneUndisturbed
  <2> QED BY <2>1, <2>3, ResetKept
<1>10. CASE PurgeOld \/ DropOldSlots
  <2>1. /\ mem' = mem /\ past' = past /\ doubt' = doubt /\ user.key \in Keys
        /\ user.op = "rename"
        /\ pin' = pin \/ pin' = Unless(refusing, pin, user.key, None)
        /\ auto' = Unless(refusing, auto, user.key, None)
    BY <1>10, PurgeOldEffect, DropOldSlotsEffect DEF Onward, Cleared
  <2>2. \A k : ~Resetting(k, {"pin", "auto", "memory"})
    BY <2>1 DEF Resetting
  <2>3. \A k \in Keys : /\ pin'[k] = pin[k] \/ pin'[k] = None
                        /\ auto'[k] = auto[k] \/ auto'[k] = None
    <3>1. \A f \in [Keys -> Nat], k \in Keys :
                \/ Unless(refusing, f, user.key, None)[k] = f[k]
                \/ Unless(refusing, f, user.key, None)[k] = None
      BY <2>1 DEF Unless, Set
    <3>2. \A k \in Keys : pin'[k] = pin[k] \/ pin'[k] = None
      BY <1>0, <2>1, <3>1
    <3>3. \A k \in Keys : auto'[k] = auto[k] \/ auto'[k] = None
      BY <1>0, <2>1, <3>1
    <3> QED BY <3>2, <3>3
  <2>4. ASSUME NEW k \in Keys, NEW i, i # None, Gone(i, k) PROVE Gone(i, k)'
    <3>1. pin'[k] = pin[k] \/ pin'[k] # i
      BY <2>3, <2>4
    <3>2. auto'[k] = auto[k] \/ auto'[k] # i
      BY <2>3, <2>4
    <3> QED BY <1>0, <2>1, <2>2, <2>4, <3>1, <3>2, GoneUndisturbed
  <2> QED BY <2>1, <2>4, ResetKept
<1>11. CASE MovePin
  <2>1. /\ auto' = auto /\ mem' = mem /\ doubt' = doubt /\ user.op = "rename"
        /\ pin' = Moved(pin, None) /\ past' = past \ {<<pin[user.key], user.to>>}
        /\ user.key \in Keys /\ user.to \in Keys /\ user.key # user.to
    BY <1>11, MovePinEffect DEF Onward
  <2>2. \A k : ~Resetting(k, {"pin", "auto", "memory"})
    BY <2>1 DEF Resetting
  <2>3. /\ \A k \in Keys \ {user.key, user.to} : pin'[k] = pin[k]
        /\ pin' = pin \/ (pin'[user.key] = None /\ pin'[user.to] = pin[user.key])
    BY <1>0, <2>1, MovedFacts
  <2>4. ASSUME NEW k \in Keys, NEW i, i # None, <<i, k>> \in past', Gone(i, k) PROVE Gone(i, k)'
    <3>1. pin'[k] = pin[k] \/ pin'[k] # i
      BY <2>1, <2>3, <2>4
    <3> QED BY <1>0, <2>1, <2>2, <2>4, <3>1, GoneUndisturbed
  <2> QED BY <2>1, <2>4, ResetKept
<1>12. CASE MoveAuto
  <2>1. /\ pin' = pin /\ mem' = mem /\ doubt \subseteq doubt' /\ user.op = "rename"
        /\ auto' = Moved(auto, None) /\ past' = past \ {<<auto[user.key], user.to>>}
        /\ user.key \in Keys /\ user.to \in Keys /\ user.key # user.to
    BY <1>12, MoveAutoEffect DEF Onward
  <2>2. \A k : ~Resetting(k, {"pin", "auto", "memory"})
    BY <2>1 DEF Resetting
  <2>3. /\ \A k \in Keys \ {user.key, user.to} : auto'[k] = auto[k]
        /\ auto' = auto \/ (auto'[user.key] = None /\ auto'[user.to] = auto[user.key])
    BY <1>0, <2>1, MovedFacts
  <2>4. ASSUME NEW k \in Keys, NEW i, i # None, <<i, k>> \in past', Gone(i, k) PROVE Gone(i, k)'
    <3>1. auto'[k] = auto[k] \/ auto'[k] # i
      BY <2>1, <2>3, <2>4
    <3> QED BY <1>0, <2>1, <2>2, <2>4, <3>1, GoneUndisturbed
  <2> QED BY <2>1, <2>4, ResetKept
<1>13. CASE MoveStrand
  <2>1. /\ pin' = pin /\ auto' = auto /\ doubt \subseteq doubt' /\ user.op = "rename"
        /\ mem' = mem \/ mem' = Remember(user.to, mem[user.key])
        /\ past' = past \ {<<mem[user.key].img, user.to>>}
        /\ user.key \in Keys /\ user.to \in Keys
    BY <1>13, MoveStrandEffect DEF Onward
  <2>2. \A k : ~Resetting(k, {"pin", "auto", "memory"})
    BY <2>1 DEF Resetting
  <2>3. \A k \in Keys : mem'[k] = mem[k] \/ (k = user.to /\ mem'[k] = mem[user.key])
    BY <1>0, <2>1 DEF Remember, Set
  <2>4. ASSUME NEW k \in Keys, NEW i, i # None, <<i, k>> \in past', Gone(i, k) PROVE Gone(i, k)'
    <3>1. mem'[k] = mem[k] \/ mem'[k].img # i
      BY <2>1, <2>3, <2>4
    <3> QED BY <1>0, <2>1, <2>2, <2>4, <3>1, GoneUndisturbed
  <2> QED BY <2>1, <2>4, ResetKept
<1>14. CASE ForgetOld
  <2>1. /\ pin' = pin /\ auto' = auto /\ past' = past /\ doubt' = doubt /\ user.op = "rename"
        /\ user.key \in Keys /\ mem' = Remember(user.key, Absent)
    BY <1>14, ForgetOldEffect
  <2>2. \A k : ~Resetting(k, {"pin", "auto", "memory"})
    BY <2>1 DEF Resetting
  <2>3. \A k \in Keys : mem'[k] = mem[k] \/ mem'[k].img = None
    BY <1>0, <2>1, Memory DEF Remember, Set
  <2>4. \A k \in Keys, i \in Made : i # None /\ Gone(i, k) => Gone(i, k)'
    BY <1>0, <2>1, <2>2, <2>3, GoneUndisturbed
  <2> QED BY <2>1, <2>4, ResetKept
<1> QED BY <1>1, <1>2, <1>3, <1>4, <1>5, <1>6, <1>7, <1>8, <1>9, <1>10, <1>11, <1>12, <1>13, <1>14
        DEF ByHand

\* Every step leaves gone what a reset is to forget.
LEMMA ResetNext ==
    ASSUME Type, CountInv, FreshInv, ResetInv, [Next]_vars
    PROVE  ResetInv'
BY Steps, ResetCalm, ResetWrites, ResetByHand

-----------------------------------------------------------------------------
(* What was stored is there.                                               *)

\* A rename or a reset is taking k apart.
Leaving(k) == (user.op = "rename" /\ user.key = k) \/ Resetting(k, {"auto", "memory"})
\* k has an image that nobody is going to take back.
There(k) ==
    \/ pin[k] # None \/ Remembered(k)
    \/ /\ auto[k] # None
       /\ \A t \in Tasks : Publishing(t) /\ task[t].key = k => task[t].img # auto[k]
Kept(k) ==
    /\ k \in held => There(k)
    /\ \A t \in Tasks : task[t].at = "release" /\ task[t].key = k /\ mem[k] = Strand(task[t].img)
            => auto[k] # None
KeptInv == held \subseteq Keys /\ \A k \in Keys : MayBeGone(k) \/ Leaving(k) \/ Kept(k)

\* It is enough to look at a key nobody takes apart, and nothing excuses.
LEMMA KeptStep ==
    ASSUME KeptInv, held' \subseteq Keys, doubt \subseteq doubt',
           \A k \in Keys : /\ Leaving(k) \/ Kept(k)
                           /\ ~Leaving(k)' /\ ~MayBeGone(k)'
                           => Kept(k)'
    PROVE  KeptInv'
<1>1. \A k : MayBeGone(k) => MayBeGone(k)'
  BY DEF MayBeGone, Chance
<1> QED BY <1>1 DEF KeptInv

\* ... or at any that was kept, while no reset or rename goes on.
LEMMA KeptAmongPeople ==
    ASSUME KeptInv, held' \subseteq Keys, doubt \subseteq doubt', user' = user,
           \A k \in Keys : Kept(k) /\ ~MayBeGone(k)' => Kept(k)'
    PROVE  KeptInv'
<1>1. \A k : Leaving(k)' <=> Leaving(k)
  BY DEF Leaving, Resetting
<1> QED BY <1>1, KeptStep

\* Nobody comes to publish anything for k.
Quieter(k) ==
    \A u \in Tasks : Publishing(u)' /\ task'[u].key = k =>
        /\ Publishing(u) /\ task[u].key = k /\ task'[u].img = task[u].img
        /\ task'[u].at = "release" => task[u].at = "release"

\* A calm step brings no publisher.
LEMMA QuieterCalm ==
    ASSUME Calm
    PROVE  \A k : Quieter(k)
BY DEF Calm, Same, Quieter, Busy, Publishing, Storing

\* A task that moves brings none to other keys.
LEMMA QuieterElsewhere ==
    ASSUME NEW t \in Tasks, NEW where, NEW j, Moves(t, where, j),
           NEW k, k # task[t].key
    PROVE  Quieter(k)
BY DEF Moves, Same, Quieter, Publishing

\* A task that moves on from publishing brings none.
LEMMA QuieterDone ==
    ASSUME NEW t \in Tasks, NEW where, NEW j, Moves(t, where, j),
           where \notin {"publish", "bytes", "release", "take back"}, NEW k
    PROVE  Quieter(k)
BY DEF Moves, Same, Quieter, Publishing

\* A publisher that goes on is no new one.
LEMMA QuieterGoing ==
    ASSUME NEW t \in Tasks, NEW where, Moves(t, where, task[t].img),
           Publishing(t), where # "release", NEW k
    PROVE  Quieter(k)
BY DEF Moves, Same, Quieter, Publishing

\* What the key holds is kept, if that is left alone and no publisher comes.
LEMMA KeptFrame ==
    ASSUME NEW k, Kept(k), Quieter(k), k \in held' => k \in held,
           pin'[k] = pin[k], auto'[k] = auto[k], mem'[k] = mem[k]
    PROVE  Kept(k)'
<1>1. There(k) => There(k)'
  BY DEF There, Quieter, Remembered
<1>2. ASSUME NEW t \in Tasks, task'[t].at = "release", task'[t].key = k, mem'[k] = Strand(task'[t].img)
      PROVE  auto'[k] # None
  <2>1. task[t].at = "release" /\ task[t].key = k /\ task'[t].img = task[t].img
    BY <1>2 DEF Quieter, Publishing
  <2> QED BY <1>2, <2>1 DEF Kept
<1> QED BY <1>1, <1>2 DEF Kept

\* Where nothing is written a strand goes only with a word.
LEMMA KeptCalm ==
    ASSUME Type, KeptInv, CalmStep \/ Forgets
    PROVE  KeptInv'
<1>1. /\ Calm /\ user' = user /\ pin' = pin /\ auto' = auto /\ held' = held
      /\ doubt \subseteq doubt'
  BY DEF CalmStep, Forgets, Still, SameCache, SameGhosts, SamePeople
<1>2. held' \subseteq Keys
  BY <1>1 DEF KeptInv
<1>3. CASE mem' = mem
  <2>1. \A k : Quieter(k)
    BY <1>1, QuieterCalm
  <2>2. \A k \in Keys : Kept(k) => Kept(k)'
    BY <1>1, <1>3, <2>1, KeptFrame
  <2> QED BY <1>1, <1>2, <2>2, KeptAmongPeople
<1>4. ASSUME NEW n \in Keys, NEW what \in {Absent, Negative},
             mem' = Remember(n, what), Remembered(n) => MayBeGone(n)'
      PROVE  KeptInv'
  <2>1. /\ \A k \in Keys \ {n} : mem'[k] = mem[k]
        /\ mem'[n] = what /\ what.kind # "image"
    BY <1>4, Memory DEF Remember, Set, Type, CacheType
  <2>2. ASSUME NEW k \in Keys, Kept(k), ~MayBeGone(k)' PROVE Kept(k)'
    <3>1. Quieter(k)
      BY <1>1, QuieterCalm
    <3>2. CASE k # n
      BY <1>1, <2>1, <2>2, <3>1, <3>2, KeptFrame
    <3>3. CASE k = n
      <4>1. ~Remembered(k)
        BY <1>4, <2>2, <3>3
      <4>2. There(k) => There(k)'
        BY <1>1, <3>1, <4>1 DEF There, Quieter
      <4>3. \A i : mem'[k] # Strand(i)
        BY <2>1, <3>3, Memory
      <4> QED BY <1>1, <2>2, <4>2, <4>3 DEF Kept
    <3> QED BY <3>2, <3>3
  <2> QED BY <1>1, <1>2, <2>2, KeptAmongPeople
<1> QED BY <1>3, <1>4 DEF CalmStep, Still, SameCache, Forgets

\* A writer stores, or leaves what was stored, or takes it back with a word.
LEMMA KeptWrites ==
    ASSUME Type, CountInv, FreshInv, ClaimInv, KeptInv, NEW t \in Tasks, Writes(t)
    PROVE  KeptInv'
<1> USE DEF SameCache, SameGhosts, SamePeople
<1>0. /\ pin \in [Keys -> Nat] /\ auto \in [Keys -> Nat] /\ mem \in [Keys -> Memories]
      /\ held \subseteq Keys
      /\ Busy(t) => task[t].img # None
  BY DEF Type, CacheType, KeptInv, CountInv, Made, None
<1>1. CASE BeginWriteBack(t)
  <2>1. SameCache /\ SamePeople /\ SameGhosts
    BY <1>1, BeginWriteBackEffect
  <2>2. CASE Calm
    BY <1>0, <2>1, <2>2, QuieterCalm, KeptFrame, KeptAmongPeople
  <2>3. CASE /\ Moves(t, "publish", task[t].img) /\ mem[task[t].key] = Strand(task[t].img)
    <3>1. ASSUME NEW k \in Keys, Kept(k) PROVE Kept(k)'
      <4>1. CASE k # task[t].key
        BY <2>1, <2>3, <3>1, <4>1, QuieterElsewhere, KeptFrame
      <4>2. CASE k = task[t].key
        <5>1. There(k)'
          BY <2>1, <2>3, <4>2, Memory DEF There, Remembered
        <5>2. \A u \in Tasks : task'[u].at = "release" =>
                    task[u].at = "release" /\ Same(u)
          BY <2>3 DEF Moves, Same
        <5> QED BY <2>1, <3>1, <5>1, <5>2 DEF Kept, Same
      <4> QED BY <4>1, <4>2
    <3> QED BY <1>0, <2>1, <3>1, KeptAmongPeople
  <2> QED BY <1>1, <2>2, <2>3, BeginWriteBackEffect
<1>2. CASE Publish(t)
  <2>1. /\ pin' = pin /\ mem' = mem /\ held' = held /\ SamePeople /\ task[t].key \in Keys
        /\ Publishing(t) /\ doubt \subseteq doubt'
    BY <1>2, PublishEffect DEF Publishing
  <2>2. CASE Moves(t, "bytes", task[t].img) /\ auto' = auto
    <3>1. \A k : Quieter(k)
      BY <2>1, <2>2, QuieterGoing
    <3> QED BY <1>0, <2>1, <2>2, <3>1, KeptFrame, KeptAmongPeople
  <2>3. CASE /\ Moves(t, "release", task[t].img) /\ auto' = Set(auto, task[t].key, task[t].img)
             /\ doubt' = doubt \union DoubtIf(auto[task[t].key] \notin {None, task[t].img},
                                              "taken back", task[t].key)
    <3>1. ASSUME NEW k \in Keys, Kept(k), ~MayBeGone(k)' PROVE Kept(k)'
      <4>1. CASE k # task[t].key
        <5>1. auto'[k] = auto[k]
          BY <1>0, <2>1, <2>3, <4>1 DEF Set
        <5>2. Quieter(k)
          BY <2>3, <4>1, QuieterElsewhere
        <5> QED BY <2>1, <3>1, <5>1, <5>2, KeptFrame
      <4>2. CASE k = task[t].key
        <5>1. auto'[k] # None
          BY <1>0, <2>1, <2>3, <4>2 DEF Set, Busy
        <5>2. auto[k] \in {None, task[t].img}
          BY <2>3, <3>1, <4>2 DEF DoubtIf, MayBeGone, Chance
        <5>3. There(k) => pin[k] # None \/ Remembered(k)
          BY <2>1, <4>2, <5>2 DEF There
        <5>4. There(k) => There(k)'
          BY <2>1, <5>3 DEF There, Remembered
        <5> QED BY <2>1, <3>1, <5>1, <5>4 DEF Kept
      <4> QED BY <4>1, <4>2
    <3> QED BY <1>0, <2>1, <3>1, KeptAmongPeople
  <2> QED BY <1>2, <2>2, <2>3, PublishEffect
<1>3. CASE PublishRefused(t)
  <2>1. SameCache /\ SamePeople /\ SameGhosts /\ Moves(t, "got", task[t].img)
    BY <1>3, PublishRefusedEffect
  <2>2. \A k : Quieter(k)
    BY <2>1, QuieterDone
  <2> QED BY <1>0, <2>1, <2>2, KeptFrame, KeptAmongPeople
<1>4. CASE Release(t)
  <2>1. /\ pin' = pin /\ auto' = auto /\ held' = held /\ SamePeople /\ task[t].key \in Keys
        /\ task[t].at = "release" /\ Publishing(t) /\ doubt \subseteq doubt'
    BY <1>4, ReleaseEffect DEF Publishing
  <2>2. CASE mem' = mem /\ Moves(t, "take back", task[t].img)
    <3>1. \A k : Quieter(k)
      BY <2>1, <2>2, QuieterGoing
    <3> QED BY <1>0, <2>1, <2>2, <3>1, KeptFrame, KeptAmongPeople
  <2>3. CASE /\ mem[task[t].key] = Strand(task[t].img) /\ mem' = Remember(task[t].key, Absent)
             /\ Moves(t, "got", task[t].img)
    <3>1. ASSUME NEW k \in Keys, Kept(k) PROVE Kept(k)'
      <4>1. CASE k # task[t].key
        <5>1. mem'[k] = mem[k]
          BY <1>0, <2>1, <2>3, <4>1 DEF Remember, Set
        <5>2. Quieter(k)
          BY <2>3, <4>1, QuieterElsewhere
        <5> QED BY <2>1, <3>1, <5>1, <5>2, KeptFrame
      <4>2. CASE k = task[t].key
        <5>1. auto'[k] # None
          BY <2>1, <2>3, <3>1, <4>2 DEF Kept
        <5>2. \A u \in Tasks : Publishing(u)' => task'[u].key # k
          <6>1. \A u \in Tasks \ {t} : Publishing(u)' => Publishing(u) /\ task'[u].key = task[u].key
            BY <2>3 DEF Moves, Same, Publishing
          <6>2. ~Publishing(t)'
            BY <2>3 DEF Moves, Publishing
          <6> QED BY <2>1, <4>2, <6>1, <6>2 DEF ClaimInv
        <5>3. There(k)'
          BY <5>1, <5>2 DEF There
        <5> QED BY <5>1, <5>3 DEF Kept
      <4> QED BY <4>1, <4>2
    <3> QED BY <1>0, <2>1, <3>1, KeptAmongPeople
  <2> QED BY <1>4, <2>2, <2>3, ReleaseEffect
<1>5. CASE TakeBack(t)
  <2>1. /\ pin' = pin /\ mem' = mem /\ held' = held /\ SamePeople /\ task[t].key \in Keys
        /\ auto' = Unless(refusing, auto, task[t].key, None) /\ doubt \subseteq doubt'
        /\ Moves(t, "got", task[t].img) /\ task[t].at = "take back"
        /\ auto[task[t].key] \notin {None, task[t].img} => <<"taken back", task[t].key>> \in doubt'
    BY <1>5, TakeBackEffect
  <2>2. ASSUME NEW k \in Keys, Kept(k), ~MayBeGone(k)' PROVE Kept(k)'
    <3>1. CASE k # task[t].key
      <4>1. auto'[k] = auto[k]
        BY <1>0, <2>1, <3>1 DEF Unless, Set
      <4>2. Quieter(k)
        BY <2>1, <3>1, QuieterElsewhere
      <4> QED BY <2>1, <2>2, <4>1, <4>2, KeptFrame
    <3>2. CASE k = task[t].key
      <4>1. auto[k] \in {None, task[t].img}
        BY <2>1, <2>2, <3>2 DEF MayBeGone, Chance
      <4>2. Publishing(t)
        BY <2>1 DEF Publishing
      <4>3. There(k) => There(k)'
        BY <2>1, <3>2, <4>1, <4>2 DEF There, Remembered
      <4>4. \A u \in Tasks : task'[u].at = "release" => task'[u].key # k
        <5>1. \A u \in Tasks : task'[u].at = "release" =>
                    u # t /\ Publishing(u) /\ task'[u].key = task[u].key
          BY <2>1 DEF Moves, Same, Publishing
        <5> QED BY <3>2, <4>2, <5>1 DEF ClaimInv
      <4> QED BY <2>1, <2>2, <4>3, <4>4 DEF Kept
    <3> QED BY <3>1, <3>2
  <2> QED BY <1>0, <2>1, <2>2, KeptAmongPeople
<1>6. CASE Resolve(t)
  <2>1. /\ SameCache /\ SamePeople /\ SameGhosts
        /\ Calm \/ Moves(t, "store", made + 1)
    BY <1>6, ResolveEffect DEF CountInv
  <2>2. \A k : Quieter(k)
    BY <2>1, QuieterCalm, QuieterDone
  <2> QED BY <1>0, <2>1, <2>2, KeptFrame, KeptAmongPeople
<1>7. CASE StorePositive(t)
  <2>1. /\ pin' = pin /\ mem' = mem /\ SamePeople /\ task[t].key \in Keys
        /\ doubt' = doubt /\ Storing(t)
    BY <1>7, StorePositiveEffect DEF Storing
  <2>2. CASE Moves(t, "store bytes", task[t].img) /\ auto' = auto /\ held' = held
    <3>1. \A k : Quieter(k)
      BY <2>2, QuieterDone
    <3> QED BY <1>0, <2>1, <2>2, <3>1, KeptFrame, KeptAmongPeople
  <2>3. CASE /\ Moves(t, "stored", task[t].img) /\ auto' = Set(auto, task[t].key, task[t].img)
             /\ held' = held \union {task[t].key}
    <3>1. ASSUME NEW k \in Keys, Kept(k) PROVE Kept(k)'
      <4>1. CASE k # task[t].key
        <5>1. auto'[k] = auto[k]
          BY <1>0, <2>1, <2>3, <4>1 DEF Set
        <5>2. Quieter(k)
          BY <2>3, <4>1, QuieterElsewhere
        <5> QED BY <2>1, <2>3, <3>1, <4>1, <5>1, <5>2, KeptFrame
      <4>2. CASE k = task[t].key
        <5>1. auto'[k] = task[t].img /\ auto'[k] # None
          BY <1>0, <2>1, <2>3, <4>2 DEF Set, Busy
        <5>2. \A u \in Tasks : Publishing(u)' => task'[u].img # task[t].img
          <6>1. Unseen(task[t].img)
            BY <2>1 DEF FreshInv
          <6> QED BY <2>3, <6>1, MovesUnseen
        <5>3. There(k)'
          BY <5>1, <5>2 DEF There
        <5> QED BY <5>1, <5>3 DEF Kept
      <4> QED BY <4>1, <4>2
    <3> QED BY <1>0, <2>1, <2>3, <3>1, KeptAmongPeople
  <2> QED BY <1>7, <2>2, <2>3, StorePositiveEffect
<1>8. CASE StoreRefused(t)
  <2>1. Storing(t)
    BY <1>8 DEF StoreRefused, Storing
  <2>2. task[t].img # None
    BY <1>0, <2>1 DEF Busy
  <2>3. /\ pin' = pin /\ auto' = auto /\ SamePeople /\ task[t].key \in Keys
        /\ doubt \subseteq doubt' /\ Moves(t, "done", task[t].img)
        /\ \/ mem' = mem /\ held' = held
           \/ /\ mem' = Remember(task[t].key, Strand(task[t].img))
              /\ held' = held \union {task[t].key}
    BY <1>8, <2>2, StoreRefusedEffect
  <2>4. \A k : Quieter(k)
    BY <2>3, QuieterDone
  <2>5. CASE mem' = mem /\ held' = held
    BY <1>0, <2>3, <2>4, <2>5, KeptFrame, KeptAmongPeople
  <2>6. CASE /\ mem' = Remember(task[t].key, Strand(task[t].img))
             /\ held' = held \union {task[t].key}
    <3>1. ASSUME NEW k \in Keys, Kept(k) PROVE Kept(k)'
      <4>1. CASE k # task[t].key
        <5>1. mem'[k] = mem[k]
          BY <1>0, <2>3, <2>6, <4>1 DEF Remember, Set
        <5> QED BY <2>3, <2>4, <2>6, <3>1, <4>1, <5>1, KeptFrame
      <4>2. CASE k = task[t].key
        <5>1. mem'[k] = Strand(task[t].img)
          BY <1>0, <2>3, <2>6, <4>2 DEF Remember, Set
        <5>2. There(k)'
          BY <5>1, Memory DEF There, Remembered
        <5>3. \A u \in Tasks : Publishing(u)' => task'[u].img # task[t].img
          <6>1. Unseen(task[t].img)
            BY <2>1 DEF FreshInv
          <6> QED BY <2>3, <6>1, MovesUnseen
        <5>4. ASSUME NEW u \in Tasks, task'[u].at = "release", mem'[k] = Strand(task'[u].img)
              PROVE  FALSE
          <6>1. task'[u].img # task[t].img
            BY <5>3, <5>4 DEF Publishing
          <6> QED BY <5>1, <5>4, <6>1, Memory
        <5> QED BY <5>2, <5>4 DEF Kept
      <4> QED BY <4>1, <4>2
    <3> QED BY <1>0, <2>3, <2>6, <3>1, KeptAmongPeople
  <2> QED BY <2>3, <2>5, <2>6
<1> QED BY <1>1, <1>2, <1>3, <1>4, <1>5, <1>6, <1>7, <1>8 DEF Writes

\* Of a key that nobody takes apart nothing is lost.
LEMMA KeptUndisturbed ==
    ASSUME Calm, NEW k, Kept(k), k \in held' => k \in held,
           pin'[k] = pin[k], auto'[k] = auto[k], mem'[k] = mem[k]
    PROVE  Kept(k)'
BY QuieterCalm, KeptFrame

\* Of a key that is not held nothing can be lost.
LEMMA KeptEmpty ==
    ASSUME NEW k, k \notin held', mem'[k] = Absent
    PROVE  Kept(k)'
BY Memory DEF Kept

\* A key that has a pin, and the automatic image it had.
LEMMA KeptPinned ==
    ASSUME Calm, NEW k, Kept(k), pin'[k] # None, auto'[k] = auto[k], mem'[k] = mem[k]
    PROVE  Kept(k)'
<1>1. Quieter(k)
  BY QuieterCalm
<1>2. There(k)'
  BY DEF There
<1>3. \A t \in Tasks : task'[t].at = "release" /\ task'[t].key = k =>
            task[t].at = "release" /\ task[t].key = k /\ task'[t].img = task[t].img
  BY <1>1 DEF Quieter, Publishing
<1> QED BY <1>2, <1>3 DEF Kept

\* A rename stores for the new name only.
LEMMA HeldByHand ==
    ASSUME user.to \in Keys, held \subseteq Keys, NEW moved, held' = HeldIf(moved)
    PROVE  /\ held' \subseteq Keys
           /\ \A k : k # user.to => (k \in held' => k \in held)
           /\ ~moved => held' = held
BY DEF HeldIf

\* A person's step keeps what it does not take apart.
LEMMA KeptByHand ==
    ASSUME Type, CountInv, ClaimInv, KeptInv, ByHand
    PROVE  KeptInv'
<1> USE DEF SameCache, SameGhosts
<1>0. /\ pin \in [Keys -> Nat] /\ auto \in [Keys -> Nat] /\ mem \in [Keys -> Memories]
      /\ held \subseteq Keys /\ made \in Nat /\ Calm
  BY ByHandCalm DEF Type, CacheType, KeptInv, CountInv
<1>1. ASSUME NEW k \in Keys, StartUpload(k) PROVE KeptInv'
  <2>1. SameCache /\ SameGhosts /\ user' = user
    BY <1>0, <1>1, StartUploadEffect
  <2> QED BY <1>0, <2>1, KeptUndisturbed, KeptAmongPeople
<1>2. ASSUME NEW n \in Keys, StartReset(n) PROVE KeptInv'
  <2>1. SameCache /\ doubt' = doubt /\ user = Nobody /\ held' = held \ {n}
    BY <1>2, StartResetEffect
  <2>2. \A k : ~Leaving(k)
    BY <2>1 DEF Leaving, Resetting, Nobody
  <2>3. \A k \in Keys : Kept(k) => Kept(k)'
    BY <1>0, <2>1, KeptUndisturbed
  <2> QED BY <1>0, <2>1, <2>2, <2>3, KeptStep
<1>3. ASSUME NEW o \in Keys, NEW n \in Keys, StartRename(o, n) PROVE KeptInv'
  <2>1. SameCache /\ doubt' = doubt /\ user = Nobody /\ held' = held \ {o}
    BY <1>3, StartRenameEffect
  <2>2. \A k : ~Leaving(k)
    BY <2>1 DEF Leaving, Resetting, Nobody
  <2>3. \A k \in Keys : Kept(k) => Kept(k)'
    BY <1>0, <2>1, KeptUndisturbed
  <2> QED BY <1>0, <2>1, <2>2, <2>3, KeptStep
<1>4. CASE WriteOverride
  <2>1. /\ auto' = auto /\ mem' = mem /\ doubt' = doubt /\ user' = user
        /\ upload # Nobody /\ upload.key \in Keys
    BY <1>4, WriteOverrideEffect
  <2>2. upload.img # None
    BY <2>1 DEF CountInv, Made, None
  <2>3. CASE pin' = pin /\ held' = held
    BY <1>0, <2>1, <2>3, KeptUndisturbed, KeptAmongPeople
  <2>4. CASE pin' = Set(pin, upload.key, upload.img) /\ held' = held \union {upload.key}
    <3>1. ASSUME NEW k \in Keys, Kept(k) PROVE Kept(k)'
      <4>1. CASE k = upload.key
        <5>1. pin'[k] # None
          BY <1>0, <2>2, <2>4, <4>1 DEF Set
        <5> QED BY <1>0, <2>1, <3>1, <5>1, KeptPinned
      <4>2. CASE k # upload.key
        <5>1. pin'[k] = pin[k]
          BY <1>0, <2>4, <4>2 DEF Set
        <5> QED BY <1>0, <2>1, <2>4, <3>1, <4>2, <5>1, KeptUndisturbed
      <4> QED BY <4>1, <4>2
    <3> QED BY <1>0, <2>1, <2>4, <3>1, KeptAmongPeople
  <2> QED BY <1>4, <2>3, <2>4, WriteOverrideEffect
<1>5. CASE ResetPin
  <2>1. /\ auto' = auto /\ mem' = mem /\ doubt' = doubt /\ held' = held
        /\ user.op = "reset" /\ user.key \in Keys
        /\ user'.op = user.op /\ user'.key = user.key /\ user'.at = "auto"
        /\ pin' = Set(pin, user.key, None)
    BY <1>5, ResetPinEffect DEF Onward
  <2>2. \A k : Leaving(k) => k = user.key
    BY DEF Leaving, Resetting
  <2>3. Leaving(user.key)'
    BY <2>1 DEF Leaving, Resetting
  <2>4. ASSUME NEW k \in Keys, Kept(k), k # user.key PROVE Kept(k)'
    <3>1. pin'[k] = pin[k]
      BY <1>0, <2>1, <2>4 DEF Set
    <3> QED BY <1>0, <2>1, <2>4, <3>1, KeptUndisturbed
  <2>5. \A k : k = user.key => Leaving(k)'
    BY <2>1 DEF Leaving, Resetting
  <2> QED BY <1>0, <2>1, <2>2, <2>4, <2>5, KeptStep
<1>6. CASE ResetPinRefused
  <2>1. /\ SameCache /\ doubt' = doubt /\ user.op = "reset" /\ user.at = "pin"
        /\ user.key \in Keys /\ pin[user.key] # None /\ held' = held \union {user.key}
    BY <1>6, ResetPinRefusedEffect
  <2>2. \A k : ~Leaving(k)
    BY <2>1 DEF Leaving, Resetting
  <2>3. ASSUME NEW k \in Keys, Kept(k) PROVE Kept(k)'
    <3>1. CASE k = user.key
      BY <1>0, <2>1, <2>3, <3>1, KeptPinned
    <3>2. CASE k # user.key
      BY <1>0, <2>1, <2>3, <3>2, KeptUndisturbed
    <3> QED BY <3>1, <3>2
  <2> QED BY <1>0, <2>1, <2>2, <2>3, KeptStep
<1>7. CASE ClearSlots
  <2>1. /\ pin' = pin /\ mem' = mem /\ doubt \subseteq doubt' /\ held' = held
        /\ user.op = "reset" /\ user.key \in Keys
        /\ user'.op = user.op /\ user'.key = user.key /\ user'.at = "memory"
        /\ auto' = Unless(refusing, auto, user.key, None)
    BY <1>7, ClearSlotsEffect DEF Onward
  <2>2. \A k : Leaving(k) => k = user.key
    BY DEF Leaving, Resetting
  <2>3. ASSUME NEW k \in Keys, Kept(k), k # user.key PROVE Kept(k)'
    <3>1. auto'[k] = auto[k]
      BY <1>0, <2>1, <2>3 DEF Set, Unless
    <3> QED BY <1>0, <2>1, <2>3, <3>1, KeptUndisturbed
  <2>4. \A k : k = user.key => Leaving(k)'
    BY <2>1 DEF Leaving, Resetting
  <2> QED BY <1>0, <2>1, <2>2, <2>3, <2>4, KeptStep
<1>8. CASE ClearMemory \/ ForgetOld
  <2>1. /\ pin' = pin /\ auto' = auto /\ doubt' = doubt /\ user.key \in Keys
        /\ held' = held \ {user.key} /\ mem' = Remember(user.key, Absent)
    BY <1>8, ClearMemoryEffect, ForgetOldEffect DEF Onward
  <2>2. \A k : Leaving(k) => k = user.key
    BY DEF Leaving, Resetting
  <2>3. ASSUME NEW k \in Keys, Leaving(k) \/ Kept(k) PROVE Kept(k)'
    <3>1. CASE k = user.key
      <4>1. mem'[k] = Absent
        BY <1>0, <2>1, <3>1 DEF Remember, Set
      <4> QED BY <2>1, <3>1, <4>1, KeptEmpty
    <3>2. CASE k # user.key
      <4>1. mem'[k] = mem[k]
        BY <1>0, <2>1, <3>2 DEF Remember, Set
      <4> QED BY <1>0, <2>1, <2>2, <2>3, <3>2, <4>1, KeptUndisturbed
    <3> QED BY <3>1, <3>2
  <2> QED BY <1>0, <2>1, <2>3, KeptStep
<1>9. CASE Refill
  <2>1. SameCache /\ SameGhosts /\ user.op = "reset" /\ user.at = "refill"
    BY <1>9, RefillEffect
  <2>2. \A k : ~Leaving(k)
    BY <2>1 DEF Leaving, Resetting
  <2>3. \A k \in Keys : Kept(k) => Kept(k)'
    BY <1>0, <2>1, KeptUndisturbed
  <2> QED BY <1>0, <2>1, <2>2, <2>3, KeptStep
<1>10. CASE PurgeOld \/ DropOldSlots
  <2>1. /\ mem' = mem /\ held' = held /\ doubt' = doubt /\ user.key \in Keys
        /\ user.op = "rename" /\ user'.op = "rename" /\ user'.key = user.key
        /\ pin' = pin \/ pin' = Unless(refusing, pin, user.key, None)
        /\ auto' = Unless(refusing, auto, user.key, None)
    BY <1>10, PurgeOldEffect, DropOldSlotsEffect DEF Onward, Cleared
  <2>2. \A k : (Leaving(k) => k = user.key) /\ (k = user.key => Leaving(k)')
    BY <2>1 DEF Leaving, Resetting
  <2>3. ASSUME NEW k \in Keys, Kept(k), k # user.key PROVE Kept(k)'
    <3>1. auto'[k] = auto[k]
      BY <1>0, <2>1, <2>3 DEF Set, Unless
    <3>2. pin'[k] = pin[k]
      BY <1>0, <2>1, <2>3 DEF Set, Unless
    <3> QED BY <1>0, <2>1, <2>3, <3>1, <3>2, KeptUndisturbed
  <2> QED BY <1>0, <2>1, <2>2, <2>3, KeptStep
<1>11. CASE MovePin
  <2>1. /\ auto' = auto /\ mem' = mem /\ doubt' = doubt
        /\ user.op = "rename" /\ user'.op = "rename" /\ user'.key = user.key
        /\ pin' = Moved(pin, None) /\ held' = HeldIf(pin' # pin)
        /\ user.key \in Keys /\ user.to \in Keys /\ user.key # user.to
    BY <1>11, MovePinEffect DEF Onward
  <2>2. \A k : (Leaving(k) => k = user.key) /\ (k = user.key => Leaving(k)')
    BY <2>1 DEF Leaving, Resetting
  <2>3. /\ \A k \in Keys \ {user.key, user.to} : pin'[k] = pin[k]
        /\ pin' = pin \/ (pin' # pin /\ pin'[user.to] # None)
    BY <1>0, <2>1, MovedFacts
  <2>4. /\ held' \subseteq Keys
        /\ \A k : k # user.to => (k \in held' => k \in held)
        /\ pin' = pin => held' = held
    BY <1>0, <2>1, HeldByHand
  <2>5. ASSUME NEW k \in Keys, Kept(k), k # user.key PROVE Kept(k)'
    <3>1. CASE pin' = pin \/ k # user.to
      <4>1. pin'[k] = pin[k] /\ (k \in held' => k \in held)
        BY <2>3, <2>4, <2>5, <3>1
      <4> QED BY <1>0, <2>1, <2>5, <4>1, KeptUndisturbed
    <3>2. CASE pin' # pin /\ k = user.to
      <4>1. pin'[k] # None
        BY <2>3, <3>2
      <4> QED BY <1>0, <2>1, <2>5, <4>1, KeptPinned
    <3> QED BY <3>1, <3>2
  <2> QED BY <2>1, <2>2, <2>4, <2>5, KeptStep
<1>12. CASE MoveAuto
  <2>1. /\ pin' = pin /\ mem' = mem /\ doubt \subseteq doubt'
        /\ user.op = "rename" /\ user'.op = "rename" /\ user'.key = user.key
        /\ auto' = Moved(auto, None) /\ held' = HeldIf(auto' # auto)
        /\ ComesBack(auto[user.key], user.to) => <<"taken back", user.to>> \in doubt'
        /\ user.key \in Keys /\ user.to \in Keys /\ user.key # user.to
    BY <1>12, MoveAutoEffect DEF Onward
  <2>2. \A k : (Leaving(k) => k = user.key) /\ (k = user.key => Leaving(k)')
    BY <2>1 DEF Leaving, Resetting
  <2>3. /\ \A k \in Keys \ {user.key, user.to} : auto'[k] = auto[k]
        /\ auto' = auto \/ (auto' # auto /\ auto'[user.to] = auto[user.key] /\ auto'[user.to] # None)
    BY <1>0, <2>1, MovedFacts
  <2>4. /\ held' \subseteq Keys
        /\ \A k : k # user.to => (k \in held' => k \in held)
        /\ auto' = auto => held' = held
    BY <1>0, <2>1, HeldByHand
  <2>5. ASSUME NEW k \in Keys, Kept(k), k # user.key, ~MayBeGone(k)' PROVE Kept(k)'
    <3>1. CASE auto' = auto \/ k # user.to
      <4>1. auto'[k] = auto[k] /\ (k \in held' => k \in held)
        BY <2>3, <2>4, <2>5, <3>1
      <4> QED BY <1>0, <2>1, <2>5, <4>1, KeptUndisturbed
    <3>2. CASE auto' # auto /\ k = user.to
      <4>1. auto'[k] = auto[user.key] /\ auto'[k] # None
        BY <2>3, <3>2
      <4>2. ~ComesBack(auto'[k], k)
        BY <2>1, <2>5, <3>2, <4>1 DEF MayBeGone, Chance
      <4>3. \A t \in Tasks : Publishing(t)' => Publishing(t) /\ Same(t)
        BY <1>0, CalmPublishing
      <4>4. \A t \in Tasks : Publishing(t)' /\ task'[t].key = k => task'[t].img # auto'[k]
        BY <4>1, <4>2, <4>3 DEF ComesBack, ClaimInv, Same
      <4>5. There(k)'
        BY <4>1, <4>4 DEF There
      <4> QED BY <4>1, <4>5 DEF Kept
    <3> QED BY <3>1, <3>2
  <2> QED BY <2>1, <2>2, <2>4, <2>5, KeptStep
<1>13. CASE MoveStrand
  <2>1. /\ pin' = pin /\ auto' = auto /\ doubt \subseteq doubt'
        /\ user.op = "rename" /\ user'.op = "rename" /\ user'.key = user.key
        /\ \/ mem' = mem /\ held' = held
           \/ /\ Remembered(user.key) /\ mem' = Remember(user.to, mem[user.key])
              /\ held' \subseteq held \union {user.to}
        /\ ComesBack(mem[user.key].img, user.to) => <<"taken back", user.to>> \in doubt'
        /\ user.key \in Keys /\ user.to \in Keys /\ user.key # user.to
    BY <1>13, MoveStrandEffect DEF Onward
  <2>2. \A k : (Leaving(k) => k = user.key) /\ (k = user.key => Leaving(k)')
    BY <2>1 DEF Leaving, Resetting
  <2>3. held' \subseteq Keys
    BY <1>0, <2>1
  <2>4. ASSUME NEW k \in Keys, Kept(k), k # user.key, ~MayBeGone(k)' PROVE Kept(k)'
    <3>1. CASE (mem' = mem /\ held' = held) \/ k # user.to
      <4>1. mem'[k] = mem[k] /\ (k \in held' => k \in held)
        BY <1>0, <2>1, <3>1 DEF Remember, Set
      <4> QED BY <1>0, <2>1, <2>4, <4>1, KeptUndisturbed
    <3>2. CASE k = user.to /\ Remembered(user.key) /\ mem' = Remember(user.to, mem[user.key])
      <4>1. mem'[k] = mem[user.key]
        BY <1>0, <2>1, <3>2 DEF Remember, Set
      <4>2. There(k)'
        BY <3>2, <4>1 DEF There, Remembered
      <4>3. mem[user.key].img # None
        BY <2>1, <3>2 DEF Remembered, Type, CacheType
      <4>4. ~ComesBack(mem'[k].img, k)
        BY <2>1, <2>4, <3>2, <4>1 DEF MayBeGone, Chance
      <4>5. \A t \in Tasks : Publishing(t)' => Publishing(t) /\ Same(t)
        BY <1>0, CalmPublishing
      <4>6. \A t \in Tasks : Publishing(t)' /\ task'[t].key = k => task'[t].img # mem'[k].img
        BY <4>1, <4>3, <4>4, <4>5 DEF ComesBack, ClaimInv, Same
      <4>7. \A t \in Tasks : task'[t].at = "release" /\ task'[t].key = k => mem'[k] # Strand(task'[t].img)
        BY <4>6, Memory DEF Publishing
      <4> QED BY <4>2, <4>7 DEF Kept
    <3> QED BY <2>1, <3>1, <3>2
  <2> QED BY <2>1, <2>2, <2>3, <2>4, KeptStep
<1> QED BY <1>1, <1>2, <1>3, <1>4, <1>5, <1>6, <1>7, <1>8, <1>9, <1>10, <1>11, <1>12, <1>13
        DEF ByHand

\* Every step keeps what was stored.
LEMMA KeptNext ==
    ASSUME Type, CountInv, FreshInv, ClaimInv, KeptInv, [Next]_vars
    PROVE  KeptInv'
BY Steps, KeptCalm, KeptWrites, KeptByHand

-----------------------------------------------------------------------------
(* The invariant, and what it says when everyone has finished.             *)

IInv == Type /\ CountInv /\ FreshInv /\ ClaimInv /\ ResetInv /\ KeptInv

\* At the start one portrait may be pinned, and nobody does anything.
LEMMA InitHolds ==
    ASSUME Init
    PROVE  IInv
<1>1. made \in Nat /\ held \subseteq Keys /\ \A k \in held : made # None
  <2>1. (held = {} \/ \E k \in Keys : held = {k}) /\ made = Cardinality(held)
    BY DEF Init
  <2>2. CASE held = {}
    <3>1. Cardinality({}) = 0
      BY FS_EmptySet
    <3> QED BY <2>1, <2>2, <3>1
  <2>3. ASSUME NEW k \in Keys, held = {k} PROVE made = 1
    BY <2>1, <2>3, FS_Singleton
  <2> QED BY <2>1, <2>2, <2>3 DEF None
<1>2. /\ pin = [k \in Keys |-> IF k \in held THEN made ELSE None]
      /\ auto = [k \in Keys |-> None] /\ mem = [k \in Keys |-> Absent]
      /\ user = Nobody /\ upload = Nobody /\ past = {} /\ doubt = {}
      /\ task = [t \in Tasks |-> Asleep(IF t \in Keys THEN t ELSE None)]
  BY DEF Init
<1>3. TaskType /\ \A t \in Tasks : task[t].at = "idle"
  <2>1. \A t \in Tasks : task[t] \in TaskStates /\ task[t].at = "idle"
    BY <1>2, AsleepType DEF Asleep
  <2> QED BY <1>2, <2>1 DEF TaskType
<1>4. CacheType
  BY <1>1, <1>2, Memory DEF CacheType, Sound, None
<1>5. PeopleType
  BY <1>2 DEF PeopleType
<1>6. \A t \in Tasks : ~Publishing(t) /\ ~Storing(t) /\ ~Busy(t)
  BY <1>3 DEF Publishing, Storing, Busy
<1>7. CountInv
  <2>1. \A k \in Keys : pin[k] <= made /\ auto[k] <= made /\ mem[k].img <= made
    BY <1>1, <1>2, Memory DEF None
  <2> QED BY <1>1, <1>2, <1>6, <2>1 DEF CountInv
<1>8. FreshInv /\ ClaimInv
  BY <1>2, <1>6 DEF FreshInv, ClaimInv
<1>9. ResetInv
  BY <1>2 DEF ResetInv
<1>10. KeptInv
  <2>1. \A k \in Keys : k \in held => pin[k] # None
    BY <1>1, <1>2
  <2>2. \A k \in Keys : Kept(k)
    BY <1>3, <2>1 DEF Kept, There
  <2> QED BY <1>1, <2>2 DEF KeptInv
<1> QED BY <1>3, <1>4, <1>5, <1>7, <1>8, <1>9, <1>10 DEF IInv, Type

\* The invariant of the portraits: the types, images made once and seen nowhere
\* before they are stored, one publisher of a strand, what a reset is to forget
\* gone or about to go, and what was stored there.
THEOREM Invariant == Spec => []IInv
<1>1. Init => IInv
  BY InitHolds
<1>2. IInv /\ [Next]_vars => IInv'
  BY TypeNext, FreshNext, ClaimNext, ResetNext, KeptNext DEF IInv
<1> QED BY <1>1, <1>2, PTL DEF Spec

\* Nobody is publishing anything when everyone has finished.
LEMMA QuietTasks ==
    ASSUME Quiet
    PROVE  /\ \A i, k : \A t \in Tasks : ~Checks(t, i, k)
           /\ \A k : ~Resetting(k, {"pin", "auto", "memory"}) /\ ~Leaving(k)
<1>1. \A i, k : \A t \in Tasks : ~Checks(t, i, k)
  BY DEF Quiet, Checks
<1>2. user.op = "none"
  <2>1. user = [op |-> "none"]
    BY DEF Quiet, Nobody
  <2> QED BY <2>1
<1> QED BY <1>1, <1>2 DEF Resetting, Leaving

\* A reset forgets what it cleared, for any artists, pages and bounds, unless
\* the disk refused, or a reader finished in the gap (cache.py:418-472, 643-674,
\* api/artists.py:939-996).
THEOREM ForgetsReset == Spec => []ResetForgets
<1>1. ASSUME IInv, Quiet, NEW k \in Keys, NEW i \in Returned(k) PROVE Survives(i)
  <2>1. i \in Images(k) /\ <<i, k>> \in past /\ i \in Made
    BY <1>1, ImagesMade DEF Returned, IInv
  <2>2. ~Gone(i, k)
    <3>1. /\ \A t \in Tasks : ~Checks(t, i, k)
          /\ ~Resetting(k, {"pin", "auto", "memory"})
      BY <1>1, QuietTasks
    <3>2. pin[k] = i \/ auto[k] = i \/ mem[k].img = i
      BY <2>1 DEF Images
    <3> QED BY <3>1, <3>2 DEF Gone, Resetting
  <2> QED BY <1>1, <2>1, <2>2 DEF IInv, ResetInv
<1>2. IInv => ResetForgets
  BY <1>1 DEF ResetForgets
<1> QED BY <1>2, Invariant, PTL

\* What was stored is there, for any artists, pages and bounds, unless a reader
\* took it back or a later lookup dropped it (cache.py:304-330).
THEOREM KeepsStored == Spec => []StoredIsKept
<1>1. ASSUME IInv, Quiet, NEW k \in held PROVE MayBeGone(k) \/ Slot(k) # None \/ Remembered(k)
  <2>1. k \in Keys /\ (MayBeGone(k) \/ Leaving(k) \/ Kept(k))
    BY <1>1 DEF IInv, KeptInv
  <2>2. ~Leaving(k)
    BY <1>1, QuietTasks
  <2>3. Kept(k) => pin[k] # None \/ Remembered(k) \/ auto[k] # None
    BY <1>1 DEF Kept, There
  <2> QED BY <2>1, <2>2, <2>3 DEF Slot
<1>2. IInv => StoredIsKept
  BY <1>1 DEF StoredIsKept
<1> QED BY <1>2, Invariant, PTL
=============================================================================
