----------------------------- MODULE StoreReach -----------------------------
(***************************************************************************)
(* How far the operations reach that remove and move: Empty Trash, the     *)
(* sweep of the records, the delete of a folder and an import from one.    *)
(* Each asks the layout rule and takes the identities of our directories   *)
(* before it opens anything, and between these steps a link may be pointed *)
(* elsewhere and the music share may go away or return.  And where they    *)
(* make the Trash: through the walk, or by its path.                       *)
(***************************************************************************)
EXTENDS StoreLayout, TLC

CONSTANTS
  Texts,       \* what config.yaml may say: [music, library]
  Envs,        \* settings of the environment and mounts: [trash, origins, inbox, binds]
  LinkAt,      \* the place that is a directory or a link
  Targets,     \* where the link may point
  Sources,     \* folders an import may be asked for
  None,
  MaxOutside, MaxOps   \* bounds: steps from outside, operations

VARIABLES
  env,        \* the environment, fixed
  target,     \* where LinkAt points, None when it is a directory
  missing,    \* directories that do not exist (yet)
  bare,       \* the music share is away: its mount point is empty
  hidden,     \* what was made on that mount point: its place, and what excuses it
  text,       \* the configuration that is served
  attached,   \* the Trash and the records the registry was given, or None
  op,         \* the operation under way
  gone,       \* what the last operation removed or moved away, or None
  budget

vars == <<env, target, missing, bare, hidden, text, attached, op, gone, budget>>
world == <<env, target, missing, bare, hidden>>
served == <<text, attached>>

-----------------------------------------------------------------------------
LinksAt(t) == IF t = None THEN <<>> ELSE (LinkAt :> t)
Links == LinksAt(target)

Existing == {p \in Places : ~ \E m \in missing : IsPrefix(m, p)}
MusicId == Ident(Resolved(text.music, Links), env.binds)

\* The directories with the share away or there.  When it is away nothing is left
\* but its mount point and what was made on it.
DirsAs(away) ==
  IF away THEN {p \in Existing : p = MusicId \/ ~IsPrefix(MusicId, p)}
                 \cup {p \in Places : \E h \in hidden : IsPrefix(p, h.place)}
  ELSE Existing
DirsNow == DirsAs(bare)
DiskAs(away, music) ==
  [links |-> Links, binds |-> env.binds, dirs |-> DirsAs(away), music |-> music]

\* The rule's verdict on each text in each world.
AcceptedWorlds ==
  {w \in Texts \X Envs \X (Targets \cup {None}) :
     LayoutAccepted(w[1], w[2], LinksAt(w[3]), w[2].binds)}
Accepted(t) == <<t, env, target>> \in AcceptedWorlds

Idle == op.st = "idle"
NoOp == [st |-> "idle"]

Who == Participants(text, env, Links)
Stores == [trash |-> Who.trash, origins |-> Who.origins]

\* Started: the text passed the rule.
Init ==
  /\ env \in Envs /\ target \in Targets \cup {None}
  /\ missing \in {{}, {Ident(Resolved(env.trash, Links), env.binds)}}
  /\ bare \in BOOLEAN /\ hidden = {}
  /\ text \in Texts /\ Accepted(text) /\ attached = Stores
  /\ op = NoOp /\ gone = None
  /\ budget = [outside |-> 0, ops |-> 0]

Spend(what, max) ==
  /\ budget[what] < max
  /\ budget' = [budget EXCEPT ![what] = @ + 1]

\* Apply: the layout of what is served now is asked before the registry gets it.
Serve(t) ==
  /\ Idle /\ t # text /\ Spend("outside", MaxOutside)
  /\ text' = t /\ attached' = IF Accepted(t) THEN Stores ELSE None
  /\ UNCHANGED <<world, op, gone>>

-----------------------------------------------------------------------------
(* The operations whose reach the rule bounds *)

OursIds == [k \in DOMAIN Who |-> Ident(Who[k], env.binds)]

\* A directory is made: on the share, or on its mount point when the share is away.
Make(place, away, how) ==
  IF away /\ IsPrefix(MusicId, place)
  THEN /\ hidden' = IF place \in DirsAs(TRUE) THEN hidden
                    ELSE hidden \cup {[place |-> place, how |-> how]}
       /\ UNCHANGED missing
  ELSE /\ missing' = {m \in missing : ~IsPrefix(m, place)}
       /\ UNCHANGED hidden

\* checked_store_dirs: the Trash and the records as they resolve now.
CheckStores(kind) ==
  /\ Idle
  /\ Accepted(text)
  /\ Spend("ops", MaxOps)
  /\ op' = [st |-> "checked", kind |-> kind, trash |-> Who.trash, origins |-> Who.origins,
            target |-> target, raced |-> "nothing"]
  /\ UNCHANGED <<world, served, gone>>

\* _music_root_ident: the directory that is the music root now.
TakeRoot ==
  /\ op.st = "checked"
  /\ op' = [op EXCEPT !.st = "rooted"] @@ [root |-> MusicId, away |-> bare]
  /\ UNCHANGED <<world, served, gone, budget>>

\* The chain as it is now; a mount point is not the share's root.
WalkChain ==
  /\ op.st = "rooted"
  /\ LET root == IF op.away = bare THEN op.root ELSE Nowhere
         chain == TrashChain(env, DiskAs(bare, root))
     IN  op' = IF chain.ok
               THEN [op EXCEPT !.st = "walked", !.root = root, !.away = bare] @@ [chain |-> chain]
               ELSE NoOp
  /\ UNCHANGED <<world, served, gone, budget>>

\* checked_protected_trees: what is missing of the chain is made through its open
\* end, which stays on the disk it was walked on; whether the music is there is
\* asked by its path, before.  Then the identities are taken.
TakeIds ==
  /\ op.st = "walked"
  /\ LET disk == DiskAs(op.away, op.root)
         chain == Resumed(op.chain, disk)
         trash == Ident(chain.at \o chain.left, env.binds)
     IN  IF chain.ok /\ MayCreate(op.chain, chain, disk, ~bare)
         THEN /\ Make(trash, op.away, op.raced)
              /\ op' = [st |-> "armed", kind |-> op.kind, trash |-> op.trash,
                        origins |-> op.origins, target |-> op.target,
                        raced |-> op.raced, away |-> op.away,
                        ids |-> ProtectedIds(text, env, Links, env.binds, trash)]
         ELSE op' = NoOp /\ UNCHANGED <<missing, hidden>>
  /\ UNCHANGED <<env, target, bare, served, gone, budget>>

\* An import that replaces an album goes by the stores the registry was given.
Replace ==
  /\ Idle /\ attached # None
  /\ LayoutAccepted(text, [env EXCEPT !.trash = attached.trash, !.origins = attached.origins],
                    Links, env.binds)
  /\ Spend("ops", MaxOps)
  /\ op' = [st |-> "armed", kind |-> "album", trash |-> attached.trash, raced |-> "nothing"]
  /\ UNCHANGED <<world, served, gone>>

\* trash_album, of a delete, of the duplicates or of an import: the mount point
\* must hold something, be it what was left on it while the share is away.
GuardAlbum ==
  /\ op.st = "armed" /\ op.kind = "album"
  /\ \/ op' = [st |-> "moving", trash |-> op.trash, raced |-> op.raced, stray |-> bare]
     \/ bare /\ hidden = {} /\ op' = NoOp
  /\ UNCHANGED <<world, served, gone, budget>>

\* Then the Trash is made by its path.
MakeByPath ==
  /\ op.st = "moving"
  /\ Make(Ident(Resolved(op.trash, Links), env.binds), bare,
          IF op.stray \/ op.raced # "nothing" THEN "by path" ELSE "nothing")
  /\ op' = NoOp
  /\ UNCHANGED <<env, target, bare, served, gone, budget>>

\* A removal or a move: the places, those of them nothing looks at, whose they may
\* be, and who was where.
Take(places, unseen, keepers, ours) ==
  gone' = [places |-> places, unseen |-> unseen, keepers |-> keepers, ours |-> ours]

\* What a path opens now without following a link at its end.
Opened(path) == IF path \in DOMAIN Links THEN Nowhere ELSE Ident(Resolved(path, Links), env.binds)

\* Mutant: the path is opened as it leads now, and its identity is not compared.
EmptyWhereItLeads ==
  /\ op.st = "armed" /\ op.kind = "empty"
  /\ LET d == Ident(Resolved(op.trash, Links), env.binds)
         entries == {p \in DirsNow : Len(p) = Len(d) + 1 /\ IsPrefix(d, p)}
         removed == {p \in entries : ~Holds(p, op.ids, env.binds)}
     IN  Take(UNION {Below(p, env.binds) : p \in removed}, {}, {"trash"}, op.ids)
  /\ op' = NoOp
  /\ UNCHANGED <<world, served, budget>>

\* Empty Trash: the directory opened must be the one the walk ended at, and no
\* other of ours; of its entries those that hold one of ours are kept.
Empty ==
  /\ op.st = "armed" /\ op.kind = "empty"
  /\ LET d == Opened(op.trash)
         entries == {p \in DirsNow : Len(p) = Len(d) + 1 /\ IsPrefix(d, p)}
         removed == {p \in entries : ~Holds(p, op.ids, env.binds)}
     IN  IF /\ d = op.ids.trash /\ (IsPrefix(MusicId, d) => bare = op.away)
            /\ ~TrashIsAliased(op.ids)
         THEN Take(UNION {Below(p, env.binds) : p \in removed}, {}, {"trash"}, op.ids)
         ELSE UNCHANGED gone
  /\ op' = NoOp
  /\ UNCHANGED <<world, served, budget>>

\* Once the Trash is empty every record of the store is unlinked.  The store is
\* opened by its path: nothing sees a link pointed elsewhere since the check.
ClearRecords ==
  /\ op.st = "armed" /\ op.kind = "clear"
  /\ Ident(Resolved(op.origins, Links), env.binds) \in DirsNow
  /\ LET swept == {Append(Ident(Resolved(op.origins, Links), env.binds), "json")}
     IN  Take(swept, IF target = op.target THEN {} ELSE swept, {"origins"}, op.ids)
  /\ op' = NoOp
  /\ UNCHANGED <<world, served, budget>>

\* A folder of the library goes to the Trash with what is under it: the sweep of
\* empty folders walks the library up to the stores and no further.
TrashFolder(p) ==
  /\ op.st = "armed" /\ op.kind = "folder"
  /\ p \in DirsNow /\ p # MusicId /\ IsPrefix(MusicId, p)
  /\ \A k \in {"trash", "origins", "inbox"} : ~IsPrefix(op.ids[k], p)
  /\ IF Holds(p, op.ids, env.binds) THEN UNCHANGED gone
     ELSE Take(Below(p, env.binds), {}, {"music", "library"}, op.ids)
  /\ op' = NoOp
  /\ UNCHANGED <<world, served, budget>>

\* An import moves the files of its source, when the registry has the Trash and
\* the source is not refused.  Nothing looks for a mount of the library inside it.
Import(source) ==
  /\ Idle /\ attached # None
  /\ Accepted(text)
  /\ Spend("ops", MaxOps)
  /\ ~SourceRefused(source, text, env, Links, env.binds)
  /\ LET from == Ident(Resolved(source, Links), env.binds)
     IN  Take(Below(from, env.binds), Below(from, env.binds) \ Below(from, <<>>),
              {"music", "inbox", "library"}, OursIds)
  /\ UNCHANGED <<world, served, op>>

-----------------------------------------------------------------------------
(* From outside.  A change between two steps that make a Trash, or say where one *)
(* is made, is remembered.                                                       *)
Raced(what) ==
  IF op.st \in {"rooted", "walked", "moving"} THEN [op EXCEPT !.raced = what] ELSE op

\* The place LinkAt becomes a link, another link, or a directory.
PointLink(t) ==
  /\ Spend("outside", MaxOutside)
  /\ t # target /\ target' = t
  /\ op' = Raced("link")
  /\ UNCHANGED <<env, missing, bare, hidden, served, gone>>

ShareTurns ==
  /\ Spend("outside", MaxOutside)
  /\ bare' = ~bare
  /\ op' = Raced("share")
  /\ UNCHANGED <<env, target, missing, hidden, served, gone>>

Next ==
  \/ \E t \in Texts : Serve(t)
  \/ \E kind \in {"empty", "clear", "folder", "album"} : CheckStores(kind)
  \/ TakeRoot \/ WalkChain \/ TakeIds \/ Empty \/ ClearRecords
  \/ Replace \/ GuardAlbum \/ MakeByPath
  \/ \E p \in Places : TrashFolder(p)
  \/ \E s \in Sources : Import(s)
  \/ \E t \in Targets \cup {None} : PointLink(t)
  \/ ShareTurns

Spec == Init /\ [][Next]_vars

-----------------------------------------------------------------------------
(* Properties *)

\* Whose a place is: the participants at the nearest directory at or above it.
KeepersOf(p, ours) ==
  LET above == {k \in DOMAIN ours : IsPrefix(ours[k], p)}
  IN  {k \in above : \A j \in above : Len(ours[j]) <= Len(ours[k])}

\* Whatever environment, mounts, links and config.yaml come together, and when:
\* Empty Trash removes only what is the Trash's own, the sweep of the records
\* only records, a folder delete only folders of the library, and an import
\* takes nothing out of the application's data; none of them takes one of the
\* directories of ours, or one that holds it.  Nothing looks at two things: where
\* the store of the records leads once a link was pointed elsewhere since the
\* check, and a mount inside the source of an import.
ReachIsTheirs ==
  gone # None => \A p \in gone.places \ gone.unseen :
    /\ \A k \in DOMAIN gone.ours : ~IsPrefix(p, gone.ours[k])
    /\ KeepersOf(p, gone.ours) \subseteq gone.keepers

\* A Trash inside the library is not made on the mount point of a share that is
\* away: it would be hidden, with what was trashed, once the share is back.  Three
\* cases are left out: the share turns, or a link is pointed elsewhere, while an
\* operation walks to the Trash and makes it (store_layout.py:1509-1527), and a
\* Trash made by its path, behind the cheap guard (trash.py:311, 334).
NoTrashOnBareMount == \A h \in hidden : h.how \in {"share", "link", "by path"}

\* What _ensure_trash_root says of the walk, a share that turns included
\* (store_layout.py:1560).
NothingMadeInAbsentLibrary == \A h \in hidden : h.how # "share"
=============================================================================
