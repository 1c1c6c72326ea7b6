---------------------------- MODULE StoreLayout ----------------------------
(***************************************************************************)
(* Where the directories of MusicDrop may sit relative to each other.      *)
(*                                                                         *)
(* A path is a sequence of names.  Two tables rewrite paths: `links', the  *)
(* symbolic links as they point now, and `binds', the bind mounts.         *)
(* Path.resolve() follows links; two directories are one (same device and  *)
(* inode) when they are equal after both rewritings.  Everything here is a *)
(* function of the tables, of the environment's settings `env' (the Trash, *)
(* its records and the inbox, as spelled) and of the two settings of       *)
(* config.yaml, `directory:' (music) and `library:' (the folder of the     *)
(* database).                                                              *)
(***************************************************************************)
EXTENDS Integers, Sequences, FiniteSets, SequencesExt

CONSTANTS
  Places,     \* the directories of the disk as they are without binds: a tree
  BeetsDir,   \* MUSICDROP_BEETS_DIR
  MaxHops     \* links followed before a chain is taken for a loop

Nowhere == <<"nowhere">>

-----------------------------------------------------------------------------
(* Paths and identities *)

Through(p, table) == {q \in DOMAIN table : IsPrefix(q, p)}

\* The shortest prefix the table names gives way to what it stands for.
Rewrite(p, table) ==
  IF Through(p, table) = {} THEN p
  ELSE LET q == CHOOSE q \in Through(p, table) : \A r \in Through(p, table) : Len(q) <= Len(r)
       IN  table[q] \o SubSeq(p, Len(q) + 1, Len(p))

\* A chain longer than MaxHops is a loop and leads nowhere.
Rewritten(p, table) ==
  LET after[n \in 0..MaxHops] == IF n = 0 THEN p ELSE Rewrite(after[n - 1], table)
  IN  IF Through(p, table) = {} THEN p
      ELSE IF Through(after[MaxHops], table) = {} THEN after[MaxHops] ELSE Nowhere

\* Path.resolve(): a loop of links resolves to nowhere.
Resolved(p, links) == Rewritten(p, links)

\* The directory a path names, whatever mounts it goes through.
Ident(p, binds) == Rewritten(p, binds)

\* How `container' stands to `inner': the rungs of a path are its prefixes.
RelationOf(container, inner, binds) ==
  LET is(k) == Ident(SubSeq(inner, 1, k), binds) = Ident(container, binds) IN
  IF is(Len(inner)) THEN "is"
  ELSE IF \E k \in 0..(Len(inner) - 1) : is(k) THEN "contains" ELSE "apart"

\* The directories a walk below d meets: it enters mounts and follows no link.
Below(d, binds) ==
  LET under(x) == {p \in Places : IsPrefix(x, p)}
  IN  under(d) \cup UNION {under(binds[b]) : b \in {c \in DOMAIN binds : IsPrefix(d, c)}}

-----------------------------------------------------------------------------
(* The rule *)

\* The directories the rule relates, each resolved.
Participants(doc, env, links) ==
  [music   |-> Resolved(doc.music, links),
   beets   |-> BeetsDir,
   trash   |-> Resolved(env.trash, links),
   origins |-> Resolved(env.origins, links),
   library |-> Resolved(doc.library, links),
   inbox   |-> Resolved(env.inbox, links)]

\* The refused relations: what stands to what, and how.
Rows ==
  {<<"beets", "music", "is">>, <<"music", "beets", "contains">>,
   <<"beets", "music", "contains">>, <<"music", "origins", "contains">>,
   <<"origins", "trash", "contains">>}
  \cup ({"trash"} \X {"music", "beets", "origins", "library"} \X {"is", "contains"})
  \cup ({"origins"} \X {"music", "beets", "library"} \X {"is", "contains"})

\* A store of the application belongs to nobody else.
StoreRows(stores) == {"trash", "origins"} \X stores \X {"is", "contains"}

\* The database is a file in the folder `library': a directory that is that
\* folder contains it.
LibraryRelation(rel) == IF rel = "is" THEN "contains" ELSE rel

\* check_store_layout: no row holds, and every path resolves.
LayoutAccepted(doc, env, links, binds) ==
  LET who == Participants(doc, env, links)
      rel(c, i) == IF i = "library" THEN LibraryRelation(RelationOf(who[c], who[i], binds))
                                    ELSE RelationOf(who[c], who[i], binds)
  IN  /\ Nowhere \notin {who[k] : k \in DOMAIN who}
      /\ \A row \in Rows \cup StoreRows({"inbox"}) : rel(row[1], row[2]) # row[3]

-----------------------------------------------------------------------------
(* The walk to the Trash: from the top, one open directory at a time, so   *)
(* that a Trash below the music library is never made on an empty mount    *)
(* point nor reached through a link inside the library.                    *)

\* _below_the_music_root asks by identity, whatever the spelling.
IsMusicRoot(d, disk) == Ident(d, disk.binds) = disk.music

\* A link may be an alias of the music root; one that ends inside the library
\* without naming it is refused.
ReachesIn(target, disk) == target.below /\ ~IsMusicRoot(target.at, disk)

RECURSIVE Walk(_, _, _)
\* w.at is where the walk stands, w.below whether it passed the music root,
\* w.left what of the path does not exist.
Walk(w, parts, disk) ==
  IF parts = <<>> THEN w
  ELSE LET child == Append(w.at, Head(parts)) IN
    IF child \in DOMAIN disk.links
    THEN LET target == Walk([w EXCEPT !.at = <<>>, !.hops = @ + 1], disk.links[child], disk)
         IN  IF w.below \/ w.hops = MaxHops \/ ~target.ok THEN [w EXCEPT !.ok = FALSE]
             ELSE IF target.left # <<>> THEN [w EXCEPT !.left = parts]
             ELSE IF ReachesIn(target, disk) THEN [w EXCEPT !.ok = FALSE]
             ELSE Walk(target, Tail(parts), disk)
    ELSE IF Ident(child, disk.binds) \notin disk.dirs THEN [w EXCEPT !.left = parts]
    ELSE Walk([w EXCEPT !.at = child,
                        !.below = @ \/ IsMusicRoot(child, disk)],
              Tail(parts), disk)

\* disk: the two tables, the directories that exist, the identity of the music root.
TrashChain(env, disk) ==
  Walk([at |-> <<>>, below |-> FALSE, hops |-> 0, left |-> <<>>, ok |-> TRUE],
       env.trash, disk)

\* The walk goes on from where it stood, on the disk as it is by now.
Resumed(chain, disk) == Walk([chain EXCEPT !.left = <<>>], chain.left, disk)

\* Mutant: nobody asks whether the library is there.
MayCreateAnyway(chain, resumed, disk, present) ==
  resumed.left # <<>> => Append(resumed.at, Head(resumed.left)) \notin DOMAIN disk.links

\* What is missing may be made: nothing dangles, and below the music root only
\* with the library present.
MayCreate(chain, resumed, disk, present) ==
  /\ (resumed.left # <<>> => Append(resumed.at, Head(resumed.left)) \notin DOMAIN disk.links)
  /\ (chain.left # <<>> /\ chain.below => present)

-----------------------------------------------------------------------------
(* Identities nothing may move or remove *)

\* protected_entries, by identity; `trash' is the identity the walk ended at.
ProtectedIds(doc, env, links, binds, trash) ==
  LET who == Participants(doc, env, links)
  IN  [k \in DOMAIN who |-> IF k = "trash" THEN trash ELSE Ident(who[k], binds)]

\* A walk of d meets a protected directory, or d is one.
Holds(d, ids, binds) == \E k \in DOMAIN ids : ids[k] \in Below(d, binds)

\* An alias: the Trash is one of the others, under another name.
TrashIsAliased(ids) == \E k \in DOMAIN ids \ {"trash"} : ids[k] = ids.trash

-----------------------------------------------------------------------------
(* What may be imported from *)

SourceKind(k) == CASE k = "music" -> "library" [] k = "library" -> "database"
                   [] k = "inbox" -> "inbox" [] OTHER -> "app"

\* The kinds that name the nearest directory at or above the source that is one of ours.
NearestKinds(source, who, binds) ==
  LET at(n) == {SourceKind(k) : k \in {k \in DOMAIN who :
                  /\ Ident(SubSeq(source, 1, n), binds) = Ident(who[k], binds)
                  /\ SourceKind(k) # "database"}}
      found == {n \in 0..(Len(source) - 1) : at(n) # {}}
  IN  IF found = {} THEN {} ELSE at(CHOOSE n \in found : \A m \in found : m <= n)

\* source_refusal: a source that is or holds one of ours, or is inside the
\* application's own data, is refused.
SourceRefused(source, doc, env, links, binds) ==
  LET who == Participants(doc, env, links)
      s == Resolved(source, links)
      near == NearestKinds(s, who, binds)
  IN  \/ \E k \in DOMAIN who : RelationOf(s, who[k], binds) # "apart"
      \/ "library" \notin near /\ "app" \in near
=============================================================================
