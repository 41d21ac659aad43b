-------------------------- MODULE DirectoryProofs --------------------------
(***************************************************************************)
(* Proofs about Directory, for any rows, owners, names, commands and       *)
(* bounds: the quota holds, a repository whose commands crossed no other's *)
(* has its own files at its path, and a backup has in its archive what its *)
(* snapshot names.                                                         *)
(*                                                                         *)
(* Ground is what each state is made of; CrossingsKnown says that commands *)
(* which meet are recorded; PlacesKnown where the files of a repository    *)
(* are while a command is about it, a rename of its organization is under  *)
(* way, or neither.  Work(c) is the frame of a command's step, Settles(c)  *)
(* what the step does to the places, and QuotaGoes(c) to the quota.        *)
(***************************************************************************)
EXTENDS Directory, FiniteSetTheorems, TLAPS

-----------------------------------------------------------------------------
(* The inductive invariant *)

Made == {"create", "fork", "import", "bundle"}
Under(c) == cmd[c].at # "idle"

\* What a command of each kind has read, and where it can be.
MadeShape(k) ==
    /\ k.at \in {"mutex", "insert", "init", "fetch", "unmake", "clean"}
    /\ k.owner \in Owners /\ k.to \in Paths /\ k.from \in {Nil, k.to}
    /\ k.id = Nil <=> k.at \in {"mutex", "insert"}
TransferShape(k) ==
    /\ k.at \in {"mutex", "check", "move", "record", "back"}
    /\ k.owner \in Owners /\ k.id # Nil
    /\ k.from \in Paths /\ k.to \in Paths
    /\ k.from[2] = k.to[2] /\ k.from[1] # k.to[1]
RenameShape(k) ==
    /\ k.at \in {"check", "record", "move", "revert"}
    /\ k.owner \in Owners /\ k.id # Nil
    /\ k.from \in Paths /\ k.to \in Paths
    /\ k.from[1] = k.to[1] /\ k.from[2] # k.to[2]
OrgRenameShape(k) ==
    /\ k.at \in {"check", "record", "move", "revert"}
    /\ k.owner \in Owners /\ k.id = Nil
    /\ k.from \in OwnerNames \X {Nil} /\ k.to \in OwnerNames \X {Nil}
    /\ k.from[1] # k.to[1]
DeleteShape(k) ==
    /\ k.at \in {"check", "record", "remove"}
    /\ k.owner = Nil /\ k.id # Nil /\ k.from \in Paths /\ k.to = Nil

Shape(k) ==
    \/ k = NoCmd
    \/ k.kind \in Made /\ MadeShape(k)
    \/ k.kind = "transfer" /\ TransferShape(k)
    \/ k.kind = "rename" /\ RenameShape(k)
    \/ k.kind = "orgrename" /\ OrgRenameShape(k)
    \/ k.kind = "delete" /\ DeleteShape(k)

\* Rows and files are of repositories that were made, and a repository is in
\* one place.
RowShape == \A r \in DirIds : Exists(r) => repos[r].owner # Nil /\ repos[r].name # Nil
NamesDiffer == \A o, p \in Owners : ownerName[o] = ownerName[p] => o = p
FilesKnown == \A p \in Paths : disk[p] # Nil => repos[disk[p]].is # "none"
OneCopy == \A p, q \in Paths : disk[p] = disk[q] /\ disk[p] # Nil => p = q
IdKnown == \A c \in Cmds : cmd[c].id # Nil => repos[cmd[c].id].is # "none"
NotYetMade ==
    \A c \in Cmds : cmd[c].at = "init" =>
      /\ \A p \in Paths : disk[p] # cmd[c].id
      /\ \A d \in Cmds : d # c /\ cmd[d].at = "init" => cmd[c].id # cmd[d].id
RowIsGone ==
    \A c \in Cmds : cmd[c].at \in {"remove", "clean"} => repos[cmd[c].id].is = "gone"

Ground ==
    /\ DirectoryTypeOK
    /\ \A c \in Cmds : Shape(cmd[c])
    /\ RowShape /\ NamesDiffer /\ FilesKnown /\ OneCopy /\ IdKnown
    /\ NotYetMade /\ RowIsGone

\* Commands that share a path or an organization that is renamed know it, and
\* what they are about is recorded.
SamePlace(k, l) ==
    \/ PathsOf(k) \cap PathsOf(l) # {}
    \/ k.owner = l.owner /\ "orgrename" \in {k.kind, l.kind}

ClashIsOver ==
    \A c, d \in Cmds :
      c # d /\ Under(c) /\ Under(d) /\ SamePlace(cmd[c], cmd[d])
        => cmd[c].over /\ cmd[d].over
OverIsCrossed ==
    \A c \in Cmds : Under(c) /\ cmd[c].over => IdsOf(cmd[c]) \subseteq crossed
SharedIsCrossed ==
    \A c, d \in Cmds :
      c # d /\ Under(c) /\ Under(d)
        => IdsOf(cmd[c]) \cap IdsOf(cmd[d]) \subseteq crossed

CrossingsKnown == ClashIsOver /\ OverIsCrossed /\ SharedIsCrossed

\* A command that crossed no other aims at the paths its owners have.
Aims(c) ==
    LET k == cmd[c] IN
    ~k.over =>
      /\ k.kind \in Made \cup {"transfer"} => k.to[1] = ownerName[k.owner]
      /\ k.kind = "orgrename" =>
           /\ k.at \in {"check", "record"} => ownerName[k.owner] = k.from[1]
           /\ k.at \in {"move", "revert"} =>
                /\ ownerName[k.owner] = k.to[1]
                /\ \A p \in Owners : ownerName[p] # k.from[1]

\* Where the files of a repository are, while a command is about it, ...
InHand(c, r) ==
    LET k == cmd[c] IN
    /\ k.at = "init" => PathOf(r) = k.to
    /\ k.at = "fetch" => PathOf(r) = k.to /\ disk[k.to] = r
    /\ k.kind = "transfer" =>
         /\ PathOf(r) = k.from
         /\ k.at \in {"mutex", "check", "move"} => disk[k.from] = r
         /\ k.at \in {"record", "back"} => disk[k.from] = Nil /\ disk[k.to] = r
    /\ k.kind = "rename" =>
         /\ disk[k.from] = r /\ ownerName[repos[r].owner] = k.from[1]
         /\ k.at \in {"check", "record"} => repos[r].name = k.from[2]
         /\ k.at \in {"move", "revert"} => repos[r].name = k.to[2]
    /\ k.kind = "delete" => PathOf(r) = k.from /\ disk[k.from] = r

\* ... while its organization is renamed, ...
Renames(c, r) == cmd[c].kind = "orgrename" /\ cmd[c].owner = repos[r].owner
OldPath(c, r) == <<cmd[c].from[1], repos[r].name>>

\* ... and otherwise.
Free(r) == \A c \in Cmds : cmd[c].id # r /\ ~Renames(c, r)

Kept(r) == Exists(r) /\ r \notin crossed

FilesAreWhere ==
    \A r \in DirIds : Kept(r) =>
      /\ \A c \in Cmds : cmd[c].id = r => InHand(c, r)
      /\ \A c \in Cmds : Renames(c, r) => disk[OldPath(c, r)] = r
      /\ Free(r) => disk[PathOf(r)] = r

\* No command moves another repository than its own.
Others(c) ==
    LET k == cmd[c] IN
    \A r \in DirIds : Kept(r) /\ r # k.id =>
      /\ k.kind \in {"transfer", "rename", "delete"} => PathOf(r) # k.from
      /\ k.kind = "transfer" /\ k.at \in {"record", "back"} => disk[k.to] # r

PlacesKnown == (\A c \in Cmds : Aims(c) /\ Others(c)) /\ FilesAreWhere

\* The backup.
LocksHeld ==
    /\ \A c \in Cmds :
         cmd[c].at \in {"move", "record", "back", "revert", "remove"}
           => cmd[c].lock
    /\ backup.at \in {"held", "walk"} => \A c \in Cmds : ~cmd[c].lock

OnTheWay(r) == r \in backup.archived \/ \E p \in backup.todo : disk[p] = r

WalkFinds ==
    backup.at = "walk" =>
      \A r \in backup.named :
        /\ r \notin crossed => OnTheWay(r)
        /\ repos[r].is # "none"
        /\ \A c \in Cmds : cmd[c].kind \in Made => cmd[c].id # r

BackupInOrder == LocksHeld /\ WalkFinds /\ BackupHasWhatItNames

\* The quota.
HoldsMutex(k) ==
    \/ k.kind \in Made \ {"bundle"} /\ k.at = "insert"
    \/ k.kind = "transfer" /\ k.at \in {"check", "move", "record", "back"}
HasCounted(k) ==
    \/ k.kind \in Made \ {"bundle"} /\ k.at = "insert" /\ k.from # Nil
    \/ k.kind = "transfer" /\ k.at \in {"move", "record", "back"}

QuotaInOrder ==
    /\ \A c \in Cmds : cmd[c].at = "mutex" =>
         /\ cmd[c].kind # "bundle"
         /\ cmd[c].kind \in Made => cmd[c].from = Nil
    /\ IsFiniteSet({r \in DirIds : Exists(r)})
    /\ \A c \in Cmds : HoldsMutex(cmd[c]) <=> createMu = c
    /\ \A c \in Cmds : HasCounted(cmd[c])
         => Cardinality(OwnedBy(cmd[c].owner) \ bundled) < MaxRepos
    /\ QuotaHolds

DirectoryInv ==
    Ground /\ CrossingsKnown /\ PlacesKnown /\ BackupInOrder /\ QuotaInOrder

-----------------------------------------------------------------------------
(* What commands are about *)

\* A command's paths are those it computed, or the tree of an organization.
LEMMA PathsAre ==
    ASSUME NEW k, Shape(k)
    PROVE  /\ k.from \in Paths => k.from \in PathsOf(k)
           /\ k.to \in Paths => k.to \in PathsOf(k)
           /\ k.kind = "orgrename" =>
                \A n \in Names : <<k.from[1], n>> \in PathsOf(k)
                                 /\ <<k.to[1], n>> \in PathsOf(k)
<1>1. /\ k.from \in Paths => k.from # Nil
      /\ k.to \in Paths => k.to # Nil
  BY DirectoryAssumption DEF Paths
<1>2. /\ k.from \in Paths => k.from \in PathsOf(k)
      /\ k.to \in Paths => k.to \in PathsOf(k)
  BY <1>1 DEF PathsOf
<1>3. ASSUME k.kind = "orgrename", NEW n \in Names
      PROVE  <<k.from[1], n>> \in PathsOf(k) /\ <<k.to[1], n>> \in PathsOf(k)
  <2>1. /\ k.from \in OwnerNames \X {Nil} /\ k.to \in OwnerNames \X {Nil}
    BY <1>3, DirectoryAssumption DEF Shape, OrgRenameShape, NoCmd, Made, Kinds
  <2>2. k.from # Nil /\ k.to # Nil
    BY <2>1, DirectoryAssumption
  <2>3. <<k.from[1], n>> \in Paths /\ <<k.to[1], n>> \in Paths
    BY <2>1 DEF Paths
  <2> QED
    BY <2>1, <2>2, <2>3 DEF PathsOf
<1> QED
  BY <1>2, <1>3

LEMMA PathsOnly ==
    ASSUME NEW k, Shape(k), NEW p \in PathsOf(k)
    PROVE  /\ p \in Paths
           /\ k.kind # "orgrename" => p \in {k.from, k.to}
           /\ k.kind = "orgrename" => p[1] \in {k.from[1], k.to[1]}
<1>1. PICK q \in {k.from, k.to} \ {Nil} : p[1] = q[1] /\ q[2] \in {p[2], Nil}
  BY DEF PathsOf
<1>2. p \in Paths
  BY DEF PathsOf
<1>3. ASSUME k.kind # "orgrename" PROVE p \in {k.from, k.to}
  <2>1. q \in Paths
    BY <1>1, <1>3 DEF Shape, MadeShape, TransferShape, RenameShape, DeleteShape,
       NoCmd
  <2>2. q[2] # Nil
    BY <2>1, DirectoryAssumption DEF Paths
  <2>3. p = q
    BY <1>1, <1>2, <2>1, <2>2 DEF Paths
  <2> QED
    BY <1>1, <2>3
<1> QED
  BY <1>1, <1>2, <1>3

\* What is in a command's hands.
LEMMA IdsAre ==
    ASSUME DirectoryTypeOK, NEW k, NEW r \in DirIds
    PROVE  r \in IdsOf(k) <=> \/ k.id = r
                              \/ \E p \in PathsOf(k) : disk[p] = r
                              \/ k.kind = "orgrename" /\ r \in OwnedBy(k.owner)
<1>1. r # Nil
  BY DirectoryAssumption
<1> QED
  BY <1>1 DEF IdsOf, RenamedBy

\* Two commands in one place, or with one repository, leave it crossed.
LEMMA Stranger ==
    ASSUME DirectoryTypeOK, CrossingsKnown, NEW c \in Cmds, NEW d \in Cmds,
           c # d, Under(c), Under(d), NEW r \in DirIds, r \notin crossed,
           r \in IdsOf(cmd[c])
    PROVE  /\ ~SamePlace(cmd[c], cmd[d]) /\ r \notin IdsOf(cmd[d])
           /\ ~cmd[c].over
BY DEF CrossingsKnown, ClashIsOver, OverIsCrossed, SharedIsCrossed

\* A path with files is of a repository.
LEMMA FileType ==
    ASSUME DirectoryTypeOK, NEW p \in Paths
    PROVE  disk[p] \in DirIds \cup {Nil}
BY DEF DirectoryTypeOK

LEMMA RowType ==
    ASSUME Ground, NEW r \in DirIds, Exists(r)
    PROVE  /\ repos[r].owner \in Owners /\ repos[r].name \in Names
           /\ PathOf(r) \in Paths
<1>1. repos[r] \in Repo
  BY DEF Ground, DirectoryTypeOK
<1>2. /\ repos[r].owner \in Owners /\ repos[r].name \in Names
  BY <1>1 DEF Repo, Ground, RowShape
<1>3. ownerName[repos[r].owner] \in OwnerNames
  BY <1>2 DEF Ground, DirectoryTypeOK
<1> QED
  BY <1>2, <1>3 DEF PathOf, Paths

\* No two rows have one path.
LEMMA PathsDiffer ==
    ASSUME Ground, NEW r \in DirIds, NEW s \in DirIds, r # s, Exists(r), Exists(s)
    PROVE  PathOf(r) # PathOf(s)
<1>1. <<repos[r].owner, repos[r].name>> # <<repos[s].owner, repos[s].name>>
  BY DEF Ground, DirectoryTypeOK, Exists
<1>2. SUFFICES ASSUME PathOf(r) = PathOf(s) PROVE FALSE
  OBVIOUS
<1>3. /\ ownerName[repos[r].owner] = ownerName[repos[s].owner]
      /\ repos[r].name = repos[s].name
  BY <1>2 DEF PathOf
<1>4. repos[r].owner = repos[s].owner
  BY <1>3, RowType DEF Ground, NamesDiffer
<1> QED
  BY <1>1, <1>3, <1>4

-----------------------------------------------------------------------------
(* Crossings *)

\* The statement a command makes in the frame of the others: it writes the row
\* it is about or makes one, and moves or drops what is at its own paths.
Work(c) ==
    LET k == cmd[c]
        m == cmd'[c]
    IN  /\ Under(c)
        /\ \A d \in Cmds \ {c} : cmd'[d] = cmd[d]
        /\ crossed \subseteq crossed'
        /\ \/ m = NoCmd
           \/ /\ m.kind = k.kind /\ m.owner = k.owner /\ m.to = k.to
              /\ m.over = k.over /\ m.from \in {k.from, k.to}
              /\ \/ m.id = k.id
                 \/ /\ k.id = Nil /\ k.kind \in Made
                    /\ repos[m.id].is = "none" /\ disk' = disk
                    /\ k.over => m.id \in crossed'
        /\ \A p \in Paths : disk'[p] # disk[p] =>
             p \in PathsOf(k) /\ disk'[p] \in IdsOf(k) \cup {Nil}
        /\ \A r \in DirIds : repos'[r] # repos[r] =>
             /\ r \in {k.id, m.id}
             /\ repos'[r].is = "here" =>
                  \/ Exists(r) /\ repos'[r].owner = repos[r].owner
                  \/ k.owner \in Owners /\ repos'[r].owner = k.owner

LEMMA IdsNext ==
    ASSUME NEW d, NEW r \in DirIds
    PROVE  r \in IdsOf(cmd[d])'
             <=> \/ cmd'[d].id = r
                 \/ \E p \in PathsOf(cmd'[d]) : disk'[p] = r
                 \/ /\ cmd'[d].kind = "orgrename"
                    /\ repos'[r].is = "here" /\ repos'[r].owner = cmd'[d].owner
<1>1. r # Nil
  BY DirectoryAssumption
<1> QED
  BY <1>1 DEF IdsOf, RenamedBy, PathsOf, OwnedBy, Exists

\* What comes into another's hands is crossed.
LEMMA NewInHands ==
    ASSUME Ground, CrossingsKnown, NEW c \in Cmds, Work(c),
           NEW d \in Cmds, d # c, Under(d), NEW r \in DirIds,
           r \in IdsOf(cmd[d])', r \notin IdsOf(cmd[d])
    PROVE  r \in crossed'
<1>1. cmd'[d] = cmd[d]
  BY DEF Work
<1>2. DirectoryTypeOK
  BY DEF Ground
<1>3. /\ cmd[d].id # r
      /\ \A p \in PathsOf(cmd[d]) : disk[p] # r
      /\ ~(cmd[d].kind = "orgrename" /\ Exists(r) /\ repos[r].owner = cmd[d].owner)
  BY <1>2, IdsAre DEF OwnedBy
<1>4. CASE \E p \in PathsOf(cmd[d]) : disk'[p] = r
  <2>1. PICK p \in PathsOf(cmd[d]) : disk'[p] = r
    BY <1>4
  <2>2. p \in Paths /\ disk[p] # r
    BY <1>3, <2>1 DEF PathsOf
  <2>3. p \in PathsOf(cmd[c]) /\ r \in IdsOf(cmd[c])
    BY <2>1, <2>2, DirectoryAssumption DEF Work
  <2>4. SamePlace(cmd[c], cmd[d])
    BY <2>1, <2>3 DEF SamePlace
  <2>5. cmd[c].over
    BY <2>4 DEF CrossingsKnown, ClashIsOver, Work
  <2>6. r \in crossed
    BY <2>3, <2>5 DEF CrossingsKnown, OverIsCrossed, Work
  <2> QED
    BY <2>6 DEF Work
<1>5. CASE /\ cmd[d].kind = "orgrename"
           /\ repos'[r].is = "here" /\ repos'[r].owner = cmd[d].owner
  <2>1. /\ repos'[r] # repos[r] /\ r \in {cmd[c].id, cmd'[c].id}
        /\ repos'[r].owner = cmd[c].owner
    BY <1>3, <1>5 DEF Work, Exists
  <2>2. SamePlace(cmd[c], cmd[d])
    BY <1>5, <2>1 DEF SamePlace
  <2>3. cmd[c].over
    BY <2>2 DEF CrossingsKnown, ClashIsOver, Work
  <2>4. r # Nil
    BY DirectoryAssumption
  <2>5. CASE cmd[c].id = r
    <3>1. r \in IdsOf(cmd[c])
      BY <1>2, <2>5, IdsAre
    <3> QED
      BY <2>3, <3>1 DEF CrossingsKnown, OverIsCrossed, Work
  <2>6. CASE cmd[c].id # r
    <3>1. cmd'[c].id = r
      BY <2>1, <2>6
    <3>2. cmd'[c] # NoCmd
      BY <2>4, <3>1 DEF NoCmd
    <3> QED
      BY <2>3, <2>6, <3>1, <3>2 DEF Work
  <2> QED
    BY <2>5, <2>6
<1> QED
  BY <1>1, <1>3, <1>4, <1>5, IdsNext

\* What comes into its own is crossed, or a repository it has just made.
LEMMA NewInOwn ==
    ASSUME Ground, NEW c \in Cmds, Work(c), cmd'[c] # NoCmd,
           NEW r \in DirIds, r \in IdsOf(cmd[c])', r \notin IdsOf(cmd[c])
    PROVE  /\ cmd[c].id = Nil /\ r = cmd'[c].id /\ repos[r].is = "none"
           /\ disk' = disk /\ cmd[c].kind \in Made
           /\ cmd[c].over => r \in crossed'
<1>2. DirectoryTypeOK
  BY DEF Ground
<1>3. /\ cmd[c].id # r
      /\ \A p \in PathsOf(cmd[c]) : disk[p] # r
      /\ ~(cmd[c].kind = "orgrename" /\ Exists(r) /\ repos[r].owner = cmd[c].owner)
  BY <1>2, IdsAre DEF OwnedBy
<1>4. ASSUME NEW p \in PathsOf(cmd'[c]), disk'[p] = r
      PROVE  FALSE
  <2>1. p \in PathsOf(cmd[c]) /\ p \in Paths
    BY DEF Work, PathsOf
  <2> QED
    BY <1>3, <1>4, <2>1, DirectoryAssumption DEF Work
<1>5. CASE /\ cmd'[c].kind = "orgrename"
           /\ repos'[r].is = "here" /\ repos'[r].owner = cmd'[c].owner
  <2>1. cmd[c].kind = "orgrename" /\ cmd'[c].owner = cmd[c].owner
    BY <1>5 DEF Work
  <2>2. cmd[c].id = Nil /\ cmd'[c].id = Nil
    BY <2>1, DirectoryAssumption
    DEF Work, Ground, Shape, OrgRenameShape, NoCmd, Made, Kinds
  <2>3. repos'[r] = repos[r]
    BY <2>2, DirectoryAssumption DEF Work
  <2> QED
    BY <1>3, <1>5, <2>1, <2>3 DEF Exists
<1>6. CASE cmd'[c].id = r
  BY <1>3, <1>6 DEF Work
<1> QED
  BY <1>4, <1>5, <1>6, IdsNext

LEMMA WorkCrosses ==
    ASSUME Ground, CrossingsKnown, Ground', NEW c \in Cmds, Work(c)
    PROVE  CrossingsKnown'
<1>1. ASSUME NEW d \in Cmds, NEW e \in Cmds, d # e, Under(d)', Under(e)',
             SamePlace(cmd[d], cmd[e])'
      PROVE  cmd'[d].over /\ cmd'[e].over
  <2>1. Under(d) /\ Under(e)
    BY <1>1 DEF Work, Under, NoCmd
  <2>2. \A x \in {d, e} : /\ PathsOf(cmd'[x]) \subseteq PathsOf(cmd[x])
                          /\ cmd'[x].owner = cmd[x].owner
                          /\ cmd'[x].kind = cmd[x].kind
                          /\ cmd'[x].over = cmd[x].over
    BY <1>1 DEF Work, Under, NoCmd, PathsOf
  <2>3. SamePlace(cmd'[d], cmd'[e])
    BY <1>1 DEF SamePlace, PathsOf
  <2>4. SamePlace(cmd[d], cmd[e])
    BY <2>2, <2>3 DEF SamePlace
  <2> QED
    BY <1>1, <2>1, <2>2, <2>4 DEF CrossingsKnown, ClashIsOver
<1>2. ASSUME NEW d \in Cmds, Under(d)', cmd'[d].over, NEW r \in DirIds,
             r \in IdsOf(cmd[d])'
      PROVE  r \in crossed'
  <2>1. Under(d) /\ cmd[d].over
    BY <1>2 DEF Work, Under, NoCmd
  <2>2. CASE r \in IdsOf(cmd[d])
    BY <2>1, <2>2 DEF CrossingsKnown, OverIsCrossed, Work
  <2>3. CASE r \notin IdsOf(cmd[d]) /\ d # c
    BY <1>2, <2>1, <2>3, NewInHands
  <2>4. CASE r \notin IdsOf(cmd[d]) /\ d = c
    <3>1. cmd'[c] # NoCmd
      BY <1>2, <2>4 DEF Under, NoCmd
    <3> QED
      BY <1>2, <2>1, <2>4, <3>1, NewInOwn
  <2> QED
    BY <2>2, <2>3, <2>4
<1>3. ASSUME NEW d \in Cmds, d # c, Under(d), Under(c)', NEW r \in DirIds,
             r \in IdsOf(cmd[c])', r \in IdsOf(cmd[d])'
      PROVE  r \in crossed'
  <2>1. CASE r \notin IdsOf(cmd[d])
    BY <1>3, <2>1, NewInHands
  <2>2. CASE r \in IdsOf(cmd[c]) /\ r \in IdsOf(cmd[d])
    BY <1>3, <2>2 DEF CrossingsKnown, SharedIsCrossed, Work
  <2>3. CASE r \notin IdsOf(cmd[c]) /\ r \in IdsOf(cmd[d])
    <3>1. cmd'[c] # NoCmd
      BY <1>3 DEF Under, NoCmd
    <3>2. repos[r].is = "none"
      BY <1>3, <2>3, <3>1, NewInOwn
    <3>3. DirectoryTypeOK
      BY DEF Ground
    <3>4. cmd[d].id # r /\ \A p \in PathsOf(cmd[d]) : disk[p] # r
      BY <3>2, DirectoryAssumption DEF Ground, IdKnown, FilesKnown, PathsOf
    <3> QED
      BY <2>3, <3>2, <3>3, <3>4, IdsAre DEF OwnedBy, Exists
  <2> QED
    BY <2>1, <2>2, <2>3
<1>4. ASSUME NEW d \in Cmds, NEW e \in Cmds, d # e, d # c, e # c,
             Under(d), Under(e), NEW r \in DirIds,
             r \in IdsOf(cmd[d])', r \in IdsOf(cmd[e])'
      PROVE  r \in crossed'
  <2>1. CASE r \in IdsOf(cmd[d]) /\ r \in IdsOf(cmd[e])
    BY <1>4, <2>1 DEF CrossingsKnown, SharedIsCrossed, Work
  <2> QED
    BY <1>4, <2>1, NewInHands
<1>5. \A d \in Cmds : IdsOf(cmd[d])' \subseteq DirIds
  <2> TAKE d \in Cmds
  <2>1. /\ cmd'[d] \in Cmd /\ disk' \in [Paths -> DirIds \cup {Nil}]
    BY DEF Ground, DirectoryTypeOK
  <2> QED
    BY <2>1 DEF IdsOf, RenamedBy, OwnedBy, PathsOf, Cmd
<1>6. \A d \in Cmds : d # c => Under(d)' = Under(d)
  BY DEF Work, Under
<1>7. ClashIsOver'
  BY <1>1 DEF ClashIsOver
<1>8. OverIsCrossed'
  BY <1>2, <1>5 DEF OverIsCrossed
<1>9. SharedIsCrossed'
  <2> SUFFICES ASSUME NEW d \in Cmds, NEW e \in Cmds, d # e, Under(d)', Under(e)',
                      NEW r \in IdsOf(cmd[d])', r \in IdsOf(cmd[e])'
               PROVE  r \in crossed'
    BY DEF SharedIsCrossed
  <2>1. r \in DirIds
    BY <1>5
  <2>2. CASE d = c
    BY <1>3, <1>6, <2>1, <2>2
  <2>3. CASE e = c
    BY <1>3, <1>6, <2>1, <2>3
  <2> QED
    BY <1>4, <1>6, <2>1, <2>2, <2>3
<1> QED
  BY <1>7, <1>8, <1>9 DEF CrossingsKnown

-----------------------------------------------------------------------------
(* Steps keep the shape of the state *)

Ats == {"idle", "mutex", "insert", "init", "fetch", "unmake", "clean",
        "check", "move", "record", "back", "revert", "remove"}

Same(m, k) ==
    /\ m.kind = k.kind /\ m.id = k.id /\ m.owner = k.owner
    /\ m.from = k.from /\ m.to = k.to /\ m.over = k.over

\* A command that moves on, with or without taking the lock, or ends.
LEMMA StepIs ==
    ASSUME DirectoryTypeOK, NEW c \in Cmds, NEW at \in Ats, Step(c, at)
    PROVE  /\ cmd' \in [Cmds -> Cmd]
           /\ Same(cmd'[c], cmd[c]) /\ cmd'[c].at = at
           /\ cmd'[c].lock = cmd[c].lock
           /\ \A d \in Cmds \ {c} : cmd'[d] = cmd[d]
<1>1. cmd \in [Cmds -> Cmd] /\ cmd[c] \in Cmd
  BY DEF DirectoryTypeOK
<1>2. [cmd[c] EXCEPT !.at = at] \in Cmd
  BY <1>1 DEF Cmd, Ats
<1>3. /\ cmd' \in [Cmds -> Cmd] /\ cmd'[c] = [cmd[c] EXCEPT !.at = at]
      /\ \A d \in Cmds \ {c} : cmd'[d] = cmd[d]
  BY <1>1, <1>2 DEF Step
<1> QED
  BY <1>1, <1>3 DEF Cmd, Same

LEMMA LockIs ==
    ASSUME DirectoryTypeOK, NEW c \in Cmds, NEW at \in Ats,
           cmd' = [cmd EXCEPT ![c].lock = TRUE, ![c].at = at]
    PROVE  /\ cmd' \in [Cmds -> Cmd]
           /\ Same(cmd'[c], cmd[c]) /\ cmd'[c].at = at /\ cmd'[c].lock
           /\ \A d \in Cmds \ {c} : cmd'[d] = cmd[d]
<1>1. cmd \in [Cmds -> Cmd] /\ cmd[c] \in Cmd
  BY DEF DirectoryTypeOK
<1>2. [cmd[c] EXCEPT !.lock = TRUE, !.at = at] \in Cmd
  BY <1>1 DEF Cmd, Ats
<1>3. /\ cmd' \in [Cmds -> Cmd]
      /\ cmd'[c] = [cmd[c] EXCEPT !.lock = TRUE, !.at = at]
      /\ \A d \in Cmds \ {c} : cmd'[d] = cmd[d]
  BY <1>1, <1>2
<1> QED
  BY <1>1, <1>3 DEF Cmd, Same

LEMMA EndIs ==
    ASSUME DirectoryTypeOK, NEW c \in Cmds, CmdEnds(c)
    PROVE  /\ cmd' \in [Cmds -> Cmd]
           /\ cmd'[c] = NoCmd /\ cmd'[c].id = Nil /\ cmd'[c].at = "idle"
           /\ \A d \in Cmds \ {c} : cmd'[d] = cmd[d]
<1>1. cmd \in [Cmds -> Cmd]
  BY DEF DirectoryTypeOK
<1>2. NoCmd \in Cmd /\ NoCmd.id = Nil /\ NoCmd.at = "idle"
  BY DEF NoCmd, Cmd
<1> QED
  BY <1>1, <1>2 DEF CmdEnds

LEMMA FaultNext ==
    ASSUME DirectoryTypeOK
    PROVE  (Fault \/ NoFault) => dirFaults' \in 0..MaxDirFaults
<1>1. MaxDirFaults \in Nat /\ dirFaults \in 0..MaxDirFaults
  BY DirectoryAssumption DEF DirectoryTypeOK
<1> QED
  BY <1>1 DEF Fault, NoFault

\* The rest of the types of a command's step.
Rest ==
    /\ createMu' \in Cmds \cup {Nil}
    /\ bundled' \subseteq DirIds /\ crossed' \subseteq DirIds
    /\ crossed \subseteq crossed'
    /\ dirFaults' \in 0..MaxDirFaults
    /\ UNCHANGED <<backup, dirOps, backups>>

\* How the command's own record goes on.
GoesOn(c) ==
    /\ Under(c)
    /\ cmd' \in [Cmds -> Cmd] /\ Shape(cmd'[c])
    /\ \A d \in Cmds \ {c} : cmd'[d] = cmd[d]
    /\ \/ cmd'[c] = NoCmd
       \/ /\ cmd'[c].kind = cmd[c].kind /\ cmd'[c].owner = cmd[c].owner
          /\ cmd'[c].to = cmd[c].to /\ cmd'[c].over = cmd[c].over
          /\ cmd'[c].from \in {cmd[c].from, cmd[c].to}

\* A step that leaves rows and files alone.
LEMMA QuietWorks ==
    ASSUME Ground, NEW c \in Cmds, Rest, GoesOn(c), cmd'[c].id \in {cmd[c].id, Nil},
           UNCHANGED <<repos, ownerName, disk>>,
           cmd'[c].at \notin {"init", "remove", "clean"},
           cmd'[c] = NoCmd \/ cmd'[c].id = cmd[c].id
    PROVE  Ground' /\ Work(c)
<1>1. DirectoryTypeOK'
  BY DEF Ground, DirectoryTypeOK, Rest, GoesOn
<1>2. \A d \in Cmds : Shape(cmd[d])'
  <2>1. \A d \in Cmds : Shape(cmd'[d])
    BY DEF Ground, GoesOn
  <2> QED
    BY <2>1 DEF Shape, MadeShape, TransferShape, RenameShape, OrgRenameShape,
       DeleteShape
<1>3. RowShape' /\ NamesDiffer' /\ FilesKnown' /\ OneCopy'
  BY DEF Ground, RowShape, NamesDiffer, FilesKnown, OneCopy, Exists
<1>4. IdKnown'
  BY DEF Ground, IdKnown, GoesOn
<1>5. NotYetMade' /\ RowIsGone'
  BY DEF Ground, NotYetMade, RowIsGone, GoesOn
<1>6. Work(c)
  BY DEF Work, GoesOn, Rest
<1> QED
  BY <1>1, <1>2, <1>3, <1>4, <1>5, <1>6 DEF Ground

LEMMA EndsGoOn ==
    ASSUME DirectoryTypeOK, NEW c \in Cmds, Under(c), CmdEnds(c)
    PROVE  GoesOn(c)
BY EndIs DEF GoesOn, Shape

\* A command that goes on, in a place its kind has.
LEMMA StepsGoOn ==
    ASSUME Ground, NEW c \in Cmds, Under(c), NEW at \in Ats,
           \/ Step(c, at)
           \/ cmd' = [cmd EXCEPT ![c].lock = TRUE, ![c].at = at],
           \/ /\ cmd[c].kind \in Made
              /\ at \in {"mutex", "insert", "init", "fetch", "unmake", "clean"}
              /\ cmd[c].id = Nil <=> at \in {"mutex", "insert"}
           \/ /\ cmd[c].kind = "transfer"
              /\ at \in {"mutex", "check", "move", "record", "back"}
           \/ /\ cmd[c].kind \in {"rename", "orgrename"}
              /\ at \in {"check", "record", "move", "revert"}
           \/ /\ cmd[c].kind = "delete"
              /\ at \in {"check", "record", "remove"}
    PROVE  /\ GoesOn(c) /\ cmd'[c].at = at
           /\ Same(cmd'[c], cmd[c])
<1>1. DirectoryTypeOK /\ Shape(cmd[c])
  BY DEF Ground
<1>2. /\ cmd' \in [Cmds -> Cmd] /\ Same(cmd'[c], cmd[c]) /\ cmd'[c].at = at
      /\ \A d \in Cmds \ {c} : cmd'[d] = cmd[d]
  BY <1>1, StepIs, LockIs
<1>3. Shape(cmd'[c])
  BY <1>1, <1>2, DirectoryAssumption
  DEF Shape, MadeShape, TransferShape, RenameShape, OrgRenameShape, DeleteShape,
      Same, Under, NoCmd, Made, Kinds
<1> QED
  BY <1>2, <1>3 DEF GoesOn, Same

\* A step that only moves on, or ends.
LEMMA MoveWorks ==
    ASSUME Ground, NEW c \in Cmds, Rest, GoesOn(c), Same(cmd'[c], cmd[c]),
           UNCHANGED <<repos, ownerName, disk>>,
           cmd'[c].at \notin {"init", "remove", "clean"}
    PROVE  Ground' /\ Work(c)
BY QuietWorks DEF Same

LEMMA EndWorks ==
    ASSUME Ground, NEW c \in Cmds, Rest, Under(c), CmdEnds(c),
           UNCHANGED <<repos, ownerName, disk>>
    PROVE  Ground' /\ Work(c)
<1>1. DirectoryTypeOK
  BY DEF Ground
<1> QED
  BY <1>1, EndIs, EndsGoOn, QuietWorks

LEMMA TakeMutexWorks ==
    ASSUME Ground, NEW c \in Cmds, TakeMutex(c)
    PROVE  Ground' /\ Work(c)
<1>1. Rest
  BY DEF TakeMutex, Ground, DirectoryTypeOK, Rest
<1>2. PICK at \in {"check", "insert"} :
        at = IF cmd[c].kind = "transfer" THEN "check" ELSE "insert"
  OBVIOUS
<1>3. Step(c, at) /\ at \in Ats /\ Under(c) /\ cmd[c].at = "mutex"
  BY <1>2 DEF TakeMutex, Ats, Under
<1>4. Shape(cmd[c])
  BY DEF Ground
<1>5. \/ cmd[c].kind \in Made /\ cmd[c].id = Nil /\ at = "insert"
      \/ cmd[c].kind = "transfer" /\ at = "check"
  BY <1>2, <1>3, <1>4 DEF Shape, NoCmd, Made, MadeShape, RenameShape,
     OrgRenameShape, DeleteShape
<1>6. GoesOn(c) /\ cmd'[c].at = at /\ Same(cmd'[c], cmd[c])
  BY <1>3, <1>5, StepsGoOn
<1> QED
  BY <1>1, <1>2, <1>6, MoveWorks DEF TakeMutex

LEMMA CountQuotaWorks ==
    ASSUME Ground, NEW c \in Cmds, CountQuota(c)
    PROVE  Ground' /\ Work(c)
<1>1. Rest
  BY DEF CountQuota, Ground, DirectoryTypeOK, Rest
<1>4. cmd[c] \in Cmd /\ Shape(cmd[c]) /\ cmd[c].at = "insert" /\ cmd \in [Cmds -> Cmd]
  BY DEF CountQuota, Ground, DirectoryTypeOK
<1>5. cmd[c].kind \in Made /\ MadeShape(cmd[c])
  BY <1>4 DEF Shape, NoCmd, TransferShape, RenameShape, OrgRenameShape, DeleteShape
<1>6. CASE InQuota(cmd[c].owner)
  <2>1. cmd' = [cmd EXCEPT ![c].from = cmd[c].to]
    BY <1>6 DEF CountQuota
  <2>2. [cmd[c] EXCEPT !.from = cmd[c].to] \in Cmd
    BY <1>4 DEF Cmd
  <2>3. /\ cmd' \in [Cmds -> Cmd] /\ cmd'[c] = [cmd[c] EXCEPT !.from = cmd[c].to]
        /\ \A d \in Cmds \ {c} : cmd'[d] = cmd[d]
    BY <1>4, <2>1, <2>2
  <2>4. /\ \A f \in {"at", "kind", "id", "owner", "to", "lock", "over"} :
             cmd'[c][f] = cmd[c][f]
        /\ cmd'[c].from = cmd[c].to
    BY <1>4, <2>3 DEF Cmd
  <2>5. Shape(cmd'[c])
    BY <1>5, <2>4 DEF Shape, MadeShape
  <2>6. GoesOn(c)
    BY <1>4, <2>3, <2>4, <2>5 DEF GoesOn, Under
  <2> QED
    BY <1>1, <1>4, <2>4, <2>6, QuietWorks DEF CountQuota
<1>7. CASE ~InQuota(cmd[c].owner)
  BY <1>1, <1>4, <1>7, EndWorks DEF CountQuota, Under
<1> QED
  BY <1>6, <1>7

\* Rows are made once and gone for good; files are not copied.
OneRowEach ==
    \A r, s \in DirIds :
      r # s /\ Exists(r) /\ Exists(s)
        => <<repos[r].owner, repos[r].name>> # <<repos[s].owner, repos[s].name>>

RowsGoOn ==
    /\ repos' \in [DirIds -> Repo] /\ OneRowEach' /\ RowShape'
    /\ \A r \in DirIds : /\ repos[r].is # "none" => repos'[r].is # "none"
                         /\ repos[r].is = "gone" => repos'[r].is = "gone"

FilesGoOn ==
    /\ disk' \in [Paths -> DirIds \cup {Nil}] /\ OneCopy'
    /\ \A p \in Paths : disk'[p] = Nil \/ \E q \in Paths : disk[q] = disk'[p]

NamesGoOn == ownerName' \in [Owners -> OwnerNames] /\ NamesDiffer'

LEMMA RowsRest == ASSUME Ground, UNCHANGED repos PROVE RowsGoOn
BY DEF Ground, DirectoryTypeOK, RowsGoOn, OneRowEach, RowShape, Exists

LEMMA FilesRest == ASSUME Ground, UNCHANGED disk PROVE FilesGoOn
BY DEF Ground, DirectoryTypeOK, FilesGoOn, OneCopy

LEMMA NamesRest == ASSUME Ground, UNCHANGED ownerName PROVE NamesGoOn
BY DEF Ground, DirectoryTypeOK, NamesGoOn, NamesDiffer

LEMMA RowIsWritten ==
    ASSUME Ground, NEW r \in DirIds, NEW row \in Repo,
           repos' = [repos EXCEPT ![r] = row],
           row.is # "none", repos[r].is = "gone" => row.is = "gone",
           row.is = "here" => /\ row.owner \in Owners /\ row.name \in Names
                              /\ Named(row.owner, row.name) \ {r} = {}
    PROVE  RowsGoOn
<1>1. repos \in [DirIds -> Repo] /\ OneRowEach /\ RowShape
  BY DEF Ground, DirectoryTypeOK, OneRowEach, Exists
<1>2. /\ repos' \in [DirIds -> Repo] /\ repos'[r] = row
      /\ \A s \in DirIds \ {r} : repos'[s] = repos[s]
  BY <1>1
<1>3. ASSUME NEW s \in DirIds, s # r, Exists(s), row.is = "here"
      PROVE  <<row.owner, row.name>> # <<repos[s].owner, repos[s].name>>
  BY <1>3 DEF Named, OwnedBy
<1>4. OneRowEach'
  BY <1>1, <1>2, <1>3 DEF OneRowEach, Exists
<1>5. RowShape'
  BY <1>1, <1>2, DirectoryAssumption DEF RowShape, Exists
<1> QED
  BY <1>2, <1>4, <1>5 DEF RowsGoOn

LEMMA FilesAreMoved ==
    ASSUME Ground, NEW from \in Paths, NEW to \in Paths, CanMove(from, to),
           disk' = Moved(from, to)
    PROVE  /\ FilesGoOn /\ from # to
           /\ disk'[from] = Nil /\ disk'[to] = disk[from]
           /\ \A p \in Paths \ {from, to} : disk'[p] = disk[p]
<1>1. /\ disk \in [Paths -> DirIds \cup {Nil}] /\ OneCopy
      /\ disk[from] # Nil /\ disk[to] = Nil
  BY DEF Ground, DirectoryTypeOK, CanMove
<1>2. from # to
  BY <1>1
<1>3. /\ disk' \in [Paths -> DirIds \cup {Nil}]
      /\ disk'[from] = Nil /\ disk'[to] = disk[from]
      /\ \A p \in Paths \ {from, to} : disk'[p] = disk[p]
  BY <1>1, <1>2 DEF Moved
<1>4. OneCopy'
  BY <1>1, <1>3 DEF OneCopy
<1> QED
  BY <1>2, <1>3, <1>4 DEF FilesGoOn

LEMMA FilesAreDropped ==
    ASSUME Ground, NEW p \in Paths, disk' = [disk EXCEPT ![p] = Nil]
    PROVE  /\ FilesGoOn /\ disk'[p] = Nil
           /\ \A q \in Paths \ {p} : disk'[q] = disk[q]
<1>1. disk \in [Paths -> DirIds \cup {Nil}] /\ OneCopy
  BY DEF Ground, DirectoryTypeOK
<1>2. /\ disk' \in [Paths -> DirIds \cup {Nil}] /\ disk'[p] = Nil
      /\ \A q \in Paths \ {p} : disk'[q] = disk[q]
  BY <1>1
<1>3. OneCopy'
  BY <1>1, <1>2 DEF OneCopy
<1> QED
  BY <1>2, <1>3 DEF FilesGoOn

\* A step of a command whose repository stays the one it is.
LEMMA GroundGoesOn ==
    ASSUME Ground, NEW c \in Cmds, Rest, GoesOn(c), RowsGoOn, FilesGoOn, NamesGoOn,
           cmd'[c] = NoCmd \/ cmd'[c].id = cmd[c].id, cmd'[c].at # "init",
           cmd'[c].at \in {"remove", "clean"} => repos'[cmd'[c].id].is = "gone"
    PROVE  Ground'
<1>1. DirectoryTypeOK'
  BY DEF Ground, DirectoryTypeOK, Rest, GoesOn, RowsGoOn, FilesGoOn, NamesGoOn,
     OneRowEach, Exists
<1>2. \A d \in Cmds : Shape(cmd[d])'
  <2>1. \A d \in Cmds : Shape(cmd'[d])
    BY DEF Ground, GoesOn
  <2> QED
    BY <2>1 DEF Shape, MadeShape, TransferShape, RenameShape, OrgRenameShape,
       DeleteShape
<1>3. RowShape' /\ NamesDiffer' /\ OneCopy'
  BY DEF RowsGoOn, FilesGoOn, NamesGoOn
<1>4. cmd \in [Cmds -> Cmd] /\ disk \in [Paths -> DirIds \cup {Nil}]
  BY DEF Ground, DirectoryTypeOK
<1>5. FilesKnown'
  BY <1>4 DEF Ground, FilesKnown, FilesGoOn, RowsGoOn
<1>6. \A d \in Cmds : cmd[d].id \in DirIds \cup {Nil}
  BY <1>4 DEF Cmd
<1>7. NoCmd.id = Nil
  BY DEF NoCmd
<1>8. IdKnown'
  BY <1>6, <1>7 DEF Ground, IdKnown, RowsGoOn, GoesOn
<1>9. NotYetMade'
  <2>1. ASSUME NEW d \in Cmds, cmd[d].at = "init"
        PROVE  cmd[d].id # Nil
    BY <2>1
    DEF Ground, Shape, NoCmd, MadeShape, TransferShape, RenameShape,
        OrgRenameShape, DeleteShape
  <2>2. ASSUME NEW d \in Cmds, cmd'[d].at = "init"
        PROVE  d # c /\ cmd'[d] = cmd[d]
    BY <2>2 DEF GoesOn
  <2>3. \A d \in Cmds, p \in Paths :
          cmd'[d].at = "init" => disk'[p] # cmd'[d].id
    BY <2>1, <2>2 DEF Ground, NotYetMade, FilesGoOn
  <2>4. \A d, e \in Cmds : d # e /\ cmd'[d].at = "init" /\ cmd'[e].at = "init"
          => cmd'[d].id # cmd'[e].id
    BY <2>2 DEF Ground, NotYetMade
  <2> QED
    BY <2>3, <2>4 DEF NotYetMade
<1>10. RowIsGone'
  <2>1. ASSUME NEW d \in Cmds \ {c}, cmd[d].at \in {"remove", "clean"}
        PROVE  cmd[d].id \in DirIds
    BY <1>6, <2>1, DirectoryAssumption
    DEF Ground, Shape, NoCmd, MadeShape, TransferShape, RenameShape,
        OrgRenameShape, DeleteShape
  <2> QED
    BY <2>1 DEF Ground, RowIsGone, RowsGoOn, GoesOn
<1> QED
  BY <1>1, <1>2, <1>3, <1>5, <1>8, <1>9, <1>10 DEF Ground

LEMMA CmdTypes ==
    ASSUME Ground, NEW c \in Cmds, Under(c)
    PROVE  /\ cmd[c] \in Cmd /\ Shape(cmd[c]) /\ cmd[c] # NoCmd
           /\ cmd[c].id # Nil => cmd[c].id \in DirIds
                                 /\ repos[cmd[c].id].is # "none"
BY DEF Ground, DirectoryTypeOK, Under, NoCmd, Cmd, IdKnown

-----------------------------------------------------------------------------
(* Making a repository *)

LEMMA MakingIs ==
    ASSUME Ground, NEW c \in Cmds,
           cmd[c].at \in {"mutex", "insert", "init", "fetch", "unmake", "clean"},
           cmd[c].kind # "transfer"
    PROVE  cmd[c].kind \in Made /\ MadeShape(cmd[c]) /\ Under(c)
<1>1. Shape(cmd[c])
  BY DEF Ground
<1> QED
  BY <1>1 DEF Shape, NoCmd, RenameShape, OrgRenameShape, DeleteShape, Under

LEMMA CreateRowWorks ==
    ASSUME Ground, NEW c \in Cmds, CreateRow(c)
    PROVE  Ground' /\ Work(c)
<1>1. cmd[c].at = "insert" /\ cmd[c].kind # "transfer" /\ DirectoryTypeOK
  <2>1. cmd[c].at = "insert" /\ Shape(cmd[c])
    BY DEF CreateRow, Ground
  <2>2. cmd[c].kind # "transfer"
    BY <2>1 DEF Shape, TransferShape, NoCmd, Made
  <2> QED
    BY <2>1, <2>2 DEF Ground
<1>2. cmd[c].kind \in Made /\ MadeShape(cmd[c]) /\ Under(c) /\ cmd[c].id = Nil
  BY <1>1, MakingIs DEF MadeShape
<1>3. Rest
  BY <1>1 DEF CreateRow, DirectoryTypeOK, Rest
<1>4. CASE Named(cmd[c].owner, cmd[c].to[2]) # {}
  BY <1>2, <1>3, <1>4, EndWorks DEF CreateRow
<1>5. CASE Named(cmd[c].owner, cmd[c].to[2]) = {}
  <2>1. PICK r \in DirIds :
          /\ repos[r].is = "none"
          /\ repos' = [repos EXCEPT ![r] = [is |-> "here", owner |-> cmd[c].owner,
                                            name |-> cmd[c].to[2]]]
          /\ cmd' = [cmd EXCEPT ![c].at = "init", ![c].id = r]
          /\ crossed' = IF cmd[c].over THEN crossed \cup {r} ELSE crossed
    BY <1>5 DEF CreateRow
  <2> DEFINE row == [is |-> "here", owner |-> cmd[c].owner, name |-> cmd[c].to[2]]
  <2>2. cmd[c].owner \in Owners /\ cmd[c].to[2] \in Names
    BY <1>2 DEF MadeShape, Paths
  <2>3. row \in Repo
    BY <2>2 DEF Repo
  <2>4. RowsGoOn
    BY <1>5, <2>1, <2>2, <2>3, RowIsWritten
  <2>5. repos'[r] = row /\ \A s \in DirIds \ {r} : repos'[s] = repos[s]
    BY <1>1, <2>1 DEF DirectoryTypeOK
  <2>6. /\ cmd \in [Cmds -> Cmd] /\ cmd[c] \in Cmd
        /\ disk \in [Paths -> DirIds \cup {Nil}]
    BY <1>1 DEF DirectoryTypeOK
  <2>7. [cmd[c] EXCEPT !.at = "init", !.id = r] \in Cmd
    BY <2>6 DEF Cmd
  <2>8. /\ cmd' \in [Cmds -> Cmd]
        /\ cmd'[c] = [cmd[c] EXCEPT !.at = "init", !.id = r]
        /\ \A d \in Cmds \ {c} : cmd'[d] = cmd[d]
    BY <2>1, <2>6, <2>7
  <2>9. /\ cmd'[c].at = "init" /\ cmd'[c].id = r /\ cmd'[c].kind = cmd[c].kind
        /\ cmd'[c].owner = cmd[c].owner /\ cmd'[c].from = cmd[c].from
        /\ cmd'[c].to = cmd[c].to /\ cmd'[c].over = cmd[c].over
    BY <2>6, <2>8 DEF Cmd
  <2>10. Shape(cmd'[c])
    BY <1>2, <2>9, DirectoryAssumption DEF Shape, MadeShape
  <2>11. GoesOn(c)
    BY <1>2, <2>8, <2>9, <2>10 DEF GoesOn
  <2>12. UNCHANGED <<disk, ownerName>>
    BY DEF CreateRow
  <2>13. DirectoryTypeOK'
    BY <1>1, <1>3, <2>4, <2>11, <2>12
    DEF DirectoryTypeOK, Rest, RowsGoOn, GoesOn, OneRowEach, Exists
  <2>14. \A d \in Cmds : Shape(cmd[d])'
    <3>1. \A d \in Cmds : Shape(cmd'[d])
      BY <2>11 DEF Ground, GoesOn
    <3> QED
      BY <3>1 DEF Shape, MadeShape, TransferShape, RenameShape, OrgRenameShape,
         DeleteShape
  <2>15. /\ \A p \in Paths : disk[p] # r
         /\ \A d \in Cmds : cmd[d].id # r
    BY <2>1, DirectoryAssumption DEF Ground, FilesKnown, IdKnown
  <2>16. FilesKnown' /\ IdKnown'
    <3>1. \A s \in DirIds : repos[s].is # "none" => repos'[s].is # "none"
      BY <2>4 DEF RowsGoOn
    <3>2. repos'[r].is # "none"
      BY <2>5
    <3>3. FilesKnown'
      BY <2>6, <2>12, <3>1 DEF Ground, FilesKnown
    <3>4. ASSUME NEW d \in Cmds, cmd'[d].id # Nil
          PROVE  repos'[cmd'[d].id].is # "none"
      <4>1. CASE d = c
        BY <2>9, <3>2, <4>1
      <4>2. CASE d # c
        <5>1. cmd'[d] = cmd[d] /\ cmd[d] \in Cmd
          BY <2>6, <2>8, <4>2
        <5>2. cmd[d].id \in DirIds /\ repos[cmd[d].id].is # "none"
          BY <3>4, <5>1 DEF Ground, IdKnown, Cmd
        <5> QED
          BY <3>1, <5>1, <5>2
      <4> QED
        BY <4>1, <4>2
    <3> QED
      BY <3>3, <3>4 DEF IdKnown
  <2>17. NotYetMade'
    <3>1. ASSUME NEW d \in Cmds, cmd'[d].at = "init", NEW p \in Paths
          PROVE  disk'[p] # cmd'[d].id
      <4>1. CASE d = c
        BY <2>9, <2>12, <2>15, <4>1
      <4>2. CASE d # c
        BY <2>8, <2>12, <3>1, <4>2 DEF Ground, NotYetMade
      <4> QED
        BY <4>1, <4>2
    <3>2. ASSUME NEW d \in Cmds, NEW e \in Cmds, d # e,
                 cmd'[d].at = "init", cmd'[e].at = "init"
          PROVE  cmd'[d].id # cmd'[e].id
      <4>1. CASE d = c
        <5>1. cmd'[e] = cmd[e] /\ cmd'[d].id = r /\ cmd[e].id # r
          BY <2>8, <2>9, <2>15, <3>2, <4>1
        <5> QED
          BY <5>1
      <4>2. CASE e = c
        BY <2>8, <2>9, <2>15, <3>2, <4>2
      <4>3. CASE d # c /\ e # c
        BY <2>8, <3>2, <4>3 DEF Ground, NotYetMade
      <4> QED
        BY <4>1, <4>2, <4>3
    <3> QED
      BY <3>1, <3>2 DEF NotYetMade
  <2>18. RowIsGone'
    <3>1. ASSUME NEW d \in Cmds, cmd'[d].at \in {"remove", "clean"}
          PROVE  d # c /\ cmd'[d] = cmd[d] /\ repos'[cmd'[d].id].is = "gone"
      <4>1. d # c /\ cmd'[d] = cmd[d]
        BY <2>8, <2>9, <3>1
      <4>2. repos[cmd[d].id].is = "gone" /\ cmd[d].id # Nil
        BY <3>1, <4>1
        DEF Ground, RowIsGone, Shape, NoCmd, MadeShape, TransferShape,
            RenameShape, OrgRenameShape, DeleteShape
      <4>3. cmd[d].id \in DirIds
        BY <2>6, <4>2 DEF Cmd
      <4> QED
        BY <2>1, <2>5, <4>1, <4>2, <4>3
    <3> QED
      BY <3>1 DEF RowIsGone
  <2>19. Ground'
    BY <2>4, <2>12, <2>13, <2>14, <2>16, <2>17, <2>18
    DEF Ground, RowsGoOn, NamesDiffer, OneCopy
  <2>20. Work(c)
    BY <1>2, <1>3, <2>1, <2>2, <2>5, <2>8, <2>9, <2>12 DEF Work, Rest, GoesOn
  <2> QED
    BY <2>19, <2>20
<1> QED
  BY <1>4, <1>5

LEMMA InitBareWorks ==
    ASSUME Ground, NEW c \in Cmds, InitBare(c)
    PROVE  Ground' /\ Work(c)
<1>1. cmd[c].at = "init" /\ cmd[c].kind # "transfer" /\ DirectoryTypeOK
  <2>1. cmd[c].at = "init" /\ Shape(cmd[c])
    BY DEF InitBare, Ground
  <2>2. cmd[c].kind # "transfer"
    BY <2>1 DEF Shape, TransferShape, NoCmd, Made
  <2> QED
    BY <2>1, <2>2 DEF Ground
<1>2. /\ cmd[c].kind \in Made /\ MadeShape(cmd[c]) /\ Under(c)
      /\ cmd[c].id \in DirIds /\ repos[cmd[c].id].is # "none"
  BY <1>1, MakingIs, CmdTypes DEF MadeShape
<1>3. cmd[c].to \in Paths /\ disk[cmd[c].to] \in DirIds \cup {Nil}
  BY <1>1, <1>2 DEF MadeShape, DirectoryTypeOK
<1>4. Rest
  <2>1. dirFaults' \in 0..MaxDirFaults
    BY <1>1, FaultNext DEF InitBare
  <2> QED
    BY <1>1, <1>2, <1>3, <2>1 DEF InitBare, DirectoryTypeOK, Rest
<1>5. /\ GoesOn(c) /\ cmd'[c].at \in {"idle", "fetch", "unmake"}
      /\ cmd'[c] = NoCmd \/ Same(cmd'[c], cmd[c])
  <2>1. CmdEnds(c) \/ Step(c, "fetch") \/ Step(c, "unmake")
    BY DEF InitBare
  <2> QED
    BY <1>1, <1>2, <2>1, StepsGoOn, EndsGoOn, EndIs, DirectoryAssumption DEF Ats
<1>6. CASE disk' = disk
  <2>1. FilesGoOn /\ RowsGoOn /\ NamesGoOn
    BY <1>6, FilesRest, RowsRest, NamesRest DEF InitBare
  <2>2. Ground'
    BY <1>4, <1>5, <2>1, GroundGoesOn DEF Same
  <2>3. Work(c)
    BY <1>4, <1>5, <1>6 DEF Work, GoesOn, Rest, InitBare, Same
  <2> QED
    BY <2>2, <2>3
<1>7. CASE disk[cmd[c].to] = Nil /\ disk' = [disk EXCEPT ![cmd[c].to] = cmd[c].id]
  <2> DEFINE r == cmd[c].id
             to == cmd[c].to
  <2>1. /\ disk' \in [Paths -> DirIds \cup {Nil}] /\ disk'[to] = r
        /\ \A p \in Paths \ {to} : disk'[p] = disk[p]
    BY <1>1, <1>2, <1>3, <1>7 DEF DirectoryTypeOK
  <2>2. /\ \A p \in Paths : disk[p] # r
        /\ \A d \in Cmds : d # c /\ cmd[d].at = "init" => cmd[d].id # r
    BY <1>1 DEF Ground, NotYetMade
  <2>3. UNCHANGED <<repos, ownerName>>
    BY DEF InitBare
  <2>4. DirectoryTypeOK'
    BY <1>1, <1>4, <1>5, <2>1, <2>3 DEF DirectoryTypeOK, Rest, GoesOn
  <2>5. \A d \in Cmds : Shape(cmd[d])'
    <3>1. \A d \in Cmds : Shape(cmd'[d])
      BY <1>5 DEF Ground, GoesOn
    <3> QED
      BY <3>1 DEF Shape, MadeShape, TransferShape, RenameShape, OrgRenameShape,
         DeleteShape
  <2>6. RowShape' /\ NamesDiffer'
    BY <2>3 DEF Ground, RowShape, NamesDiffer, Exists
  <2>7. OneCopy' /\ FilesKnown'
    BY <1>2, <2>1, <2>2, <2>3 DEF Ground, OneCopy, FilesKnown
  <2>8. IdKnown' /\ RowIsGone'
    BY <1>5, <2>3 DEF Ground, IdKnown, RowIsGone, GoesOn, Same, NoCmd
  <2>9. NotYetMade'
    BY <1>5, <2>1, <2>2 DEF Ground, NotYetMade, GoesOn
  <2>10. Ground'
    BY <2>4, <2>5, <2>6, <2>7, <2>8, <2>9 DEF Ground
  <2>11. to \in PathsOf(cmd[c]) /\ r \in IdsOf(cmd[c])
    BY <1>1, <1>2, <1>3, PathsAre, IdsAre DEF Ground
  <2>12. Work(c)
    BY <1>4, <1>5, <2>1, <2>3, <2>11 DEF Work, GoesOn, Rest, Same
  <2> QED
    BY <2>10, <2>12
<1> QED
  BY <1>6, <1>7 DEF InitBare

LEMMA FetchRefsWorks ==
    ASSUME Ground, NEW c \in Cmds, FetchRefs(c)
    PROVE  Ground' /\ Work(c)
<1>1. cmd[c].at = "fetch" /\ cmd[c].kind # "transfer" /\ DirectoryTypeOK
  <2>1. cmd[c].at = "fetch" /\ Shape(cmd[c])
    BY DEF FetchRefs, Ground
  <2>2. cmd[c].kind # "transfer"
    BY <2>1 DEF Shape, TransferShape, NoCmd, Made
  <2> QED
    BY <2>1, <2>2 DEF Ground
<1>2. cmd[c].kind \in Made /\ MadeShape(cmd[c]) /\ Under(c)
  BY <1>1, MakingIs
<1>3. Rest
  <2>1. dirFaults' \in 0..MaxDirFaults
    BY <1>1, FaultNext DEF FetchRefs
  <2> QED
    BY <1>1, <2>1 DEF FetchRefs, DirectoryTypeOK, Rest
<1>4. UNCHANGED <<repos, ownerName, disk>>
  BY DEF FetchRefs
<1>5. CASE CmdEnds(c)
  BY <1>2, <1>3, <1>4, <1>5, EndWorks
<1>6. CASE Step(c, "unmake")
  <2>1. GoesOn(c) /\ cmd'[c].at = "unmake" /\ Same(cmd'[c], cmd[c])
    BY <1>1, <1>2, <1>6, StepsGoOn DEF Ats, MadeShape
  <2> QED
    BY <1>3, <1>4, <2>1, MoveWorks
<1> QED
  BY <1>5, <1>6 DEF FetchRefs

\* A step that writes the row of its command, or moves files on its paths.
Writes(c) ==
    /\ \A p \in Paths : disk'[p] # disk[p] =>
         p \in PathsOf(cmd[c]) /\ disk'[p] \in IdsOf(cmd[c]) \cup {Nil}
    /\ \A r \in DirIds : repos'[r] # repos[r] =>
         /\ r = cmd[c].id
         /\ repos'[r].is = "here" =>
              \/ Exists(r) /\ repos'[r].owner = repos[r].owner
              \/ cmd[c].owner \in Owners /\ repos'[r].owner = cmd[c].owner

LEMMA WriteWorks ==
    ASSUME Ground, NEW c \in Cmds, Rest, GoesOn(c), RowsGoOn, FilesGoOn, NamesGoOn,
           cmd'[c] = NoCmd \/ Same(cmd'[c], cmd[c]), cmd'[c].at # "init",
           cmd'[c].at \in {"remove", "clean"} => repos'[cmd'[c].id].is = "gone",
           Writes(c)
    PROVE  Ground' /\ Work(c)
<1>1. Ground'
  BY GroundGoesOn DEF Same
<1>2. Work(c)
  BY DEF Work, GoesOn, Rest, Same, Writes
<1> QED
  BY <1>1, <1>2

\* A row that goes for good.
GoneRow == [NoRepo EXCEPT !.is = "gone"]

LEMMA RowIsDropped ==
    ASSUME Ground, NEW c \in Cmds, cmd[c].id \in DirIds,
           repos' = [repos EXCEPT ![cmd[c].id] = GoneRow], UNCHANGED disk
    PROVE  RowsGoOn /\ repos'[cmd[c].id].is = "gone" /\ Writes(c)
<1>1. GoneRow \in Repo /\ GoneRow.is = "gone"
  BY DEF GoneRow, NoRepo, Repo
<1>2. /\ repos'[cmd[c].id] = GoneRow
      /\ \A r \in DirIds \ {cmd[c].id} : repos'[r] = repos[r]
  BY DEF Ground, DirectoryTypeOK
<1>3. RowsGoOn
  BY <1>1, RowIsWritten
<1> QED
  BY <1>1, <1>2, <1>3 DEF Writes

LEMMA UnmakeWorks ==
    ASSUME Ground, NEW c \in Cmds, Unmake(c)
    PROVE  Ground' /\ Work(c)
<1>1. cmd[c].at = "unmake" /\ DirectoryTypeOK /\ Shape(cmd[c])
  BY DEF Unmake, Ground
<1>2. cmd[c].kind # "transfer"
  BY <1>1 DEF Shape, TransferShape, NoCmd, Made
<1>3. /\ cmd[c].kind \in Made /\ MadeShape(cmd[c]) /\ Under(c)
      /\ cmd[c].id \in DirIds
  BY <1>1, <1>2, MakingIs, CmdTypes DEF MadeShape
<1>4. Rest
  BY <1>1 DEF Unmake, DirectoryTypeOK, Rest
<1>5. repos' = [repos EXCEPT ![cmd[c].id] = GoneRow] /\ UNCHANGED <<disk, ownerName>>
  BY DEF Unmake, GoneRow
<1>6. RowsGoOn /\ repos'[cmd[c].id].is = "gone" /\ Writes(c)
  BY <1>3, <1>5, RowIsDropped
<1>7. FilesGoOn /\ NamesGoOn
  BY <1>5, FilesRest, NamesRest
<1>8. /\ GoesOn(c) /\ cmd'[c].at \in {"idle", "clean"}
      /\ cmd'[c] = NoCmd \/ Same(cmd'[c], cmd[c])
      /\ cmd'[c].at = "clean" => cmd'[c].id = cmd[c].id
  <2>1. CmdEnds(c) \/ Step(c, "clean")
    BY DEF Unmake
  <2>2. CASE CmdEnds(c)
    BY <1>1, <1>3, <2>2, EndsGoOn, EndIs
  <2>3. CASE Step(c, "clean")
    BY <1>1, <1>3, <2>3, StepsGoOn DEF Ats, MadeShape, Same
  <2> QED
    BY <2>1, <2>2, <2>3
<1> QED
  BY <1>4, <1>6, <1>7, <1>8, WriteWorks

\* Files that are dropped.
LEMMA DropWorks ==
    ASSUME Ground, NEW c \in Cmds, Rest, Under(c), CmdEnds(c),
           NEW p \in PathsOf(cmd[c]), disk' = [disk EXCEPT ![p] = Nil],
           UNCHANGED <<repos, ownerName>>
    PROVE  Ground' /\ Work(c)
<1>1. p \in Paths /\ DirectoryTypeOK
  BY DEF PathsOf, Ground
<1>2. /\ FilesGoOn /\ disk'[p] = Nil
      /\ \A q \in Paths \ {p} : disk'[q] = disk[q]
  BY <1>1, FilesAreDropped
<1>3. Writes(c)
  BY <1>2 DEF Writes
<1>4. GoesOn(c) /\ cmd'[c] = NoCmd /\ cmd'[c].at = "idle"
  BY <1>1, EndsGoOn, EndIs
<1> QED
  BY <1>2, <1>3, <1>4, RowsRest, NamesRest, WriteWorks

\* What RemoveDir drops is recorded.
LEMMA RemoveRest ==
    ASSUME Ground, NEW c \in Cmds, NEW p \in Paths, RemoveDir(c, p)
    PROVE  crossed' \subseteq DirIds /\ crossed \subseteq crossed'
BY DEF RemoveDir, Ground, DirectoryTypeOK

LEMMA CleanImportWorks ==
    ASSUME Ground, NEW c \in Cmds, CleanImport(c)
    PROVE  Ground' /\ Work(c)
<1>1. cmd[c].at = "clean" /\ DirectoryTypeOK /\ Shape(cmd[c])
  BY DEF CleanImport, Ground
<1>2. cmd[c].kind # "transfer"
  BY <1>1 DEF Shape, TransferShape, NoCmd, Made
<1>3. MadeShape(cmd[c]) /\ Under(c)
  BY <1>1, <1>2, MakingIs
<1>4. cmd[c].to \in PathsOf(cmd[c]) /\ cmd[c].to \in Paths
  BY <1>1, <1>3, PathsAre DEF MadeShape
<1>5. Rest
  BY <1>1, <1>4, RemoveRest DEF CleanImport, DirectoryTypeOK, Rest
<1> QED
  BY <1>3, <1>4, <1>5, DropWorks DEF CleanImport, RemoveDir

-----------------------------------------------------------------------------
(* Moving one *)

LEMMA TransferIs ==
    ASSUME Ground, NEW c \in Cmds, cmd[c].kind = "transfer"
    PROVE  /\ TransferShape(cmd[c]) /\ Under(c)
           /\ cmd[c].id \in DirIds /\ cmd[c].id \in IdsOf(cmd[c])
           /\ cmd[c].from \in PathsOf(cmd[c]) /\ cmd[c].to \in PathsOf(cmd[c])
           /\ cmd[c].from \in Paths /\ cmd[c].to \in Paths
<1>1. Shape(cmd[c]) /\ cmd[c] \in Cmd /\ DirectoryTypeOK
  BY DEF Ground, DirectoryTypeOK
<1>2. TransferShape(cmd[c])
  BY <1>1, DirectoryAssumption DEF Shape, NoCmd, Made, Kinds
<1>3. Under(c) /\ cmd[c].id \in DirIds /\ cmd[c].from \in Paths /\ cmd[c].to \in Paths
  BY <1>1, <1>2 DEF TransferShape, Under, Cmd
<1> QED
  BY <1>1, <1>2, <1>3, PathsAre, IdsAre

LEMMA RenameIs ==
    ASSUME Ground, NEW c \in Cmds, cmd[c].kind = "rename"
    PROVE  /\ RenameShape(cmd[c]) /\ Under(c)
           /\ cmd[c].id \in DirIds /\ cmd[c].id \in IdsOf(cmd[c])
           /\ cmd[c].from \in PathsOf(cmd[c]) /\ cmd[c].to \in PathsOf(cmd[c])
           /\ cmd[c].from \in Paths /\ cmd[c].to \in Paths
<1>1. Shape(cmd[c]) /\ cmd[c] \in Cmd /\ DirectoryTypeOK
  BY DEF Ground, DirectoryTypeOK
<1>2. RenameShape(cmd[c])
  BY <1>1, DirectoryAssumption DEF Shape, NoCmd, Made, Kinds
<1>3. Under(c) /\ cmd[c].id \in DirIds /\ cmd[c].from \in Paths /\ cmd[c].to \in Paths
  BY <1>1, <1>2 DEF RenameShape, Under, Cmd
<1> QED
  BY <1>1, <1>2, <1>3, PathsAre, IdsAre

LEMMA OrgRenameIs ==
    ASSUME Ground, NEW c \in Cmds, cmd[c].kind = "orgrename"
    PROVE  /\ OrgRenameShape(cmd[c]) /\ Under(c)
           /\ cmd[c].from[1] \in OwnerNames /\ cmd[c].to[1] \in OwnerNames
           /\ \A n \in Names : /\ <<cmd[c].from[1], n>> \in PathsOf(cmd[c])
                               /\ <<cmd[c].to[1], n>> \in PathsOf(cmd[c])
<1>1. Shape(cmd[c])
  BY DEF Ground
<1>2. OrgRenameShape(cmd[c])
  BY <1>1, DirectoryAssumption DEF Shape, NoCmd, Made, Kinds
<1>3. Under(c) /\ cmd[c].from[1] \in OwnerNames /\ cmd[c].to[1] \in OwnerNames
  BY <1>2 DEF OrgRenameShape, Under
<1> QED
  BY <1>1, <1>2, <1>3, PathsAre

LEMMA DeleteIs ==
    ASSUME Ground, NEW c \in Cmds, cmd[c].kind = "delete"
    PROVE  /\ DeleteShape(cmd[c]) /\ Under(c)
           /\ cmd[c].id \in DirIds /\ cmd[c].id \in IdsOf(cmd[c])
           /\ cmd[c].from \in PathsOf(cmd[c]) /\ cmd[c].from \in Paths
<1>1. Shape(cmd[c]) /\ cmd[c] \in Cmd /\ DirectoryTypeOK
  BY DEF Ground, DirectoryTypeOK
<1>2. DeleteShape(cmd[c])
  BY <1>1, DirectoryAssumption DEF Shape, NoCmd, Made, Kinds
<1>3. Under(c) /\ cmd[c].id \in DirIds /\ cmd[c].from \in Paths
  BY <1>1, <1>2 DEF DeleteShape, Under, Cmd
<1> QED
  BY <1>1, <1>2, <1>3, PathsAre, IdsAre

LEMMA CheckMoveWorks ==
    ASSUME Ground, NEW c \in Cmds, CheckMove(c)
    PROVE  Ground' /\ Work(c)
<1>1. /\ cmd[c].at = "check" /\ cmd[c].kind \in {"transfer", "rename"}
      /\ DirectoryTypeOK /\ UNCHANGED <<repos, ownerName, disk>>
  BY DEF CheckMove, Ground
<1>2. Under(c)
  BY <1>1 DEF Under
<1>3. Rest
  BY <1>1 DEF CheckMove, DirectoryTypeOK, Rest
<1>4. CASE CmdEnds(c)
  BY <1>1, <1>2, <1>3, <1>4, EndWorks
<1>5. CASE ~CmdEnds(c)
  <2>1. PICK at \in {"move", "record"} :
          /\ cmd' = [cmd EXCEPT ![c].lock = TRUE, ![c].at = at]
          /\ cmd[c].kind = "rename" => at = "record"
          /\ cmd[c].kind = "transfer" => at = "move"
    BY <1>1, <1>5 DEF CheckMove
  <2>2. GoesOn(c) /\ cmd'[c].at = at /\ Same(cmd'[c], cmd[c])
    BY <1>1, <1>2, <2>1, StepsGoOn DEF Ats
  <2> QED
    BY <1>1, <1>3, <2>1, <2>2, MoveWorks
<1> QED
  BY <1>4, <1>5

\* Files that are moved.
LEMMA MoveWrites ==
    ASSUME Ground, NEW c \in Cmds, NEW from \in PathsOf(cmd[c]),
           NEW to \in PathsOf(cmd[c]), CanMove(from, to), disk' = Moved(from, to),
           UNCHANGED repos
    PROVE  FilesGoOn /\ Writes(c)
<1>1. /\ from \in Paths /\ to \in Paths
      /\ \A r \in PathsOf(cmd[c]) : disk[r] \in IdsOf(cmd[c]) \cup {Nil}
  BY DEF PathsOf, IdsOf
<1>2. /\ FilesGoOn /\ disk'[from] = Nil /\ disk'[to] = disk[from]
      /\ \A p \in Paths \ {from, to} : disk'[p] = disk[p]
  BY <1>1, FilesAreMoved
<1> QED
  BY <1>1, <1>2 DEF Writes

LEMMA TransferDirWorks ==
    ASSUME Ground, NEW c \in Cmds, TransferDir(c)
    PROVE  Ground' /\ Work(c)
<1>1. /\ cmd[c].at = "move" /\ cmd[c].kind = "transfer" /\ DirectoryTypeOK
      /\ UNCHANGED <<repos, ownerName>>
  BY DEF TransferDir, Ground
<1>2. /\ Under(c) /\ cmd[c].from \in PathsOf(cmd[c])
      /\ cmd[c].to \in PathsOf(cmd[c])
  BY <1>1, TransferIs
<1>3. Rest
  <2>1. dirFaults' \in 0..MaxDirFaults
    BY <1>1, FaultNext DEF TransferDir
  <2> QED
    BY <1>1, <2>1 DEF TransferDir, DirectoryTypeOK, Rest
<1>4. CASE CmdEnds(c) /\ UNCHANGED disk
  BY <1>1, <1>2, <1>3, <1>4, EndWorks
<1>5. CASE /\ CanMove(cmd[c].from, cmd[c].to) /\ Step(c, "record")
           /\ disk' = Moved(cmd[c].from, cmd[c].to)
  <2>1. FilesGoOn /\ Writes(c)
    BY <1>1, <1>2, <1>5, MoveWrites
  <2>2. GoesOn(c) /\ cmd'[c].at = "record" /\ Same(cmd'[c], cmd[c])
    BY <1>1, <1>2, <1>5, StepsGoOn DEF Ats
  <2> QED
    BY <1>1, <1>3, <2>1, <2>2, RowsRest, NamesRest, WriteWorks
<1> QED
  BY <1>4, <1>5 DEF TransferDir

LEMMA TransferRowWorks ==
    ASSUME Ground, NEW c \in Cmds, TransferRow(c)
    PROVE  Ground' /\ Work(c)
<1>1. /\ cmd[c].at = "record" /\ cmd[c].kind = "transfer" /\ DirectoryTypeOK
      /\ UNCHANGED <<ownerName, disk>>
  BY DEF TransferRow, Ground
<1>2. Under(c) /\ cmd[c].id \in DirIds /\ cmd[c].owner \in Owners
  BY <1>1, TransferIs DEF TransferShape
<1>3. Rest
  <2>1. dirFaults' \in 0..MaxDirFaults
    BY <1>1, FaultNext DEF TransferRow
  <2> QED
    BY <1>1, <2>1 DEF TransferRow, DirectoryTypeOK, Rest
<1>4. CASE CmdEnds(c) /\ UNCHANGED repos
  BY <1>1, <1>2, <1>3, <1>4, EndWorks
<1>5. CASE Step(c, "back") /\ UNCHANGED repos
  <2>1. GoesOn(c) /\ cmd'[c].at = "back" /\ Same(cmd'[c], cmd[c])
    BY <1>1, <1>2, <1>5, StepsGoOn DEF Ats
  <2> QED
    BY <1>1, <1>3, <1>5, <2>1, MoveWorks
<1>6. CASE /\ CmdEnds(c) /\ Exists(cmd[c].id)
           /\ Named(cmd[c].owner, repos[cmd[c].id].name) \ {cmd[c].id} = {}
           /\ repos' = [repos EXCEPT ![cmd[c].id].owner = cmd[c].owner]
  <2> DEFINE r == cmd[c].id
             row == [repos[r] EXCEPT !.owner = cmd[c].owner]
  <2>1. repos \in [DirIds -> Repo] /\ repos[r] \in Repo
    BY <1>1, <1>2 DEF DirectoryTypeOK
  <2>2. /\ row \in Repo /\ row.is = "here" /\ row.owner = cmd[c].owner
        /\ row.name = repos[r].name
    BY <1>2, <1>6, <2>1 DEF Repo, Exists
  <2>3. repos' = [repos EXCEPT ![r] = row]
    BY <1>6
  <2>4. repos[r].name \in Names /\ repos[r].is = "here"
    BY <1>2, <1>6, RowType DEF Exists
  <2>5. RowsGoOn
    <3> HIDE DEF row
    <3> QED
      BY <1>2, <1>6, <2>2, <2>3, <2>4, RowIsWritten
  <2>6. repos'[r] = row /\ \A s \in DirIds \ {r} : repos'[s] = repos[s]
    BY <2>1, <2>3, <1>2
  <2>7. Writes(c)
    <3> HIDE DEF row
    <3> QED
      BY <1>1, <1>2, <2>2, <2>6 DEF Writes
  <2>8. GoesOn(c) /\ cmd'[c] = NoCmd /\ cmd'[c].at = "idle"
    BY <1>1, <1>2, <1>6, EndsGoOn, EndIs
  <2> QED
    BY <1>1, <1>3, <2>5, <2>7, <2>8, FilesRest, NamesRest, WriteWorks
<1> QED
  BY <1>4, <1>5, <1>6 DEF TransferRow

LEMMA TransferBackWorks ==
    ASSUME Ground, NEW c \in Cmds, TransferBack(c)
    PROVE  Ground' /\ Work(c)
<1>1. /\ cmd[c].at = "back" /\ DirectoryTypeOK /\ Shape(cmd[c])
      /\ UNCHANGED <<repos, ownerName>> /\ CmdEnds(c)
  BY DEF TransferBack, Ground
<1>2. cmd[c].kind = "transfer"
  BY <1>1 DEF Shape, NoCmd, MadeShape, RenameShape, OrgRenameShape, DeleteShape
<1>3. /\ Under(c) /\ cmd[c].from \in PathsOf(cmd[c])
      /\ cmd[c].to \in PathsOf(cmd[c])
  BY <1>2, TransferIs
<1>4. Rest
  BY <1>1 DEF TransferBack, DirectoryTypeOK, Rest
<1>5. CASE CanMove(cmd[c].to, cmd[c].from)
  <2>1. disk' = Moved(cmd[c].to, cmd[c].from)
    BY <1>5 DEF TransferBack, MovedBack
  <2>2. FilesGoOn /\ Writes(c)
    BY <1>1, <1>3, <1>5, <2>1, MoveWrites
  <2>3. GoesOn(c) /\ cmd'[c] = NoCmd /\ cmd'[c].at = "idle"
    BY <1>1, <1>3, EndsGoOn, EndIs
  <2> QED
    BY <1>1, <1>4, <2>2, <2>3, RowsRest, NamesRest, WriteWorks
<1>6. CASE ~CanMove(cmd[c].to, cmd[c].from)
  <2>1. UNCHANGED disk
    BY <1>6 DEF TransferBack, MovedBack
  <2> QED
    BY <1>1, <1>3, <1>4, <2>1, EndWorks
<1> QED
  BY <1>5, <1>6

\* A row that takes another name its owner has not given.
LEMMA RenamedWrites ==
    ASSUME Ground, NEW c \in Cmds, cmd[c].kind = "rename", NEW n \in Names,
           repos' = Renamed(cmd[c].id, n), UNCHANGED disk
    PROVE  /\ RowsGoOn /\ Writes(c)
           /\ \A s \in DirIds \ {cmd[c].id} : repos'[s] = repos[s]
           /\ ~Exists(cmd[c].id) => repos' = repos
           /\ Exists(cmd[c].id) =>
                /\ repos'[cmd[c].id].is = "here"
                /\ repos'[cmd[c].id].owner = repos[cmd[c].id].owner
                /\ \/ repos'[cmd[c].id].name = n
                   \/ /\ Named(repos[cmd[c].id].owner, n) \ {cmd[c].id} # {}
                      /\ repos' = repos
<1> DEFINE r == cmd[c].id
           row == [repos[r] EXCEPT !.name = n]
<1>1. r \in DirIds /\ DirectoryTypeOK
  BY RenameIs DEF Ground
<1>2. repos \in [DirIds -> Repo] /\ repos[r] \in Repo
  BY <1>1 DEF DirectoryTypeOK
<1>3. CASE Exists(r) /\ Named(repos[r].owner, n) \ {r} = {}
  <2>1. /\ row \in Repo /\ row.is = "here" /\ row.owner = repos[r].owner
        /\ row.name = n
    BY <1>2, <1>3 DEF Repo, Exists
  <2>2. repos' = [repos EXCEPT ![r] = row]
    BY <1>3 DEF Renamed
  <2>3. repos[r].owner \in Owners /\ repos[r].is = "here"
    BY <1>1, <1>3, RowType DEF Exists
  <2>4. repos'[r] = row /\ \A s \in DirIds \ {r} : repos'[s] = repos[s]
    BY <1>1, <1>2, <2>2
  <2> HIDE DEF row
  <2>5. RowsGoOn
    BY <1>1, <1>3, <2>1, <2>2, <2>3, RowIsWritten
  <2>6. Writes(c)
    BY <1>3, <2>1, <2>4 DEF Writes
  <2> QED
    BY <1>3, <2>1, <2>4, <2>5, <2>6
<1>4. CASE ~(Exists(r) /\ Named(repos[r].owner, n) \ {r} = {})
  <2>1. repos' = repos
    BY <1>4 DEF Renamed
  <2> QED
    BY <1>4, <2>1, RowsRest DEF Writes, Exists
<1> QED
  BY <1>3, <1>4

LEMMA RenameRowWorks ==
    ASSUME Ground, NEW c \in Cmds, RenameRow(c)
    PROVE  Ground' /\ Work(c)
<1>1. /\ cmd[c].at = "record" /\ cmd[c].kind = "rename" /\ DirectoryTypeOK
      /\ UNCHANGED <<ownerName, disk>> /\ repos' = Renamed(cmd[c].id, cmd[c].to[2])
  BY DEF RenameRow, Ground
<1>2. Under(c) /\ cmd[c].to[2] \in Names
  BY <1>1, RenameIs DEF Paths
<1>3. RowsGoOn /\ Writes(c)
  BY <1>1, <1>2, RenamedWrites
<1>4. Rest
  BY <1>1 DEF RenameRow, DirectoryTypeOK, Rest
<1>5. CASE CmdEnds(c)
  BY <1>1, <1>2, <1>3, <1>4, <1>5, EndsGoOn, EndIs, FilesRest, NamesRest, WriteWorks
<1>6. CASE Step(c, "move")
  <2>1. GoesOn(c) /\ cmd'[c].at = "move" /\ Same(cmd'[c], cmd[c])
    BY <1>1, <1>2, <1>6, StepsGoOn DEF Ats
  <2> QED
    BY <1>1, <1>3, <1>4, <2>1, FilesRest, NamesRest, WriteWorks
<1> QED
  BY <1>5, <1>6 DEF RenameRow

LEMMA RenameDirWorks ==
    ASSUME Ground, NEW c \in Cmds, RenameDir(c)
    PROVE  Ground' /\ Work(c)
<1>1. /\ cmd[c].at = "move" /\ cmd[c].kind = "rename" /\ DirectoryTypeOK
      /\ UNCHANGED <<repos, ownerName>>
  BY DEF RenameDir, Ground
<1>2. /\ Under(c) /\ cmd[c].from \in PathsOf(cmd[c])
      /\ cmd[c].to \in PathsOf(cmd[c])
  BY <1>1, RenameIs
<1>3. Rest
  <2>1. dirFaults' \in 0..MaxDirFaults
    BY <1>1, FaultNext DEF RenameDir
  <2> QED
    BY <1>1, <2>1 DEF RenameDir, DirectoryTypeOK, Rest
<1>4. CASE UNCHANGED disk /\ Step(c, "revert")
  <2>1. GoesOn(c) /\ cmd'[c].at = "revert" /\ Same(cmd'[c], cmd[c])
    BY <1>1, <1>2, <1>4, StepsGoOn DEF Ats
  <2> QED
    BY <1>1, <1>3, <1>4, <2>1, MoveWorks
<1>5. CASE /\ CanMove(cmd[c].from, cmd[c].to) /\ CmdEnds(c)
           /\ disk' = Moved(cmd[c].from, cmd[c].to)
  <2>1. FilesGoOn /\ Writes(c)
    BY <1>1, <1>2, <1>5, MoveWrites
  <2>2. GoesOn(c) /\ cmd'[c] = NoCmd /\ cmd'[c].at = "idle"
    BY <1>1, <1>2, <1>5, EndsGoOn, EndIs
  <2> QED
    BY <1>1, <1>3, <2>1, <2>2, RowsRest, NamesRest, WriteWorks
<1> QED
  BY <1>4, <1>5 DEF RenameDir

LEMMA RenameRevertWorks ==
    ASSUME Ground, NEW c \in Cmds, RenameRevert(c)
    PROVE  Ground' /\ Work(c)
<1>1. /\ cmd[c].at = "revert" /\ cmd[c].kind = "rename" /\ DirectoryTypeOK
      /\ UNCHANGED <<ownerName, disk>> /\ CmdEnds(c)
      /\ repos' = Renamed(cmd[c].id, cmd[c].from[2])
  BY DEF RenameRevert, Ground
<1>2. Under(c) /\ cmd[c].id \in DirIds /\ cmd[c].from[2] \in Names
  BY <1>1, RenameIs DEF Paths
<1>3. RowsGoOn /\ Writes(c)
  BY <1>1, <1>2, RenamedWrites
<1>4. Rest
  BY <1>1, <1>2 DEF RenameRevert, DirectoryTypeOK, Rest
<1> QED
  BY <1>1, <1>2, <1>3, <1>4, EndsGoOn, EndIs, FilesRest, NamesRest, WriteWorks

-----------------------------------------------------------------------------
(* Renaming an organization *)

LEMMA CheckOrgRenameWorks ==
    ASSUME Ground, NEW c \in Cmds, CheckOrgRename(c)
    PROVE  Ground' /\ Work(c)
<1>1. /\ cmd[c].at = "check" /\ cmd[c].kind = "orgrename" /\ DirectoryTypeOK
      /\ UNCHANGED <<repos, ownerName, disk>> /\ Under(c)
  BY DEF CheckOrgRename, Ground, Under
<1>2. Rest
  BY <1>1 DEF CheckOrgRename, DirectoryTypeOK, Rest
<1>3. CASE CmdEnds(c)
  BY <1>1, <1>2, <1>3, EndWorks
<1>4. CASE cmd' = [cmd EXCEPT ![c].lock = TRUE, ![c].at = "record"]
  <2>1. GoesOn(c) /\ cmd'[c].at = "record" /\ Same(cmd'[c], cmd[c])
    BY <1>1, <1>4, StepsGoOn DEF Ats
  <2> QED
    BY <1>1, <1>2, <2>1, MoveWorks
<1> QED
  BY <1>3, <1>4 DEF CheckOrgRename

\* An owner takes a name no other has.
LEMMA NameIsTaken ==
    ASSUME Ground, NEW o \in Owners, NEW n \in OwnerNames, ~NameTaken(o, n),
           ownerName' = [ownerName EXCEPT ![o] = n]
    PROVE  /\ NamesGoOn /\ ownerName'[o] = n
           /\ \A p \in Owners \ {o} : ownerName'[p] = ownerName[p]
<1>1. ownerName \in [Owners -> OwnerNames]
  BY DEF Ground, DirectoryTypeOK
<1>2. /\ ownerName' \in [Owners -> OwnerNames] /\ ownerName'[o] = n
      /\ \A p \in Owners \ {o} : ownerName'[p] = ownerName[p]
  BY <1>1
<1> QED
  BY <1>2 DEF Ground, NamesGoOn, NamesDiffer, NameTaken

LEMMA NoWrites ==
    ASSUME NEW c \in Cmds, UNCHANGED <<repos, disk>>
    PROVE  Writes(c)
BY DEF Writes

LEMMA OrgRenameRowWorks ==
    ASSUME Ground, NEW c \in Cmds, OrgRenameRow(c)
    PROVE  Ground' /\ Work(c)
<1>1. /\ cmd[c].at = "record" /\ cmd[c].kind = "orgrename" /\ DirectoryTypeOK
      /\ UNCHANGED <<repos, disk>>
  BY DEF OrgRenameRow, Ground
<1>2. Under(c) /\ cmd[c].owner \in Owners /\ cmd[c].to[1] \in OwnerNames
  BY <1>1, OrgRenameIs DEF OrgRenameShape
<1>3. Rest
  BY <1>1 DEF OrgRenameRow, DirectoryTypeOK, Rest
<1>4. CASE NameTaken(cmd[c].owner, cmd[c].to[1])
  BY <1>1, <1>2, <1>3, <1>4, EndWorks DEF OrgRenameRow
<1>5. CASE ~NameTaken(cmd[c].owner, cmd[c].to[1])
  <2>1. /\ ownerName' = [ownerName EXCEPT ![cmd[c].owner] = cmd[c].to[1]]
        /\ Step(c, "move")
    BY <1>5 DEF OrgRenameRow
  <2>2. NamesGoOn
    BY <1>2, <1>5, <2>1, NameIsTaken
  <2>3. GoesOn(c) /\ cmd'[c].at = "move" /\ Same(cmd'[c], cmd[c])
    BY <1>1, <1>2, <2>1, StepsGoOn DEF Ats
  <2> QED
    BY <1>1, <1>3, <2>2, <2>3, RowsRest, FilesRest, NoWrites, WriteWorks
<1> QED
  BY <1>4, <1>5

\* The tree of an organization moves as a whole.
LEMMA TreeIsMoved ==
    ASSUME Ground, NEW from \in OwnerNames, NEW to \in OwnerNames, from # to,
           TreeOf(to) = {},
           disk' = [p \in Paths |-> IF p[1] = to THEN disk[<<from, p[2]>>]
                                    ELSE IF p[1] = from THEN Nil ELSE disk[p]]
    PROVE  /\ FilesGoOn
           /\ \A n \in Names : /\ disk[<<to, n>>] = Nil
                               /\ disk'[<<to, n>>] = disk[<<from, n>>]
                               /\ disk'[<<from, n>>] = Nil
           /\ \A p \in Paths : p[1] \notin {from, to} => disk'[p] = disk[p]
<1>1. disk \in [Paths -> DirIds \cup {Nil}] /\ OneCopy
  BY DEF Ground, DirectoryTypeOK
<1>2. \A p \in Paths : p[1] \in OwnerNames /\ p[2] \in Names /\ p = <<p[1], p[2]>>
  BY DEF Paths
<1>3. \A o \in OwnerNames, n \in Names : <<o, n>> \in Paths
  BY DEF Paths
<1>4. /\ \A n \in Names : /\ disk[<<to, n>>] = Nil
                          /\ disk'[<<to, n>>] = disk[<<from, n>>]
                          /\ disk'[<<from, n>>] = Nil
      /\ \A p \in Paths : p[1] \notin {from, to} => disk'[p] = disk[p]
  BY <1>3 DEF TreeOf
<1>5. disk' \in [Paths -> DirIds \cup {Nil}]
  BY <1>1, <1>2, <1>3
<1>6. ASSUME NEW p \in Paths, disk'[p] # Nil
      PROVE  \E q \in Paths :
               /\ disk[q] = disk'[p] /\ q[2] = p[2]
               /\ \/ p[1] = to /\ q[1] = from
                  \/ p[1] \notin {from, to} /\ q = p
  <2>1. CASE p[1] = to
    <3>1. <<from, p[2]>> \in Paths /\ disk'[p] = disk[<<from, p[2]>>]
      BY <1>2, <1>3, <2>1
    <3> QED
      BY <2>1, <3>1
  <2>2. CASE p[1] # to
    <3>1. p[1] # from /\ disk'[p] = disk[p]
      BY <1>6, <2>2
    <3> QED
      BY <2>2, <3>1
  <2> QED
    BY <2>1, <2>2
<1>7. OneCopy'
  <2> SUFFICES ASSUME NEW p \in Paths, NEW q \in Paths, disk'[p] = disk'[q],
                      disk'[p] # Nil
               PROVE  p = q
    BY DEF OneCopy
  <2>1. PICK a \in Paths :
          /\ disk[a] = disk'[p] /\ a[2] = p[2]
          /\ \/ p[1] = to /\ a[1] = from
             \/ p[1] \notin {from, to} /\ a = p
    BY <1>6
  <2>2. PICK b \in Paths :
          /\ disk[b] = disk'[q] /\ b[2] = q[2]
          /\ \/ q[1] = to /\ b[1] = from
             \/ q[1] \notin {from, to} /\ b = q
    BY <1>6
  <2>3. a = b
    BY <1>1, <2>1, <2>2 DEF OneCopy
  <2>4. p[1] = q[1] /\ p[2] = q[2]
    BY <2>1, <2>2, <2>3
  <2> QED
    BY <1>2, <2>4
<1>8. FilesGoOn
  BY <1>5, <1>6, <1>7 DEF FilesGoOn
<1> QED
  BY <1>4, <1>8

LEMMA OrgRenameTreeWorks ==
    ASSUME Ground, NEW c \in Cmds, OrgRenameTree(c)
    PROVE  Ground' /\ Work(c)
<1>1. /\ cmd[c].at = "move" /\ cmd[c].kind = "orgrename" /\ DirectoryTypeOK
      /\ UNCHANGED <<repos, ownerName>>
  BY DEF OrgRenameTree, Ground
<1>2. /\ Under(c) /\ cmd[c].from[1] \in OwnerNames /\ cmd[c].to[1] \in OwnerNames
      /\ cmd[c].from[1] # cmd[c].to[1]
      /\ \A n \in Names : /\ <<cmd[c].from[1], n>> \in PathsOf(cmd[c])
                          /\ <<cmd[c].to[1], n>> \in PathsOf(cmd[c])
  BY <1>1, OrgRenameIs DEF OrgRenameShape
<1>3. Rest
  <2>1. dirFaults' \in 0..MaxDirFaults
    BY <1>1, FaultNext DEF OrgRenameTree
  <2> QED
    BY <1>1, <2>1 DEF OrgRenameTree, DirectoryTypeOK, Rest
<1>4. CASE UNCHANGED disk /\ CmdEnds(c)
  BY <1>1, <1>2, <1>3, <1>4, EndWorks
<1>5. CASE UNCHANGED disk /\ Step(c, "revert")
  <2>1. GoesOn(c) /\ cmd'[c].at = "revert" /\ Same(cmd'[c], cmd[c])
    BY <1>1, <1>2, <1>5, StepsGoOn DEF Ats
  <2> QED
    BY <1>1, <1>3, <1>5, <2>1, MoveWorks
<1>6. CASE /\ TreeOf(cmd[c].to[1]) = {} /\ CmdEnds(c)
           /\ disk' = [p \in Paths |->
                IF p[1] = cmd[c].to[1] THEN disk[<<cmd[c].from[1], p[2]>>]
                ELSE IF p[1] = cmd[c].from[1] THEN Nil ELSE disk[p]]
  <2>1. /\ FilesGoOn
        /\ \A n \in Names :
             /\ disk'[<<cmd[c].to[1], n>>] = disk[<<cmd[c].from[1], n>>]
             /\ disk'[<<cmd[c].from[1], n>>] = Nil
        /\ \A p \in Paths : p[1] \notin {cmd[c].from[1], cmd[c].to[1]}
             => disk'[p] = disk[p]
    <3>1. PICK from \in OwnerNames, to \in OwnerNames :
            from = cmd[c].from[1] /\ to = cmd[c].to[1]
      BY <1>2
    <3>2. disk' = [p \in Paths |-> IF p[1] = to THEN disk[<<from, p[2]>>]
                                   ELSE IF p[1] = from THEN Nil ELSE disk[p]]
      BY <1>6, <3>1, Zenon
    <3>3. from # to /\ TreeOf(to) = {}
      BY <1>2, <1>6, <3>1
    <3>4. /\ FilesGoOn
          /\ \A n \in Names : /\ disk'[<<to, n>>] = disk[<<from, n>>]
                              /\ disk'[<<from, n>>] = Nil
          /\ \A p \in Paths : p[1] \notin {from, to} => disk'[p] = disk[p]
      BY <3>2, <3>3, TreeIsMoved
    <3> QED
      BY <3>1, <3>4
  <2>2. \A q \in PathsOf(cmd[c]) : disk[q] \in IdsOf(cmd[c]) \cup {Nil}
    BY DEF IdsOf
  <2>3. ASSUME NEW p \in Paths, disk'[p] # disk[p]
        PROVE  p \in PathsOf(cmd[c]) /\ disk'[p] \in IdsOf(cmd[c]) \cup {Nil}
    <3>1. p[1] \in {cmd[c].from[1], cmd[c].to[1]}
      BY <2>1, <2>3
    <3>2. p[2] \in Names /\ p = <<p[1], p[2]>>
      BY DEF Paths
    <3>3. p \in PathsOf(cmd[c])
      BY <1>2, <3>1, <3>2
    <3>4. disk'[p] \in {disk[<<cmd[c].from[1], p[2]>>], Nil}
      BY <2>1, <3>1, <3>2
    <3> QED
      BY <1>2, <2>2, <3>2, <3>3, <3>4
  <2>4. Writes(c)
    BY <1>1, <2>3 DEF Writes
  <2>5. GoesOn(c) /\ cmd'[c] = NoCmd /\ cmd'[c].at = "idle"
    BY <1>1, <1>2, <1>6, EndsGoOn, EndIs
  <2> QED
    BY <1>1, <1>3, <2>1, <2>4, <2>5, RowsRest, NamesRest, WriteWorks
<1> QED
  BY <1>4, <1>5, <1>6 DEF OrgRenameTree

LEMMA OrgRenameRevertWorks ==
    ASSUME Ground, NEW c \in Cmds, OrgRenameRevert(c)
    PROVE  Ground' /\ Work(c)
<1>1. /\ cmd[c].kind = "orgrename" /\ DirectoryTypeOK /\ CmdEnds(c)
      /\ UNCHANGED <<repos, disk>>
  BY DEF OrgRenameRevert, Ground
<1>2. Under(c) /\ cmd[c].owner \in Owners /\ cmd[c].from[1] \in OwnerNames
  BY <1>1, OrgRenameIs DEF OrgRenameShape
<1>3. Rest
  BY <1>1 DEF OrgRenameRevert, DirectoryTypeOK, Rest
<1>4. NamesGoOn
  <2>1. CASE NameTaken(cmd[c].owner, cmd[c].from[1])
    BY <2>1, NamesRest DEF OrgRenameRevert
  <2>2. CASE ~NameTaken(cmd[c].owner, cmd[c].from[1])
    BY <1>2, <2>2, NameIsTaken DEF OrgRenameRevert
  <2> QED
    BY <2>1, <2>2
<1> QED
  BY <1>1, <1>2, <1>3, <1>4, EndsGoOn, EndIs, RowsRest, FilesRest, NoWrites,
     WriteWorks

-----------------------------------------------------------------------------
(* Deleting one *)

LEMMA CheckDeleteWorks ==
    ASSUME Ground, NEW c \in Cmds, CheckDelete(c)
    PROVE  Ground' /\ Work(c)
<1>1. /\ cmd[c].at = "check" /\ cmd[c].kind = "delete" /\ DirectoryTypeOK
      /\ UNCHANGED <<repos, ownerName, disk>> /\ Under(c)
  BY DEF CheckDelete, Ground, Under
<1>2. Rest
  BY <1>1 DEF CheckDelete, DirectoryTypeOK, Rest
<1>3. CASE CmdEnds(c)
  BY <1>1, <1>2, <1>3, EndWorks
<1>4. CASE cmd' = [cmd EXCEPT ![c].lock = TRUE, ![c].at = "record"]
  <2>1. GoesOn(c) /\ cmd'[c].at = "record" /\ Same(cmd'[c], cmd[c])
    BY <1>1, <1>4, StepsGoOn DEF Ats
  <2> QED
    BY <1>1, <1>2, <2>1, MoveWorks
<1> QED
  BY <1>3, <1>4 DEF CheckDelete

LEMMA DeleteRowWorks ==
    ASSUME Ground, NEW c \in Cmds, DeleteRow(c)
    PROVE  Ground' /\ Work(c)
<1>1. /\ cmd[c].at = "record" /\ cmd[c].kind = "delete" /\ DirectoryTypeOK
      /\ UNCHANGED <<ownerName, disk>>
  BY DEF DeleteRow, Ground
<1>2. Under(c) /\ cmd[c].id \in DirIds
  BY <1>1, DeleteIs
<1>3. Rest
  BY <1>1 DEF DeleteRow, DirectoryTypeOK, Rest
<1>4. CASE Exists(cmd[c].id)
  <2>1. repos' = [repos EXCEPT ![cmd[c].id] = GoneRow] /\ Step(c, "remove")
    BY <1>4 DEF DeleteRow, GoneRow
  <2>2. RowsGoOn /\ repos'[cmd[c].id].is = "gone" /\ Writes(c)
    BY <1>1, <1>2, <2>1, RowIsDropped
  <2>3. GoesOn(c) /\ cmd'[c].at = "remove" /\ Same(cmd'[c], cmd[c])
    BY <1>1, <1>2, <2>1, StepsGoOn DEF Ats
  <2>4. cmd'[c].id = cmd[c].id
    BY <2>3 DEF Same
  <2> QED
    BY <1>1, <1>3, <2>2, <2>3, <2>4, FilesRest, NamesRest, WriteWorks
<1>5. CASE ~Exists(cmd[c].id)
  BY <1>1, <1>2, <1>3, <1>5, EndWorks DEF DeleteRow
<1> QED
  BY <1>4, <1>5

LEMMA DeleteDirWorks ==
    ASSUME Ground, NEW c \in Cmds, DeleteDir(c)
    PROVE  Ground' /\ Work(c)
<1>1. /\ cmd[c].at = "remove" /\ DirectoryTypeOK /\ Shape(cmd[c])
      /\ UNCHANGED <<repos, ownerName>> /\ CmdEnds(c)
  BY DEF DeleteDir, Ground
<1>2. cmd[c].kind = "delete"
  BY <1>1 DEF Shape, NoCmd, MadeShape, RenameShape, OrgRenameShape, TransferShape
<1>3. /\ Under(c) /\ cmd[c].from \in PathsOf(cmd[c]) /\ cmd[c].from \in Paths
  BY <1>2, DeleteIs
<1>4. Rest
  <2>1. dirFaults' \in 0..MaxDirFaults
    BY <1>1, FaultNext DEF DeleteDir
  <2>2. crossed' \subseteq DirIds /\ crossed \subseteq crossed'
    BY <1>1, <1>3, RemoveRest DEF DeleteDir, DirectoryTypeOK
  <2> QED
    BY <1>1, <2>1, <2>2 DEF DeleteDir, DirectoryTypeOK, Rest
<1>5. CASE UNCHANGED disk
  BY <1>1, <1>3, <1>4, <1>5, EndWorks
<1>6. CASE disk' = [disk EXCEPT ![cmd[c].from] = Nil]
  BY <1>1, <1>3, <1>4, <1>6, DropWorks
<1> QED
  BY <1>5, <1>6 DEF DeleteDir, RemoveDir

-----------------------------------------------------------------------------
(* Where files are *)

\* Only the renaming of an organization changes a name.
NamesStep(c) ==
    \/ ownerName' = ownerName
    \/ /\ cmd[c].kind = "orgrename" /\ cmd[c].owner \in Owners
       /\ ownerName'[cmd[c].owner] \in {cmd[c].from[1], cmd[c].to[1]}
       /\ \A o \in Owners \ {cmd[c].owner} : ownerName'[o] = ownerName[o]

\* What a command's step leaves: where it aims, the files of what it is about,
\* the files of what no command is about, and a new path only where it works.
LeavesOwn(c, r) ==
    /\ cmd'[c].id = r => InHand(c, r)'
    /\ Renames(c, r)' => (disk[OldPath(c, r)])' = r
    /\ (Kept(r) /\ cmd'[c] = NoCmd /\ (cmd[c].id = r \/ Renames(c, r)))
         => (disk[PathOf(r)])' = r
Spares(c, r) == Kept(r) /\ Free(r) => (disk[PathOf(r)])' = r
Repaths(c, r) ==
    /\ ~Exists(r) => repos[r].is = "none" /\ cmd'[c].id = r
    /\ (PathOf(r)' # PathOf(r) \/ ~Exists(r))
         => PathOf(r)' \in PathsOf(cmd[c]) /\ ~cmd[c].over

Settles(c) ==
    /\ Aims(c)' /\ Others(c)'
    /\ \A r \in DirIds : Kept(r)' =>
         LeavesOwn(c, r) /\ Spares(c, r) /\ Repaths(c, r)

\* A repository in another's hands stays as it is.
LEMMA StrangerRests ==
    ASSUME Ground, CrossingsKnown, NEW c \in Cmds, Work(c), NamesStep(c),
           NEW d \in Cmds, d # c, Under(d), NEW r \in DirIds, Kept(r),
           r \in IdsOf(cmd[d])
    PROVE  /\ repos'[r] = repos[r] /\ PathOf(r)' = PathOf(r)
           /\ \A p \in PathsOf(cmd[d]) : disk'[p] = disk[p]
<1>1. DirectoryTypeOK /\ Under(c) /\ r \notin crossed /\ Exists(r) /\ r # Nil
  BY DirectoryAssumption DEF Ground, Work, Kept
<1>2. /\ ~SamePlace(cmd[d], cmd[c]) /\ r \notin IdsOf(cmd[c])
  BY <1>1, Stranger
<1>3. \A p \in PathsOf(cmd[d]) : disk'[p] = disk[p]
  BY <1>2 DEF SamePlace, Work, PathsOf
<1>4. /\ cmd[c].id # r
      /\ ~(cmd[c].kind = "orgrename" /\ r \in OwnedBy(cmd[c].owner))
  BY <1>1, <1>2, IdsAre
<1>5. repos'[r] = repos[r]
  BY <1>1, <1>4, DirectoryAssumption DEF Work, Exists, NoCmd
<1>6. repos[r].owner \in Owners
  BY <1>1, RowType
<1>7. ~(cmd[c].kind = "orgrename" /\ repos[r].owner = cmd[c].owner)
  BY <1>1, <1>4 DEF OwnedBy
<1>8. ownerName'[repos[r].owner] = ownerName[repos[r].owner]
  BY <1>6, <1>7 DEF NamesStep
<1> QED
  BY <1>3, <1>5, <1>8 DEF PathOf

\* What others aim at stays where it is.
LEMMA AimsGoOn ==
    ASSUME Ground, CrossingsKnown, NEW c \in Cmds, Work(c), NamesStep(c),
           NEW d \in Cmds, d # c, Aims(d)
    PROVE  Aims(d)'
<1> DEFINE k == cmd[d]
<1>1. cmd'[d] = k /\ Under(c) /\ Shape(k)
  BY DEF Work, Ground
<1>2. SUFFICES ASSUME ~k.over PROVE Aims(d)'
  BY <1>1 DEF Aims
<1>3. CASE ownerName' = ownerName
  BY <1>1, <1>3 DEF Aims
<1>4. CASE /\ cmd[c].kind = "orgrename" /\ cmd[c].owner \in Owners
           /\ ownerName'[cmd[c].owner] \in {cmd[c].from[1], cmd[c].to[1]}
           /\ \A o \in Owners \ {cmd[c].owner} : ownerName'[o] = ownerName[o]
  <2>1. Under(d) => ~SamePlace(k, cmd[c])
    BY <1>1, <1>2 DEF CrossingsKnown, ClashIsOver
  <2>2. CASE k.kind \in Made \cup {"transfer"}
    <3>1. k.owner \in Owners /\ Under(d)
      <4>1. k # NoCmd
        BY <2>2, DirectoryAssumption DEF NoCmd, Made, Kinds
      <4>2. MadeShape(k) \/ TransferShape(k)
        BY <1>1, <2>2, <4>1 DEF Shape, Made
      <4> QED
        BY <4>2 DEF MadeShape, TransferShape, Under
    <3>2. k.owner # cmd[c].owner
      BY <1>4, <2>1, <3>1 DEF SamePlace
    <3>3. ownerName'[k.owner] = ownerName[k.owner]
      BY <1>4, <3>1, <3>2
    <3>4. k.kind # "orgrename"
      BY <2>2 DEF Made
    <3> QED
      BY <1>1, <1>2, <2>2, <3>3, <3>4 DEF Aims
  <2>3. CASE k.kind = "orgrename"
    <3>1. /\ OrgRenameShape(k) /\ Under(d)
          /\ \A n \in Names : <<k.from[1], n>> \in PathsOf(k)
      BY <2>3, OrgRenameIs
    <3>2. \A n \in Names : /\ <<cmd[c].from[1], n>> \in PathsOf(cmd[c])
                           /\ <<cmd[c].to[1], n>> \in PathsOf(cmd[c])
      BY <1>4, OrgRenameIs
    <3>3. k.owner # cmd[c].owner /\ k.owner \in Owners
      BY <1>4, <2>1, <2>3, <3>1 DEF SamePlace, OrgRenameShape
    <3>4. ownerName'[k.owner] = ownerName[k.owner]
      BY <1>4, <3>3
    <3>5. PICK n \in Names : TRUE
      BY DirectoryAssumption
    <3>6. k.from[1] \notin {cmd[c].from[1], cmd[c].to[1]}
      BY <2>1, <3>1, <3>2, <3>5 DEF SamePlace
    <3>7. \A o \in Owners : ownerName'[o] = k.from[1] => ownerName[o] = k.from[1]
      BY <1>4, <3>6
    <3>8. k.kind \notin Made \cup {"transfer"}
      BY <2>3 DEF Made
    <3>9. /\ k.at \in {"check", "record"} => ownerName'[k.owner] = k.from[1]
          /\ k.at \in {"move", "revert"} =>
               /\ ownerName'[k.owner] = k.to[1]
               /\ \A p \in Owners : ownerName'[p] # k.from[1]
      BY <1>2, <2>3, <3>4, <3>7 DEF Aims
    <3> QED
      BY <1>1, <3>8, <3>9 DEF Aims
  <2>4. CASE k.kind \notin Made \cup {"transfer", "orgrename"}
    BY <1>1, <2>4 DEF Aims
  <2> QED
    BY <2>2, <2>3, <2>4
<1> QED
  BY <1>3, <1>4 DEF NamesStep

LEMMA OthersGoOn ==
    ASSUME Ground, CrossingsKnown, PlacesKnown, Ground',
           NEW c \in Cmds, Work(c), Settles(c), NEW d \in Cmds, d # c
    PROVE  Others(d)'
<1> DEFINE k == cmd[d]
<1>1. cmd'[d] = k /\ Under(c) /\ Shape(k) /\ Others(d) /\ DirectoryTypeOK
  BY DEF Work, Ground, PlacesKnown
<1>2. SUFFICES ASSUME NEW r \in DirIds, Kept(r)', r # k.id
               PROVE  /\ k.kind \in {"transfer", "rename", "delete"}
                           => PathOf(r)' # k.from
                      /\ k.kind = "transfer" /\ k.at \in {"record", "back"}
                           => disk'[k.to] # r
  BY <1>1 DEF Others
<1>3. Repaths(c, r) /\ r \notin crossed' /\ r \notin crossed /\ r # Nil
  BY <1>2, DirectoryAssumption DEF Settles, Kept, Work
<1>4. k.kind \in {"transfer", "rename", "delete"}
        => Under(d) /\ k.from \in PathsOf(k)
  BY TransferIs, RenameIs, DeleteIs
<1>5. ASSUME k.kind \in {"transfer", "rename", "delete"}, PathOf(r)' = k.from
      PROVE  FALSE
  <2>1. CASE PathOf(r)' = PathOf(r) /\ Exists(r)
    BY <1>1, <1>2, <1>3, <1>5, <2>1 DEF Others, Kept
  <2>2. CASE PathOf(r)' # PathOf(r) \/ ~Exists(r)
    <3>1. PathOf(r)' \in PathsOf(cmd[c]) /\ ~cmd[c].over
      BY <1>3, <2>2 DEF Repaths
    <3>2. SamePlace(cmd[c], k)
      BY <1>4, <1>5, <3>1 DEF SamePlace
    <3> QED
      BY <1>1, <1>4, <1>5, <3>1, <3>2 DEF CrossingsKnown, ClashIsOver
  <2> QED
    BY <2>1, <2>2
<1>6. ASSUME k.kind = "transfer", k.at \in {"record", "back"}, disk'[k.to] = r
      PROVE  FALSE
  <2>1. Under(d) /\ k.to \in PathsOf(k) /\ k.to \in Paths
    BY <1>6, TransferIs
  <2>2. CASE disk[k.to] = r
    <3>1. Exists(r)
      <4>1. repos[r].is # "none"
        BY <1>3, <2>1, <2>2 DEF Ground, FilesKnown
      <4>2. repos'[r].is = "here"
        BY <1>2 DEF Kept, Exists
      <4>3. CASE repos'[r] = repos[r]
        BY <4>2, <4>3 DEF Exists
      <4>4. CASE repos'[r] # repos[r]
        <5>1. SUFFICES ASSUME ~Exists(r) PROVE FALSE
          OBVIOUS
        <5>2. PathOf(r)' \in PathsOf(cmd[c]) /\ ~cmd[c].over
          BY <1>3, <5>1 DEF Repaths
        <5>3. r \in {cmd[c].id, cmd'[c].id}
          BY <4>4 DEF Work
        <5>4. r = cmd[c].id
          BY <1>3, <4>1, <5>3 DEF Work, NoCmd
        <5>5. r \in IdsOf(cmd[c]) /\ r \in IdsOf(k)
          BY <1>1, <2>1, <2>2, <5>4, IdsAre
        <5> QED
          BY <1>1, <1>3, <2>1, <5>5 DEF CrossingsKnown, SharedIsCrossed
      <4> QED
        BY <4>3, <4>4
    <3> QED
      BY <1>1, <1>2, <1>3, <1>6, <2>2, <3>1 DEF Others, Kept
  <2>3. CASE disk[k.to] # r
    <3>1. k.to \in PathsOf(cmd[c]) /\ r \in IdsOf(cmd[c])
      BY <1>3, <1>6, <2>1, <2>3 DEF Work
    <3>2. SamePlace(cmd[c], k)
      BY <2>1, <3>1 DEF SamePlace
    <3>3. cmd[c].over
      BY <1>1, <2>1, <3>2 DEF CrossingsKnown, ClashIsOver
    <3> QED
      BY <1>1, <1>3, <3>1, <3>3 DEF CrossingsKnown, OverIsCrossed
  <2> QED
    BY <2>2, <2>3
<1> QED
  BY <1>5, <1>6

LEMMA FilesStay ==
    ASSUME Ground, CrossingsKnown, PlacesKnown, Ground',
           NEW c \in Cmds, Work(c), NamesStep(c), Settles(c),
           NEW r \in DirIds, Kept(r)'
    PROVE  /\ \A d \in Cmds : cmd'[d].id = r => InHand(d, r)'
           /\ \A d \in Cmds : Renames(d, r)' => (disk[OldPath(d, r)])' = r
           /\ Free(r)' => (disk[PathOf(r)])' = r
<1>1. /\ Under(c) /\ DirectoryTypeOK /\ r \notin crossed /\ r \notin crossed'
      /\ r # Nil /\ repos'[r].is = "here"
      /\ \A d \in Cmds \ {c} : cmd'[d] = cmd[d]
  BY DirectoryAssumption DEF Work, Ground, Kept, Exists
<1>2. LeavesOwn(c, r) /\ Spares(c, r) /\ Repaths(c, r)
  BY DEF Settles
<1>3. Exists(r) \/ (repos[r].is = "none" /\ cmd'[c].id = r)
  BY <1>2 DEF Repaths
<1>4. ASSUME NEW d \in Cmds \ {c}, cmd[d].id = r PROVE InHand(d, r)'
  <2>1. cmd[d] # NoCmd /\ Shape(cmd[d]) /\ repos[r].is # "none"
    BY <1>1, <1>4 DEF NoCmd, Ground, IdKnown
  <2>2. Under(d)
    BY <2>1 DEF Shape, MadeShape, TransferShape, RenameShape, OrgRenameShape,
       DeleteShape, Under
  <2>3. Exists(r) /\ Kept(r) /\ r \in IdsOf(cmd[d])
    BY <1>1, <1>3, <1>4, <2>1, IdsAre DEF Kept
  <2>4. /\ repos'[r] = repos[r] /\ PathOf(r)' = PathOf(r)
        /\ \A p \in PathsOf(cmd[d]) : disk'[p] = disk[p]
    BY <2>2, <2>3, StrangerRests
  <2>5. InHand(d, r) /\ cmd'[d] = cmd[d]
    BY <1>1, <1>4, <2>3 DEF PlacesKnown, FilesAreWhere
  <2>6. ownerName'[repos'[r].owner] = ownerName[repos[r].owner]
    BY <2>4 DEF PathOf
  <2>7. CASE cmd[d].kind \in Made
    <3>1. MadeShape(cmd[d]) /\ cmd[d].to \in PathsOf(cmd[d])
      BY <2>1, <2>7, PathsAre DEF Shape, Made, MadeShape
    <3>2. disk'[cmd[d].to] = disk[cmd[d].to]
      BY <2>4, <3>1
    <3>3. cmd[d].kind \notin {"transfer", "rename", "delete"}
      BY <2>7 DEF Made
    <3> QED
      BY <2>4, <2>5, <3>2, <3>3 DEF InHand
  <2>8. CASE cmd[d].kind \in {"transfer", "rename", "delete"}
    <3>1. cmd[d].from \in PathsOf(cmd[d])
      BY <2>8, TransferIs, RenameIs, DeleteIs
    <3>2. disk'[cmd[d].from] = disk[cmd[d].from]
      BY <2>4, <3>1
    <3>3. cmd[d].kind = "transfer" => disk'[cmd[d].to] = disk[cmd[d].to]
      BY <2>4, TransferIs
    <3>4. cmd[d].at \notin {"init", "fetch"}
      BY <2>8, TransferIs, RenameIs, DeleteIs
      DEF TransferShape, RenameShape, DeleteShape
    <3> QED
      BY <2>4, <2>5, <2>6, <3>2, <3>3, <3>4 DEF InHand
  <2>9. cmd[d].kind # "orgrename"
    BY <1>1, <1>4, OrgRenameIs DEF OrgRenameShape
  <2> QED
    BY <2>1, <2>7, <2>8, <2>9 DEF Shape
<1>5. ASSUME NEW d \in Cmds \ {c}, Renames(d, r)' PROVE (disk[OldPath(d, r)])' = r
  <2>1. /\ cmd'[d] = cmd[d] /\ cmd[d].kind = "orgrename"
        /\ repos'[r].owner = cmd[d].owner
    BY <1>1, <1>5 DEF Renames
  <2>2. Under(d) /\ \A n \in Names : <<cmd[d].from[1], n>> \in PathsOf(cmd[d])
    BY <2>1, OrgRenameIs
  <2>3. r \in IdsOf(cmd[d])'
    BY <1>1, <2>1, IdsNext
  <2>4. r \in IdsOf(cmd[d])
    BY <1>1, <2>2, <2>3, NewInHands
  <2>5. Exists(r)
    <3>1. SUFFICES ASSUME repos[r].is = "none" PROVE FALSE
      BY <1>3
    <3>2. cmd[d].id # r /\ \A p \in PathsOf(cmd[d]) : disk[p] # r
      BY <1>1, <3>1 DEF Ground, IdKnown, FilesKnown, PathsOf
    <3> QED
      BY <1>1, <2>4, <3>1, <3>2, IdsAre DEF OwnedBy, Exists
  <2>6. /\ repos'[r] = repos[r]
        /\ \A p \in PathsOf(cmd[d]) : disk'[p] = disk[p]
    BY <1>1, <2>2, <2>4, <2>5, StrangerRests DEF Kept
  <2>7. repos[r].name \in Names /\ Renames(d, r)
    BY <2>1, <2>5, <2>6, RowType DEF Renames
  <2>8. disk[OldPath(d, r)] = r
    BY <1>1, <2>5, <2>7 DEF PlacesKnown, FilesAreWhere, Kept
  <2> QED
    BY <2>1, <2>2, <2>6, <2>7, <2>8 DEF OldPath
<1>6. ASSUME Free(r)' PROVE (disk[PathOf(r)])' = r
  <2>1. Kept(r)
    BY <1>1, <1>3, <1>6 DEF Kept, Free
  <2>2. CASE Free(r)
    BY <1>2, <2>1, <2>2 DEF Spares
  <2>3. CASE ~Free(r)
    <3>1. PICK d \in Cmds : cmd[d].id = r \/ Renames(d, r)
      BY <2>3 DEF Free
    <3>2. CASE d # c
      <4>1. cmd'[d] = cmd[d]
        BY <1>1, <3>2
      <4>2. Renames(d, r) /\ cmd[d].kind = "orgrename"
        BY <1>6, <3>1, <4>1 DEF Free, Renames
      <4>3. Under(d) /\ r \in IdsOf(cmd[d])
        BY <1>1, <2>1, <4>2, OrgRenameIs, IdsAre DEF Renames, OwnedBy, Kept
      <4>4. repos'[r] = repos[r]
        BY <2>1, <3>2, <4>3, StrangerRests
      <4> QED
        BY <1>6, <4>1, <4>2, <4>4 DEF Free, Renames
    <3>3. CASE d = c /\ cmd'[c] = NoCmd
      BY <1>2, <2>1, <3>1, <3>3 DEF LeavesOwn
    <3>4. CASE d = c /\ cmd'[c] # NoCmd
      <4>1. /\ cmd'[c].kind = cmd[c].kind /\ cmd'[c].owner = cmd[c].owner
            /\ cmd[c].id # Nil => cmd'[c].id = cmd[c].id
            /\ cmd[c].kind \notin Made => cmd'[c].id = cmd[c].id
        BY <3>4 DEF Work
      <4>2. CASE cmd[c].id = r
        BY <1>1, <1>6, <4>1, <4>2 DEF Free
      <4>3. CASE Renames(c, r)
        <5>1. cmd[c].id = Nil /\ cmd[c].kind \notin Made
          BY <4>3, OrgRenameIs DEF Renames, OrgRenameShape, Made
        <5>2. repos'[r] = repos[r]
          BY <1>1, <4>1, <5>1 DEF Work
        <5> QED
          BY <1>6, <4>1, <4>3, <5>2 DEF Free, Renames
      <4> QED
        BY <3>1, <3>4, <4>2, <4>3
    <3> QED
      BY <3>2, <3>3, <3>4
  <2> QED
    BY <2>2, <2>3
<1>7. \A d \in Cmds : cmd'[d].id = r => InHand(d, r)'
  <2> SUFFICES ASSUME NEW d \in Cmds, cmd'[d].id = r PROVE InHand(d, r)'
    OBVIOUS
  <2>1. CASE d = c
    BY <1>2, <2>1 DEF LeavesOwn
  <2>2. CASE d # c
    BY <1>1, <1>4, <2>2
  <2> QED
    BY <2>1, <2>2
<1>8. \A d \in Cmds : Renames(d, r)' => (disk[OldPath(d, r)])' = r
  <2> SUFFICES ASSUME NEW d \in Cmds, Renames(d, r)'
               PROVE  (disk[OldPath(d, r)])' = r
    OBVIOUS
  <2>1. CASE d = c
    BY <1>2, <2>1 DEF LeavesOwn
  <2>2. CASE d # c
    BY <1>5, <2>2
  <2> QED
    BY <2>1, <2>2
<1> QED
  BY <1>6, <1>7, <1>8

LEMMA PlacesStay ==
    ASSUME Ground, CrossingsKnown, PlacesKnown, Ground',
           NEW c \in Cmds, Work(c), NamesStep(c), Settles(c)
    PROVE  PlacesKnown'
<1>1. \A d \in Cmds : Aims(d)' /\ Others(d)'
  <2> TAKE d \in Cmds
  <2>1. CASE d = c
    BY <2>1 DEF Settles
  <2>2. CASE d # c
    BY <2>2, AimsGoOn, OthersGoOn DEF PlacesKnown
  <2> QED
    BY <2>1, <2>2
<1>2. \A r \in DirIds : Kept(r)' =>
           /\ \A d \in Cmds : cmd'[d].id = r => InHand(d, r)'
           /\ \A d \in Cmds : Renames(d, r)' => (disk[OldPath(d, r)])' = r
           /\ Free(r)' => (disk[PathOf(r)])' = r
  BY FilesStay
<1>3. FilesAreWhere'
  BY <1>2 DEF FilesAreWhere
<1> QED
  BY <1>1, <1>3 DEF PlacesKnown

\* What a command has in hand it crossed nobody over.
LEMMA OwnIs ==
    ASSUME Ground, CrossingsKnown, NEW c \in Cmds, Under(c), NEW r \in DirIds,
           Kept(r), r \in IdsOf(cmd[c])
    PROVE  ~cmd[c].over
BY DEF CrossingsKnown, OverIsCrossed, Kept

LEMMA HeldIs ==
    ASSUME Ground, CrossingsKnown, PlacesKnown, NEW c \in Cmds, Under(c),
           NEW r \in DirIds, Kept(r)
    PROVE  /\ cmd[c].id = r => InHand(c, r) /\ ~cmd[c].over /\ r \in IdsOf(cmd[c])
           /\ Renames(c, r) => /\ disk[OldPath(c, r)] = r /\ ~cmd[c].over
                               /\ cmd[c].id = Nil /\ r \in IdsOf(cmd[c])
                               /\ repos[r].owner = cmd[c].owner
<1>1. DirectoryTypeOK /\ r # Nil /\ Exists(r)
  BY DirectoryAssumption DEF Ground, Kept
<1>2. cmd[c].id = r => r \in IdsOf(cmd[c])
  BY <1>1, IdsAre
<1>3. Renames(c, r) => r \in IdsOf(cmd[c])
  BY <1>1, IdsAre DEF Renames, OwnedBy
<1>4. Renames(c, r) => cmd[c].id = Nil /\ repos[r].owner = cmd[c].owner
  BY OrgRenameIs DEF Renames, OrgRenameShape
<1> QED
  BY <1>2, <1>3, <1>4, OwnIs DEF PlacesKnown, FilesAreWhere

\* Before it has moved anything, what a command is about is where its row says.
Resting(k) ==
    \/ k.kind \in Made /\ k.at \in {"mutex", "insert", "fetch"}
    \/ k.kind = "transfer" /\ k.at \in {"mutex", "check", "move"}
    \/ k.kind \in {"rename", "orgrename"} /\ k.at \in {"check", "record"}
    \/ k.kind = "delete"

LEMMA RestsHere ==
    ASSUME Ground, CrossingsKnown, PlacesKnown, NEW c \in Cmds, Under(c),
           Resting(cmd[c]), NEW r \in DirIds, Kept(r),
           cmd[c].id = r \/ Renames(c, r)
    PROVE  disk[PathOf(r)] = r
<1>1. Exists(r) /\ r # Nil /\ Shape(cmd[c]) /\ Aims(c)
  BY DirectoryAssumption DEF Kept, Ground, PlacesKnown
<1>2. CASE cmd[c].id = r
  <2>1. InHand(c, r)
    BY <1>2, HeldIs
  <2>2. CASE cmd[c].kind \in Made
    <3>1. cmd[c].at = "fetch"
      <4>1. MadeShape(cmd[c])
        BY <1>1, <1>2, <2>2, CmdTypes DEF Shape, Made
      <4> QED
        BY <1>1, <1>2, <2>2, <4>1 DEF Resting, MadeShape, Made
    <3> QED
      BY <2>1, <3>1 DEF InHand
  <2>3. CASE cmd[c].kind = "transfer"
    BY <2>1, <2>3 DEF InHand, Resting, Made
  <2>4. CASE cmd[c].kind = "rename"
    <3>1. /\ disk[cmd[c].from] = r /\ ownerName[repos[r].owner] = cmd[c].from[1]
          /\ repos[r].name = cmd[c].from[2]
      BY <2>1, <2>4 DEF InHand, Resting, Made
    <3>2. cmd[c].from \in Paths
      BY <2>4, RenameIs
    <3>3. cmd[c].from = PathOf(r)
      BY <3>1, <3>2 DEF PathOf, Paths
    <3> QED
      BY <3>1, <3>3
  <2>5. CASE cmd[c].kind = "delete"
    BY <2>1, <2>5 DEF InHand
  <2>6. cmd[c].kind # "orgrename"
    BY <1>1, <1>2, OrgRenameIs DEF OrgRenameShape
  <2> QED
    BY <2>2, <2>3, <2>4, <2>5, <2>6 DEF Resting
<1>3. CASE Renames(c, r)
  <2>1. /\ disk[OldPath(c, r)] = r /\ ~cmd[c].over /\ repos[r].owner = cmd[c].owner
        /\ cmd[c].kind = "orgrename"
    BY <1>3, HeldIs DEF Renames
  <2>2. cmd[c].at \in {"check", "record"}
    BY <2>1 DEF Resting, Made
  <2>3. ownerName[cmd[c].owner] = cmd[c].from[1]
    BY <1>1, <2>1, <2>2 DEF Aims
  <2> QED
    BY <2>1, <2>3 DEF OldPath, PathOf
<1> QED
  BY <1>2, <1>3

\* Steps that leave rows, names and files alone.
Quiet == UNCHANGED <<repos, ownerName, disk>>

LEMMA QuietSpares ==
    ASSUME Ground, PlacesKnown, NEW c \in Cmds, Quiet, crossed \subseteq crossed',
           NEW r \in DirIds, Kept(r)'
    PROVE  /\ Kept(r) /\ PathOf(r)' = PathOf(r)
           /\ Spares(c, r) /\ Repaths(c, r)
<1>1. Kept(r) /\ Exists(r) /\ PathOf(r)' = PathOf(r)
  BY DEF Kept, Quiet, Exists, PathOf
<1>2. Free(r) => disk[PathOf(r)] = r
  BY <1>1 DEF PlacesKnown, FilesAreWhere
<1>3. (disk[PathOf(r)])' = disk[PathOf(r)]
  BY <1>1 DEF Quiet
<1> QED
  BY <1>1, <1>2, <1>3 DEF Spares, Repaths

\* A command that has ended aims at nothing.
LEMMA EndedIs ==
    ASSUME NEW c \in Cmds, cmd'[c] = NoCmd
    PROVE  /\ Aims(c)' /\ Others(c)'
           /\ \A r \in DirIds : cmd'[c].id # r /\ ~Renames(c, r)'
<1>1. /\ NoCmd.kind = Nil /\ NoCmd.id = Nil /\ NoCmd.over = FALSE
  BY DEF NoCmd
<1>2. Nil \notin Kinds /\ Nil \notin DirIds
  BY DirectoryAssumption
<1>3. /\ cmd'[c].kind \notin Made \cup {"transfer"}
      /\ cmd'[c].kind \notin {"transfer", "rename", "delete", "orgrename"}
  BY <1>1, <1>2 DEF Kinds, Made
<1>4. Aims(c)'
  BY <1>3 DEF Aims
<1>5. Others(c)'
  BY <1>3 DEF Others
<1> QED
  BY <1>1, <1>2, <1>3, <1>4, <1>5 DEF Renames

LEMMA QuietEndSettles ==
    ASSUME Ground, PlacesKnown, NEW c \in Cmds, Work(c), Quiet, cmd'[c] = NoCmd,
           \A r \in DirIds : Kept(r)' /\ Kept(r) /\ (cmd[c].id = r \/ Renames(c, r))
             => disk[PathOf(r)] = r
    PROVE  Settles(c)
<1>1. crossed \subseteq crossed'
  BY DEF Work
<1>2. ASSUME NEW r \in DirIds, Kept(r)'
      PROVE  LeavesOwn(c, r) /\ Spares(c, r) /\ Repaths(c, r)
  <2>1. Kept(r) /\ PathOf(r)' = PathOf(r) /\ Spares(c, r) /\ Repaths(c, r)
    BY <1>1, <1>2, QuietSpares
  <2>2. (disk[PathOf(r)])' = disk[PathOf(r)]
    BY <2>1 DEF Quiet
  <2>3. LeavesOwn(c, r)
    BY <1>2, <2>1, <2>2, EndedIs DEF LeavesOwn
  <2> QED
    BY <2>1, <2>3
<1> QED
  BY <1>2, EndedIs DEF Settles

LEMMA RestingEndSettles ==
    ASSUME Ground, CrossingsKnown, PlacesKnown, NEW c \in Cmds, Work(c), Quiet,
           cmd'[c] = NoCmd, Resting(cmd[c])
    PROVE  Settles(c)
BY QuietEndSettles, RestsHere DEF Work

SameStage(k, m) ==
    /\ m.at \notin {"init", "fetch"}
    /\ k.kind = "transfer" =>
         (m.at \in {"record", "back"} <=> k.at \in {"record", "back"})
    /\ k.kind \in {"rename", "orgrename"} =>
         (m.at \in {"move", "revert"} <=> k.at \in {"move", "revert"})

LEMMA QuietMoveSettles ==
    ASSUME Ground, CrossingsKnown, PlacesKnown, Ground', NEW c \in Cmds, Work(c),
           Quiet, Same(cmd'[c], cmd[c]), cmd'[c] # NoCmd, SameStage(cmd[c], cmd'[c])
    PROVE  Settles(c)
<1> DEFINE k == cmd[c]
           m == cmd'[c]
<1>1. /\ Under(c) /\ Shape(k) /\ crossed \subseteq crossed' /\ Aims(c) /\ Others(c)
      /\ DirectoryTypeOK
  BY DEF Work, Ground, PlacesKnown
<1>2. Shape(m)
  <2>1. Shape(cmd[c])'
    BY DEF Ground
  <2> QED
    BY <2>1 DEF Shape, MadeShape, TransferShape, RenameShape, OrgRenameShape,
       DeleteShape
<1>3. /\ m.kind = k.kind /\ m.id = k.id /\ m.owner = k.owner
      /\ m.from = k.from /\ m.to = k.to /\ m.over = k.over
  BY DEF Same
<1>4. m.kind = "orgrename" =>
        /\ m.at \in {"check", "record"} <=> k.at \in {"check", "record"}
        /\ m.at \in {"move", "revert"} <=> k.at \in {"move", "revert"}
  <2>1. ASSUME m.kind = "orgrename"
        PROVE  OrgRenameShape(m) /\ OrgRenameShape(k)
    BY <1>1, <1>2, <1>3, <2>1, OrgRenameIs DEF Shape, Made
  <2> QED
    BY <1>3, <2>1 DEF OrgRenameShape, SameStage
<1>5. m.kind = "rename" =>
        /\ m.at \in {"check", "record"} <=> k.at \in {"check", "record"}
        /\ m.at \in {"move", "revert"} <=> k.at \in {"move", "revert"}
  <2>1. ASSUME m.kind = "rename"
        PROVE  RenameShape(m) /\ RenameShape(k)
    BY <1>1, <1>2, <1>3, <2>1, RenameIs DEF Shape, Made
  <2> QED
    BY <1>3, <2>1 DEF RenameShape, SameStage
<1>6. m.kind = "transfer" =>
        /\ m.at \in {"mutex", "check", "move"} <=> k.at \in {"mutex", "check", "move"}
        /\ m.at \in {"record", "back"} <=> k.at \in {"record", "back"}
  <2>1. ASSUME m.kind = "transfer"
        PROVE  TransferShape(m) /\ TransferShape(k)
    BY <1>1, <1>2, <1>3, <2>1, TransferIs DEF Shape, Made
  <2> QED
    BY <1>3, <2>1 DEF TransferShape, SameStage
<1>7. Aims(c)'
  BY <1>1, <1>3, <1>4 DEF Aims, Quiet
<1>8. Others(c)'
  BY <1>1, <1>3, <1>6, QuietSpares DEF Others, Quiet
<1>9. ASSUME NEW r \in DirIds, Kept(r)'
      PROVE  LeavesOwn(c, r) /\ Spares(c, r) /\ Repaths(c, r)
  <2>1. Kept(r) /\ PathOf(r)' = PathOf(r) /\ Spares(c, r) /\ Repaths(c, r)
    BY <1>1, <1>9, QuietSpares
  <2>2. ASSUME m.id = r PROVE InHand(c, r)'
    <3>1. InHand(c, r)
      BY <1>1, <1>3, <2>1, <2>2, HeldIs
    <3>2. m.at \notin {"init", "fetch"}
      BY DEF SameStage
    <3> QED
      BY <1>3, <1>5, <1>6, <2>1, <3>1, <3>2 DEF InHand, Quiet
  <2>3. ASSUME Renames(c, r)' PROVE (disk[OldPath(c, r)])' = r
    <3>1. Renames(c, r)
      BY <1>3, <2>3 DEF Renames, Quiet
    <3>2. disk[OldPath(c, r)] = r
      BY <1>1, <2>1, <3>1, HeldIs
    <3> QED
      BY <1>3, <3>2 DEF OldPath, Quiet
  <2> QED
    BY <2>1, <2>2, <2>3 DEF LeavesOwn
<1> QED
  BY <1>7, <1>8, <1>9 DEF Settles

\* How a step ends or moves on.
LEMMA EndedTo ==
    ASSUME Ground, NEW c \in Cmds, CmdEnds(c)
    PROVE  cmd'[c] = NoCmd
BY EndIs DEF Ground

LEMMA MovedTo ==
    ASSUME Ground, NEW c \in Cmds, NEW at \in Ats, at # "idle",
           \/ Step(c, at)
           \/ cmd' = [cmd EXCEPT ![c].lock = TRUE, ![c].at = at]
    PROVE  Same(cmd'[c], cmd[c]) /\ cmd'[c].at = at /\ cmd'[c] # NoCmd
<1>1. DirectoryTypeOK
  BY DEF Ground
<1>2. Same(cmd'[c], cmd[c]) /\ cmd'[c].at = at
  BY <1>1, StepIs, LockIs
<1> QED
  BY <1>2 DEF NoCmd

LEMMA TakeMutexSettles ==
    ASSUME Ground, CrossingsKnown, PlacesKnown, Ground', NEW c \in Cmds, Work(c),
           TakeMutex(c)
    PROVE  Settles(c)
<1>1. PICK at \in {"check", "insert"} :
        at = IF cmd[c].kind = "transfer" THEN "check" ELSE "insert"
  OBVIOUS
<1>2. Step(c, at) /\ at \in Ats /\ at # "idle" /\ cmd[c].at = "mutex" /\ Quiet
  BY <1>1 DEF TakeMutex, Ats, Quiet
<1>3. Same(cmd'[c], cmd[c]) /\ cmd'[c].at = at /\ cmd'[c] # NoCmd
  BY <1>2, MovedTo
<1>4. cmd[c].kind \notin {"rename", "orgrename"}
  BY <1>2, RenameIs, OrgRenameIs DEF RenameShape, OrgRenameShape
<1>5. SameStage(cmd[c], cmd'[c])
  BY <1>1, <1>2, <1>3, <1>4 DEF SameStage
<1> QED
  BY <1>2, <1>3, <1>5, QuietMoveSettles

LEMMA FetchRefsSettles ==
    ASSUME Ground, CrossingsKnown, PlacesKnown, Ground', NEW c \in Cmds, Work(c),
           FetchRefs(c)
    PROVE  Settles(c)
<1>1. cmd[c].at = "fetch" /\ Quiet /\ Shape(cmd[c])
  BY DEF FetchRefs, Quiet, Ground
<1>2. cmd[c].kind \in Made
  BY <1>1 DEF Shape, NoCmd, TransferShape, RenameShape, OrgRenameShape, DeleteShape
<1>3. CASE CmdEnds(c)
  BY <1>1, <1>2, <1>3, EndedTo, RestingEndSettles DEF Resting, Work
<1>4. CASE Step(c, "unmake")
  <2>1. Same(cmd'[c], cmd[c]) /\ cmd'[c].at = "unmake" /\ cmd'[c] # NoCmd
    BY <1>4, MovedTo DEF Ats
  <2>2. SameStage(cmd[c], cmd'[c])
    BY <1>2, <2>1 DEF SameStage, Made
  <2> QED
    BY <1>1, <2>1, <2>2, QuietMoveSettles
<1> QED
  BY <1>3, <1>4 DEF FetchRefs

LEMMA CheckMoveSettles ==
    ASSUME Ground, CrossingsKnown, PlacesKnown, Ground', NEW c \in Cmds, Work(c),
           CheckMove(c)
    PROVE  Settles(c)
<1>1. cmd[c].at = "check" /\ Quiet /\ cmd[c].kind \in {"transfer", "rename"}
  BY DEF CheckMove, Quiet
<1>2. CASE CmdEnds(c)
  BY <1>1, <1>2, EndedTo, RestingEndSettles DEF Resting, Work
<1>3. CASE ~CmdEnds(c)
  <2>1. PICK at \in {"move", "record"} :
          /\ cmd' = [cmd EXCEPT ![c].lock = TRUE, ![c].at = at]
          /\ cmd[c].kind = "rename" => at = "record"
          /\ cmd[c].kind = "transfer" => at = "move"
    BY <1>1, <1>3 DEF CheckMove
  <2>2. Same(cmd'[c], cmd[c]) /\ cmd'[c].at = at /\ cmd'[c] # NoCmd
    BY <2>1, MovedTo DEF Ats
  <2>3. SameStage(cmd[c], cmd'[c])
    BY <1>1, <2>1, <2>2 DEF SameStage
  <2> QED
    BY <1>1, <2>2, <2>3, QuietMoveSettles
<1> QED
  BY <1>2, <1>3

LEMMA CheckOrgRenameSettles ==
    ASSUME Ground, CrossingsKnown, PlacesKnown, Ground', NEW c \in Cmds, Work(c),
           CheckOrgRename(c)
    PROVE  Settles(c)
<1>1. cmd[c].at = "check" /\ Quiet /\ cmd[c].kind = "orgrename"
  BY DEF CheckOrgRename, Quiet
<1>2. CASE CmdEnds(c)
  BY <1>1, <1>2, EndedTo, RestingEndSettles DEF Resting, Work
<1>3. CASE cmd' = [cmd EXCEPT ![c].lock = TRUE, ![c].at = "record"]
  <2>1. Same(cmd'[c], cmd[c]) /\ cmd'[c].at = "record" /\ cmd'[c] # NoCmd
    BY <1>3, MovedTo DEF Ats
  <2>2. SameStage(cmd[c], cmd'[c])
    BY <1>1, <2>1 DEF SameStage
  <2> QED
    BY <1>1, <2>1, <2>2, QuietMoveSettles
<1> QED
  BY <1>2, <1>3 DEF CheckOrgRename

LEMMA CheckDeleteSettles ==
    ASSUME Ground, CrossingsKnown, PlacesKnown, Ground', NEW c \in Cmds, Work(c),
           CheckDelete(c)
    PROVE  Settles(c)
<1>1. cmd[c].at = "check" /\ Quiet /\ cmd[c].kind = "delete"
  BY DEF CheckDelete, Quiet
<1>2. CASE CmdEnds(c)
  BY <1>1, <1>2, EndedTo, RestingEndSettles DEF Resting, Work
<1>3. CASE cmd' = [cmd EXCEPT ![c].lock = TRUE, ![c].at = "record"]
  <2>1. Same(cmd'[c], cmd[c]) /\ cmd'[c].at = "record" /\ cmd'[c] # NoCmd
    BY <1>3, MovedTo DEF Ats
  <2>2. SameStage(cmd[c], cmd'[c])
    BY <1>1, <2>1 DEF SameStage
  <2> QED
    BY <1>1, <2>1, <2>2, QuietMoveSettles
<1> QED
  BY <1>2, <1>3 DEF CheckDelete

\* Steps that leave rows and names alone.
LEMMA RowsQuiet ==
    ASSUME NEW c \in Cmds, UNCHANGED <<repos, ownerName>>,
           crossed \subseteq crossed', NEW r \in DirIds, Kept(r)'
    PROVE  /\ Kept(r) /\ Exists(r) /\ PathOf(r)' = PathOf(r) /\ Repaths(c, r)
           /\ (disk[PathOf(r)])' = disk'[PathOf(r)]
<1>1. Kept(r) /\ Exists(r) /\ PathOf(r)' = PathOf(r)
  BY DEF Kept, Exists, PathOf
<1> QED
  BY <1>1 DEF Repaths

LEMMA CountQuotaSettles ==
    ASSUME Ground, CrossingsKnown, PlacesKnown, Ground', NEW c \in Cmds, Work(c),
           CountQuota(c)
    PROVE  Settles(c)
<1>1. cmd[c].at = "insert" /\ Quiet /\ Shape(cmd[c]) /\ cmd \in [Cmds -> Cmd]
  BY DEF CountQuota, Quiet, Ground, DirectoryTypeOK
<1>2. cmd[c].kind \in Made /\ cmd[c].id = Nil
  BY <1>1 DEF Shape, NoCmd, MadeShape, TransferShape, RenameShape, OrgRenameShape,
     DeleteShape
<1>3. CASE CmdEnds(c)
  BY <1>1, <1>2, <1>3, EndedTo, RestingEndSettles DEF Resting, Work
<1>4. CASE cmd' = [cmd EXCEPT ![c].from = cmd[c].to]
  <2>1. /\ cmd'[c].kind = cmd[c].kind /\ cmd'[c].id = Nil
        /\ cmd'[c].to = cmd[c].to /\ cmd'[c].owner = cmd[c].owner
        /\ cmd'[c].over = cmd[c].over
    BY <1>1, <1>2, <1>4 DEF Cmd
  <2>2. /\ cmd'[c].kind \in Made
        /\ cmd'[c].kind \notin {"transfer", "rename", "delete", "orgrename"}
        /\ cmd'[c].id \notin DirIds
    BY <1>2, <2>1, DirectoryAssumption DEF Made
  <2>3. Aims(c)
    BY DEF PlacesKnown
  <2>4. Aims(c)'
    BY <1>1, <2>1, <2>2, <2>3 DEF Aims, Quiet
  <2>5. Others(c)'
    BY <2>2 DEF Others
  <2>6. cmd'[c] # NoCmd
    BY <2>2, DirectoryAssumption DEF NoCmd, Made, Kinds
  <2>7. ASSUME NEW r \in DirIds, Kept(r)'
        PROVE  LeavesOwn(c, r) /\ Spares(c, r) /\ Repaths(c, r)
    <3>1. Spares(c, r) /\ Repaths(c, r)
      BY <1>1, <2>7, QuietSpares DEF Work
    <3>2. LeavesOwn(c, r)
      BY <2>2, <2>6 DEF LeavesOwn, Renames
    <3> QED
      BY <3>1, <3>2
  <2> QED
    BY <2>4, <2>5, <2>7 DEF Settles
<1> QED
  BY <1>3, <1>4 DEF CountQuota

LEMMA CreateRowSettles ==
    ASSUME Ground, CrossingsKnown, PlacesKnown, Ground', NEW c \in Cmds, Work(c),
           CreateRow(c)
    PROVE  Settles(c)
<1>1. /\ cmd[c].at = "insert" /\ Shape(cmd[c]) /\ cmd \in [Cmds -> Cmd]
      /\ repos \in [DirIds -> Repo] /\ UNCHANGED <<ownerName, disk>>
      /\ Aims(c)
  BY DEF CreateRow, Ground, DirectoryTypeOK, PlacesKnown
<1>2. cmd[c].kind \in Made /\ cmd[c].id = Nil /\ MadeShape(cmd[c])
  BY <1>1 DEF Shape, NoCmd, MadeShape, TransferShape, RenameShape, OrgRenameShape,
     DeleteShape
<1>3. CASE CmdEnds(c) /\ UNCHANGED repos
  BY <1>1, <1>2, <1>3, EndedTo, RestingEndSettles DEF Resting, Work, Quiet
<1>4. CASE Named(cmd[c].owner, cmd[c].to[2]) = {}
  <2>1. PICK n \in DirIds :
          /\ repos[n].is = "none"
          /\ repos' = [repos EXCEPT ![n] = [is |-> "here", owner |-> cmd[c].owner,
                                            name |-> cmd[c].to[2]]]
          /\ cmd' = [cmd EXCEPT ![c].at = "init", ![c].id = n]
          /\ crossed' = IF cmd[c].over THEN crossed \cup {n} ELSE crossed
    BY <1>4 DEF CreateRow
  <2>2. /\ cmd'[c].kind = cmd[c].kind /\ cmd'[c].id = n /\ cmd'[c].at = "init"
        /\ cmd'[c].to = cmd[c].to /\ cmd'[c].owner = cmd[c].owner
        /\ cmd'[c].over = cmd[c].over
    BY <1>1, <2>1 DEF Cmd
  <2>3. /\ repos'[n].owner = cmd[c].owner /\ repos'[n].name = cmd[c].to[2]
        /\ \A r \in DirIds \ {n} : repos'[r] = repos[r]
    BY <1>1, <2>1
  <2>4. /\ cmd'[c].kind \in Made
        /\ cmd'[c].kind \notin {"transfer", "rename", "delete", "orgrename"}
    BY <1>2, <2>2, DirectoryAssumption DEF Made
  <2>5. Aims(c)'
    BY <1>1, <2>2, <2>4 DEF Aims
  <2>6. Others(c)'
    BY <2>4 DEF Others
  <2>7. cmd'[c] # NoCmd
    BY <2>2 DEF NoCmd
  <2>8. ASSUME Kept(n)' PROVE LeavesOwn(c, n) /\ Spares(c, n) /\ Repaths(c, n)
    <3>1. ~cmd[c].over
      BY <2>1, <2>8 DEF Kept
    <3>2. cmd[c].to[1] = ownerName[cmd[c].owner] /\ cmd[c].to \in Paths
      BY <1>1, <1>2, <3>1 DEF Aims, MadeShape
    <3>3. PathOf(n)' = cmd[c].to
      <4>1. PathOf(n)' = <<ownerName[cmd[c].owner], cmd[c].to[2]>>
        BY <1>1, <2>3 DEF PathOf
      <4> QED
        BY <3>2, <4>1 DEF Paths
    <3>4. cmd[c].to \in PathsOf(cmd[c])
      BY <1>1, <3>2, PathsAre
    <3>5. InHand(c, n)'
      BY <2>2, <2>4, <3>3 DEF InHand
    <3>6. ~Exists(n)
      BY <2>1 DEF Exists
    <3>7. LeavesOwn(c, n) /\ Spares(c, n)
      BY <2>4, <2>7, <3>5, <3>6 DEF LeavesOwn, Spares, Renames, Kept
    <3> QED
      BY <2>1, <2>2, <3>1, <3>3, <3>4, <3>7 DEF Repaths
  <2>9. ASSUME NEW r \in DirIds, r # n, Kept(r)'
        PROVE  LeavesOwn(c, r) /\ Spares(c, r) /\ Repaths(c, r)
    <3>1. Kept(r) /\ Exists(r) /\ PathOf(r)' = PathOf(r)
      BY <1>1, <2>3, <2>9 DEF Kept, Exists, PathOf, Work
    <3>2. (disk[PathOf(r)])' = disk[PathOf(r)]
      BY <1>1, <3>1
    <3>3. Free(r) => disk[PathOf(r)] = r
      BY <3>1 DEF PlacesKnown, FilesAreWhere
    <3>4. LeavesOwn(c, r)
      BY <2>2, <2>4, <2>7, <2>9 DEF LeavesOwn, Renames
    <3> QED
      BY <3>1, <3>2, <3>3, <3>4 DEF Spares, Repaths
  <2> QED
    BY <2>5, <2>6, <2>8, <2>9 DEF Settles
<1> QED
  BY <1>3, <1>4 DEF CreateRow

LEMMA InitBareSettles ==
    ASSUME Ground, CrossingsKnown, PlacesKnown, Ground', NEW c \in Cmds, Work(c),
           InitBare(c)
    PROVE  Settles(c)
<1>1. /\ cmd[c].at = "init" /\ Shape(cmd[c]) /\ UNCHANGED <<repos, ownerName>>
      /\ Aims(c) /\ Under(c) /\ crossed \subseteq crossed' /\ DirectoryTypeOK
  BY DEF InitBare, Ground, PlacesKnown, Work
<1>2. cmd[c].kind \in Made /\ MadeShape(cmd[c])
  BY <1>1 DEF Shape, NoCmd, MadeShape, TransferShape, RenameShape, OrgRenameShape,
     DeleteShape
<1>3. CASE Step(c, "unmake") /\ UNCHANGED disk
  <2>1. Same(cmd'[c], cmd[c]) /\ cmd'[c].at = "unmake" /\ cmd'[c] # NoCmd
    BY <1>3, MovedTo DEF Ats
  <2>2. SameStage(cmd[c], cmd'[c])
    BY <1>2, <2>1 DEF SameStage, Made
  <2> QED
    BY <1>1, <1>3, <2>1, <2>2, QuietMoveSettles DEF Quiet
<1>4. CASE ~(Step(c, "unmake") /\ UNCHANGED disk)
  <2>1. /\ disk' = IF disk[cmd[c].to] = Nil
                   THEN [disk EXCEPT ![cmd[c].to] = cmd[c].id] ELSE disk
        /\ crossed' = IF disk[cmd[c].to] = Nil THEN crossed
                      ELSE crossed \cup {cmd[c].id, disk[cmd[c].to]}
        /\ Step(c, "fetch") \/ CmdEnds(c)
    BY <1>4 DEF InitBare
  <2>2. cmd[c].to \in Paths /\ disk \in [Paths -> DirIds \cup {Nil}]
    BY <1>1, <1>2 DEF MadeShape, DirectoryTypeOK
  <2>3. /\ \A p \in Paths : disk[p] # Nil => disk'[p] = disk[p]
        /\ disk[cmd[c].to] = Nil => disk'[cmd[c].to] = cmd[c].id
        /\ disk[cmd[c].to] # Nil => cmd[c].id \in crossed'
    BY <2>1, <2>2
  <2>4. \/ cmd'[c] = NoCmd
        \/ Same(cmd'[c], cmd[c]) /\ cmd'[c].at = "fetch" /\ cmd'[c] # NoCmd
    BY <2>1, EndedTo, MovedTo DEF Ats
  <2>5. cmd[c].kind \notin {"transfer", "rename", "delete", "orgrename"}
    BY <1>2 DEF Made
  <2>6. Aims(c)' /\ Others(c)'
    <3>1. CASE cmd'[c] = NoCmd
      BY <3>1, EndedIs
    <3>2. CASE Same(cmd'[c], cmd[c])
      BY <1>1, <2>5, <3>2 DEF Aims, Others, Same
    <3> QED
      BY <2>4, <3>1, <3>2
  <2>7. ASSUME NEW r \in DirIds, Kept(r)'
        PROVE  LeavesOwn(c, r) /\ Spares(c, r) /\ Repaths(c, r)
    <3>1. /\ Kept(r) /\ Exists(r) /\ PathOf(r)' = PathOf(r) /\ Repaths(c, r)
          /\ (disk[PathOf(r)])' = disk'[PathOf(r)] /\ PathOf(r) \in Paths
      BY <1>1, <2>7, RowsQuiet, RowType
    <3>2. Free(r) => disk[PathOf(r)] = r
      BY <3>1 DEF PlacesKnown, FilesAreWhere
    <3>3. Spares(c, r)
      BY <2>3, <3>1, <3>2, DirectoryAssumption DEF Spares
    <3>4. ASSUME cmd[c].id = r PROVE PathOf(r) = cmd[c].to /\ disk'[cmd[c].to] = r
      <4>1. InHand(c, r)
        BY <1>1, <3>1, <3>4, HeldIs
      <4> QED
        BY <1>1, <2>3, <2>7, <3>4, <4>1 DEF InHand, Kept
    <3>5. ~Renames(c, r) /\ ~Renames(c, r)'
      BY <2>4, <2>5, EndedIs DEF Renames, Same
    <3>6. ASSUME cmd'[c].id = r PROVE InHand(c, r)'
      <4>1. Same(cmd'[c], cmd[c]) /\ cmd'[c].at = "fetch"
        BY <2>4, <2>7, <3>6, EndedIs
      <4> QED
        BY <2>5, <3>1, <3>4, <3>6, <4>1 DEF InHand, Same
    <3>7. LeavesOwn(c, r)
      BY <3>1, <3>4, <3>5, <3>6 DEF LeavesOwn
    <3> QED
      BY <3>1, <3>3, <3>7
  <2> QED
    BY <2>6, <2>7 DEF Settles
<1> QED
  BY <1>3, <1>4

\* A step that ends, and leaves the files of others alone.
LEMMA EndSettles ==
    ASSUME NEW c \in Cmds, cmd'[c] = NoCmd,
           \A r \in DirIds : Kept(r)' =>
             /\ Kept(r) /\ (cmd[c].id = r \/ Renames(c, r)) => (disk[PathOf(r)])' = r
             /\ Spares(c, r) /\ Repaths(c, r)
    PROVE  Settles(c)
<1>1. \A r \in DirIds : Kept(r)' => LeavesOwn(c, r)
  BY EndedIs DEF LeavesOwn
<1> QED
  BY <1>1, EndedIs DEF Settles

\* A step that writes no row but its own.
LEMMA OwnRow ==
    ASSUME PlacesKnown, NEW c \in Cmds, UNCHANGED <<ownerName, disk>>,
           crossed \subseteq crossed', NEW r \in DirIds, repos'[r] = repos[r], Kept(r)'
    PROVE  Kept(r) /\ PathOf(r)' = PathOf(r) /\ Spares(c, r) /\ Repaths(c, r)
<1>1. Kept(r) /\ Exists(r) /\ PathOf(r)' = PathOf(r)
  BY DEF Kept, Exists, PathOf
<1>2. Free(r) => disk[PathOf(r)] = r
  BY <1>1 DEF PlacesKnown, FilesAreWhere
<1>3. (disk[PathOf(r)])' = disk[PathOf(r)]
  BY <1>1
<1> QED
  BY <1>1, <1>2, <1>3 DEF Spares, Repaths

LEMMA UnmakeSettles ==
    ASSUME Ground, CrossingsKnown, PlacesKnown, Ground', NEW c \in Cmds, Work(c),
           Unmake(c)
    PROVE  Settles(c)
<1>1. /\ cmd[c].at = "unmake" /\ Shape(cmd[c]) /\ UNCHANGED <<ownerName, disk>>
      /\ repos' = [repos EXCEPT ![cmd[c].id] = [NoRepo EXCEPT !.is = "gone"]]
      /\ repos \in [DirIds -> Repo] /\ crossed \subseteq crossed' /\ Aims(c)
      /\ cmd[c].id \in DirIds \cup {Nil}
  BY DEF Unmake, Ground, DirectoryTypeOK, PlacesKnown, Work, Cmd
<1>2. /\ cmd[c].kind \in Made
      /\ cmd[c].kind \notin {"transfer", "rename", "delete", "orgrename"}
  BY <1>1 DEF Shape, NoCmd, TransferShape, RenameShape, OrgRenameShape, DeleteShape,
     Made
<1>3. \A r \in DirIds : Kept(r)' => r # cmd[c].id /\ repos'[r] = repos[r]
  BY <1>1 DEF Kept, Exists, NoRepo
<1>4. \A r \in DirIds : Kept(r)' => Kept(r) /\ Spares(c, r) /\ Repaths(c, r)
  BY <1>1, <1>3, OwnRow
<1>5. CASE CmdEnds(c)
  BY <1>2, <1>3, <1>4, <1>5, EndedTo, EndSettles DEF Renames
<1>6. CASE Step(c, "clean")
  <2>1. Same(cmd'[c], cmd[c]) /\ cmd'[c].at = "clean" /\ cmd'[c] # NoCmd
    BY <1>6, MovedTo DEF Ats
  <2>2. Aims(c)' /\ Others(c)'
    BY <1>1, <1>2, <2>1 DEF Aims, Others, Same
  <2>3. \A r \in DirIds : Kept(r)' => LeavesOwn(c, r)
    BY <1>2, <1>3, <2>1 DEF LeavesOwn, Renames, Same
  <2> QED
    BY <1>4, <2>2, <2>3 DEF Settles
<1> QED
  BY <1>5, <1>6 DEF Unmake

\* What RemoveDir drops of another is crossed.
LEMMA DropSettles ==
    ASSUME Ground, CrossingsKnown, PlacesKnown, NEW c \in Cmds, Work(c),
           NEW p \in Paths, RemoveDir(c, p), cmd'[c] = NoCmd,
           UNCHANGED <<repos, ownerName>>, cmd[c].kind # "orgrename",
           cmd[c].id \in DirIds, repos[cmd[c].id].is = "gone"
    PROVE  Settles(c)
<1>1. disk \in [Paths -> DirIds \cup {Nil}] /\ crossed \subseteq crossed'
  BY DEF Ground, DirectoryTypeOK, Work
<1>2. /\ \A q \in Paths \ {p} : disk'[q] = disk[q]
      /\ disk[p] \in crossed' \cup {Nil, cmd[c].id}
  BY <1>1 DEF RemoveDir
<1>3. ASSUME NEW r \in DirIds, Kept(r)'
      PROVE  /\ r # cmd[c].id /\ ~Renames(c, r)
             /\ Spares(c, r) /\ Repaths(c, r)
  <2>1. /\ Kept(r) /\ Exists(r) /\ PathOf(r)' = PathOf(r) /\ Repaths(c, r)
        /\ (disk[PathOf(r)])' = disk'[PathOf(r)] /\ PathOf(r) \in Paths
    BY <1>1, <1>3, RowsQuiet, RowType
  <2>2. r # cmd[c].id /\ ~Renames(c, r) /\ r # Nil /\ r \notin crossed'
    BY <1>3, <2>1, DirectoryAssumption DEF Exists, Renames, Kept
  <2>3. Free(r) => disk[PathOf(r)] = r
    BY <2>1 DEF PlacesKnown, FilesAreWhere
  <2>4. Spares(c, r)
    BY <1>2, <2>1, <2>2, <2>3 DEF Spares
  <2> QED
    BY <2>1, <2>2, <2>4
<1> QED
  BY <1>3, EndSettles

LEMMA CleanImportSettles ==
    ASSUME Ground, CrossingsKnown, PlacesKnown, Ground', NEW c \in Cmds, Work(c),
           CleanImport(c)
    PROVE  Settles(c)
<1>1. /\ cmd[c].at = "clean" /\ Shape(cmd[c]) /\ UNCHANGED <<repos, ownerName>>
      /\ RemoveDir(c, cmd[c].to) /\ CmdEnds(c) /\ cmd[c] \in Cmd
  BY DEF CleanImport, Ground, DirectoryTypeOK
<1>2. cmd[c].kind # "orgrename" /\ MadeShape(cmd[c])
  BY <1>1 DEF Shape, NoCmd, TransferShape, RenameShape, OrgRenameShape, DeleteShape,
     Made
<1>3. /\ cmd[c].to \in Paths /\ cmd[c].id \in DirIds
      /\ repos[cmd[c].id].is = "gone"
  BY <1>1, <1>2 DEF MadeShape, Cmd, Ground, RowIsGone
<1> QED
  BY <1>1, <1>2, <1>3, EndedTo, DropSettles

LEMMA DeleteDirSettles ==
    ASSUME Ground, CrossingsKnown, PlacesKnown, Ground', NEW c \in Cmds, Work(c),
           DeleteDir(c)
    PROVE  Settles(c)
<1>1. /\ cmd[c].at = "remove" /\ Shape(cmd[c]) /\ UNCHANGED <<repos, ownerName>>
      /\ CmdEnds(c) /\ cmd[c] \in Cmd
  BY DEF DeleteDir, Ground, DirectoryTypeOK
<1>2. cmd[c].kind = "delete"
  BY <1>1 DEF Shape, NoCmd, MadeShape, TransferShape, RenameShape, OrgRenameShape
<1>3. /\ cmd[c].from \in Paths /\ cmd[c].id \in DirIds
      /\ repos[cmd[c].id].is = "gone"
  BY <1>1, <1>2, DeleteIs DEF Ground, RowIsGone
<1>4. CASE RemoveDir(c, cmd[c].from)
  BY <1>1, <1>2, <1>3, <1>4, EndedTo, DropSettles
<1>5. CASE UNCHANGED disk
  BY <1>1, <1>2, <1>5, EndedTo, RestingEndSettles DEF Resting, Quiet, Work
<1> QED
  BY <1>4, <1>5 DEF DeleteDir

\* A move to a free path, from one that is its own repository's.
LEMMA MoveSpares ==
    ASSUME Ground, PlacesKnown, NEW c \in Cmds, NEW from \in Paths, NEW to \in Paths,
           CanMove(from, to), disk' = Moved(from, to),
           UNCHANGED <<repos, ownerName>>, crossed \subseteq crossed',
           NEW r \in DirIds, Kept(r)', disk[PathOf(r)] = r => PathOf(r) # from
    PROVE  Spares(c, r)
<1>1. /\ Kept(r) /\ Exists(r) /\ PathOf(r)' = PathOf(r) /\ PathOf(r) \in Paths
      /\ (disk[PathOf(r)])' = disk'[PathOf(r)] /\ r # Nil
  BY RowsQuiet, RowType, DirectoryAssumption
<1>2. /\ disk[to] = Nil
      /\ \A p \in Paths \ {from, to} : disk'[p] = disk[p]
  BY FilesAreMoved DEF CanMove
<1>3. Free(r) => disk[PathOf(r)] = r
  BY <1>1 DEF PlacesKnown, FilesAreWhere
<1> QED
  BY <1>1, <1>2, <1>3 DEF Spares

\* A transfer or a rename finds at its old path nobody's files but its own.
LEMMA FromIsOwn ==
    ASSUME Ground, CrossingsKnown, PlacesKnown, NEW c \in Cmds, Under(c),
           cmd[c].kind \in {"transfer", "rename"},
           NEW r \in DirIds, Kept(r), disk[cmd[c].from] = r
    PROVE  r = cmd[c].id
<1>1. SUFFICES ASSUME r # cmd[c].id PROVE FALSE
  OBVIOUS
<1>2. DirectoryTypeOK /\ Exists(r) /\ r \notin crossed /\ r # Nil
  BY DirectoryAssumption DEF Ground, Kept
<1>3. cmd[c].from \in PathsOf(cmd[c]) /\ cmd[c].from \in Paths
  BY TransferIs, RenameIs
<1>4. r \in IdsOf(cmd[c])
  BY <1>2, <1>3, IdsAre
<1>5. PathOf(r) # cmd[c].from
  BY <1>1 DEF PlacesKnown, Others
<1>6. CASE Free(r)
  <2>1. disk[PathOf(r)] = r /\ PathOf(r) \in Paths
    BY <1>2, <1>6, RowType DEF PlacesKnown, FilesAreWhere
  <2> QED
    BY <1>2, <1>3, <1>5, <2>1 DEF Ground, OneCopy
<1>7. CASE ~Free(r)
  <2>1. PICK d \in Cmds : cmd[d].id = r \/ Renames(d, r)
    BY <1>7 DEF Free
  <2>2. d # c
    BY <1>1, <2>1 DEF Renames
  <2>3. Under(d)
    <3>1. cmd[d].id = r => cmd[d] # NoCmd
      BY <1>2 DEF NoCmd
    <3>2. Renames(d, r) => Under(d)
      BY OrgRenameIs DEF Renames
    <3>3. Shape(cmd[d])
      BY DEF Ground
    <3> QED
      BY <2>1, <3>1, <3>2, <3>3
      DEF Shape, MadeShape, TransferShape, RenameShape, OrgRenameShape, DeleteShape,
          Under
  <2>4. r \in IdsOf(cmd[d])
    BY <1>2, <2>1, IdsAre DEF Renames, OwnedBy
  <2> QED
    BY <1>2, <1>4, <2>2, <2>3, <2>4 DEF CrossingsKnown, SharedIsCrossed
<1> QED
  BY <1>6, <1>7

LEMMA TransferDirSettles ==
    ASSUME Ground, CrossingsKnown, PlacesKnown, Ground', NEW c \in Cmds, Work(c),
           TransferDir(c)
    PROVE  Settles(c)
<1>1. /\ cmd[c].at = "move" /\ cmd[c].kind = "transfer" /\ Under(c)
      /\ UNCHANGED <<repos, ownerName>> /\ crossed \subseteq crossed'
      /\ Aims(c) /\ Others(c)
  BY DEF TransferDir, Work, PlacesKnown
<1>2. CASE CmdEnds(c) /\ UNCHANGED disk
  BY <1>1, <1>2, EndedTo, RestingEndSettles DEF Resting, Quiet
<1>3. CASE /\ CanMove(cmd[c].from, cmd[c].to) /\ Step(c, "record")
           /\ disk' = Moved(cmd[c].from, cmd[c].to)
  <2>1. Same(cmd'[c], cmd[c]) /\ cmd'[c].at = "record" /\ cmd'[c] # NoCmd
    BY <1>3, MovedTo DEF Ats
  <2>2. cmd[c].from \in Paths /\ cmd[c].to \in Paths
    BY <1>1, TransferIs
  <2>3. disk'[cmd[c].from] = Nil /\ disk'[cmd[c].to] = disk[cmd[c].from]
    BY <1>3, <2>2, FilesAreMoved
  <2>4. Aims(c)'
    BY <1>1, <2>1 DEF Aims, Same
  <2>5. ASSUME NEW r \in DirIds, Kept(r)', r # cmd[c].id
        PROVE  PathOf(r)' # cmd[c].from /\ disk'[cmd[c].to] # r
    <3>1. Kept(r) /\ PathOf(r)' = PathOf(r)
      BY <1>1, <2>5, RowsQuiet
    <3>2. PathOf(r) # cmd[c].from
      BY <1>1, <2>5, <3>1 DEF Others
    <3>3. disk[cmd[c].from] # r
      BY <1>1, <2>5, <3>1, FromIsOwn
    <3> QED
      BY <2>3, <3>1, <3>2, <3>3
  <2>6. Others(c)'
    <3>1. cmd'[c].from = cmd[c].from /\ cmd'[c].to = cmd[c].to
          /\ cmd'[c].id = cmd[c].id
      BY <2>1 DEF Same
    <3> QED
      BY <2>5, <3>1 DEF Others
  <2>7. ASSUME NEW r \in DirIds, Kept(r)'
        PROVE  LeavesOwn(c, r) /\ Spares(c, r) /\ Repaths(c, r)
    <3>1. Kept(r) /\ Exists(r) /\ PathOf(r)' = PathOf(r) /\ Repaths(c, r)
      BY <1>1, <2>7, RowsQuiet
    <3>2. disk[PathOf(r)] = r => (PathOf(r) # cmd[c].from \/ r = cmd[c].id)
      BY <1>1, <3>1 DEF Others
    <3>3. Spares(c, r)
      <4>1. CASE r = cmd[c].id
        BY <4>1 DEF Spares, Free
      <4>2. CASE r # cmd[c].id
        BY <1>1, <1>3, <2>2, <2>7, <3>2, <4>2, MoveSpares
      <4> QED
        BY <4>1, <4>2
    <3>4. ASSUME cmd'[c].id = r PROVE InHand(c, r)'
      <4>1. InHand(c, r) /\ cmd[c].id = r
        BY <1>1, <2>1, <3>1, <3>4, HeldIs DEF Same
      <4>2. PathOf(r) = cmd[c].from /\ disk[cmd[c].from] = r
        BY <1>1, <4>1 DEF InHand
      <4> QED
        BY <1>1, <2>1, <2>3, <3>1, <4>2 DEF InHand, Same
    <3>5. LeavesOwn(c, r)
      BY <1>1, <2>1, <3>4 DEF LeavesOwn, Renames, Same
    <3> QED
      BY <3>1, <3>3, <3>5
  <2> QED
    BY <2>4, <2>6, <2>7 DEF Settles
<1> QED
  BY <1>2, <1>3 DEF TransferDir

LEMMA TransferRowSettles ==
    ASSUME Ground, CrossingsKnown, PlacesKnown, Ground', NEW c \in Cmds, Work(c),
           TransferRow(c)
    PROVE  Settles(c)
<1>1. /\ cmd[c].at = "record" /\ cmd[c].kind = "transfer" /\ Under(c)
      /\ UNCHANGED <<ownerName, disk>> /\ crossed \subseteq crossed'
      /\ Aims(c) /\ repos \in [DirIds -> Repo]
  BY DEF TransferRow, Work, PlacesKnown, Ground, DirectoryTypeOK
<1>2. /\ TransferShape(cmd[c]) /\ cmd[c].id \in DirIds
      /\ cmd[c].from \in Paths /\ cmd[c].to \in Paths
      /\ cmd[c].to \in PathsOf(cmd[c])
  BY <1>1, TransferIs
<1>3. CASE Step(c, "back") /\ UNCHANGED repos
  <2>1. Same(cmd'[c], cmd[c]) /\ cmd'[c].at = "back" /\ cmd'[c] # NoCmd
    BY <1>3, MovedTo DEF Ats
  <2>2. SameStage(cmd[c], cmd'[c])
    BY <1>1, <2>1 DEF SameStage
  <2> QED
    BY <1>1, <1>3, <2>1, <2>2, QuietMoveSettles DEF Quiet
<1>4. CASE /\ CmdEnds(c)
           /\ repos' = IF Exists(cmd[c].id)
                       THEN [repos EXCEPT ![cmd[c].id].owner = cmd[c].owner]
                       ELSE repos
  <2>1. /\ \A r \in DirIds \ {cmd[c].id} : repos'[r] = repos[r]
        /\ ~Exists(cmd[c].id) => repos' = repos
        /\ Exists(cmd[c].id) => /\ repos'[cmd[c].id].owner = cmd[c].owner
                                /\ repos'[cmd[c].id].name = repos[cmd[c].id].name
    BY <1>1, <1>2, <1>4 DEF Repo
  <2>2. cmd'[c] = NoCmd
    BY <1>4, EndedTo
  <2>3. ASSUME NEW r \in DirIds, Kept(r)', r # cmd[c].id
        PROVE  /\ Spares(c, r) /\ Repaths(c, r)
               /\ cmd[c].id # r /\ ~Renames(c, r)
    BY <1>1, <2>1, <2>3, OwnRow DEF Renames
  <2>4. ASSUME NEW r \in DirIds, Kept(r)', r = cmd[c].id
        PROVE  /\ Spares(c, r) /\ Repaths(c, r) /\ (disk[PathOf(r)])' = r
    <3>1. Exists(r) /\ Kept(r)
      BY <1>1, <2>1, <2>4 DEF Kept, Exists
    <3>2. InHand(c, r) /\ ~cmd[c].over
      BY <1>1, <2>4, <3>1, HeldIs
    <3>3. PathOf(r) = cmd[c].from /\ disk[cmd[c].to] = r
      BY <1>1, <3>2 DEF InHand
    <3>4. cmd[c].to[1] = ownerName[cmd[c].owner]
      BY <1>1, <3>2 DEF Aims
    <3>5. repos[r].name = cmd[c].to[2]
      BY <1>2, <3>3 DEF PathOf, TransferShape
    <3>6. PathOf(r)' = cmd[c].to
      <4>1. PathOf(r)' = <<ownerName[cmd[c].owner], cmd[c].to[2]>>
        BY <1>1, <2>1, <2>4, <3>1, <3>5 DEF PathOf
      <4> QED
        BY <1>2, <3>4, <4>1 DEF Paths
    <3>7. (disk[PathOf(r)])' = r
      BY <1>1, <3>3, <3>6
    <3> QED
      BY <1>2, <3>1, <3>2, <3>6, <3>7 DEF Spares, Repaths
  <2> QED
    BY <2>2, <2>3, <2>4, EndSettles
<1> QED
  BY <1>3, <1>4 DEF TransferRow

LEMMA TransferBackSettles ==
    ASSUME Ground, CrossingsKnown, PlacesKnown, Ground', NEW c \in Cmds, Work(c),
           TransferBack(c)
    PROVE  Settles(c)
<1>1. /\ cmd[c].at = "back" /\ Shape(cmd[c]) /\ Under(c)
      /\ UNCHANGED <<repos, ownerName>> /\ crossed \subseteq crossed'
      /\ Others(c) /\ CmdEnds(c) /\ disk' = MovedBack(cmd[c])
  BY DEF TransferBack, Work, PlacesKnown, Ground
<1>2. cmd[c].kind = "transfer"
  BY <1>1 DEF Shape, NoCmd, MadeShape, RenameShape, OrgRenameShape, DeleteShape
<1>3. /\ cmd[c].from \in Paths /\ cmd[c].to \in Paths /\ cmd[c].id \in DirIds
      /\ cmd'[c] = NoCmd
  BY <1>1, <1>2, TransferIs, EndedTo
<1>4. ASSUME NEW r \in DirIds, Kept(r)'
      PROVE  /\ (cmd[c].id = r \/ Renames(c, r)) => (disk[PathOf(r)])' = r
             /\ Spares(c, r) /\ Repaths(c, r)
  <2>1. /\ Kept(r) /\ Exists(r) /\ PathOf(r)' = PathOf(r) /\ Repaths(c, r)
        /\ (disk[PathOf(r)])' = disk'[PathOf(r)] /\ r # Nil
    BY <1>1, <1>4, RowsQuiet, DirectoryAssumption
  <2>2. ~Renames(c, r)
    BY <1>2 DEF Renames
  <2>3. CASE cmd[c].id = r
    <3>1. InHand(c, r)
      BY <1>1, <2>1, <2>3, HeldIs
    <3>2. PathOf(r) = cmd[c].from /\ disk[cmd[c].from] = Nil /\ disk[cmd[c].to] = r
      BY <1>1, <1>2, <3>1 DEF InHand
    <3>3. CanMove(cmd[c].to, cmd[c].from)
      BY <2>1, <3>2 DEF CanMove
    <3>4. disk' = Moved(cmd[c].to, cmd[c].from)
      BY <1>1, <3>3 DEF MovedBack
    <3>5. disk'[cmd[c].from] = r
      BY <1>3, <3>2, <3>3, <3>4, FilesAreMoved
    <3> QED
      BY <2>1, <2>3, <3>2, <3>5 DEF Spares, Free
  <2>4. CASE cmd[c].id # r
    <3>1. PathOf(r) # cmd[c].from /\ disk[cmd[c].to] # r
      BY <1>1, <1>2, <2>1, <2>4 DEF Others
    <3>2. Spares(c, r)
      <4>1. CASE CanMove(cmd[c].to, cmd[c].from)
        <5>1. disk' = Moved(cmd[c].to, cmd[c].from)
          BY <1>1, <4>1 DEF MovedBack
        <5>2. disk[PathOf(r)] = r => PathOf(r) # cmd[c].to
          BY <3>1
        <5> QED
          BY <1>1, <1>3, <1>4, <4>1, <5>1, <5>2, MoveSpares
      <4>2. CASE ~CanMove(cmd[c].to, cmd[c].from)
        <5>1. disk' = disk
          BY <1>1, <4>2 DEF MovedBack
        <5> QED
          BY <1>1, <1>4, <5>1, QuietSpares DEF Quiet
      <4> QED
        BY <4>1, <4>2
    <3> QED
      BY <2>1, <2>2, <2>4, <3>2
  <2> QED
    BY <2>3, <2>4
<1> QED
  BY <1>3, <1>4, EndSettles

LEMMA RenameRowSettles ==
    ASSUME Ground, CrossingsKnown, PlacesKnown, Ground', NEW c \in Cmds, Work(c),
           RenameRow(c)
    PROVE  Settles(c)
<1>1. /\ cmd[c].at = "record" /\ cmd[c].kind = "rename" /\ Under(c)
      /\ UNCHANGED <<ownerName, disk>> /\ crossed \subseteq crossed'
      /\ Aims(c) /\ Others(c) /\ repos' = Renamed(cmd[c].id, cmd[c].to[2])
  BY DEF RenameRow, Work, PlacesKnown, Ground
<1>2. /\ RenameShape(cmd[c]) /\ cmd[c].id \in DirIds
      /\ cmd[c].from \in Paths /\ cmd[c].to \in Paths /\ cmd[c].to[2] \in Names
      /\ cmd[c].to \in PathsOf(cmd[c])
  BY <1>1, RenameIs DEF Paths
<1> DEFINE taken == Exists(cmd[c].id)
                    /\ Named(repos[cmd[c].id].owner, cmd[c].to[2]) \ {cmd[c].id} # {}
<1>3. CASE taken
  <2>1. CmdEnds(c) /\ repos' = repos
    BY <1>1, <1>3 DEF RenameRow, Renamed
  <2> QED
    BY <1>1, <2>1, EndedTo, RestingEndSettles DEF Resting, Quiet
<1>4. CASE ~taken
  <2>1. Step(c, "move")
    BY <1>4 DEF RenameRow
  <2>2. Same(cmd'[c], cmd[c]) /\ cmd'[c].at = "move" /\ cmd'[c] # NoCmd
    BY <2>1, MovedTo DEF Ats
  <2>3. /\ \A r \in DirIds \ {cmd[c].id} : repos'[r] = repos[r]
        /\ ~Exists(cmd[c].id) => repos' = repos
        /\ Exists(cmd[c].id) =>
             /\ repos'[cmd[c].id].owner = repos[cmd[c].id].owner
             /\ repos'[cmd[c].id].name = cmd[c].to[2]
    BY <1>1, <1>2, <1>4, RenamedWrites
  <2>4. Aims(c)'
    BY <1>1, <2>2 DEF Aims, Same, Made
  <2>5. ASSUME NEW r \in DirIds, Kept(r)', r # cmd[c].id
        PROVE  /\ Kept(r) /\ PathOf(r)' = PathOf(r)
               /\ Spares(c, r) /\ Repaths(c, r)
    BY <1>1, <2>3, <2>5, OwnRow
  <2>6. Others(c)'
    BY <1>1, <2>2, <2>5 DEF Others, Same
  <2>7. ASSUME NEW r \in DirIds, Kept(r)', r = cmd[c].id
        PROVE  Spares(c, r) /\ Repaths(c, r) /\ InHand(c, r)'
    <3>1. Exists(r) /\ Kept(r)
      BY <1>1, <2>3, <2>7 DEF Kept, Exists
    <3>2. InHand(c, r) /\ ~cmd[c].over
      BY <1>1, <2>7, <3>1, HeldIs
    <3>3. disk[cmd[c].from] = r /\ ownerName[repos[r].owner] = cmd[c].to[1]
      BY <1>1, <1>2, <3>2 DEF InHand, RenameShape
    <3>4. PathOf(r)' = cmd[c].to
      <4>1. PathOf(r)' = <<cmd[c].to[1], cmd[c].to[2]>>
        BY <1>1, <2>3, <2>7, <3>1, <3>3 DEF PathOf
      <4> QED
        BY <1>2, <4>1 DEF Paths
    <3>5. InHand(c, r)'
      <4>1. cmd'[c].kind = "rename" /\ cmd'[c].from = cmd[c].from
            /\ cmd'[c].to = cmd[c].to
        BY <1>1, <2>2 DEF Same
      <4>2. cmd[c].to[1] = cmd[c].from[1]
        BY <1>2 DEF RenameShape
      <4> QED
        BY <1>1, <2>2, <2>3, <2>7, <3>1, <3>3, <4>1, <4>2 DEF InHand
    <3> QED
      BY <1>2, <2>7, <3>1, <3>2, <3>4, <3>5 DEF Spares, Repaths, Free
  <2>8. ASSUME NEW r \in DirIds, Kept(r)'
        PROVE  LeavesOwn(c, r) /\ Spares(c, r) /\ Repaths(c, r)
    <3>1. Spares(c, r) /\ Repaths(c, r)
      BY <2>5, <2>7, <2>8
    <3>2. LeavesOwn(c, r)
      BY <1>1, <2>2, <2>7, <2>8 DEF LeavesOwn, Renames, Same
    <3> QED
      BY <3>1, <3>2
  <2> QED
    BY <2>4, <2>6, <2>8 DEF Settles
<1> QED
  BY <1>3, <1>4

LEMMA RenameDirSettles ==
    ASSUME Ground, CrossingsKnown, PlacesKnown, Ground', NEW c \in Cmds, Work(c),
           RenameDir(c)
    PROVE  Settles(c)
<1>1. /\ cmd[c].at = "move" /\ cmd[c].kind = "rename" /\ Under(c)
      /\ UNCHANGED <<repos, ownerName>> /\ crossed \subseteq crossed'
      /\ Others(c)
  BY DEF RenameDir, Work, PlacesKnown
<1>2. CASE Step(c, "revert") /\ UNCHANGED disk
  <2>1. Same(cmd'[c], cmd[c]) /\ cmd'[c].at = "revert" /\ cmd'[c] # NoCmd
    BY <1>2, MovedTo DEF Ats
  <2>2. SameStage(cmd[c], cmd'[c])
    BY <1>1, <2>1 DEF SameStage
  <2> QED
    BY <1>1, <1>2, <2>1, <2>2, QuietMoveSettles DEF Quiet
<1>3. CASE /\ CanMove(cmd[c].from, cmd[c].to) /\ CmdEnds(c)
           /\ disk' = Moved(cmd[c].from, cmd[c].to)
  <2>1. /\ cmd[c].from \in Paths /\ cmd[c].to \in Paths /\ RenameShape(cmd[c])
        /\ cmd'[c] = NoCmd
    BY <1>1, <1>3, RenameIs, EndedTo
  <2>2. disk'[cmd[c].to] = disk[cmd[c].from]
    BY <1>3, <2>1, FilesAreMoved
  <2>3. ASSUME NEW r \in DirIds, Kept(r)'
        PROVE  /\ (cmd[c].id = r \/ Renames(c, r)) => (disk[PathOf(r)])' = r
               /\ Spares(c, r) /\ Repaths(c, r)
    <3>1. /\ Kept(r) /\ Exists(r) /\ PathOf(r)' = PathOf(r) /\ Repaths(c, r)
          /\ (disk[PathOf(r)])' = disk'[PathOf(r)]
      BY <1>1, <2>3, RowsQuiet
    <3>2. ~Renames(c, r)
      BY <1>1 DEF Renames
    <3>3. CASE cmd[c].id = r
      <4>1. InHand(c, r)
        BY <1>1, <3>1, <3>3, HeldIs
      <4>2. /\ disk[cmd[c].from] = r /\ repos[r].name = cmd[c].to[2]
            /\ ownerName[repos[r].owner] = cmd[c].to[1]
        BY <1>1, <2>1, <4>1 DEF InHand, RenameShape
      <4>3. PathOf(r) = cmd[c].to
        BY <2>1, <4>2 DEF PathOf, Paths
      <4> QED
        BY <2>2, <3>1, <3>3, <4>2, <4>3 DEF Spares, Free
    <3>4. CASE cmd[c].id # r
      <4>1. PathOf(r) # cmd[c].from
        BY <1>1, <3>1, <3>4 DEF Others
      <4>2. Spares(c, r)
        BY <1>1, <1>3, <2>1, <2>3, <4>1, MoveSpares
      <4> QED
        BY <3>1, <3>2, <3>4, <4>2
    <3> QED
      BY <3>3, <3>4
  <2>4. \A r \in DirIds : Kept(r)' => Kept(r)
    BY <1>1, RowsQuiet
  <2> QED
    BY <2>1, <2>3, <2>4, EndSettles
<1> QED
  BY <1>2, <1>3 DEF RenameDir

LEMMA RenameRevertSettles ==
    ASSUME Ground, CrossingsKnown, PlacesKnown, Ground', NEW c \in Cmds, Work(c),
           RenameRevert(c)
    PROVE  Settles(c)
<1>1. /\ cmd[c].at = "revert" /\ cmd[c].kind = "rename" /\ Under(c)
      /\ UNCHANGED <<ownerName, disk>> /\ crossed \subseteq crossed'
      /\ repos' = Renamed(cmd[c].id, cmd[c].from[2]) /\ CmdEnds(c)
  BY DEF RenameRevert, Work, PlacesKnown, Ground
<1>2. /\ RenameShape(cmd[c]) /\ cmd[c].id \in DirIds /\ cmd'[c] = NoCmd
      /\ cmd[c].from \in Paths /\ cmd[c].from[2] \in Names
      /\ cmd[c].from \in PathsOf(cmd[c])
  BY <1>1, RenameIs, EndedTo DEF Paths
<1>3. /\ \A r \in DirIds \ {cmd[c].id} : repos'[r] = repos[r]
      /\ ~Exists(cmd[c].id) => repos' = repos
      /\ Exists(cmd[c].id) =>
           /\ repos'[cmd[c].id].owner = repos[cmd[c].id].owner
           /\ \/ repos'[cmd[c].id].name = cmd[c].from[2]
              \/ Named(repos[cmd[c].id].owner, cmd[c].from[2]) \ {cmd[c].id} # {}
  BY <1>1, <1>2, RenamedWrites
<1>4. ASSUME NEW r \in DirIds, Kept(r)', r # cmd[c].id
      PROVE  Spares(c, r) /\ Repaths(c, r) /\ cmd[c].id # r /\ ~Renames(c, r)
  BY <1>1, <1>3, <1>4, OwnRow DEF Renames
<1>5. ASSUME NEW r \in DirIds, Kept(r)', r = cmd[c].id
      PROVE  Spares(c, r) /\ Repaths(c, r) /\ (disk[PathOf(r)])' = r
  <2>1. Exists(r) /\ Kept(r)
    BY <1>1, <1>3, <1>5 DEF Kept, Exists
  <2>2. InHand(c, r) /\ ~cmd[c].over
    BY <1>1, <1>5, <2>1, HeldIs
  <2>3. disk[cmd[c].from] = r /\ ownerName[repos[r].owner] = cmd[c].from[1]
    BY <1>1, <1>2, <2>2 DEF InHand
  <2>4. Named(repos[r].owner, cmd[c].from[2]) \ {r} = {}
    BY <1>5, <2>1 DEF RenameRevert, Kept
  <2>5. PathOf(r)' = cmd[c].from
    <3>1. PathOf(r)' = <<cmd[c].from[1], cmd[c].from[2]>>
      BY <1>1, <1>3, <1>5, <2>1, <2>3, <2>4 DEF PathOf
    <3> QED
      BY <1>2, <3>1 DEF Paths
  <2>6. (disk[PathOf(r)])' = r
    BY <1>1, <2>3, <2>5
  <2> QED
    BY <1>2, <2>1, <2>2, <2>5, <2>6 DEF Spares, Repaths
<1> QED
  BY <1>2, <1>4, <1>5, EndSettles

LEMMA DeleteRowSettles ==
    ASSUME Ground, CrossingsKnown, PlacesKnown, Ground', NEW c \in Cmds, Work(c),
           DeleteRow(c)
    PROVE  Settles(c)
<1>1. /\ cmd[c].at = "record" /\ cmd[c].kind = "delete" /\ Under(c)
      /\ UNCHANGED <<ownerName, disk>> /\ crossed \subseteq crossed'
      /\ Aims(c) /\ Others(c) /\ repos \in [DirIds -> Repo]
  BY DEF DeleteRow, Work, PlacesKnown, Ground, DirectoryTypeOK
<1>2. cmd[c].id \in DirIds
  BY <1>1, DeleteIs
<1>3. CASE ~Exists(cmd[c].id)
  <2>1. CmdEnds(c) /\ repos' = repos
    BY <1>3 DEF DeleteRow
  <2> QED
    BY <1>1, <2>1, EndedTo, RestingEndSettles DEF Resting, Quiet
<1>4. CASE Exists(cmd[c].id)
  <2>1. /\ repos' = [repos EXCEPT ![cmd[c].id] = [NoRepo EXCEPT !.is = "gone"]]
        /\ Step(c, "remove")
    BY <1>4 DEF DeleteRow
  <2>2. \A r \in DirIds : Kept(r)' => r # cmd[c].id /\ repos'[r] = repos[r]
    BY <1>1, <2>1 DEF Kept, Exists, NoRepo
  <2>3. \A r \in DirIds : Kept(r)' => /\ Kept(r) /\ PathOf(r)' = PathOf(r)
                                      /\ Spares(c, r) /\ Repaths(c, r)
    BY <1>1, <2>2, OwnRow
  <2>4. Same(cmd'[c], cmd[c]) /\ cmd'[c].at = "remove" /\ cmd'[c] # NoCmd
    BY <2>1, MovedTo DEF Ats
  <2>5. Aims(c)' /\ Others(c)'
    BY <1>1, <2>3, <2>4 DEF Aims, Others, Same, Made
  <2>6. \A r \in DirIds : Kept(r)' => LeavesOwn(c, r)
    BY <1>1, <2>2, <2>4 DEF LeavesOwn, Renames, Same
  <2> QED
    BY <2>3, <2>5, <2>6 DEF Settles
<1> QED
  BY <1>3, <1>4

\* An organization's own repositories while it is renamed.
LEMMA OrgRenameRowSettles ==
    ASSUME Ground, CrossingsKnown, PlacesKnown, Ground', NEW c \in Cmds, Work(c),
           OrgRenameRow(c)
    PROVE  Settles(c)
<1>1. /\ cmd[c].at = "record" /\ cmd[c].kind = "orgrename" /\ Under(c)
      /\ UNCHANGED <<repos, disk>> /\ crossed \subseteq crossed'
      /\ Aims(c) /\ ownerName \in [Owners -> OwnerNames]
  BY DEF OrgRenameRow, Work, PlacesKnown, Ground, DirectoryTypeOK
<1>2. /\ OrgRenameShape(cmd[c]) /\ cmd[c].owner \in Owners /\ cmd[c].id = Nil
      /\ cmd[c].to[1] \in OwnerNames
      /\ \A n \in Names : <<cmd[c].to[1], n>> \in PathsOf(cmd[c])
  BY <1>1, OrgRenameIs DEF OrgRenameShape
<1>3. CASE NameTaken(cmd[c].owner, cmd[c].to[1])
  <2>1. CmdEnds(c) /\ ownerName' = ownerName
    BY <1>3 DEF OrgRenameRow
  <2> QED
    BY <1>1, <2>1, EndedTo, RestingEndSettles DEF Resting, Quiet
<1>4. CASE ~NameTaken(cmd[c].owner, cmd[c].to[1])
  <2>1. /\ ownerName' = [ownerName EXCEPT ![cmd[c].owner] = cmd[c].to[1]]
        /\ Step(c, "move")
    BY <1>4 DEF OrgRenameRow
  <2>2. /\ ownerName'[cmd[c].owner] = cmd[c].to[1]
        /\ \A o \in Owners \ {cmd[c].owner} : ownerName'[o] = ownerName[o]
    BY <1>1, <1>2, <2>1
  <2>3. Same(cmd'[c], cmd[c]) /\ cmd'[c].at = "move" /\ cmd'[c] # NoCmd
    BY <2>1, MovedTo DEF Ats
  <2>4. Aims(c)'
    <3>1. SUFFICES ASSUME ~cmd[c].over
                   PROVE  \A p \in Owners : ownerName'[p] # cmd[c].from[1]
      BY <1>1, <2>2, <2>3 DEF Aims, Same, Made
    <3>2. ownerName[cmd[c].owner] = cmd[c].from[1]
      BY <1>1, <3>1 DEF Aims
    <3>3. \A p \in Owners \ {cmd[c].owner} : ownerName[p] # cmd[c].from[1]
      BY <1>2, <3>2 DEF Ground, NamesDiffer
    <3> QED
      BY <1>2, <2>2, <3>3 DEF OrgRenameShape
  <2>5. Others(c)'
    BY <1>1, <2>3 DEF Others, Same
  <2>6. ASSUME NEW r \in DirIds, Kept(r)'
        PROVE  LeavesOwn(c, r) /\ Spares(c, r) /\ Repaths(c, r)
    <3>1. Kept(r) /\ Exists(r) /\ r # Nil
      BY <1>1, <2>6, DirectoryAssumption DEF Kept, Exists
    <3>2. repos[r].owner \in Owners /\ repos[r].name \in Names
      BY <3>1, RowType
    <3>3. CASE Renames(c, r)
      <4>1. disk[OldPath(c, r)] = r /\ ~cmd[c].over /\ repos[r].owner = cmd[c].owner
        BY <1>1, <3>1, <3>3, HeldIs
      <4>2. PathOf(r)' = <<cmd[c].to[1], repos[r].name>>
        BY <1>1, <2>2, <4>1 DEF PathOf
      <4>3. PathOf(r)' \in PathsOf(cmd[c])
        BY <1>2, <3>2, <4>2
      <4>4. (disk[OldPath(c, r)])' = r
        BY <1>1, <2>3, <4>1 DEF OldPath, Same
      <4> QED
        BY <1>1, <1>2, <2>3, <3>1, <3>3, <4>1, <4>3, <4>4
        DEF LeavesOwn, Spares, Repaths, Free, Same
    <3>4. CASE ~Renames(c, r)
      <4>1. repos[r].owner # cmd[c].owner
        BY <1>1, <3>4 DEF Renames
      <4>2. PathOf(r)' = PathOf(r)
        BY <1>1, <2>2, <3>2, <4>1 DEF PathOf
      <4>3. (disk[PathOf(r)])' = disk[PathOf(r)]
        BY <1>1, <4>2
      <4>4. Free(r) => disk[PathOf(r)] = r
        BY <3>1 DEF PlacesKnown, FilesAreWhere
      <4>5. ~Renames(c, r)' /\ cmd'[c].id # r
        BY <1>1, <1>2, <2>3, <3>1, <4>1 DEF Renames, Same
      <4> QED
        BY <2>3, <3>1, <4>2, <4>3, <4>4, <4>5 DEF LeavesOwn, Spares, Repaths
    <3> QED
      BY <3>3, <3>4
  <2> QED
    BY <2>4, <2>5, <2>6 DEF Settles
<1> QED
  BY <1>3, <1>4

LEMMA OrgRenameTreeSettles ==
    ASSUME Ground, CrossingsKnown, PlacesKnown, Ground', NEW c \in Cmds, Work(c),
           OrgRenameTree(c)
    PROVE  Settles(c)
<1>1. /\ cmd[c].at = "move" /\ cmd[c].kind = "orgrename" /\ Under(c)
      /\ UNCHANGED <<repos, ownerName>> /\ crossed \subseteq crossed'
      /\ Aims(c) /\ ownerName \in [Owners -> OwnerNames] /\ DirectoryTypeOK
  BY DEF OrgRenameTree, Work, PlacesKnown, Ground, DirectoryTypeOK
<1>2. /\ OrgRenameShape(cmd[c]) /\ cmd[c].owner \in Owners /\ cmd[c].id = Nil
      /\ cmd[c].to[1] \in OwnerNames /\ cmd[c].from[1] \in OwnerNames
      /\ cmd[c].from[1] # cmd[c].to[1]
      /\ \A n \in Names : /\ <<cmd[c].to[1], n>> \in PathsOf(cmd[c])
                          /\ <<cmd[c].from[1], n>> \in PathsOf(cmd[c])
  BY <1>1, OrgRenameIs DEF OrgRenameShape
<1>3. CASE Step(c, "revert") /\ UNCHANGED disk
  <2>1. Same(cmd'[c], cmd[c]) /\ cmd'[c].at = "revert" /\ cmd'[c] # NoCmd
    BY <1>3, MovedTo DEF Ats
  <2>2. SameStage(cmd[c], cmd'[c])
    BY <1>1, <2>1 DEF SameStage
  <2> QED
    BY <1>1, <1>3, <2>1, <2>2, QuietMoveSettles DEF Quiet
<1>4. ASSUME NEW r \in DirIds, Kept(r), Renames(c, r)
      PROVE  /\ disk[<<cmd[c].from[1], repos[r].name>>] = r
             /\ PathOf(r) = <<cmd[c].to[1], repos[r].name>>
             /\ repos[r].name \in Names /\ r # Nil
  <2>1. disk[OldPath(c, r)] = r /\ ~cmd[c].over /\ repos[r].owner = cmd[c].owner
    BY <1>1, <1>4, HeldIs
  <2>2. ownerName[cmd[c].owner] = cmd[c].to[1]
    BY <1>1, <2>1 DEF Aims
  <2> QED
    BY <1>4, <2>1, <2>2, RowType, DirectoryAssumption DEF OldPath, PathOf, Kept
<1>5. CASE TreeOf(cmd[c].from[1]) = {} /\ CmdEnds(c) /\ UNCHANGED disk
  <2>1. ASSUME NEW r \in DirIds, Kept(r)
        PROVE  ~Renames(c, r)
    <3>1. SUFFICES ASSUME Renames(c, r) PROVE FALSE
      OBVIOUS
    <3>2. /\ disk[<<cmd[c].from[1], repos[r].name>>] = r /\ r # Nil
          /\ repos[r].name \in Names
      BY <1>4, <2>1, <3>1
    <3>3. <<cmd[c].from[1], repos[r].name>> \in TreeOf(cmd[c].from[1])
      BY <1>2, <3>2 DEF TreeOf, Paths
    <3> QED
      BY <1>5, <3>3
  <2>2. \A r \in DirIds : cmd[c].id # r
    BY <1>2, DirectoryAssumption
  <2> QED
    BY <1>1, <1>5, <2>1, <2>2, EndedTo, QuietEndSettles DEF Quiet
<1>6. CASE /\ TreeOf(cmd[c].to[1]) = {} /\ CmdEnds(c)
           /\ disk' = [p \in Paths |->
                IF p[1] = cmd[c].to[1] THEN disk[<<cmd[c].from[1], p[2]>>]
                ELSE IF p[1] = cmd[c].from[1] THEN Nil ELSE disk[p]]
  <2>1. /\ \A n \in Names :
             /\ disk[<<cmd[c].to[1], n>>] = Nil
             /\ disk'[<<cmd[c].to[1], n>>] = disk[<<cmd[c].from[1], n>>]
        /\ \A p \in Paths : p[1] \notin {cmd[c].from[1], cmd[c].to[1]}
             => disk'[p] = disk[p]
    <3>1. PICK from \in OwnerNames, to \in OwnerNames :
            from = cmd[c].from[1] /\ to = cmd[c].to[1]
      BY <1>2
    <3>2. disk' = [p \in Paths |-> IF p[1] = to THEN disk[<<from, p[2]>>]
                                   ELSE IF p[1] = from THEN Nil ELSE disk[p]]
      BY <1>6, <3>1, Zenon
    <3>3. from # to /\ TreeOf(to) = {}
      BY <1>2, <1>6, <3>1
    <3>4. /\ \A n \in Names : /\ disk[<<to, n>>] = Nil
                              /\ disk'[<<to, n>>] = disk[<<from, n>>]
          /\ \A p \in Paths : p[1] \notin {from, to} => disk'[p] = disk[p]
      BY <3>2, <3>3, TreeIsMoved
    <3> QED
      BY <3>1, <3>4
  <2>2. ASSUME NEW r \in DirIds, Kept(r)'
        PROVE  /\ Kept(r)
               /\ (cmd[c].id = r \/ Renames(c, r)) => (disk[PathOf(r)])' = r
               /\ Spares(c, r) /\ Repaths(c, r)
    <3>1. /\ Kept(r) /\ Exists(r) /\ PathOf(r)' = PathOf(r) /\ Repaths(c, r)
          /\ (disk[PathOf(r)])' = disk'[PathOf(r)] /\ r # Nil /\ r \notin crossed
      BY <1>1, <2>2, RowsQuiet, DirectoryAssumption DEF Kept
    <3>2. /\ PathOf(r) \in Paths /\ repos[r].name \in Names
          /\ repos[r].owner \in Owners
      BY <3>1, RowType
    <3>3. cmd[c].id # r
      BY <1>2, <3>1
    <3>4. Renames(c, r) => (disk[PathOf(r)])' = r
      BY <1>4, <2>1, <3>1
    <3>5. ASSUME Free(r) PROVE disk'[PathOf(r)] = r
      <4>1. disk[PathOf(r)] = r
        BY <3>1, <3>5 DEF PlacesKnown, FilesAreWhere
      <4>2. PathOf(r) = <<ownerName[repos[r].owner], repos[r].name>>
        BY DEF PathOf
      <4>3. ownerName[repos[r].owner] # cmd[c].to[1]
        BY <2>1, <3>1, <3>2, <4>1, <4>2
      <4>4. ownerName[repos[r].owner] # cmd[c].from[1]
        <5>1. SUFFICES ASSUME ownerName[repos[r].owner] = cmd[c].from[1] PROVE FALSE
          OBVIOUS
        <5>2. PathOf(r) \in PathsOf(cmd[c])
          BY <1>2, <3>2, <4>2, <5>1
        <5>3. r \in IdsOf(cmd[c])
          BY <1>1, <4>1, <5>2, IdsAre
        <5>4. ~cmd[c].over
          BY <1>1, <3>1, <5>3, OwnIs
        <5> QED
          BY <1>1, <3>2, <5>1, <5>4 DEF Aims
      <4> QED
        BY <2>1, <3>2, <4>1, <4>2, <4>3, <4>4
    <3> QED
      BY <3>1, <3>3, <3>4, <3>5 DEF Spares
  <2> QED
    BY <1>6, <2>2, EndedTo, EndSettles
<1> QED
  BY <1>3, <1>5, <1>6 DEF OrgRenameTree

LEMMA OrgRenameRevertSettles ==
    ASSUME Ground, CrossingsKnown, PlacesKnown, Ground', NEW c \in Cmds, Work(c),
           OrgRenameRevert(c)
    PROVE  Settles(c)
<1>1. /\ cmd[c].at = "revert" /\ cmd[c].kind = "orgrename" /\ Under(c)
      /\ UNCHANGED <<repos, disk>> /\ crossed \subseteq crossed' /\ CmdEnds(c)
      /\ Aims(c) /\ ownerName \in [Owners -> OwnerNames]
  BY DEF OrgRenameRevert, Work, PlacesKnown, Ground, DirectoryTypeOK
<1>2. /\ OrgRenameShape(cmd[c]) /\ cmd[c].owner \in Owners /\ cmd[c].id = Nil
      /\ cmd[c].from[1] \in OwnerNames /\ cmd'[c] = NoCmd
      /\ \A n \in Names : <<cmd[c].from[1], n>> \in PathsOf(cmd[c])
  BY <1>1, OrgRenameIs, EndedTo DEF OrgRenameShape
<1>3. ASSUME NEW r \in DirIds, Kept(r)'
      PROVE  /\ Kept(r)
             /\ (cmd[c].id = r \/ Renames(c, r)) => (disk[PathOf(r)])' = r
             /\ Spares(c, r) /\ Repaths(c, r)
  <2>1. Kept(r) /\ Exists(r) /\ r # Nil
    BY <1>1, <1>3, DirectoryAssumption DEF Kept, Exists
  <2>2. repos[r].owner \in Owners /\ repos[r].name \in Names
    BY <2>1, RowType
  <2>3. CASE Renames(c, r)
    <3>1. disk[OldPath(c, r)] = r /\ ~cmd[c].over /\ repos[r].owner = cmd[c].owner
      BY <1>1, <2>1, <2>3, HeldIs
    <3>2. \A p \in Owners : ownerName[p] # cmd[c].from[1]
      BY <1>1, <3>1 DEF Aims
    <3>3. ownerName' = [ownerName EXCEPT ![cmd[c].owner] = cmd[c].from[1]]
      BY <3>2 DEF OrgRenameRevert, NameTaken
    <3>4. PathOf(r)' = <<cmd[c].from[1], repos[r].name>>
      BY <1>1, <1>2, <3>1, <3>3 DEF PathOf
    <3>5. (disk[PathOf(r)])' = r
      BY <1>1, <3>1, <3>4 DEF OldPath
    <3>6. PathOf(r)' \in PathsOf(cmd[c])
      BY <1>2, <2>2, <3>4
    <3> QED
      BY <2>1, <3>1, <3>5, <3>6 DEF Spares, Repaths
  <2>4. CASE ~Renames(c, r)
    <3>1. repos[r].owner # cmd[c].owner
      BY <1>1, <2>4 DEF Renames
    <3>2. ownerName'[repos[r].owner] = ownerName[repos[r].owner]
      BY <1>1, <1>2, <2>2, <3>1 DEF OrgRenameRevert
    <3>3. PathOf(r)' = PathOf(r)
      BY <1>1, <3>2 DEF PathOf
    <3>4. (disk[PathOf(r)])' = disk[PathOf(r)]
      BY <1>1, <3>3
    <3>5. Free(r) => disk[PathOf(r)] = r
      BY <2>1 DEF PlacesKnown, FilesAreWhere
    <3> QED
      BY <1>2, <2>1, <2>4, <3>3, <3>4, <3>5 DEF Spares, Repaths
  <2> QED
    BY <2>3, <2>4
<1> QED
  BY <1>2, <1>3, EndSettles

-----------------------------------------------------------------------------
(* Every step of a command *)

CmdStep(c) ==
    \/ TakeMutex(c) \/ CountQuota(c) \/ CreateRow(c) \/ InitBare(c)
    \/ FetchRefs(c) \/ Unmake(c) \/ CleanImport(c)
    \/ CheckMove(c) \/ TransferDir(c) \/ TransferRow(c) \/ TransferBack(c)
    \/ RenameRow(c) \/ RenameDir(c) \/ RenameRevert(c)
    \/ CheckOrgRename(c) \/ OrgRenameRow(c) \/ OrgRenameTree(c)
    \/ OrgRenameRevert(c)
    \/ CheckDelete(c) \/ DeleteRow(c) \/ DeleteDir(c)

LEMMA StepWorks ==
    ASSUME Ground, NEW c \in Cmds, CmdStep(c)
    PROVE  Ground' /\ Work(c)
BY TakeMutexWorks, CountQuotaWorks, CreateRowWorks, InitBareWorks, FetchRefsWorks,
   UnmakeWorks, CleanImportWorks, CheckMoveWorks, TransferDirWorks, TransferRowWorks,
   TransferBackWorks, RenameRowWorks, RenameDirWorks, RenameRevertWorks,
   CheckOrgRenameWorks, OrgRenameRowWorks, OrgRenameTreeWorks, OrgRenameRevertWorks,
   CheckDeleteWorks, DeleteRowWorks, DeleteDirWorks
DEF CmdStep

LEMMA StepSettles ==
    ASSUME Ground, CrossingsKnown, PlacesKnown, Ground', NEW c \in Cmds, Work(c),
           CmdStep(c)
    PROVE  Settles(c)
BY TakeMutexSettles, CountQuotaSettles, CreateRowSettles, InitBareSettles,
   FetchRefsSettles, UnmakeSettles, CleanImportSettles, CheckMoveSettles,
   TransferDirSettles, TransferRowSettles, TransferBackSettles, RenameRowSettles,
   RenameDirSettles, RenameRevertSettles, CheckOrgRenameSettles,
   OrgRenameRowSettles, OrgRenameTreeSettles, OrgRenameRevertSettles,
   CheckDeleteSettles, DeleteRowSettles, DeleteDirSettles
DEF CmdStep

LEMMA StepNames ==
    ASSUME Ground, NEW c \in Cmds, CmdStep(c)
    PROVE  NamesStep(c)
<1>1. CASE OrgRenameRow(c)
  <2>1. cmd[c].kind = "orgrename" /\ cmd[c].owner \in Owners
    BY <1>1, OrgRenameIs DEF OrgRenameRow, OrgRenameShape
  <2>2. ownerName \in [Owners -> OwnerNames]
    BY DEF Ground, DirectoryTypeOK
  <2> QED
    BY <1>1, <2>1, <2>2 DEF OrgRenameRow, NamesStep
<1>2. CASE OrgRenameRevert(c)
  <2>1. cmd[c].kind = "orgrename" /\ cmd[c].owner \in Owners
    BY <1>2, OrgRenameIs DEF OrgRenameRevert, OrgRenameShape
  <2>2. ownerName \in [Owners -> OwnerNames]
    BY DEF Ground, DirectoryTypeOK
  <2> QED
    BY <1>2, <2>1, <2>2 DEF OrgRenameRevert, NamesStep
<1>3. CASE ~OrgRenameRow(c) /\ ~OrgRenameRevert(c)
  <2>1. ownerName' = ownerName
    BY <1>3
    DEF CmdStep, TakeMutex, CountQuota, CreateRow, InitBare, FetchRefs, Unmake,
        CleanImport, CheckMove, TransferDir, TransferRow, TransferBack, RenameRow,
        RenameDir, RenameRevert, CheckOrgRename, OrgRenameTree, CheckDelete,
        DeleteRow, DeleteDir
  <2> QED
    BY <2>1 DEF NamesStep
<1> QED
  BY <1>1, <1>2, <1>3

LEMMA StepKeeps ==
    ASSUME Ground, CrossingsKnown, PlacesKnown, NEW c \in Cmds, CmdStep(c)
    PROVE  Ground' /\ CrossingsKnown' /\ PlacesKnown'
<1>1. Ground' /\ Work(c)
  BY StepWorks
<1>2. CrossingsKnown'
  BY <1>1, WorkCrosses
<1>3. PlacesKnown'
  BY <1>1, StepSettles, StepNames, PlacesStay
<1> QED
  BY <1>1, <1>2, <1>3

-----------------------------------------------------------------------------
(* A command begins *)

\* What a command that begins has read is so.
Fresh(k) ==
    /\ k \in Cmd /\ Shape(k) /\ k.at \in {"mutex", "insert", "check"}
    /\ k.lock = FALSE
    /\ k.at = "insert" => k.kind = "bundle"
    /\ k.kind = "bundle" => k.at = "insert"
    /\ k.id # Nil => Exists(k.id) /\ k.from = PathOf(k.id)
    /\ k.kind \in Made => k.id = Nil /\ k.from = Nil
    /\ k.kind \in Made \cup {"transfer"} => k.to[1] = ownerName[k.owner]
    /\ k.kind \in {"transfer", "rename", "delete"} => k.id # Nil
    /\ k.kind = "transfer" => k.at = "mutex"
    /\ k.kind = "orgrename" => k.from[1] = ownerName[k.owner]

SameButOver(m, k) ==
    /\ m.at = k.at /\ m.kind = k.kind /\ m.id = k.id /\ m.owner = k.owner
    /\ m.from = k.from /\ m.to = k.to /\ m.lock = k.lock

MetBy(k) == {d \in Cmds : Overlaps(k, cmd[d])}

LEMMA BeginIs ==
    ASSUME Ground, NEW c \in Cmds, NEW k, Fresh(k), Begin(c, k)
    PROVE  /\ cmd[c] = NoCmd /\ cmd' \in [Cmds -> Cmd]
           /\ SameButOver(cmd'[c], k) /\ cmd'[c].over = (MetBy(k) # {})
           /\ \A d \in Cmds \ {c} :
                /\ SameButOver(cmd'[d], cmd[d])
                /\ cmd'[d].over = (cmd[d].over \/ d \in MetBy(k))
           /\ crossed' = crossed \cup UNION {IdsOf(k) \cup IdsOf(cmd[d]) :
                                               d \in MetBy(k)}
           /\ c \notin MetBy(k)
           /\ UNCHANGED <<repos, ownerName, disk, createMu, backup, bundled,
                          dirFaults, backups>>
           /\ dirOps' \in 0..MaxDirOps
<1>1. cmd \in [Cmds -> Cmd] /\ Shape(cmd[c]) /\ dirOps \in 0..MaxDirOps
  BY DEF Ground, DirectoryTypeOK
<1>2. /\ cmd[c].at = "idle" /\ dirOps < MaxDirOps /\ dirOps' = dirOps + 1
      /\ cmd' = [d \in Cmds |->
                   IF d = c THEN [k EXCEPT !.over = MetBy(k) # {}]
                   ELSE [cmd[d] EXCEPT !.over = @ \/ d \in MetBy(k)]]
      /\ crossed' = crossed \cup UNION {IdsOf(k) \cup IdsOf(cmd[d]) :
                                          d \in MetBy(k)}
      /\ UNCHANGED <<repos, ownerName, disk, createMu, backup, bundled,
                     dirFaults, backups>>
  BY DEF Begin, MetBy
<1>3. cmd[c] = NoCmd
  BY <1>1, <1>2
  DEF Shape, MadeShape, TransferShape, RenameShape, OrgRenameShape, DeleteShape
<1>4. c \notin MetBy(k)
  BY <1>2 DEF MetBy, Overlaps
<1>5. k \in Cmd
  BY DEF Fresh
<1>6. ASSUME NEW m \in Cmd, NEW b \in BOOLEAN, NEW n, n = [m EXCEPT !.over = b]
      PROVE  n \in Cmd /\ SameButOver(n, m) /\ n.over = b
  BY <1>6 DEF Cmd, SameButOver
<1>7. cmd'[c] = [k EXCEPT !.over = MetBy(k) # {}]
  BY <1>2
<1>8. \A d \in Cmds \ {c} : cmd'[d] = [cmd[d] EXCEPT !.over = @ \/ d \in MetBy(k)]
  BY <1>2
<1>9. /\ cmd'[c] \in Cmd
      /\ SameButOver(cmd'[c], k) /\ cmd'[c].over = (MetBy(k) # {})
  BY <1>5, <1>6, <1>7
<1>10. \A d \in Cmds \ {c} :
         /\ cmd'[d] \in Cmd /\ SameButOver(cmd'[d], cmd[d])
         /\ cmd'[d].over = (cmd[d].over \/ d \in MetBy(k))
  <2> TAKE d \in Cmds \ {c}
  <2>1. cmd[d] \in Cmd
    BY <1>1
  <2>2. (cmd[d].over \/ d \in MetBy(k)) \in BOOLEAN
    OBVIOUS
  <2>3. cmd'[d] = [cmd[d] EXCEPT !.over = (cmd[d].over \/ d \in MetBy(k))]
    BY <1>8
  <2> QED
    BY <1>6, <2>1, <2>2, <2>3
<1>11. cmd' \in [Cmds -> Cmd]
  <2>1. \A d \in Cmds : cmd'[d] \in Cmd
    BY <1>9, <1>10
  <2>2. DOMAIN cmd' = Cmds /\ cmd' = [d \in DOMAIN cmd' |-> cmd'[d]]
    BY <1>2
  <2> QED
    BY <2>1, <2>2
<1>12. dirOps' \in 0..MaxDirOps
  BY <1>1, <1>2, DirectoryAssumption
<1> QED
  BY <1>2, <1>3, <1>4, <1>9, <1>10, <1>11, <1>12

\* The paths and repositories of a record do not depend on what it crossed.
LEMMA SameHands ==
    ASSUME NEW m, NEW k, SameButOver(m, k)
    PROVE  /\ PathsOf(m) = PathsOf(k) /\ IdsOf(m) = IdsOf(k)
           /\ Shape(k) /\ k # NoCmd /\ k.at # "idle" => Shape(m)
<1>1. PathsOf(m) = PathsOf(k) /\ IdsOf(m) = IdsOf(k)
  BY DEF SameButOver, PathsOf, IdsOf, RenamedBy
<1>2. Shape(k) /\ k # NoCmd => Shape(m)
  BY DEF SameButOver, Shape, MadeShape, TransferShape, RenameShape, OrgRenameShape,
     DeleteShape
<1> QED
  BY <1>1, <1>2

LEMMA BeginGround ==
    ASSUME Ground, NEW c \in Cmds, NEW k, Fresh(k), Begin(c, k)
    PROVE  Ground'
<1>1. /\ cmd[c] = NoCmd /\ cmd' \in [Cmds -> Cmd]
      /\ SameButOver(cmd'[c], k)
      /\ \A d \in Cmds \ {c} :
           /\ SameButOver(cmd'[d], cmd[d])
           /\ cmd'[d].over = (cmd[d].over \/ d \in MetBy(k))
      /\ crossed' = crossed \cup UNION {IdsOf(k) \cup IdsOf(cmd[d]) :
                                          d \in MetBy(k)}
      /\ UNCHANGED <<repos, ownerName, disk, createMu, backup, bundled,
                     dirFaults, backups>>
      /\ dirOps' \in 0..MaxDirOps
  BY BeginIs
<1>2. /\ k \in Cmd /\ Shape(k) /\ k.at \in {"mutex", "insert", "check"}
      /\ k.id # Nil => Exists(k.id)
  BY DEF Fresh
<1>3. crossed' \subseteq DirIds
  <2>1. \A m \in Cmd : IdsOf(m) \subseteq DirIds
    BY DEF IdsOf, RenamedBy, OwnedBy, PathsOf, Cmd, Ground, DirectoryTypeOK
  <2>2. \A d \in Cmds : cmd[d] \in Cmd
    BY DEF Ground, DirectoryTypeOK
  <2>3. crossed \subseteq DirIds
    BY DEF Ground, DirectoryTypeOK
  <2>4. \A d \in MetBy(k) : IdsOf(k) \cup IdsOf(cmd[d]) \subseteq DirIds
    BY <1>2, <2>1, <2>2 DEF MetBy
  <2> QED
    BY <1>1, <2>3, <2>4
<1>4. DirectoryTypeOK'
  BY <1>1, <1>3 DEF Ground, DirectoryTypeOK
<1>5. \A d \in Cmds : Shape(cmd'[d])
  <2> TAKE d \in Cmds
  <2>1. CASE d = c
    <3>1. k # NoCmd /\ k.at # "idle"
      BY <1>2 DEF NoCmd
    <3> QED
      BY <1>1, <1>2, <2>1, <3>1, SameHands
  <2>2. CASE d # c /\ cmd[d] # NoCmd
    <3>1. Shape(cmd[d]) /\ cmd[d].at # "idle"
      BY <2>2 DEF Ground, Shape, MadeShape, TransferShape, RenameShape,
         OrgRenameShape, DeleteShape
    <3> QED
      BY <1>1, <2>2, <3>1, SameHands
  <2>3. CASE d # c /\ cmd[d] = NoCmd
    <3>1. d \notin MetBy(k)
      BY <2>3 DEF MetBy, Overlaps, NoCmd
    <3>2. cmd'[d].over = FALSE
      <4>1. cmd[d].over = FALSE
        BY <2>3 DEF NoCmd
      <4>2. cmd'[d].over = (cmd[d].over \/ d \in MetBy(k))
        BY <1>1, <2>3
      <4>3. (cmd[d].over \/ d \in MetBy(k)) = FALSE
        BY <3>1, <4>1
      <4> QED
        BY <4>2, <4>3
    <3>3. cmd'[d] = NoCmd
      <4>1. cmd'[d] \in Cmd
        BY <1>1
      <4>2. SameButOver(cmd'[d], NoCmd)
        BY <1>1, <2>3
      <4> QED
        BY <3>2, <4>1, <4>2 DEF Cmd, SameButOver, NoCmd
    <3> QED
      BY <3>3 DEF Shape
  <2> QED
    BY <2>1, <2>2, <2>3
<1>6. \A d \in Cmds : Shape(cmd[d])'
  BY <1>5 DEF Shape, MadeShape, TransferShape, RenameShape, OrgRenameShape,
     DeleteShape
<1>7. RowShape' /\ NamesDiffer' /\ FilesKnown' /\ OneCopy'
  BY <1>1 DEF Ground, RowShape, NamesDiffer, FilesKnown, OneCopy, Exists
<1>8. IdKnown'
  BY <1>1, <1>2 DEF Ground, IdKnown, SameButOver, Exists
<1>9. NotYetMade'
  BY <1>1, <1>2 DEF Ground, NotYetMade, SameButOver
<1>10. RowIsGone'
  BY <1>1, <1>2 DEF Ground, RowIsGone, SameButOver
<1> QED
  BY <1>4, <1>6, <1>7, <1>8, <1>9, <1>10 DEF Ground

\* Whoever meets the new command is recorded.
LEMMA MetIs ==
    ASSUME Ground, NEW c \in Cmds, NEW k, Fresh(k), Begin(c, k),
           NEW d \in Cmds \ {c}, Under(d),
           SamePlace(k, cmd[d]) \/ IdsOf(k) \cap IdsOf(cmd[d]) # {}
    PROVE  /\ d \in MetBy(k) /\ cmd'[c].over /\ cmd'[d].over
           /\ IdsOf(k) \cup IdsOf(cmd[d]) \subseteq crossed'
<1>1. d \in MetBy(k)
  BY DEF MetBy, Overlaps, SamePlace, Under
<1>2. cmd'[c].over /\ cmd'[d].over
  BY <1>1, BeginIs
<1>3. crossed' = crossed \cup UNION {IdsOf(k) \cup IdsOf(cmd[e]) : e \in MetBy(k)}
  BY BeginIs
<1> QED
  BY <1>1, <1>2, <1>3

LEMMA BeginCrosses ==
    ASSUME Ground, CrossingsKnown, NEW c \in Cmds, NEW k, Fresh(k), Begin(c, k)
    PROVE  CrossingsKnown'
<1>1. /\ cmd[c] = NoCmd /\ SameButOver(cmd'[c], k)
      /\ cmd'[c].over = (MetBy(k) # {}) /\ c \notin MetBy(k)
      /\ \A d \in Cmds \ {c} :
           /\ SameButOver(cmd'[d], cmd[d])
           /\ cmd'[d].over = (cmd[d].over \/ d \in MetBy(k))
      /\ crossed' = crossed \cup UNION {IdsOf(k) \cup IdsOf(cmd[d]) :
                                          d \in MetBy(k)}
      /\ UNCHANGED <<repos, disk>>
  BY BeginIs
<1>2. \A d \in Cmds \ {c} :
        /\ PathsOf(cmd'[d]) = PathsOf(cmd[d]) /\ IdsOf(cmd[d])' = IdsOf(cmd[d])
        /\ cmd'[d].owner = cmd[d].owner /\ cmd'[d].kind = cmd[d].kind
        /\ Under(d)' = Under(d)
  <2> TAKE d \in Cmds \ {c}
  <2>1. SameButOver(cmd'[d], cmd[d])
    BY <1>1
  <2>2. IdsOf(cmd[d])' = IdsOf(cmd'[d])
    BY <1>1 DEF IdsOf, RenamedBy, OwnedBy, Exists, PathsOf
  <2> QED
    BY <2>1, <2>2, SameHands DEF SameButOver, Under
<1>3. /\ PathsOf(cmd'[c]) = PathsOf(k) /\ IdsOf(cmd[c])' = IdsOf(k)
      /\ cmd'[c].owner = k.owner /\ cmd'[c].kind = k.kind
  <2>2. IdsOf(cmd[c])' = IdsOf(cmd'[c])
    BY <1>1 DEF IdsOf, RenamedBy, OwnedBy, Exists, PathsOf
  <2> QED
    BY <1>1, <2>2, SameHands DEF SameButOver
<1>4. \A d, e \in Cmds \ {c} : SamePlace(cmd[d], cmd[e])' = SamePlace(cmd[d], cmd[e])
  BY <1>2 DEF SamePlace, PathsOf
<1>5. \A d \in Cmds \ {c} : /\ SamePlace(cmd[c], cmd[d])' => SamePlace(k, cmd[d])
                            /\ SamePlace(cmd[d], cmd[c])' => SamePlace(k, cmd[d])
  <2> TAKE d \in Cmds \ {c}
  <2>1. SamePlace(cmd'[c], cmd'[d]) \/ SamePlace(cmd'[d], cmd'[c])
          => SamePlace(k, cmd[d])
    BY <1>2, <1>3 DEF SamePlace
  <2> QED
    BY <2>1 DEF SamePlace, PathsOf
<1>6. ClashIsOver'
  <2> SUFFICES ASSUME NEW d \in Cmds, NEW e \in Cmds, d # e, Under(d)', Under(e)',
                      SamePlace(cmd[d], cmd[e])'
               PROVE  cmd'[d].over /\ cmd'[e].over
    BY DEF ClashIsOver
  <2>1. CASE d = c
    BY <1>2, <1>5, <2>1, MetIs
  <2>2. CASE e = c
    BY <1>2, <1>5, <2>2, MetIs
  <2>3. CASE d # c /\ e # c
    <3>1. Under(d) /\ Under(e) /\ SamePlace(cmd[d], cmd[e])
      BY <1>2, <1>4, <2>3
    <3>2. cmd[d].over /\ cmd[e].over
      BY <3>1 DEF CrossingsKnown, ClashIsOver
    <3>3. /\ cmd'[d].over = (cmd[d].over \/ d \in MetBy(k))
          /\ cmd'[e].over = (cmd[e].over \/ e \in MetBy(k))
      BY <1>1, <2>3
    <3> QED
      BY <3>2, <3>3
  <2> QED
    BY <2>1, <2>2, <2>3
<1>7. OverIsCrossed'
  <2> SUFFICES ASSUME NEW d \in Cmds, Under(d)', cmd'[d].over
               PROVE  IdsOf(cmd[d])' \subseteq crossed'
    BY DEF OverIsCrossed
  <2>1. CASE d = c
    <3>1. PICK e \in MetBy(k) : TRUE
      BY <1>1, <2>1
    <3> QED
      BY <1>1, <1>3, <2>1, <3>1
  <2>2. CASE d # c /\ d \in MetBy(k)
    BY <1>1, <1>2, <2>2
  <2>3. CASE d # c /\ d \notin MetBy(k)
    BY <1>1, <1>2, <2>3 DEF CrossingsKnown, OverIsCrossed
  <2> QED
    BY <2>1, <2>2, <2>3
<1>8. SharedIsCrossed'
  <2> SUFFICES ASSUME NEW d \in Cmds, NEW e \in Cmds, d # e, Under(d)', Under(e)',
                      NEW r \in IdsOf(cmd[d])', r \in IdsOf(cmd[e])'
               PROVE  r \in crossed'
    BY DEF SharedIsCrossed
  <2>1. CASE d = c
    <3>1. r \in IdsOf(k) /\ r \in IdsOf(cmd[e]) /\ Under(e) /\ e \in Cmds \ {c}
      BY <1>2, <1>3, <2>1
    <3> QED
      BY <3>1, MetIs
  <2>2. CASE e = c
    <3>1. r \in IdsOf(k) /\ r \in IdsOf(cmd[d]) /\ Under(d) /\ d \in Cmds \ {c}
      BY <1>2, <1>3, <2>2
    <3> QED
      BY <3>1, MetIs
  <2>3. CASE d # c /\ e # c
    BY <1>1, <1>2, <2>3 DEF CrossingsKnown, SharedIsCrossed
  <2> QED
    BY <2>1, <2>2, <2>3
<1> QED
  BY <1>6, <1>7, <1>8 DEF CrossingsKnown

LEMMA BeginPlaces ==
    ASSUME Ground, CrossingsKnown, PlacesKnown, NEW c \in Cmds, NEW k, Fresh(k),
           Begin(c, k)
    PROVE  PlacesKnown'
<1>1. /\ cmd[c] = NoCmd /\ SameButOver(cmd'[c], k)
      /\ \A d \in Cmds \ {c} :
           /\ SameButOver(cmd'[d], cmd[d])
           /\ cmd'[d].over = (cmd[d].over \/ d \in MetBy(k))
      /\ crossed \subseteq crossed' /\ UNCHANGED <<repos, ownerName, disk>>
  BY BeginIs
<1>2. \A r \in DirIds : Kept(r)' => /\ Kept(r) /\ PathOf(r)' = PathOf(r) /\ Exists(r)
                                    /\ r # Nil /\ r \notin crossed'
  BY <1>1, DirectoryAssumption DEF Kept, Exists, PathOf
<1>3. \* What the new command is about is about to nobody.
      ASSUME NEW r \in DirIds, Kept(r)', r \in IdsOf(k)
      PROVE  Free(r) /\ disk[PathOf(r)] = r
  <2>1. Kept(r) /\ r # Nil /\ DirectoryTypeOK
    BY <1>2, <1>3 DEF Ground
  <2>2. ASSUME NEW d \in Cmds, cmd[d].id = r \/ Renames(d, r) PROVE FALSE
    <3>1. d # c
      BY <1>1, <2>1, <2>2, DirectoryAssumption DEF NoCmd, Renames, Kinds
    <3>2. Under(d)
      <4>1. cmd[d].id = r => cmd[d] # NoCmd
        BY <2>1 DEF NoCmd
      <4>2. Renames(d, r) => Under(d)
        BY OrgRenameIs DEF Renames
      <4>3. Shape(cmd[d])
        BY DEF Ground
      <4> QED
        BY <2>2, <4>1, <4>2, <4>3
        DEF Shape, MadeShape, TransferShape, RenameShape, OrgRenameShape,
            DeleteShape, Under
    <3>3. r \in IdsOf(cmd[d])
      BY <2>1, <2>2, IdsAre DEF Renames, OwnedBy, Kept
    <3>4. IdsOf(k) \subseteq crossed'
      BY <1>3, <3>1, <3>2, <3>3, MetIs
    <3> QED
      BY <1>2, <1>3, <3>4
  <2>3. Free(r)
    BY <2>2 DEF Free
  <2> QED
    BY <2>1, <2>3 DEF PlacesKnown, FilesAreWhere
<1>4. ASSUME NEW d \in Cmds \ {c} PROVE Aims(d)' /\ Others(d)'
  <2>1. SameButOver(cmd'[d], cmd[d]) /\ (cmd[d].over => cmd'[d].over)
    BY <1>1
  <2>2. Aims(d) /\ Others(d)
    BY DEF PlacesKnown
  <2>3. Aims(d)'
    BY <1>1, <2>1, <2>2 DEF Aims, SameButOver
  <2>4. Others(d)'
    BY <1>1, <1>2, <2>1, <2>2 DEF Others, SameButOver
  <2> QED
    BY <2>3, <2>4
<1>5. /\ k \in Cmd /\ Shape(k) /\ k.at \in {"mutex", "insert", "check"}
      /\ k.id # Nil => Exists(k.id) /\ k.from = PathOf(k.id)
      /\ k.kind \in Made => k.id = Nil
      /\ k.kind \in Made \cup {"transfer"} => k.to[1] = ownerName[k.owner]
      /\ k.kind \in {"transfer", "rename", "delete"} => k.id # Nil
      /\ k.kind = "transfer" => k.at = "mutex"
      /\ k.kind = "orgrename" => k.from[1] = ownerName[k.owner]
  BY DEF Fresh
<1>6. Aims(c)'
  BY <1>1, <1>5 DEF Aims, SameButOver, Made
<1>7. Others(c)'
  <2>1. ASSUME NEW r \in DirIds, Kept(r)', r # k.id,
               k.kind \in {"transfer", "rename", "delete"}
        PROVE  PathOf(r)' # k.from
    <3>1. k.id \in DirIds /\ Exists(k.id) /\ k.from = PathOf(k.id)
      BY <1>5, <2>1 DEF Cmd
    <3>2. Exists(r) /\ PathOf(r)' = PathOf(r)
      BY <1>2, <2>1
    <3> QED
      BY <2>1, <3>1, <3>2, PathsDiffer
  <2> QED
    BY <1>1, <1>5, <2>1 DEF Others, SameButOver
<1>8. ASSUME NEW r \in DirIds, Kept(r)', cmd'[c].id = r PROVE InHand(c, r)'
  <2>1. k.id = r /\ k.kind \notin Made
    BY <1>1, <1>2, <1>5, <1>8 DEF SameButOver
  <2>2. r \in IdsOf(k)
    BY <1>2, <1>8, <2>1, IdsAre DEF Ground
  <2>3. k.from = PathOf(r) /\ disk[k.from] = r /\ PathOf(r)' = PathOf(r)
    BY <1>2, <1>3, <1>5, <1>8, <2>1, <2>2
  <2>4. ownerName[repos[r].owner] = k.from[1] /\ repos[r].name = k.from[2]
    BY <2>3 DEF PathOf
  <2> QED
    BY <1>1, <1>5, <2>3, <2>4 DEF InHand, SameButOver
<1>9. ASSUME NEW r \in DirIds, Kept(r)', Renames(c, r)'
      PROVE  (disk[OldPath(c, r)])' = r
  <2>1. k.kind = "orgrename" /\ k.owner = repos[r].owner /\ cmd'[c].from = k.from
    BY <1>1, <1>9 DEF Renames, SameButOver
  <2>2. r \in IdsOf(k)
    BY <1>2, <1>9, <2>1, IdsAre DEF Ground, OwnedBy
  <2>3. disk[PathOf(r)] = r /\ PathOf(r) = <<k.from[1], repos[r].name>>
    BY <1>3, <1>5, <1>9, <2>1, <2>2 DEF PathOf
  <2> QED
    BY <1>1, <2>1, <2>3 DEF OldPath
<1>10. ASSUME NEW r \in DirIds, Kept(r)', NEW d \in Cmds \ {c}
       PROVE  /\ cmd'[d].id = r => InHand(d, r)'
              /\ Renames(d, r)' => (disk[OldPath(d, r)])' = r
  <2>1. SameButOver(cmd'[d], cmd[d]) /\ Kept(r) /\ PathOf(r)' = PathOf(r)
    BY <1>1, <1>2, <1>10
  <2>2. /\ cmd[d].id = r => InHand(d, r)
        /\ Renames(d, r) => disk[OldPath(d, r)] = r
    BY <2>1 DEF PlacesKnown, FilesAreWhere
  <2>3. cmd'[d].id = r => InHand(d, r)'
    BY <1>1, <2>1, <2>2 DEF InHand, SameButOver
  <2>4. Renames(d, r)' => (disk[OldPath(d, r)])' = r
    BY <1>1, <2>1, <2>2 DEF Renames, OldPath, SameButOver
  <2> QED
    BY <2>3, <2>4
<1>11. ASSUME NEW r \in DirIds, Kept(r)', Free(r)' PROVE (disk[PathOf(r)])' = r
  <2>1. Kept(r) /\ PathOf(r)' = PathOf(r) /\ r # Nil
    BY <1>2, <1>11
  <2>2. ASSUME NEW d \in Cmds PROVE cmd[d].id # r /\ ~Renames(d, r)
    <3>1. CASE d = c
      BY <1>1, <2>1, <3>1, DirectoryAssumption DEF NoCmd, Renames, Kinds
    <3>2. CASE d # c
      <4>1. SameButOver(cmd'[d], cmd[d])
        BY <1>1, <3>2
      <4> QED
        BY <1>1, <1>11, <4>1 DEF Free, Renames, SameButOver
    <3> QED
      BY <3>1, <3>2
  <2>3. Free(r)
    BY <2>2 DEF Free
  <2> QED
    BY <1>1, <2>1, <2>3 DEF PlacesKnown, FilesAreWhere
<1>12. FilesAreWhere'
  <2> SUFFICES ASSUME NEW r \in DirIds, Kept(r)'
               PROVE  /\ \A d \in Cmds : cmd'[d].id = r => InHand(d, r)'
                      /\ \A d \in Cmds : Renames(d, r)' => (disk[OldPath(d, r)])' = r
                      /\ Free(r)' => (disk[PathOf(r)])' = r
    BY DEF FilesAreWhere
  <2> QED
    BY <1>8, <1>9, <1>10, <1>11
<1> QED
  BY <1>4, <1>6, <1>7, <1>12 DEF PlacesKnown

BeginStep(c) ==
    \/ \E o \in Owners, n \in Names :
         \/ \E kind \in {"create", "fork", "import"} : BeginCreate(c, kind, o, n)
         \/ BeginBundle(c, o, n)
    \/ \E r \in DirIds :
         \/ \E o \in Owners : BeginTransfer(c, r, o)
         \/ \E n \in Names : BeginRename(c, r, n)
         \/ BeginDelete(c, r)
    \/ \E o \in Owners, n \in OwnerNames : BeginOrgRename(c, o, n)

LEMMA MakingIsFresh ==
    ASSUME Ground, NEW o \in Owners, NEW n \in Names, NEW k,
           NEW kind \in Made,
           k = [NoCmd EXCEPT !.at = IF kind = "bundle" THEN "insert" ELSE "mutex",
                             !.kind = kind, !.owner = o,
                             !.to = <<ownerName[o], n>>]
    PROVE  Fresh(k)
<1>1. ownerName[o] \in OwnerNames /\ <<ownerName[o], n>> \in Paths
  BY DEF Ground, DirectoryTypeOK, Paths
<1>2. PICK at \in {"insert", "mutex"} :
        at = IF kind = "bundle" THEN "insert" ELSE "mutex"
  OBVIOUS
<1>3. k = [NoCmd EXCEPT !.at = at, !.kind = kind, !.owner = o,
                        !.to = <<ownerName[o], n>>]
  BY <1>2
<1>4. /\ k.at = at /\ k.kind = kind /\ k.owner = o /\ k.to = <<ownerName[o], n>>
      /\ k.id = Nil /\ k.from = Nil /\ k.lock = FALSE
  BY <1>3 DEF NoCmd
<1>5. k \in Cmd
  BY <1>1, <1>3 DEF NoCmd, Cmd, Made, Kinds, Paths
<1>6. Shape(k)
  BY <1>1, <1>4 DEF Shape, MadeShape
<1> QED
  BY <1>2, <1>4, <1>5, <1>6 DEF Fresh, Made

LEMMA BeginIsFresh ==
    ASSUME Ground, NEW c \in Cmds, BeginStep(c)
    PROVE  \E k \in Cmd : Fresh(k) /\ Begin(c, k)
<1>1. CASE \E o \in Owners, n \in Names, kind \in {"create", "fork", "import"} :
             BeginCreate(c, kind, o, n)
  <2>1. PICK o \in Owners, n \in Names, kind \in {"create", "fork", "import"} :
          BeginCreate(c, kind, o, n)
    BY <1>1
  <2> DEFINE k == [NoCmd EXCEPT !.at = "mutex", !.kind = kind, !.owner = o,
                                !.to = <<ownerName[o], n>>]
  <2>2. Begin(c, k)
    BY <2>1 DEF BeginCreate
  <2>3. kind \in Made /\ kind # "bundle"
    BY DEF Made
  <2>4. k = [NoCmd EXCEPT !.at = IF kind = "bundle" THEN "insert" ELSE "mutex",
                          !.kind = kind, !.owner = o, !.to = <<ownerName[o], n>>]
    BY <2>3
  <2> HIDE DEF k
  <2>5. Fresh(k)
    BY <2>3, <2>4, MakingIsFresh
  <2> QED
    BY <2>2, <2>5 DEF Fresh
<1>2. CASE \E o \in Owners, n \in Names : BeginBundle(c, o, n)
  <2>1. PICK o \in Owners, n \in Names : BeginBundle(c, o, n)
    BY <1>2
  <2> DEFINE k == [NoCmd EXCEPT !.at = "insert", !.kind = "bundle", !.owner = o,
                                !.to = <<ownerName[o], n>>]
  <2>2. Begin(c, k)
    BY <2>1 DEF BeginBundle
  <2>3. "bundle" \in Made
    BY DEF Made
  <2>4. k = [NoCmd EXCEPT !.at = IF "bundle" = "bundle" THEN "insert" ELSE "mutex",
                          !.kind = "bundle", !.owner = o,
                          !.to = <<ownerName[o], n>>]
    OBVIOUS
  <2> HIDE DEF k
  <2>5. Fresh(k)
    BY <2>3, <2>4, MakingIsFresh
  <2> QED
    BY <2>2, <2>5 DEF Fresh
<1>3. CASE \E r \in DirIds, o \in Owners : BeginTransfer(c, r, o)
  <2>1. PICK r \in DirIds, o \in Owners : BeginTransfer(c, r, o)
    BY <1>3
  <2> DEFINE k == [NoCmd EXCEPT !.at = "mutex", !.kind = "transfer", !.id = r,
                     !.owner = o, !.from = PathOf(r),
                     !.to = <<ownerName[o], repos[r].name>>]
  <2>2. Begin(c, k) /\ Exists(r) /\ repos[r].owner # o
    BY <2>1 DEF BeginTransfer
  <2>3. /\ repos[r].owner \in Owners /\ repos[r].name \in Names
        /\ PathOf(r) \in Paths /\ ownerName[o] \in OwnerNames /\ r # Nil
    BY <2>2, RowType, DirectoryAssumption DEF Ground, DirectoryTypeOK
  <2>4. /\ k.at = "mutex" /\ k.kind = "transfer" /\ k.id = r /\ k.owner = o
        /\ k.from = PathOf(r) /\ k.to = <<ownerName[o], repos[r].name>>
        /\ k.lock = FALSE
    BY DEF NoCmd
  <2>5. k \in Cmd
    BY <2>3 DEF NoCmd, Cmd, Kinds, Paths
  <2> HIDE DEF k
  <2>6. k.to \in Paths /\ k.from[2] = k.to[2] /\ k.from[1] # k.to[1]
    BY <2>2, <2>3, <2>4 DEF Paths, PathOf, Ground, NamesDiffer
  <2>7. Shape(k)
    BY <2>3, <2>4, <2>6 DEF Shape, TransferShape
  <2>8. Fresh(k)
    BY <2>2, <2>3, <2>4, <2>5, <2>7 DEF Fresh, Made
  <2> QED
    BY <2>2, <2>5, <2>8
<1>4. CASE \E r \in DirIds, n \in Names : BeginRename(c, r, n)
  <2>1. PICK r \in DirIds, n \in Names : BeginRename(c, r, n)
    BY <1>4
  <2> DEFINE k == [NoCmd EXCEPT !.at = "check", !.kind = "rename", !.id = r,
                     !.owner = repos[r].owner, !.from = PathOf(r),
                     !.to = <<PathOf(r)[1], n>>]
  <2>2. Begin(c, k) /\ Exists(r) /\ repos[r].name # n
    BY <2>1 DEF BeginRename
  <2>3. /\ repos[r].owner \in Owners /\ repos[r].name \in Names
        /\ PathOf(r) \in Paths /\ r # Nil
    BY <2>2, RowType, DirectoryAssumption
  <2>4. /\ k.at = "check" /\ k.kind = "rename" /\ k.id = r
        /\ k.owner = repos[r].owner
        /\ k.from = PathOf(r) /\ k.to = <<PathOf(r)[1], n>>
        /\ k.lock = FALSE
    BY DEF NoCmd
  <2>5. k \in Cmd
    BY <2>3 DEF NoCmd, Cmd, Kinds, Paths
  <2> HIDE DEF k
  <2>6. k.to \in Paths /\ k.from[1] = k.to[1] /\ k.from[2] # k.to[2]
    BY <2>2, <2>3, <2>4 DEF Paths, PathOf
  <2>7. Shape(k)
    BY <2>3, <2>4, <2>6 DEF Shape, RenameShape
  <2>8. Fresh(k)
    BY <2>2, <2>3, <2>4, <2>5, <2>7 DEF Fresh, Made
  <2> QED
    BY <2>2, <2>5, <2>8
<1>5. CASE \E r \in DirIds : BeginDelete(c, r)
  <2>1. PICK r \in DirIds : BeginDelete(c, r)
    BY <1>5
  <2> DEFINE k == [NoCmd EXCEPT !.at = "check", !.kind = "delete", !.id = r,
                                !.from = PathOf(r)]
  <2>2. Begin(c, k) /\ Exists(r)
    BY <2>1 DEF BeginDelete
  <2>3. PathOf(r) \in Paths /\ r # Nil
    BY <2>2, RowType, DirectoryAssumption
  <2>4. /\ k.at = "check" /\ k.kind = "delete" /\ k.id = r /\ k.owner = Nil
        /\ k.from = PathOf(r) /\ k.to = Nil /\ k.lock = FALSE
    BY DEF NoCmd
  <2>5. k \in Cmd
    BY <2>3 DEF NoCmd, Cmd, Kinds, Paths
  <2> HIDE DEF k
  <2>7. Shape(k)
    BY <2>3, <2>4 DEF Shape, DeleteShape
  <2>8. Fresh(k)
    BY <2>2, <2>3, <2>4, <2>5, <2>7 DEF Fresh, Made
  <2> QED
    BY <2>2, <2>5, <2>8
<1>6. CASE \E o \in Owners, n \in OwnerNames : BeginOrgRename(c, o, n)
  <2>1. PICK o \in Owners, n \in OwnerNames : BeginOrgRename(c, o, n)
    BY <1>6
  <2> DEFINE k == [NoCmd EXCEPT !.at = "check", !.kind = "orgrename",
                     !.owner = o, !.from = <<ownerName[o], Nil>>, !.to = <<n, Nil>>]
  <2>2. Begin(c, k) /\ n # ownerName[o]
    BY <2>1 DEF BeginOrgRename
  <2>3. ownerName[o] \in OwnerNames
    BY DEF Ground, DirectoryTypeOK
  <2>4. /\ k.at = "check" /\ k.kind = "orgrename" /\ k.id = Nil /\ k.owner = o
        /\ k.from = <<ownerName[o], Nil>> /\ k.to = <<n, Nil>> /\ k.lock = FALSE
    BY DEF NoCmd
  <2>5. k \in Cmd
    BY <2>3 DEF NoCmd, Cmd, Kinds
  <2> HIDE DEF k
  <2>7. Shape(k)
    BY <2>2, <2>3, <2>4 DEF Shape, OrgRenameShape
  <2>8. Fresh(k)
    BY <2>2, <2>3, <2>4, <2>5, <2>7 DEF Fresh, Made
  <2> QED
    BY <2>2, <2>5, <2>8
<1> QED
  BY <1>1, <1>2, <1>3, <1>4, <1>5, <1>6 DEF BeginStep

LEMMA BeginKeeps ==
    ASSUME Ground, CrossingsKnown, PlacesKnown, NEW c \in Cmds, BeginStep(c)
    PROVE  Ground' /\ CrossingsKnown' /\ PlacesKnown'
<1>1. PICK k \in Cmd : Fresh(k) /\ Begin(c, k)
  BY BeginIsFresh
<1> QED
  BY <1>1, BeginGround, BeginCrosses, BeginPlaces

-----------------------------------------------------------------------------
(* The backup *)

BackupStep == BackupHold \/ Snapshot \/ BackupDone \/ \E p \in Paths : ArchiveDir(p)

\* Rows, files and commands that stay as they are.
LEMMA NothingMoves ==
    ASSUME Ground, CrossingsKnown, PlacesKnown, DirectoryTypeOK',
           UNCHANGED <<repos, ownerName, disk, cmd, crossed>>
    PROVE  Ground' /\ CrossingsKnown' /\ PlacesKnown'
<1>1. Ground'
  <2>1. \A c \in Cmds : Shape(cmd[c])'
    BY DEF Ground, Shape, MadeShape, TransferShape, RenameShape, OrgRenameShape,
       DeleteShape
  <2>2. /\ RowShape' /\ NamesDiffer' /\ FilesKnown' /\ OneCopy' /\ IdKnown'
        /\ NotYetMade' /\ RowIsGone'
    BY DEF Ground, RowShape, NamesDiffer, FilesKnown, OneCopy, IdKnown, NotYetMade,
       RowIsGone, Exists
  <2> QED
    BY <2>1, <2>2 DEF Ground
<1>2. CrossingsKnown'
  BY DEF CrossingsKnown, ClashIsOver, OverIsCrossed, SharedIsCrossed, SamePlace,
     PathsOf, IdsOf, RenamedBy, OwnedBy, Exists, Under
<1>3. PlacesKnown'
  <2>1. \A c \in Cmds : Aims(c)' = Aims(c) /\ Others(c)' = Others(c)
    BY DEF Aims, Others, Kept, Exists, PathOf
  <2>2. \A r \in DirIds :
          /\ Kept(r)' = Kept(r) /\ Free(r)' = Free(r) /\ PathOf(r)' = PathOf(r)
          /\ \A c \in Cmds : /\ InHand(c, r)' = InHand(c, r)
                             /\ Renames(c, r)' = Renames(c, r)
                             /\ OldPath(c, r)' = OldPath(c, r)
    BY DEF Kept, Exists, Free, PathOf, InHand, Renames, OldPath
  <2>3. FilesAreWhere'
    BY <2>2 DEF PlacesKnown, FilesAreWhere
  <2> QED
    BY <2>1, <2>3 DEF PlacesKnown
<1> QED
  BY <1>1, <1>2, <1>3

LEMMA BackupGround ==
    ASSUME Ground, CrossingsKnown, PlacesKnown, BackupStep
    PROVE  Ground' /\ CrossingsKnown' /\ PlacesKnown'
<1>1. UNCHANGED <<repos, ownerName, disk, cmd, createMu, bundled, crossed, dirOps,
                  dirFaults>>
  BY DEF BackupStep, BackupHold, Snapshot, BackupDone, ArchiveDir
<1>2. backups' \in 0..MaxBackups
  <2>1. backups \in 0..MaxBackups /\ MaxBackups \in Nat
    BY DirectoryAssumption DEF Ground, DirectoryTypeOK
  <2>2. CASE BackupHold
    <3>1. backups < MaxBackups /\ backups' = backups + 1
      BY <2>2 DEF BackupHold
    <3> QED
      BY <2>1, <3>1
  <2>3. CASE ~BackupHold
    <3>1. backups' = backups
      BY <2>3 DEF BackupStep, Snapshot, BackupDone, ArchiveDir
    <3> QED
      BY <2>1, <3>1
  <2> QED
    BY <2>2, <2>3
<1>3. backup' \in Backup
  <2>1. backup \in Backup /\ disk \in [Paths -> DirIds \cup {Nil}]
    BY DEF Ground, DirectoryTypeOK
  <2>2. CASE BackupHold
    BY <2>2 DEF BackupHold, NoBackup, Backup
  <2>3. CASE Snapshot
    BY <2>3 DEF Snapshot, Backup
  <2>4. CASE BackupDone
    BY <2>1, <2>4 DEF BackupDone, Backup
  <2>5. ASSUME NEW p \in Paths, ArchiveDir(p) PROVE backup' \in Backup
    <3>1. backup' = [backup EXCEPT !.todo = @ \ {p},
                                   !.archived = @ \cup ({disk[p]} \ {Nil})]
      BY <2>5 DEF ArchiveDir
    <3>2. disk[p] \in DirIds \cup {Nil}
      BY <2>1
    <3> QED
      BY <2>1, <3>1, <3>2 DEF Backup
  <2> QED
    BY <2>2, <2>3, <2>4, <2>5 DEF BackupStep
<1>4. DirectoryTypeOK'
  BY <1>1, <1>2, <1>3 DEF Ground, DirectoryTypeOK
<1> QED
  BY <1>1, <1>4, NothingMoves

\* Who holds the lock.
LockGoes(c) ==
    /\ cmd'[c].lock => cmd[c].lock \/ backup.at \in {"idle", "done"}
    /\ cmd'[c].at \in {"move", "record", "back", "revert", "remove"} => cmd'[c].lock

LEMMA StepLocks ==
    ASSUME Ground, LocksHeld, NEW c \in Cmds, CmdStep(c)
    PROVE  LockGoes(c)
<1>1. DirectoryTypeOK
  BY DEF Ground
<1>2. CASE CmdEnds(c)
  BY <1>1, <1>2, EndIs DEF LockGoes, NoCmd
<1>3. ASSUME NEW at \in Ats, Step(c, at),
             at \in {"move", "record", "back", "revert", "remove"}
               => cmd[c].at \in {"move", "record", "back", "revert", "remove"}
      PROVE  LockGoes(c)
  BY <1>1, <1>3, StepIs DEF LockGoes, LocksHeld
<1>4. ASSUME NEW at \in Ats, LockFree,
             cmd' = [cmd EXCEPT ![c].lock = TRUE, ![c].at = at]
      PROVE  LockGoes(c)
  BY <1>1, <1>4, LockIs DEF LockGoes, LockFree
<1>5. CASE TakeMutex(c)
  <2>1. PICK at \in {"check", "insert"} :
          at = IF cmd[c].kind = "transfer" THEN "check" ELSE "insert"
    OBVIOUS
  <2>2. Step(c, at) /\ at \in Ats
    BY <1>5, <2>1 DEF TakeMutex, Ats
  <2>3. at \notin {"move", "record", "back", "revert", "remove"}
    BY <2>1
  <2> QED
    BY <1>3, <2>2, <2>3
<1>6. CASE CountQuota(c) /\ ~CmdEnds(c)
  <2>1. cmd' = [cmd EXCEPT ![c].from = cmd[c].to] /\ cmd \in [Cmds -> Cmd]
        /\ cmd[c].at = "insert"
    BY <1>1, <1>6 DEF CountQuota, DirectoryTypeOK
  <2>2. cmd'[c].at = cmd[c].at /\ cmd'[c].lock = cmd[c].lock
    BY <2>1 DEF Cmd
  <2> QED
    BY <2>1, <2>2 DEF LockGoes
<1>7. CASE CreateRow(c) /\ ~CmdEnds(c)
  <2>1. PICK r \in DirIds : cmd' = [cmd EXCEPT ![c].at = "init", ![c].id = r]
    BY <1>7 DEF CreateRow
  <2>2. cmd \in [Cmds -> Cmd]
    BY <1>1 DEF DirectoryTypeOK
  <2>3. cmd'[c].at = "init" /\ cmd'[c].lock = cmd[c].lock
    BY <2>1, <2>2 DEF Cmd
  <2> QED
    BY <2>3 DEF LockGoes
<1>8. CASE InitBare(c) \/ FetchRefs(c) \/ Unmake(c)
  <2>1. CmdEnds(c) \/ Step(c, "fetch") \/ Step(c, "unmake") \/ Step(c, "clean")
    BY <1>8 DEF InitBare, FetchRefs, Unmake
  <2> QED
    BY <1>2, <1>3, <2>1 DEF Ats
<1>9. CASE CleanImport(c) \/ TransferBack(c) \/ RenameRevert(c)
           \/ OrgRenameRevert(c) \/ DeleteDir(c)
  BY <1>2, <1>9 DEF CleanImport, TransferBack, RenameRevert, OrgRenameRevert, DeleteDir
<1>10. CASE CheckMove(c)
  <2>1. CASE ~CmdEnds(c)
    <3>1. PICK at \in {"move", "record"} :
            LockFree /\ cmd' = [cmd EXCEPT ![c].lock = TRUE, ![c].at = at]
      BY <1>10, <2>1 DEF CheckMove
    <3> QED
      BY <1>4, <3>1 DEF Ats
  <2> QED
    BY <1>2, <2>1
<1>11. CASE CheckOrgRename(c) \/ CheckDelete(c)
  <2>1. \/ CmdEnds(c)
        \/ LockFree /\ cmd' = [cmd EXCEPT ![c].lock = TRUE, ![c].at = "record"]
    BY <1>11 DEF CheckOrgRename, CheckDelete
  <2> QED
    BY <1>2, <1>4, <2>1 DEF Ats
<1>12. CASE TransferDir(c)
  BY <1>2, <1>3, <1>12 DEF TransferDir, Ats
<1>13. CASE TransferRow(c)
  BY <1>2, <1>3, <1>13 DEF TransferRow, Ats
<1>14. CASE RenameRow(c)
  BY <1>2, <1>3, <1>14 DEF RenameRow, Ats
<1>15. CASE RenameDir(c)
  BY <1>2, <1>3, <1>15 DEF RenameDir, Ats
<1>16. CASE OrgRenameRow(c)
  BY <1>2, <1>3, <1>16 DEF OrgRenameRow, Ats
<1>17. CASE OrgRenameTree(c)
  BY <1>2, <1>3, <1>17 DEF OrgRenameTree, Ats
<1>18. CASE DeleteRow(c)
  BY <1>2, <1>3, <1>18 DEF DeleteRow, Ats
<1> QED
  BY <1>2, <1>5, <1>6, <1>7, <1>8, <1>9, <1>10, <1>11, <1>12, <1>13, <1>14, <1>15,
     <1>16, <1>17, <1>18 DEF CmdStep

\* While a backup walks, commands only make repositories or are refused.
WalkGoes(c) ==
    /\ \A p \in Paths : disk'[p] = disk[p] \/ disk[p] = Nil
                        \/ disk[p] \in crossed' \/ disk[p] = cmd[c].id
    /\ cmd[c].kind \notin Made => disk' = disk
    /\ \A r \in DirIds : repos[r].is # "none" =>
         repos'[r].is # "none" /\ (cmd'[c].id = r => cmd[c].id = r)
    /\ cmd'[c] # NoCmd => cmd'[c].kind = cmd[c].kind

LEMMA StepWalks ==
    ASSUME Ground, LocksHeld, backup.at = "walk", NEW c \in Cmds, CmdStep(c)
    PROVE  WalkGoes(c)
<1>1. /\ cmd[c].at \notin {"move", "record", "back", "revert", "remove"} /\ ~LockFree
      /\ DirectoryTypeOK /\ Shape(cmd[c]) /\ Work(c) /\ Ground'
  BY StepWorks DEF LocksHeld, LockFree, Ground
<1>2. cmd[c].id # Nil => repos[cmd[c].id].is # "none"
  BY DEF Ground, IdKnown
<1>3. /\ cmd'[c] # NoCmd => cmd'[c].kind = cmd[c].kind
      /\ \A r \in DirIds : repos[r].is # "none" =>
           (cmd'[c].id = r => cmd[c].id = r)
  BY <1>1, DirectoryAssumption DEF Work, NoCmd
<1>4. CASE UNCHANGED <<repos, disk>>
  BY <1>3, <1>4 DEF WalkGoes
<1>5. CASE CreateRow(c)
  <2>1. disk' = disk /\ repos \in [DirIds -> Repo]
    BY <1>1, <1>5 DEF CreateRow, DirectoryTypeOK
  <2>2. \A r \in DirIds : repos[r].is # "none" => repos'[r].is # "none"
    <3>1. CASE repos' = repos
      BY <3>1
    <3>2. CASE repos' # repos
      <4>1. PICK n \in DirIds :
              repos' = [repos EXCEPT ![n] = [is |-> "here", owner |-> cmd[c].owner,
                                             name |-> cmd[c].to[2]]]
        BY <1>5, <3>2 DEF CreateRow
      <4> QED
        BY <2>1, <4>1
    <3> QED
      BY <3>1, <3>2
  <2> QED
    BY <1>3, <2>1, <2>2 DEF WalkGoes
<1>6. CASE InitBare(c)
  <2>1. repos' = repos /\ cmd[c].at = "init" /\ disk \in [Paths -> DirIds \cup {Nil}]
    BY <1>1, <1>6 DEF InitBare, DirectoryTypeOK
  <2>2. cmd[c].kind \in Made
    BY <1>1, <2>1 DEF Shape, NoCmd, TransferShape, RenameShape, OrgRenameShape,
       DeleteShape
  <2>3. \A p \in Paths : disk'[p] = disk[p] \/ disk[p] = Nil
    BY <1>6, <2>1 DEF InitBare
  <2> QED
    BY <1>3, <2>1, <2>2, <2>3 DEF WalkGoes
<1>7. CASE Unmake(c)
  <2>1. disk' = disk /\ repos \in [DirIds -> Repo]
        /\ repos' = [repos EXCEPT ![cmd[c].id] = [NoRepo EXCEPT !.is = "gone"]]
    BY <1>1, <1>7 DEF Unmake, DirectoryTypeOK
  <2>2. \A r \in DirIds : repos[r].is # "none" => repos'[r].is # "none"
    BY <2>1 DEF NoRepo
  <2> QED
    BY <1>3, <2>1, <2>2 DEF WalkGoes
<1>8. CASE CleanImport(c)
  <2>1. /\ repos' = repos /\ cmd[c].at = "clean" /\ RemoveDir(c, cmd[c].to)
        /\ disk \in [Paths -> DirIds \cup {Nil}]
    BY <1>1, <1>8 DEF CleanImport, DirectoryTypeOK
  <2>2. cmd[c].kind \in Made
    BY <1>1, <2>1 DEF Shape, NoCmd, TransferShape, RenameShape, OrgRenameShape,
       DeleteShape
  <2>3. \A p \in Paths : disk'[p] = disk[p] \/ disk[p] = Nil
                         \/ disk[p] \in crossed' \/ disk[p] = cmd[c].id
    BY <2>1 DEF RemoveDir
  <2> QED
    BY <1>3, <2>1, <2>2, <2>3 DEF WalkGoes
<1>9. CASE CheckMove(c) \/ CheckOrgRename(c) \/ CheckDelete(c) \/ TakeMutex(c)
           \/ CountQuota(c) \/ FetchRefs(c)
  BY <1>4, <1>9 DEF CheckMove, CheckOrgRename, CheckDelete, TakeMutex, CountQuota,
     FetchRefs
<1>10. ~(\/ TransferDir(c) \/ TransferRow(c) \/ TransferBack(c) \/ RenameRow(c)
         \/ RenameDir(c) \/ RenameRevert(c) \/ OrgRenameRow(c) \/ OrgRenameTree(c)
         \/ OrgRenameRevert(c) \/ DeleteRow(c) \/ DeleteDir(c))
  BY <1>1 DEF TransferDir, TransferRow, TransferBack, RenameRow, RenameDir,
     RenameRevert, OrgRenameRow, OrgRenameTree, OrgRenameRevert, DeleteRow, DeleteDir
<1> QED
  BY <1>5, <1>6, <1>7, <1>8, <1>9, <1>10 DEF CmdStep

LEMMA StepBacksUp ==
    ASSUME Ground, BackupInOrder, NEW c \in Cmds, CmdStep(c)
    PROVE  BackupInOrder'
<1>1. /\ LockGoes(c) /\ backup' = backup /\ crossed \subseteq crossed'
      /\ \A d \in Cmds \ {c} : cmd'[d] = cmd[d]
  <2>1. LockGoes(c) /\ Work(c)
    BY StepLocks, StepWorks DEF BackupInOrder
  <2>2. backup' = backup
    BY DEF CmdStep, TakeMutex, CountQuota, CreateRow, InitBare, FetchRefs, Unmake,
       CleanImport, CheckMove, TransferDir, TransferRow, TransferBack, RenameRow,
       RenameDir, RenameRevert, CheckOrgRename, OrgRenameRow, OrgRenameTree,
       OrgRenameRevert, CheckDelete, DeleteRow, DeleteDir
  <2> QED
    BY <2>1, <2>2 DEF Work
<1>2. LocksHeld'
  BY <1>1 DEF BackupInOrder, LocksHeld, LockGoes
<1>3. WalkFinds'
  <2> SUFFICES ASSUME backup.at = "walk", NEW r \in backup.named
               PROVE  /\ r \notin crossed' => OnTheWay(r)'
                      /\ repos'[r].is # "none"
                      /\ \A d \in Cmds : cmd'[d].kind \in Made => cmd'[d].id # r
    BY <1>1 DEF WalkFinds
  <2>1. /\ r \notin crossed => OnTheWay(r)
        /\ repos[r].is # "none"
        /\ \A d \in Cmds : cmd[d].kind \in Made => cmd[d].id # r
    BY DEF BackupInOrder, WalkFinds
  <2>2. r \in DirIds /\ r # Nil /\ backup.todo \subseteq Paths
    BY DirectoryAssumption DEF Ground, DirectoryTypeOK, Backup
  <2>3. WalkGoes(c)
    BY StepWalks DEF BackupInOrder
  <2>4. ASSUME r \notin crossed' PROVE OnTheWay(r)'
    <3>1. CASE r \in backup.archived
      BY <1>1, <3>1 DEF OnTheWay
    <3>2. CASE \E p \in backup.todo : disk[p] = r
      <4>1. PICK p \in backup.todo : disk[p] = r
        BY <3>2
      <4>2. disk'[p] = r
        <5>1. CASE cmd[c].kind \in Made
          <6>1. cmd[c].id # r
            BY <2>1, <5>1
          <6> QED
            BY <2>2, <2>3, <2>4, <4>1, <6>1 DEF WalkGoes
        <5>2. CASE cmd[c].kind \notin Made
          BY <2>3, <4>1, <5>2 DEF WalkGoes
        <5> QED
          BY <5>1, <5>2
      <4> QED
        BY <1>1, <4>2 DEF OnTheWay
    <3> QED
      BY <1>1, <2>1, <2>4, <3>1, <3>2 DEF OnTheWay
  <2>5. repos'[r].is # "none"
    BY <2>1, <2>2, <2>3 DEF WalkGoes
  <2>6. ASSUME NEW d \in Cmds, cmd'[d].kind \in Made PROVE cmd'[d].id # r
    <3>1. CASE d # c
      BY <1>1, <2>1, <2>6, <3>1
    <3>2. CASE d = c
      <4>1. cmd'[c] # NoCmd
        BY <2>6, <3>2, DirectoryAssumption DEF NoCmd, Made, Kinds
      <4> QED
        BY <2>1, <2>2, <2>3, <2>6, <3>2, <4>1 DEF WalkGoes
    <3> QED
      BY <3>1, <3>2
  <2> QED
    BY <2>4, <2>5, <2>6
<1>4. BackupHasWhatItNames'
  BY <1>1 DEF BackupInOrder, BackupHasWhatItNames
<1> QED
  BY <1>2, <1>3, <1>4 DEF BackupInOrder

LEMMA BeginBacksUp ==
    ASSUME Ground, BackupInOrder, NEW c \in Cmds, BeginStep(c)
    PROVE  BackupInOrder'
<1>1. PICK k \in Cmd : Fresh(k) /\ Begin(c, k)
  BY BeginIsFresh
<1>2. /\ SameButOver(cmd'[c], k) /\ crossed \subseteq crossed'
      /\ \A d \in Cmds \ {c} : SameButOver(cmd'[d], cmd[d])
      /\ UNCHANGED <<repos, disk, backup>>
  BY <1>1, BeginIs
<1>3. /\ k.at \in {"mutex", "insert", "check"} /\ k.lock = FALSE
      /\ k.kind \in Made => k.id = Nil
  BY <1>1 DEF Fresh
<1>4. LocksHeld'
  BY <1>2, <1>3 DEF BackupInOrder, LocksHeld, SameButOver
<1>5. WalkFinds'
  <2> SUFFICES ASSUME backup.at = "walk", NEW r \in backup.named
               PROVE  /\ r \notin crossed' => OnTheWay(r)'
                      /\ repos'[r].is # "none"
                      /\ \A d \in Cmds : cmd'[d].kind \in Made => cmd'[d].id # r
    BY <1>2 DEF WalkFinds
  <2>1. /\ r \notin crossed => OnTheWay(r)
        /\ repos[r].is # "none"
        /\ \A d \in Cmds : cmd[d].kind \in Made => cmd[d].id # r
    BY DEF BackupInOrder, WalkFinds
  <2>2. r # Nil
    BY DirectoryAssumption DEF Ground, DirectoryTypeOK, Backup
  <2>3. OnTheWay(r)' = OnTheWay(r)
    BY <1>2 DEF OnTheWay
  <2> QED
    BY <1>2, <1>3, <2>1, <2>2, <2>3 DEF SameButOver
<1>6. BackupHasWhatItNames'
  BY <1>2 DEF BackupInOrder, BackupHasWhatItNames
<1> QED
  BY <1>4, <1>5, <1>6 DEF BackupInOrder

\* What the snapshot names is somewhere on the disk, unless it crossed.
LEMMA NamedIsThere ==
    ASSUME Ground, CrossingsKnown, PlacesKnown, LocksHeld, backup.at = "held",
           NEW r \in DirIds, Kept(r), r \notin Making
    PROVE  disk[PathOf(r)] = r
<1>1. CASE Free(r)
  BY <1>1 DEF PlacesKnown, FilesAreWhere
<1>2. CASE ~Free(r)
  <2>1. PICK c \in Cmds : cmd[c].id = r \/ Renames(c, r)
    BY <1>2 DEF Free
  <2>2. /\ Shape(cmd[c]) /\ r # Nil /\ Exists(r)
        /\ cmd[c].at \notin {"move", "record", "back", "revert", "remove"}
    BY DirectoryAssumption DEF Ground, LocksHeld, Kept
  <2>3. cmd[c] # NoCmd
    BY <2>1, <2>2, DirectoryAssumption DEF NoCmd, Renames, Kinds
  <2>4. cmd[c].id = r => cmd[c].at \notin {"init", "fetch", "unmake", "clean"}
    BY <2>2 DEF Making, Ground, RowIsGone, Exists
  <2>5. Resting(cmd[c]) /\ Under(c)
    BY <2>1, <2>2, <2>3, <2>4, DirectoryAssumption
    DEF Shape, MadeShape, TransferShape, RenameShape, OrgRenameShape, DeleteShape,
        Resting, Renames, Made, Under
  <2> QED
    BY <2>1, <2>5, RestsHere
<1> QED
  BY <1>1, <1>2

LEMMA BackupGoesOn ==
    ASSUME Ground, CrossingsKnown, PlacesKnown, BackupInOrder, BackupStep
    PROVE  BackupInOrder'
<1>1. /\ UNCHANGED <<repos, disk, cmd, crossed>> /\ LocksHeld /\ WalkFinds
      /\ BackupHasWhatItNames /\ backup \in Backup
      /\ disk \in [Paths -> DirIds \cup {Nil}]
  BY DEF BackupStep, BackupHold, Snapshot, BackupDone, ArchiveDir, BackupInOrder,
     Ground, DirectoryTypeOK
<1>2. CASE BackupHold
  <2>1. backup'.at = "held" /\ \A c \in Cmds : ~cmd[c].lock
    BY <1>2 DEF BackupHold, NoBackup
  <2> QED
    BY <1>1, <2>1 DEF BackupInOrder, LocksHeld, WalkFinds, BackupHasWhatItNames
<1>3. CASE Snapshot
  <2>1. /\ backup.at = "held" /\ backup'.at = "walk" /\ backup'.archived = {}
        /\ backup'.named = {r \in DirIds : Exists(r)} \ Making
        /\ backup'.todo = {p \in Paths : disk[p] # Nil}
    BY <1>3 DEF Snapshot
  <2>2. LocksHeld' /\ BackupHasWhatItNames'
    BY <1>1, <2>1 DEF LocksHeld, BackupHasWhatItNames
  <2>3. ASSUME NEW r \in backup'.named
        PROVE  /\ r \notin crossed => \E p \in backup'.todo : disk[p] = r
               /\ repos[r].is # "none"
               /\ \A c \in Cmds : cmd[c].kind \in Made => cmd[c].id # r
    <3>1. r \in DirIds /\ Exists(r) /\ r \notin Making /\ r # Nil
      BY <2>1, DirectoryAssumption
    <3>2. ASSUME r \notin crossed PROVE \E p \in backup'.todo : disk[p] = r
      <4>1. disk[PathOf(r)] = r /\ PathOf(r) \in Paths
        BY <1>1, <2>1, <3>1, <3>2, NamedIsThere, RowType DEF Kept
      <4> QED
        BY <2>1, <3>1, <4>1
    <3>3. ASSUME NEW c \in Cmds, cmd[c].kind \in Made, cmd[c].id = r
          PROVE  FALSE
      <4>1. Shape(cmd[c]) /\ cmd[c] # NoCmd
        BY <3>1, <3>3 DEF Ground, NoCmd
      <4>2. MadeShape(cmd[c])
        BY <3>3, <4>1 DEF Shape, Made
      <4>3. cmd[c].at \in {"init", "fetch", "unmake", "clean"}
        BY <3>1, <3>3, <4>2 DEF MadeShape
      <4> QED
        BY <3>1, <3>3, <4>3 DEF Making, Ground, RowIsGone, Exists
    <3> QED
      BY <3>1, <3>2, <3>3 DEF Exists
  <2>4. WalkFinds'
    BY <1>1, <2>3 DEF WalkFinds, OnTheWay
  <2> QED
    BY <2>2, <2>4 DEF BackupInOrder
<1>4. CASE BackupDone
  <2>1. /\ backup.at = "walk" /\ backup.todo = {} /\ backup'.at = "done"
        /\ backup'.named = backup.named /\ backup'.archived = backup.archived
    BY <1>1, <1>4 DEF BackupDone, Backup
  <2>2. \A r \in backup.named : r \notin crossed => r \in backup.archived
    BY <1>1, <2>1 DEF WalkFinds, OnTheWay
  <2> QED
    BY <1>1, <2>1, <2>2 DEF BackupInOrder, LocksHeld, WalkFinds, BackupHasWhatItNames
<1>5. ASSUME NEW q \in Paths, ArchiveDir(q) PROVE BackupInOrder'
  <2>1. /\ backup.at = "walk" /\ backup'.at = "walk" /\ backup'.named = backup.named
        /\ backup'.todo = backup.todo \ {q}
        /\ backup'.archived = backup.archived \cup ({disk[q]} \ {Nil})
    BY <1>1, <1>5 DEF ArchiveDir, Backup
  <2>2. ASSUME NEW r \in backup.named, OnTheWay(r) PROVE OnTheWay(r)'
    <3>1. r # Nil
      BY <1>1, DirectoryAssumption DEF Backup
    <3> QED
      BY <1>1, <2>1, <2>2, <3>1 DEF OnTheWay
  <2>3. WalkFinds'
    BY <1>1, <2>1, <2>2 DEF WalkFinds
  <2> QED
    BY <1>1, <2>1, <2>3 DEF BackupInOrder, LocksHeld, BackupHasWhatItNames
<1> QED
  BY <1>2, <1>3, <1>4, <1>5 DEF BackupStep

-----------------------------------------------------------------------------
(* The quota *)

Quota(o) == OwnedBy(o) \ bundled
QuotaNext(o) ==
    {r \in DirIds : repos'[r].is = "here" /\ repos'[r].owner = o} \ bundled'

MutexGoes(c) ==
    \/ createMu' = createMu /\ (HoldsMutex(cmd'[c]) <=> HoldsMutex(cmd[c]))
    \/ createMu = Nil /\ createMu' = c /\ HoldsMutex(cmd'[c])
    \/ createMu = c /\ createMu' = Nil /\ ~HoldsMutex(cmd'[c])

CountGoes(c) ==
    HasCounted(cmd'[c]) =>
      /\ cmd'[c].owner = cmd[c].owner
      /\ HasCounted(cmd[c]) \/ InQuota(cmd[c].owner)
      /\ UNCHANGED <<repos, bundled>>

\* The row that a step adds to an owner's.
RowsGrow(c) ==
    /\ bundled \subseteq bundled'
    /\ \E x \in DirIds :
         /\ \A r \in DirIds \ {x} : repos'[r] = repos[r]
         /\ \/ repos'[x].is # "here" \/ x \in bundled'
            \/ Exists(x) /\ repos'[x].owner = repos[x].owner
            \/ HasCounted(cmd[c]) /\ repos'[x].owner = cmd[c].owner

QuotaGoes(c) == MutexGoes(c) /\ CountGoes(c) /\ RowsGrow(c) /\ cmd'[c].at # "mutex"

LEMMA RowsSame ==
    ASSUME UNCHANGED <<repos, bundled>>, NEW c
    PROVE  RowsGrow(c)
<1>1. PICK x \in DirIds : TRUE
  BY DirectoryAssumption
<1>2. repos'[x].is # "here" \/ (Exists(x) /\ repos'[x].owner = repos[x].owner)
  BY DEF Exists
<1> QED
  BY <1>1, <1>2 DEF RowsGrow

\* A step away from the mutex.
LEMMA FarFromQuota ==
    ASSUME NEW c \in Cmds, Work(c), createMu' = createMu, bundled' = bundled,
           cmd[c].kind # "transfer", cmd[c].at # "insert",
           cmd'[c].at \notin {"insert", "mutex"}, RowsGrow(c)
    PROVE  QuotaGoes(c)
<1>1. cmd'[c].kind # "transfer"
  BY DirectoryAssumption DEF Work, NoCmd, Kinds
<1>2. ~HoldsMutex(cmd[c]) /\ ~HoldsMutex(cmd'[c]) /\ ~HasCounted(cmd'[c])
  BY <1>1 DEF HoldsMutex, HasCounted
<1> QED
  BY <1>2 DEF QuotaGoes, MutexGoes, CountGoes

\* A step that ends a command under the mutex, or takes it further.
LEMMA NoneAtMutex == ~HoldsMutex(NoCmd) /\ ~HasCounted(NoCmd) /\ NoCmd.at = "idle"
BY DirectoryAssumption DEF HoldsMutex, HasCounted, NoCmd, Made, Kinds

LEMMA TakeMutexCounts ==
    ASSUME Ground, QuotaInOrder, NEW c \in Cmds, TakeMutex(c)
    PROVE  QuotaGoes(c)
<1>1. /\ createMu = Nil /\ createMu' = c /\ cmd[c].at = "mutex"
      /\ UNCHANGED <<repos, bundled>> /\ DirectoryTypeOK /\ Shape(cmd[c])
      /\ cmd[c].kind # "bundle"
  BY DEF TakeMutex, MutexFree, Ground, QuotaInOrder
<1>2. PICK at \in {"check", "insert"} :
        at = IF cmd[c].kind = "transfer" THEN "check" ELSE "insert"
  OBVIOUS
<1>3. /\ cmd'[c].at = at /\ cmd'[c].kind = cmd[c].kind /\ cmd'[c].from = cmd[c].from
      /\ cmd'[c].owner = cmd[c].owner
  BY <1>1, <1>2, StepIs DEF TakeMutex, Same, Ats
<1>4. cmd[c].kind \in Made \cup {"transfer"}
  BY <1>1 DEF Shape, NoCmd, RenameShape, OrgRenameShape, DeleteShape
<1>5. HoldsMutex(cmd'[c])
  BY <1>1, <1>2, <1>3, <1>4 DEF HoldsMutex
<1>6. ~HasCounted(cmd'[c])
  <2>1. CASE cmd[c].kind = "transfer"
    BY <1>2, <1>3, <2>1 DEF HasCounted
  <2>2. CASE cmd[c].kind # "transfer"
    <3>1. cmd[c].from = Nil
      BY <1>1, <1>4, <2>2 DEF QuotaInOrder
    <3> QED
      BY <1>3, <2>2, <3>1 DEF HasCounted
  <2> QED
    BY <2>1, <2>2
<1> QED
  BY <1>1, <1>2, <1>3, <1>5, <1>6, RowsSame DEF QuotaGoes, MutexGoes, CountGoes

LEMMA EndCounts ==
    ASSUME Ground, QuotaInOrder, NEW c \in Cmds, CmdEnds(c), RowsGrow(c),
           createMu' = IF createMu = c THEN Nil ELSE createMu
    PROVE  QuotaGoes(c)
<1>1. cmd'[c] = NoCmd
  BY EndIs DEF Ground
<1>2. HoldsMutex(cmd[c]) <=> createMu = c
  BY DEF QuotaInOrder
<1> QED
  BY <1>1, <1>2, NoneAtMutex DEF QuotaGoes, MutexGoes, CountGoes

LEMMA CountQuotaCounts ==
    ASSUME Ground, QuotaInOrder, NEW c \in Cmds, CountQuota(c)
    PROVE  QuotaGoes(c)
<1>1. /\ cmd[c].at = "insert" /\ cmd[c].kind # "bundle" /\ cmd[c].from = Nil
      /\ UNCHANGED <<repos, bundled>> /\ DirectoryTypeOK /\ Shape(cmd[c])
  BY DEF CountQuota, Ground
<1>2. cmd[c].kind \in Made \ {"bundle"}
  BY <1>1 DEF Shape, NoCmd, TransferShape, RenameShape, OrgRenameShape, DeleteShape
<1>3. createMu = c /\ HoldsMutex(cmd[c])
  BY <1>1, <1>2 DEF HoldsMutex, QuotaInOrder
<1>4. CASE InQuota(cmd[c].owner)
  <2>1. cmd' = [cmd EXCEPT ![c].from = cmd[c].to] /\ createMu' = createMu
        /\ cmd \in [Cmds -> Cmd]
    BY <1>1, <1>4 DEF CountQuota, DirectoryTypeOK
  <2>2. /\ cmd'[c].at = cmd[c].at /\ cmd'[c].kind = cmd[c].kind
        /\ cmd'[c].owner = cmd[c].owner
    BY <2>1 DEF Cmd
  <2>3. HoldsMutex(cmd'[c])
    BY <1>3, <2>2 DEF HoldsMutex
  <2> QED
    BY <1>1, <1>3, <1>4, <2>1, <2>2, <2>3, RowsSame
    DEF QuotaGoes, MutexGoes, CountGoes
<1>5. CASE ~InQuota(cmd[c].owner)
  BY <1>1, <1>3, <1>5, EndCounts, RowsSame DEF CountQuota
<1> QED
  BY <1>4, <1>5

LEMMA CreateRowCounts ==
    ASSUME Ground, QuotaInOrder, NEW c \in Cmds, CreateRow(c)
    PROVE  QuotaGoes(c)
<1>1. /\ cmd[c].at = "insert" /\ (cmd[c].kind = "bundle" \/ cmd[c].from # Nil)
      /\ createMu' = (IF createMu = c THEN Nil ELSE createMu)
      /\ DirectoryTypeOK /\ Shape(cmd[c])
  BY DEF CreateRow, Ground
<1>2. cmd[c].kind \in Made
  BY <1>1 DEF Shape, NoCmd, TransferShape, RenameShape, OrgRenameShape, DeleteShape
<1>3. cmd[c].kind # "bundle" => HasCounted(cmd[c])
  BY <1>1, <1>2 DEF HasCounted
<1>4. CASE UNCHANGED <<repos, bundled>> /\ CmdEnds(c)
  BY <1>1, <1>4, EndCounts, RowsSame
<1>5. CASE ~(UNCHANGED <<repos, bundled>> /\ CmdEnds(c))
  <2>1. PICK r \in DirIds :
          /\ repos' = [repos EXCEPT ![r] = [is |-> "here", owner |-> cmd[c].owner,
                                            name |-> cmd[c].to[2]]]
          /\ cmd' = [cmd EXCEPT ![c].at = "init", ![c].id = r]
          /\ bundled' = IF cmd[c].kind = "bundle" THEN bundled \cup {r}
                        ELSE bundled
    BY <1>5 DEF CreateRow
  <2>2. repos \in [DirIds -> Repo] /\ cmd \in [Cmds -> Cmd]
    BY <1>1 DEF DirectoryTypeOK
  <2>3. /\ \A s \in DirIds \ {r} : repos'[s] = repos[s]
        /\ repos'[r].owner = cmd[c].owner
    BY <2>1, <2>2
  <2>4. RowsGrow(c)
    BY <1>3, <2>1, <2>3 DEF RowsGrow
  <2>5. cmd'[c].at = "init" /\ cmd'[c].kind = cmd[c].kind
    BY <2>1, <2>2 DEF Cmd
  <2>6. ~HoldsMutex(cmd'[c]) /\ ~HasCounted(cmd'[c])
    BY <1>2, <2>5 DEF HoldsMutex, HasCounted
  <2>7. HoldsMutex(cmd[c]) <=> createMu = c
    BY DEF QuotaInOrder
  <2> QED
    BY <1>1, <2>4, <2>5, <2>6, <2>7 DEF QuotaGoes, MutexGoes, CountGoes
<1> QED
  BY <1>4, <1>5

LEMMA CheckMoveCounts ==
    ASSUME Ground, QuotaInOrder, NEW c \in Cmds, CheckMove(c)
    PROVE  QuotaGoes(c)
<1>1. /\ cmd[c].at = "check" /\ cmd[c].kind \in {"transfer", "rename"}
      /\ UNCHANGED <<repos, bundled>> /\ DirectoryTypeOK
  BY DEF CheckMove, Ground
<1>2. CASE /\ CmdEnds(c)
           /\ createMu' = IF createMu = c THEN Nil ELSE createMu
  BY <1>1, <1>2, EndCounts, RowsSame
<1>3. CASE ~(/\ CmdEnds(c)
             /\ createMu' = IF createMu = c THEN Nil ELSE createMu)
  <2>1. /\ cmd[c].kind = "transfer" => InQuota(cmd[c].owner)
        /\ createMu' = createMu
    BY <1>3 DEF CheckMove
  <2>2. PICK at \in {"move", "record"} :
          /\ at = IF cmd[c].kind = "transfer" THEN "move" ELSE "record"
          /\ cmd' = [cmd EXCEPT ![c].lock = TRUE, ![c].at = at]
    BY <1>3 DEF CheckMove
  <2>3. at \in Ats
    BY DEF Ats
  <2>4. /\ cmd'[c].at = at /\ cmd'[c].kind = cmd[c].kind
        /\ cmd'[c].owner = cmd[c].owner
    BY <1>1, <2>2, <2>3, LockIs DEF Same
  <2>5. HoldsMutex(cmd'[c]) <=> HoldsMutex(cmd[c])
    BY <1>1, <2>2, <2>4 DEF HoldsMutex, Made
  <2>6. HasCounted(cmd'[c]) => cmd[c].kind = "transfer"
    BY <1>1, <2>4 DEF HasCounted, Made
  <2> QED
    BY <1>1, <2>1, <2>2, <2>4, <2>5, <2>6, RowsSame DEF QuotaGoes, MutexGoes, CountGoes
<1> QED
  BY <1>2, <1>3

\* A transfer past its check.
LEMMA TransferGoes ==
    ASSUME Ground, QuotaInOrder, NEW c \in Cmds, cmd[c].kind = "transfer",
           cmd[c].at \in {"move", "record", "back"}, RowsGrow(c),
           \/ CmdEnds(c) /\ createMu' = Nil
           \/ /\ Step(c, "record") \/ Step(c, "back")
              /\ UNCHANGED <<createMu, repos, bundled>>
    PROVE  QuotaGoes(c)
<1>1. createMu = c /\ HasCounted(cmd[c]) /\ HoldsMutex(cmd[c]) /\ DirectoryTypeOK
  BY DEF HasCounted, HoldsMutex, QuotaInOrder, Ground
<1>2. CASE CmdEnds(c) /\ createMu' = Nil
  BY <1>1, <1>2, EndCounts
<1>3. CASE /\ Step(c, "record") \/ Step(c, "back")
           /\ UNCHANGED <<createMu, repos, bundled>>
  <2>1. /\ cmd'[c].at \in {"record", "back"} /\ cmd'[c].kind = "transfer"
        /\ cmd'[c].owner = cmd[c].owner
    BY <1>1, <1>3, StepIs DEF Same, Ats
  <2>2. HoldsMutex(cmd'[c])
    BY <2>1 DEF HoldsMutex
  <2> QED
    BY <1>1, <1>3, <2>1, <2>2 DEF QuotaGoes, MutexGoes, CountGoes
<1> QED
  BY <1>2, <1>3

LEMMA TransferCounts ==
    ASSUME Ground, QuotaInOrder, NEW c \in Cmds,
           TransferDir(c) \/ TransferRow(c) \/ TransferBack(c)
    PROVE  QuotaGoes(c)
<1>1. CASE TransferDir(c)
  <2>1. UNCHANGED <<repos, bundled>>
    BY <1>1 DEF TransferDir
  <2>2. RowsGrow(c)
    BY <2>1, RowsSame
  <2> QED
    BY <1>1, <2>1, <2>2, TransferGoes DEF TransferDir
<1>2. CASE TransferRow(c)
  <2>1. /\ cmd[c].kind = "transfer" /\ cmd[c].at = "record" /\ bundled' = bundled
        /\ cmd[c].id \in DirIds /\ repos \in [DirIds -> Repo]
    BY <1>2, TransferIs DEF TransferRow, Ground, DirectoryTypeOK
  <2>2. HasCounted(cmd[c])
    BY <2>1 DEF HasCounted
  <2>3. RowsGrow(c)
    <3>1. CASE repos' = repos
      BY <2>1, <3>1, RowsSame
    <3>2. CASE repos' # repos
      <4>1. repos' = [repos EXCEPT ![cmd[c].id].owner = cmd[c].owner]
        BY <1>2, <3>2 DEF TransferRow
      <4>2. /\ repos'[cmd[c].id].owner = cmd[c].owner
            /\ \A r \in DirIds \ {cmd[c].id} : repos'[r] = repos[r]
        BY <2>1, <4>1 DEF Repo
      <4> QED
        BY <2>1, <2>2, <4>2 DEF RowsGrow
    <3> QED
      BY <3>1, <3>2
  <2> QED
    BY <1>2, <2>1, <2>3, TransferGoes DEF TransferRow
<1>3. CASE TransferBack(c)
  <2>1. /\ UNCHANGED <<repos, bundled>> /\ cmd[c].at = "back" /\ Shape(cmd[c])
        /\ CmdEnds(c) /\ createMu' = Nil
    BY <1>3 DEF TransferBack, Ground
  <2>2. cmd[c].kind = "transfer"
    BY <2>1 DEF Shape, NoCmd, MadeShape, RenameShape, OrgRenameShape, DeleteShape
  <2>3. RowsGrow(c)
    BY <2>1, RowsSame
  <2> QED
    BY <2>1, <2>2, <2>3, TransferGoes
<1> QED
  BY <1>1, <1>2, <1>3

LEMMA OtherStepsCount ==
    ASSUME Ground, QuotaInOrder, NEW c \in Cmds, CmdStep(c),
           ~(\/ TakeMutex(c) \/ CountQuota(c) \/ CreateRow(c) \/ CheckMove(c)
             \/ TransferDir(c) \/ TransferRow(c) \/ TransferBack(c))
    PROVE  QuotaGoes(c)
<1>1. DirectoryTypeOK /\ Shape(cmd[c]) /\ Work(c)
  BY StepWorks DEF Ground
<1>2. createMu' = createMu /\ bundled' = bundled
  BY DEF CmdStep, InitBare, FetchRefs, Unmake, CleanImport, RenameRow, RenameDir,
     RenameRevert, CheckOrgRename, OrgRenameRow, OrgRenameTree, OrgRenameRevert,
     CheckDelete, DeleteRow, DeleteDir
<1>3. cmd[c].kind # "transfer" /\ cmd[c].at # "insert"
  <2>1. CASE InitBare(c) \/ FetchRefs(c) \/ Unmake(c) \/ CleanImport(c)
    <3>1. cmd[c].at \in {"init", "fetch", "unmake", "clean"}
      BY <2>1 DEF InitBare, FetchRefs, Unmake, CleanImport
    <3> QED
      BY <1>1, <3>1 DEF Shape, NoCmd, TransferShape, Made
  <2>2. CASE DeleteDir(c)
    <3>1. cmd[c].at = "remove"
      BY <2>2 DEF DeleteDir
    <3> QED
      BY <1>1, <3>1 DEF Shape, NoCmd, TransferShape, Made
  <2>3. CASE ~(\/ InitBare(c) \/ FetchRefs(c) \/ Unmake(c) \/ CleanImport(c)
               \/ DeleteDir(c))
    BY <2>3 DEF CmdStep, RenameRow, RenameDir, RenameRevert, CheckOrgRename,
       OrgRenameRow, OrgRenameTree, OrgRenameRevert, CheckDelete, DeleteRow
  <2> QED
    BY <2>1, <2>2, <2>3
<1>4. cmd'[c].at \notin {"insert", "mutex"}
  <2>1. CASE CmdEnds(c)
    BY <1>1, <2>1, EndIs
  <2>2. ASSUME NEW at \in Ats, Step(c, at), at \notin {"insert", "mutex"}
        PROVE  cmd'[c].at \notin {"insert", "mutex"}
    BY <1>1, <2>2, StepIs
  <2>3. CASE cmd' = [cmd EXCEPT ![c].lock = TRUE, ![c].at = "record"]
    BY <1>1, <2>3, LockIs DEF Ats
  <2>4. \/ CmdEnds(c)
        \/ cmd' = [cmd EXCEPT ![c].lock = TRUE, ![c].at = "record"]
        \/ \E at \in {"fetch", "unmake", "clean", "move", "revert", "remove"} :
             Step(c, at)
    BY DEF CmdStep, InitBare, FetchRefs, Unmake, CleanImport, RenameRow, RenameDir,
       RenameRevert, CheckOrgRename, OrgRenameRow, OrgRenameTree, OrgRenameRevert,
       CheckDelete, DeleteRow, DeleteDir
  <2> QED
    BY <2>1, <2>2, <2>3, <2>4 DEF Ats
<1>5. RowsGrow(c)
  <2>1. CASE repos' = repos
    BY <1>2, <2>1, RowsSame
  <2>2. CASE repos' # repos
    <3>1. cmd[c].id \in DirIds /\ repos \in [DirIds -> Repo]
      <4>1. Unmake(c) \/ RenameRow(c) \/ RenameRevert(c) \/ DeleteRow(c)
        BY <2>2 DEF CmdStep, InitBare, FetchRefs, CleanImport, RenameDir,
           CheckOrgRename, OrgRenameRow, OrgRenameTree, OrgRenameRevert,
           CheckDelete, DeleteDir
      <4>2. CASE Unmake(c)
        <5>1. cmd[c].at = "unmake"
          BY <4>2 DEF Unmake
        <5>2. cmd[c].id # Nil
          BY <1>1, <5>1 DEF Shape, NoCmd, MadeShape, TransferShape, RenameShape,
             OrgRenameShape, DeleteShape
        <5> QED
          BY <1>1, <5>2 DEF DirectoryTypeOK, Cmd
      <4>3. CASE RenameRow(c) \/ RenameRevert(c)
        BY <1>1, <4>3, RenameIs DEF RenameRow, RenameRevert, DirectoryTypeOK
      <4>4. CASE DeleteRow(c)
        BY <1>1, <4>4, DeleteIs DEF DeleteRow, DirectoryTypeOK
      <4> QED
        BY <4>1, <4>2, <4>3, <4>4
    <3>2. /\ \A r \in DirIds \ {cmd[c].id} : repos'[r] = repos[r]
          /\ \/ repos'[cmd[c].id].is # "here"
             \/ /\ Exists(cmd[c].id)
                /\ repos'[cmd[c].id].owner = repos[cmd[c].id].owner
      <4>1. CASE Unmake(c)
        BY <3>1, <4>1 DEF Unmake, NoRepo
      <4>2. CASE RenameRow(c) \/ RenameRevert(c)
        <5>1. PICK n : repos' = Renamed(cmd[c].id, n)
          BY <4>2 DEF RenameRow, RenameRevert
        <5>2. Exists(cmd[c].id) /\ repos' = [repos EXCEPT ![cmd[c].id].name = n]
          BY <2>2, <5>1 DEF Renamed
        <5> QED
          BY <3>1, <5>2 DEF Repo
      <4>3. CASE DeleteRow(c)
        <5>1. repos' = [repos EXCEPT ![cmd[c].id] = [NoRepo EXCEPT !.is = "gone"]]
          BY <2>2, <4>3 DEF DeleteRow
        <5> QED
          BY <3>1, <5>1 DEF NoRepo
      <4>4. Unmake(c) \/ RenameRow(c) \/ RenameRevert(c) \/ DeleteRow(c)
        BY <2>2 DEF CmdStep, InitBare, FetchRefs, CleanImport, RenameDir,
           CheckOrgRename, OrgRenameRow, OrgRenameTree, OrgRenameRevert,
           CheckDelete, DeleteDir
      <4> QED
        BY <4>1, <4>2, <4>3, <4>4
    <3> QED
      BY <1>2, <3>1, <3>2 DEF RowsGrow
  <2> QED
    BY <2>1, <2>2
<1> QED
  BY <1>1, <1>2, <1>3, <1>4, <1>5, FarFromQuota

LEMMA StepCounts ==
    ASSUME Ground, QuotaInOrder, NEW c \in Cmds, CmdStep(c)
    PROVE  QuotaGoes(c)
BY TakeMutexCounts, CountQuotaCounts, CreateRowCounts, CheckMoveCounts,
   TransferCounts, OtherStepsCount

LEMMA RowsStayFinite ==
    ASSUME QuotaInOrder, NEW c \in Cmds, RowsGrow(c)
    PROVE  IsFiniteSet({r \in DirIds : Exists(r)})'
<1> DEFINE Rows == {r \in DirIds : Exists(r)}
<1>1. PICK x \in DirIds : \A r \in DirIds \ {x} : repos'[r] = repos[r]
  BY DEF RowsGrow
<1>2. IsFiniteSet(Rows) /\ Rows' \in SUBSET (Rows \cup {x})
  BY <1>1 DEF QuotaInOrder, Exists
<1> HIDE DEF Rows
<1>3. IsFiniteSet(Rows \cup {x})
  BY <1>2, FS_AddElement
<1>4. IsFiniteSet(Rows')
  BY <1>2, <1>3, FS_Subset
<1> QED
  BY <1>4 DEF Rows

LEMMA QuotaIsFinite ==
    ASSUME IsFiniteSet({r \in DirIds : Exists(r)}), NEW o
    PROVE  IsFiniteSet(Quota(o))
<1>1. Quota(o) \in SUBSET {r \in DirIds : Exists(r)}
  BY DEF Quota, QuotaNext, OwnedBy, Exists
<1> QED
  BY <1>1, FS_Subset

\* What an owner has of the quota, after a step that adds one row at most.
LEMMA QuotaGrows ==
    ASSUME QuotaInOrder, NEW c \in Cmds, RowsGrow(c), NEW o \in Owners
    PROVE  /\ Cardinality(Quota(o)) \in Nat /\ Cardinality(QuotaNext(o)) \in Nat
           /\ \/ Cardinality(QuotaNext(o)) <= Cardinality(Quota(o))
              \/ /\ HasCounted(cmd[c]) /\ cmd[c].owner = o
                 /\ Cardinality(QuotaNext(o)) <= Cardinality(Quota(o)) + 1
<1>1. PICK x \in DirIds :
        /\ \A r \in DirIds \ {x} : repos'[r] = repos[r]
        /\ \/ repos'[x].is # "here" \/ x \in bundled'
           \/ Exists(x) /\ repos'[x].owner = repos[x].owner
           \/ HasCounted(cmd[c]) /\ repos'[x].owner = cmd[c].owner
  BY DEF RowsGrow
<1>2. bundled \subseteq bundled'
  BY DEF RowsGrow
<1>3. IsFiniteSet(Quota(o))
  BY QuotaIsFinite DEF QuotaInOrder
<1>4. \A r \in DirIds \ {x} : r \in QuotaNext(o) => r \in Quota(o)
  BY <1>1, <1>2 DEF Quota, QuotaNext, OwnedBy, Exists
<1>5. /\ QuotaNext(o) \in SUBSET (Quota(o) \cup {x})
      /\ IsFiniteSet(Quota(o) \cup {x})
  BY <1>3, <1>4, FS_AddElement DEF Quota, QuotaNext, OwnedBy, Exists
<1>6. IsFiniteSet(QuotaNext(o))
  BY <1>5, FS_Subset
<1>7. Cardinality(Quota(o)) \in Nat /\ Cardinality(QuotaNext(o)) \in Nat
  BY <1>3, <1>6, FS_CardinalityType
<1>8. CASE x \in QuotaNext(o) => x \in Quota(o)
  <2>1. QuotaNext(o) \in SUBSET Quota(o)
    BY <1>4, <1>8 DEF Quota, QuotaNext, OwnedBy, Exists
  <2>2. Cardinality(QuotaNext(o)) <= Cardinality(Quota(o))
    BY <1>3, <2>1, FS_Subset
  <2> QED
    BY <1>7, <2>2
<1>9. CASE x \in QuotaNext(o) /\ x \notin Quota(o)
  <2>1. repos'[x].is = "here" /\ x \notin bundled' /\ repos'[x].owner = o
    BY <1>9 DEF Quota, QuotaNext, OwnedBy, Exists
  <2>2. ~(Exists(x) /\ repos'[x].owner = repos[x].owner)
    BY <1>2, <1>9, <2>1 DEF Quota, QuotaNext, OwnedBy, Exists
  <2>3. HasCounted(cmd[c]) /\ cmd[c].owner = o
    BY <1>1, <2>1, <2>2
  <2>4. Cardinality(Quota(o) \cup {x}) = Cardinality(Quota(o)) + 1
    BY <1>3, <1>9, FS_AddElement
  <2>5. Cardinality(QuotaNext(o)) <= Cardinality(Quota(o) \cup {x})
    BY <1>5, FS_Subset
  <2> QED
    BY <1>7, <2>3, <2>4, <2>5
<1> QED
  BY <1>8, <1>9

LEMMA InQuotaIs ==
    ASSUME QuotaInOrder, NEW o \in Owners, InQuota(o)
    PROVE  Cardinality(Quota(o)) < MaxRepos
<1>1. OwnedBy(o) \in SUBSET {r \in DirIds : Exists(r)}
  BY DEF OwnedBy
<1>2. IsFiniteSet(OwnedBy(o))
  BY <1>1, FS_Subset DEF QuotaInOrder
<1>3. Quota(o) \in SUBSET OwnedBy(o)
  BY DEF Quota
<1>4. Cardinality(Quota(o)) <= Cardinality(OwnedBy(o)) /\ IsFiniteSet(Quota(o))
  BY <1>2, <1>3, FS_Subset
<1>5. Cardinality(OwnedBy(o)) \in Nat /\ Cardinality(Quota(o)) \in Nat
  BY <1>2, <1>4, FS_CardinalityType
<1> QED
  BY <1>4, <1>5, DirectoryAssumption DEF InQuota

LEMMA CountedOwner ==
    ASSUME NEW k, Shape(k), HasCounted(k)
    PROVE  k.owner \in Owners /\ HoldsMutex(k)
<1>1. k.kind \in Made \cup {"transfer"} /\ HoldsMutex(k)
  BY DEF HasCounted, HoldsMutex
<1> QED
  BY <1>1, DirectoryAssumption
  DEF Shape, NoCmd, MadeShape, TransferShape, Made, Kinds

LEMMA StepQuota ==
    ASSUME Ground, Ground', QuotaInOrder, NEW c \in Cmds, CmdStep(c)
    PROVE  QuotaInOrder'
<1>1. QuotaGoes(c) /\ \A d \in Cmds \ {c} : cmd'[d] = cmd[d]
  BY StepCounts, StepWorks DEF Work
<1>2. createMu \in Cmds \cup {Nil} /\ MaxRepos \in Nat /\ Nil \notin Cmds
  BY DirectoryAssumption DEF Ground, DirectoryTypeOK
<1>3. \A d \in Cmds : HoldsMutex(cmd[d]) <=> createMu = d
  BY DEF QuotaInOrder
<1>4. ASSUME NEW d \in Cmds PROVE HoldsMutex(cmd'[d]) <=> createMu' = d
  <2>1. MutexGoes(c)
    BY <1>1 DEF QuotaGoes
  <2>2. CASE d = c
    BY <1>2, <1>3, <2>1, <2>2 DEF MutexGoes
  <2>3. CASE d # c
    BY <1>1, <1>2, <1>3, <2>1, <2>3 DEF MutexGoes
  <2> QED
    BY <2>2, <2>3
<1>5. ASSUME NEW d \in Cmds, cmd'[d].at = "mutex"
      PROVE  cmd'[d].kind # "bundle" /\ (cmd'[d].kind \in Made => cmd'[d].from = Nil)
  <2>1. d # c
    BY <1>1, <1>5 DEF QuotaGoes
  <2> QED
    BY <1>1, <1>5, <2>1 DEF QuotaInOrder
<1>6. IsFiniteSet({r \in DirIds : Exists(r)})'
  BY <1>1, RowsStayFinite DEF QuotaGoes
<1>7. ASSUME NEW o \in Owners
      PROVE  /\ Cardinality(Quota(o)) \in Nat /\ Cardinality(QuotaNext(o)) \in Nat
             /\ \/ Cardinality(QuotaNext(o)) <= Cardinality(Quota(o))
                \/ /\ HasCounted(cmd[c]) /\ cmd[c].owner = o
                   /\ Cardinality(QuotaNext(o)) <= Cardinality(Quota(o)) + 1
  BY <1>1, QuotaGrows DEF QuotaGoes
<1>8. \A d \in Cmds : HasCounted(cmd[d]) => Cardinality(Quota(cmd[d].owner)) < MaxRepos
  BY DEF QuotaInOrder, Quota
<1>9. QuotaHolds'
  <2> SUFFICES ASSUME NEW o \in Owners PROVE Cardinality(QuotaNext(o)) <= MaxRepos
    BY DEF QuotaHolds, QuotaNext, OwnedBy, Exists
  <2>1. Cardinality(Quota(o)) <= MaxRepos
    BY DEF QuotaInOrder, QuotaHolds, Quota
  <2>2. HasCounted(cmd[c]) /\ cmd[c].owner = o => Cardinality(Quota(o)) < MaxRepos
    BY <1>8
  <2> QED
    BY <1>2, <1>7, <2>1, <2>2
<1>10. ASSUME NEW d \in Cmds, HasCounted(cmd'[d])
       PROVE  Cardinality(QuotaNext(cmd'[d].owner)) < MaxRepos
  <2>1. CASE d = c
    <3>1. /\ cmd'[c].owner = cmd[c].owner /\ UNCHANGED <<repos, bundled>>
          /\ HasCounted(cmd[c]) \/ InQuota(cmd[c].owner)
      BY <1>1, <1>10, <2>1 DEF QuotaGoes, CountGoes
    <3>3. cmd[c].owner \in Owners
      <4>1. Shape(cmd'[c])
        BY DEF Ground, Shape, MadeShape, TransferShape, RenameShape,
           OrgRenameShape, DeleteShape
      <4> QED
        BY <1>10, <2>1, <3>1, <4>1, CountedOwner
    <3>4. Cardinality(Quota(cmd[c].owner)) < MaxRepos
      BY <1>8, <3>1, <3>3, InQuotaIs
    <3>5. QuotaNext(cmd'[c].owner) = Quota(cmd[c].owner)
      BY <3>1 DEF Quota, QuotaNext, OwnedBy, Exists
    <3> QED
      BY <2>1, <3>1, <3>4, <3>5
  <2>2. CASE d # c
    <3>1. cmd'[d] = cmd[d] /\ HasCounted(cmd[d])
      BY <1>1, <1>10, <2>2
    <3>2. cmd[d].owner \in Owners /\ createMu = d
      BY <1>3, <3>1, CountedOwner DEF Ground
    <3>3. ~HasCounted(cmd[c])
      <4>1. HasCounted(cmd[c]) => createMu = c
        BY <1>3, CountedOwner DEF Ground
      <4> QED
        BY <2>2, <3>2, <4>1
    <3>4. Cardinality(Quota(cmd[d].owner)) < MaxRepos
      BY <1>8, <3>1
    <3> QED
      BY <1>2, <1>7, <3>1, <3>2, <3>3, <3>4
  <2> QED
    BY <2>1, <2>2
<1> QED
  BY <1>4, <1>5, <1>6, <1>9, <1>10 DEF QuotaInOrder, QuotaNext, OwnedBy, Exists, HoldsMutex,
     HasCounted

LEMMA BeginQuota ==
    ASSUME Ground, QuotaInOrder, NEW c \in Cmds, BeginStep(c)
    PROVE  QuotaInOrder'
<1>1. PICK k \in Cmd : Fresh(k) /\ Begin(c, k)
  BY BeginIsFresh
<1>2. /\ SameButOver(cmd'[c], k) /\ cmd[c] = NoCmd
      /\ \A d \in Cmds \ {c} : SameButOver(cmd'[d], cmd[d])
      /\ UNCHANGED <<repos, createMu, bundled>>
  BY <1>1, BeginIs
<1>3. /\ ~HoldsMutex(k) /\ ~HasCounted(k)
      /\ k.at = "mutex" => /\ k.kind # "bundle"
                           /\ k.kind \in Made => k.from = Nil
  <2>1. /\ k.at \in {"mutex", "insert", "check"}
        /\ k.at = "insert" => k.kind = "bundle"
        /\ k.kind = "bundle" => k.at = "insert"
        /\ k.kind \in Made => k.from = Nil
        /\ k.kind = "transfer" => k.at = "mutex"
    BY <1>1 DEF Fresh
  <2> QED
    BY <2>1 DEF HoldsMutex, HasCounted, Made
<1>4. \A d \in Cmds :
        /\ HoldsMutex(cmd'[d]) <=> HoldsMutex(cmd[d])
        /\ HasCounted(cmd'[d]) => HasCounted(cmd[d]) /\ cmd'[d].owner = cmd[d].owner
  <2> TAKE d \in Cmds
  <2>1. CASE d = c
    BY <1>2, <1>3, <2>1, NoneAtMutex DEF HoldsMutex, HasCounted, SameButOver
  <2>2. CASE d # c
    BY <1>2, <2>2 DEF HoldsMutex, HasCounted, SameButOver
  <2> QED
    BY <2>1, <2>2
<1>5. \A o \in Owners : QuotaNext(o) = Quota(o)
  BY <1>2 DEF Quota, QuotaNext, OwnedBy, Exists
<1>6. \A d \in Cmds : HasCounted(cmd[d]) => cmd[d].owner \in Owners
  BY CountedOwner DEF Ground
<1>7. \A d \in Cmds : HasCounted(cmd'[d]) =>
         Cardinality(QuotaNext(cmd'[d].owner)) < MaxRepos
  <2> SUFFICES ASSUME NEW d \in Cmds, HasCounted(cmd'[d])
               PROVE  Cardinality(QuotaNext(cmd'[d].owner)) < MaxRepos
    OBVIOUS
  <2>1. HasCounted(cmd[d]) /\ cmd'[d].owner = cmd[d].owner /\ cmd[d].owner \in Owners
    BY <1>4, <1>6
  <2>2. Cardinality(Quota(cmd[d].owner)) < MaxRepos
    BY <2>1 DEF QuotaInOrder, Quota
  <2> QED
    BY <1>5, <2>1, <2>2
<1>8. \A d \in Cmds : cmd'[d].at = "mutex" =>
         /\ cmd'[d].kind # "bundle"
         /\ cmd'[d].kind \in Made => cmd'[d].from = Nil
  BY <1>2, <1>3 DEF QuotaInOrder, SameButOver
<1>9. \A d \in Cmds : HoldsMutex(cmd'[d]) <=> createMu' = d
  BY <1>2, <1>4 DEF QuotaInOrder
<1>10. IsFiniteSet({r \in DirIds : Exists(r)})' /\ QuotaHolds'
  BY <1>2 DEF QuotaInOrder, QuotaHolds, OwnedBy, Exists
<1> QED
  BY <1>7, <1>8, <1>9, <1>10 DEF QuotaInOrder, QuotaNext, OwnedBy, Exists, HoldsMutex,
     HasCounted

-----------------------------------------------------------------------------
(* The invariant *)

LEMMA InitGround == DirectoryInit => Ground
<1> SUFFICES ASSUME DirectoryInit PROVE Ground
  OBVIOUS
<1>1. /\ ownerName = FirstName /\ cmd = [c \in Cmds |-> NoCmd] /\ createMu = Nil
      /\ backup = NoBackup /\ bundled = {} /\ crossed = {}
      /\ dirOps = 0 /\ dirFaults = 0 /\ backups = 0
  BY DEF DirectoryInit
<1>2. /\ NoCmd \in Cmd /\ NoCmd.at = "idle" /\ NoCmd.id = Nil
      /\ NoRepo \in Repo /\ NoRepo.is = "none" /\ NoBackup \in Backup
  BY DEF NoCmd, NoRepo, NoBackup, Cmd, Repo, Backup
<1>3. /\ repos \in [DirIds -> Repo] /\ disk \in [Paths -> DirIds \cup {Nil}]
      /\ \A r, s \in DirIds : r # s /\ Exists(r) => ~Exists(s)
      /\ RowShape /\ OneCopy /\ FilesKnown
  <2>1. CASE /\ repos = [r \in DirIds |-> NoRepo]
             /\ disk = [p \in Paths |-> Nil]
    BY <1>2, <2>1 DEF Exists, RowShape, OneCopy, FilesKnown
  <2>2. ASSUME NEW old \in DirIds, NEW o \in Owners, NEW n \in Names,
               repos = [r \in DirIds |->
                          IF r = old
                          THEN [is |-> "here", owner |-> o, name |-> n]
                          ELSE NoRepo],
               disk = [p \in Paths |->
                         IF p = <<FirstName[o], n>> THEN old ELSE Nil]
        PROVE  /\ repos \in [DirIds -> Repo] /\ disk \in [Paths -> DirIds \cup {Nil}]
               /\ \A r, s \in DirIds : r # s /\ Exists(r) => ~Exists(s)
               /\ RowShape /\ OneCopy /\ FilesKnown
    <3>1. /\ [is |-> "here", owner |-> o, name |-> n] \in Repo
          /\ old # Nil /\ o # Nil /\ n # Nil
      BY DirectoryAssumption DEF Repo
    <3>2. /\ repos \in [DirIds -> Repo] /\ disk \in [Paths -> DirIds \cup {Nil}]
      BY <1>2, <2>2, <3>1
    <3>3. /\ repos[old] = [is |-> "here", owner |-> o, name |-> n]
          /\ \A r \in DirIds \ {old} : repos[r].is = "none"
          /\ \A p \in Paths : disk[p] # Nil => p = <<FirstName[o], n>> /\ disk[p] = old
      BY <1>2, <2>2
    <3>4. RowShape /\ OneCopy /\ FilesKnown
      BY <3>1, <3>3 DEF Exists, RowShape, OneCopy, FilesKnown
    <3> QED
      BY <3>2, <3>3, <3>4 DEF Exists
  <2> QED
    BY <2>1, <2>2 DEF DirectoryInit
<1>4. DirectoryTypeOK
  <2>1. \A r, s \in DirIds : r # s /\ repos[r].is = "here" /\ repos[s].is = "here"
                         => <<repos[r].owner, repos[r].name>>
                              # <<repos[s].owner, repos[s].name>>
    BY <1>3 DEF Exists
  <2>2. dirOps \in 0..MaxDirOps /\ dirFaults \in 0..MaxDirFaults
        /\ backups \in 0..MaxBackups
    BY <1>1, DirectoryAssumption
  <2>3. ownerName \in [Owners -> OwnerNames]
    BY <1>1, DirectoryAssumption
  <2> QED
    BY <1>1, <1>2, <1>3, <2>1, <2>2, <2>3 DEF DirectoryTypeOK
<1>5. \A c \in Cmds : Shape(cmd[c]) /\ cmd[c].id = Nil /\ cmd[c].at = "idle"
  BY <1>1, <1>2 DEF Shape
<1>6. NamesDiffer
  BY <1>1, DirectoryAssumption DEF NamesDiffer
<1>7. IdKnown /\ NotYetMade /\ RowIsGone
  BY <1>5 DEF IdKnown, NotYetMade, RowIsGone
<1> QED
  BY <1>3, <1>4, <1>5, <1>6, <1>7 DEF Ground

LEMMA InitAlone ==
    ASSUME DirectoryInit, NEW r \in DirIds, NEW s \in DirIds, r # s, Exists(r)
    PROVE  ~Exists(s)
BY DEF DirectoryInit, Exists, NoRepo

LEMMA InitInv == DirectoryInit => DirectoryInv
<1> SUFFICES ASSUME DirectoryInit PROVE DirectoryInv
  OBVIOUS
<1>1. Ground
  BY InitGround
<1>2. /\ ownerName = FirstName /\ createMu = Nil /\ backup = NoBackup
      /\ bundled = {} /\ crossed = {} /\ \A c \in Cmds : cmd[c] = NoCmd
  BY DEF DirectoryInit
<1>3. /\ NoCmd.at = "idle" /\ NoCmd.id = Nil /\ NoCmd.lock = FALSE
      /\ NoCmd.kind = Nil /\ NoBackup.at = "idle"
      /\ NoCmd.kind \notin Kinds
  BY DirectoryAssumption DEF NoCmd, NoBackup
<1>4. CrossingsKnown
  BY <1>2, <1>3 DEF CrossingsKnown, ClashIsOver, OverIsCrossed, SharedIsCrossed, Under
<1>5. \A c \in Cmds : Aims(c) /\ Others(c)
  BY <1>2, <1>3 DEF Aims, Others, Made, Kinds
<1>6. ASSUME NEW r \in DirIds, Exists(r) PROVE disk[PathOf(r)] = r
  <2>1. CASE repos = [s \in DirIds |-> NoRepo]
    BY <1>6, <2>1 DEF Exists, NoRepo
  <2>2. ASSUME NEW old \in DirIds, NEW o \in Owners, NEW n \in Names,
               repos = [s \in DirIds |->
                          IF s = old
                          THEN [is |-> "here", owner |-> o, name |-> n]
                          ELSE NoRepo],
               disk = [p \in Paths |->
                         IF p = <<FirstName[o], n>> THEN old ELSE Nil]
        PROVE  disk[PathOf(r)] = r
    <3>1. r = old
      BY <1>6, <2>2 DEF Exists, NoRepo
    <3>2. PathOf(r) = <<FirstName[o], n>> /\ PathOf(r) \in Paths
      BY <1>1, <1>2, <1>6, <2>2, <3>1, RowType DEF PathOf
    <3> QED
      BY <2>2, <3>1, <3>2
  <2> QED
    BY <2>1, <2>2 DEF DirectoryInit
<1>7. FilesAreWhere
  <2>1. \A r \in DirIds, c \in Cmds : cmd[c].id # r /\ ~Renames(c, r)
    BY <1>2, <1>3, DirectoryAssumption DEF Renames, Kinds
  <2> QED
    BY <1>6, <2>1 DEF FilesAreWhere, Kept
<1>8. BackupInOrder
  BY <1>2, <1>3 DEF BackupInOrder, LocksHeld, WalkFinds, BackupHasWhatItNames
<1>9. QuotaInOrder
  <2>1. PICK x \in DirIds : {r \in DirIds : Exists(r)} \in SUBSET {x}
    <3>1. \A r, s \in DirIds : r # s /\ Exists(r) => ~Exists(s)
      BY InitAlone
    <3>2. CASE \E x \in DirIds : Exists(x)
      BY <3>1, <3>2
    <3>3. CASE ~\E x \in DirIds : Exists(x)
      BY <3>3, DirectoryAssumption
    <3> QED
      BY <3>2, <3>3
  <2>2. IsFiniteSet({x}) /\ Cardinality({x}) = 1
    BY FS_Singleton
  <2>3. IsFiniteSet({r \in DirIds : Exists(r)})
    BY <2>1, <2>2, FS_Subset
  <2>4. QuotaHolds
    <3> SUFFICES ASSUME NEW o \in Owners
                 PROVE  Cardinality(OwnedBy(o) \ bundled) <= MaxRepos
      BY DEF QuotaHolds
    <3>1. OwnedBy(o) \ bundled \in SUBSET {x}
      BY <2>1 DEF OwnedBy
    <3>2. /\ Cardinality(OwnedBy(o) \ bundled) <= 1
          /\ Cardinality(OwnedBy(o) \ bundled) \in Nat
      BY <2>2, <3>1, FS_Subset, FS_CardinalityType
    <3> QED
      BY <3>2, DirectoryAssumption
  <2>5. \A c \in Cmds : /\ cmd[c].at # "mutex" /\ ~HoldsMutex(cmd[c])
                        /\ ~HasCounted(cmd[c]) /\ createMu # c
    BY <1>2, <1>3, NoneAtMutex, DirectoryAssumption
  <2> QED
    BY <2>3, <2>4, <2>5 DEF QuotaInOrder
<1> QED
  BY <1>1, <1>4, <1>5, <1>7, <1>8, <1>9 DEF DirectoryInv, PlacesKnown

LEMMA NextIs ==
    DirectoryNext => BackupStep \/ \E c \in Cmds : CmdStep(c) \/ BeginStep(c)
BY DEF DirectoryNext, BackupStep, CmdStep, BeginStep

LEMMA RestKeeps ==
    ASSUME DirectoryInv, UNCHANGED directoryVars
    PROVE  DirectoryInv'
<1>1. UNCHANGED <<repos, ownerName, disk, cmd, createMu, backup, bundled, crossed,
                  dirOps, dirFaults, backups>>
  BY DEF directoryVars
<1>2. DirectoryTypeOK'
  BY <1>1 DEF DirectoryInv, Ground, DirectoryTypeOK
<1>3. Ground' /\ CrossingsKnown' /\ PlacesKnown'
  BY <1>1, <1>2, NothingMoves DEF DirectoryInv
<1>4. BackupInOrder'
  BY <1>1 DEF DirectoryInv, BackupInOrder, LocksHeld, WalkFinds, OnTheWay,
     BackupHasWhatItNames
<1>5. QuotaInOrder'
  BY <1>1 DEF DirectoryInv, QuotaInOrder, QuotaHolds, OwnedBy, Exists
<1> QED
  BY <1>3, <1>4, <1>5 DEF DirectoryInv

LEMMA InvStep == DirectoryInv /\ [DirectoryNext]_directoryVars => DirectoryInv'
<1> SUFFICES ASSUME DirectoryInv, [DirectoryNext]_directoryVars
             PROVE  DirectoryInv'
  OBVIOUS
<1>1. Ground /\ CrossingsKnown /\ PlacesKnown /\ BackupInOrder /\ QuotaInOrder
  BY DEF DirectoryInv
<1>2. ASSUME NEW c \in Cmds, CmdStep(c) PROVE DirectoryInv'
  BY <1>1, <1>2, StepKeeps, StepBacksUp, StepQuota DEF DirectoryInv
<1>3. ASSUME NEW c \in Cmds, BeginStep(c) PROVE DirectoryInv'
  BY <1>1, <1>3, BeginKeeps, BeginBacksUp, BeginQuota DEF DirectoryInv
<1>4. CASE BackupStep
  <2>1. Ground' /\ CrossingsKnown' /\ PlacesKnown' /\ BackupInOrder'
    BY <1>1, <1>4, BackupGround, BackupGoesOn
  <2>2. UNCHANGED <<repos, cmd, createMu, bundled>>
    BY <1>4 DEF BackupStep, BackupHold, Snapshot, BackupDone, ArchiveDir
  <2>3. QuotaInOrder'
    BY <1>1, <2>2 DEF QuotaInOrder, QuotaHolds, OwnedBy, Exists
  <2> QED
    BY <2>1, <2>3 DEF DirectoryInv
<1>5. CASE UNCHANGED directoryVars
  BY <1>1, <1>5, RestKeeps DEF DirectoryInv
<1> QED
  BY <1>2, <1>3, <1>4, <1>5, NextIs

\* Rows that no command is about have their files where they say.
LEMMA InvAgrees == DirectoryInv => DirectoryAgrees
<1> SUFFICES ASSUME DirectoryInv PROVE DirectoryAgrees
  OBVIOUS
<1>1. RowHasItsDirectory
  <2> SUFFICES ASSUME NEW r \in DirIds, Exists(r), r \notin crossed,
                      \A c \in Cmds :
                        /\ cmd[c].id # r
                        /\ cmd[c].kind = "orgrename" => cmd[c].owner # repos[r].owner
               PROVE  disk[PathOf(r)] = r
    BY DEF RowHasItsDirectory
  <2>1. Kept(r) /\ Free(r)
    BY DEF Kept, Free, Renames
  <2> QED
    BY <2>1 DEF DirectoryInv, PlacesKnown, FilesAreWhere
<1>2. QuotaHolds /\ BackupHasWhatItNames
  BY DEF DirectoryInv, QuotaInOrder, BackupInOrder
<1> QED
  BY <1>1, <1>2 DEF DirectoryAgrees

LEMMA DirectoryInvariant == DirectorySpec => []DirectoryInv
<1> QED
  BY InitInv, InvStep, PTL DEF DirectorySpec

\* Every value of the state is what the code can write there: rows and paths
\* of the disk, commands and their locks, and no two rows of one owner with one
\* name (the unique index of repos).
THEOREM DirectoryTypeCorrect == DirectorySpec => []DirectoryTypeOK
<1>1. DirectoryInv => DirectoryTypeOK
  BY DEF DirectoryInv, Ground
<1> QED
  BY <1>1, DirectoryInvariant, PTL

\* The quota holds whatever overlaps, a repository whose commands did not cross
\* has its own files at its path whatever step failed, and a backup has in its
\* archive what its snapshot names.
THEOREM RowsDiskAndBackupAgree == DirectorySpec => []DirectoryAgrees
BY DirectoryInvariant, InvAgrees, PTL
=============================================================================
