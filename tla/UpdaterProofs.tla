--------------------------- MODULE UpdaterProofs ---------------------------
(***************************************************************************)
(* Proofs about the replacement of the executable, for any set of callers  *)
(* and any number of releases.  Until two downloads overlap there is one   *)
(* caller inside the replacement at most; it owns the .new file, and never *)
(* gives one of the other two names to a file that is not whole.  If it    *)
(* began with the executable in its place, one of these names has a whole  *)
(* binary at each of its steps, and a kill or an error leaves it there.    *)
(***************************************************************************)
EXTENDS Updater, TLAPS

FileType == [whole : BOOLEAN, wrote : SUBSET Versions, by : Updaters \cup {Nothing}]

Inside == {"copy", "chmod", "backup", "replace"}
Stages == {"idle", "check", "asked", "sleep", "done", "download"} \cup Inside

(* A complete file of one version. *)
Program(r) == r.whole /\ \E v \in Versions : r.wrote = {v}

(* A caller has the .new file open while it copies, and from the download  *)
(* on it knows the version it installs.                                    *)
OpenInv ==
    \A u \in Updaters :
        /\ fd[u] # Nothing <=> upc[u] = "copy"
        /\ upc[u] \in {"download"} \cup Inside => arg[u] \in Versions

(* One caller at a time is inside the replacement. *)
SoloInv == \A u, w \in Updaters : Replacing(u) /\ Replacing(w) => u = w

(* The executable is there, unless a download began without it. *)
Present == exe # Nothing \/ "retried" \in mishaps

(* The three names are of different files, and the executable and its      *)
(* backup are whole; one of them is there, unless a download began without *)
(* the executable.                                                         *)
NamesInv ==
    /\ exe # Nothing => exe # new /\ exe # old /\ Program(file[exe])
    /\ old # Nothing => new # old /\ Program(file[old])
    /\ Present \/ old # Nothing

(* The .new file of the caller inside the replacement: its own while it    *)
(* copies, then whole.  Only a caller that found the executable gets to    *)
(* the second rename, with the executable at .old.                         *)
NewInv ==
    \A u \in Updaters :
        /\ upc[u] = "copy" => /\ Present
                              /\ new = fd[u]
                              /\ file[new].wrote = {arg[u]} /\ file[new].by = u
        /\ upc[u] \in {"chmod", "backup"} => Present /\ new # Nothing /\ Program(file[new])
        /\ upc[u] = "replace" => /\ exe = Nothing /\ old # Nothing
                                 /\ new # Nothing /\ Program(file[new])

(* The executable is missing inside the two renames, or when a kill or a   *)
(* rollback that failed has left it so.                                    *)
MissingInv ==
    exe = Nothing => mishaps \cap {"cut", "rollback"} # {} \/ \E u \in Updaters : upc[u] = "replace"

DiskInv == SoloInv /\ NamesInv /\ NewInv /\ MissingInv

UpdaterInv ==
    /\ TypeOK
    /\ OpenInv
    /\ "overlap" \notin mishaps => DiskInv
-----------------------------------------------------------------------------
(* Lemmas about the disk *)

(* No inode and no version is Nothing. *)
LEMMA NothingElse == Nothing \notin Inodes /\ Nothing \notin Versions /\ Nothing \notin Updaters
  BY UpdaterAssumption DEF Inodes, Versions

(* A set of inodes that is not empty has a least one. *)
LEMMA LeastInode ==
    ASSUME NEW S \in SUBSET Inodes, S # {}
    PROVE  Min(S) \in S
<1>1. \E x \in S : \A y \in S : x =< y
  <2>1. CASE 1 \in S
    BY <2>1 DEF Inodes
  <2>2. CASE 1 \notin S /\ 2 \in S
    BY <2>2 DEF Inodes
  <2>3. CASE 1 \notin S /\ 2 \notin S /\ 3 \in S
    BY <2>3 DEF Inodes
  <2>4. CASE 1 \notin S /\ 2 \notin S /\ 3 \notin S
    <3>1. \A x \in S : x = 4 \/ x = 5
      BY <2>4 DEF Inodes
    <3> QED
      BY <3>1
  <2> QED
    BY <2>1, <2>2, <2>3, <2>4
<1> QED
  BY <1>1 DEF Min

(* While a caller has no file open and there is no .new file, an inode is  *)
(* free: two names and the files of the two other callers take four.       *)
LEMMA FreeIsFree ==
    ASSUME TypeOK, NEW u \in Updaters, fd[u] = Nothing, new = Nothing
    PROVE  FreeInode \in Inodes /\ FreeInode \notin {exe, new, old}
<1> DEFINE Used == {exe, new, old} \cup {fd[w] : w \in Updaters}
<1>1. \E a, b : \A w \in Updaters : fd[w] \in {a, b, Nothing}
  <2>1. \E x, y : Updaters \subseteq {u, x, y}
    BY UpdaterAssumption
  <2>2. PICK x, y : Updaters \subseteq {u, x, y}
    BY <2>1
  <2>3. \A w \in Updaters : fd[w] \in {fd[x], fd[y], Nothing}
    BY <2>2
  <2> QED
    BY <2>3
<1>2. PICK a, b : \A w \in Updaters : fd[w] \in {a, b, Nothing}
  BY <1>1
<1>3. Used \subseteq {exe, old, a, b, Nothing}
  BY <1>2
<1>4. \E i \in Inodes : i \notin {exe, old, a, b}
  BY DEF Inodes
<1>5. Inodes \ Used # {}
  BY <1>3, <1>4, NothingElse
<1>6. Min(Inodes \ Used) \in Inodes \ Used
  BY <1>5, LeastInode
<1> QED
  BY <1>6 DEF FreeInode

(* A file with a name is kept as it is; who truncated it is known while it *)
(* is open.                                                                *)
LEMMA DiskFile ==
    ASSUME NEW e, NEW n, NEW o, NEW f \in [Inodes -> FileType],
           fd' \in [Updaters -> Inodes \cup {Nothing}], Disk(e, n, o, f)
    PROVE  /\ file' \in [Inodes -> FileType]
           /\ \A i \in Inodes : i \in {e, n, o} =>
                 /\ file'[i].whole = f[i].whole /\ file'[i].wrote = f[i].wrote
                 /\ Program(file'[i]) <=> Program(f[i])
                 /\ \A u \in Updaters : f[i].by = u /\ fd'[u] = i => file'[i].by = u
<1>1. ASSUME NEW i \in Inodes, NEW b \in Updaters \cup {Nothing}
      PROVE  /\ [f[i] EXCEPT !.by = b] \in FileType
             /\ [f[i] EXCEPT !.by = b].whole = f[i].whole
             /\ [f[i] EXCEPT !.by = b].wrote = f[i].wrote
             /\ [f[i] EXCEPT !.by = b].by = b
  <2>1. f[i] \in FileType
    OBVIOUS
  <2> QED
    BY <2>1 DEF FileType
<1>2. NoFile \in FileType
  BY DEF NoFile, FileType
<1>3. ASSUME NEW i \in Inodes
      PROVE  f[i].by \in Updaters \cup {Nothing}
  BY DEF FileType
<1> DEFINE by(i) == IF f[i].by # Nothing /\ fd'[f[i].by] = i THEN f[i].by ELSE Nothing
<1>4. \A i \in Inodes : by(i) \in Updaters \cup {Nothing}
  BY <1>3
<1>5. file' = [i \in Inodes |-> IF i \in {e, n, o} \/ \E u \in Updaters : fd'[u] = i
                                THEN [f[i] EXCEPT !.by = by(i)] ELSE NoFile]
  BY DEF Disk
<1>6. \A u \in Updaters : u # Nothing
  BY NothingElse
<1> HIDE DEF Disk
<1>7. file' \in [Inodes -> FileType]
  <2> HIDE DEF by
  <2> QED
    BY <1>1, <1>2, <1>4, <1>5
<1>8. ASSUME NEW i \in Inodes, i \in {e, n, o}
      PROVE  /\ file'[i].whole = f[i].whole /\ file'[i].wrote = f[i].wrote
             /\ file'[i].by = by(i)
  <2>1. file'[i] = [f[i] EXCEPT !.by = by(i)]
    BY <1>5, <1>8
  <2> HIDE DEF by
  <2> QED
    BY <1>1, <1>4, <2>1
<1> QED
  BY <1>6, <1>7, <1>8 DEF Program
-----------------------------------------------------------------------------
(* Before the first request there is one program on disk. *)
LEMMA UpdaterInit == Init => UpdaterInv
<1> SUFFICES ASSUME Init
             PROVE  UpdaterInv
  OBVIOUS
<1> USE DEF Init
<1>1. 0 \in Versions /\ 1 \in Inodes /\ 1 # Nothing
  BY UpdaterAssumption, NothingElse DEF Versions, Inodes
<1>2. file \in [Inodes -> FileType] /\ Program(file[1])
  BY <1>1 DEF NoFile, FileType, Program
<1>3. TypeOK
  BY <1>1, <1>2 DEF TypeOK, FileType, Mishaps
<1>4. OpenInv
  BY DEF OpenInv, Inside
<1>5. DiskInv
  BY <1>1, <1>2 DEF DiskInv, SoloInv, NamesInv, NewInv, Present, MissingInv, Replacing
<1> QED
  BY <1>3, <1>4, <1>5 DEF UpdaterInv

(* A step of a caller outside the replacement, to a place outside it, that *)
(* leaves the disk alone keeps the invariant.                              *)
LEMMA OutsideStep ==
    ASSUME UpdaterInv, NEW u \in Updaters, NEW s \in Stages \ Inside,
           NEW x \in Versions \cup {Nothing}, s = "download" => x \in Versions,
           upc[u] \notin Inside,
           upc' = [upc EXCEPT ![u] = s], arg' = [arg EXCEPT ![u] = x],
           release' \in Versions, etag' \in Versions \cup {Nothing},
           cur' \in [Updaters -> Versions],
           UNCHANGED <<diskVars, fd, mishaps>>
    PROVE  UpdaterInv'
<1>1. UNCHANGED <<exe, new, old, file, fd, mishaps>>
  BY DEF diskVars
<1>2. TypeOK'
  BY <1>1 DEF UpdaterInv, TypeOK, Stages, Inside
<1>3. \A w \in Updaters : w # u => upc'[w] = upc[w] /\ arg'[w] = arg[w]
  BY DEF UpdaterInv, TypeOK
<1>4. upc'[u] = s /\ arg'[u] = x
  BY DEF UpdaterInv, TypeOK
<1>5. OpenInv'
  BY <1>1, <1>3, <1>4 DEF UpdaterInv, OpenInv, Inside
<1>6. ASSUME "overlap" \notin mishaps
      PROVE  DiskInv'
  <2> USE <1>6 DEF UpdaterInv, DiskInv, Replacing, Inside
  <2>1. SoloInv'
    BY <1>3, <1>4 DEF SoloInv
  <2>2. NamesInv'
    BY <1>1 DEF NamesInv, Program, Present
  <2>3. NewInv'
    BY <1>1, <1>3, <1>4 DEF NewInv, Program, Present
  <2>4. MissingInv'
    BY <1>1, <1>3, <1>4 DEF MissingInv
  <2> QED
    BY <2>1, <2>2, <2>3, <2>4
<1> QED
  BY <1>1, <1>2, <1>5, <1>6 DEF UpdaterInv

(* CheckForUpdate, its retry and a failed download are such steps. *)
LEMMA CheckStep ==
    ASSUME UpdaterInv, NEW u \in Updaters,
           Launch(u) \/ CheckForUpdate(u) \/ Sleep(u) \/ DownloadFails(u)
    PROVE  UpdaterInv'
<1> USE DEF Goto
<1>1. /\ release \in Versions /\ etag \in Versions \cup {Nothing}
      /\ arg[u] \in Versions \cup {Nothing} /\ cur \in [Updaters -> Versions]
      /\ arg = [arg EXCEPT ![u] = arg[u]]
  BY DEF UpdaterInv, TypeOK
<1>2. /\ Retry(u) \in Stages \ Inside /\ Retry(u) # "download"
      /\ Finished(u) \in Stages \ Inside /\ Finished(u) # "download"
      /\ Told(u, release) \in Versions \cup {Nothing}
  BY <1>1 DEF Retry, Finished, Told, Stages, Inside
<1>3. {"check", "asked", "idle", "download"} \subseteq Stages \ Inside
  BY DEF Stages, Inside
<1>4. upc[u] \notin Inside
  BY DEF Launch, CheckForUpdate, Ask, CheckFails, NotModified, UpToDate, NoAsset, Available,
         Answer, Sleep, DownloadFails, Inside
<1>5. CASE Launch(u)
  <2>1. VersionAt(exe) \in Versions
    BY <1>5 DEF Launch, Binary, VersionAt
  <2> QED
    BY <1>1, <1>3, <1>4, <1>5, <2>1, OutsideStep DEF Launch
<1>6. CASE Ask(u)
  BY <1>1, <1>3, <1>4, <1>6, OutsideStep DEF Ask
<1>7. CASE CheckFails(u)
  BY <1>1, <1>2, <1>4, <1>7, OutsideStep DEF CheckFails
<1>8. CASE NotModified(u)
  BY <1>1, <1>2, <1>4, <1>8, OutsideStep DEF NotModified
<1>9. CASE UpToDate(u)
  BY <1>1, <1>2, <1>4, <1>9, OutsideStep DEF UpToDate, Answer
<1>10. CASE NoAsset(u)
  BY <1>1, <1>2, <1>4, <1>10, OutsideStep DEF NoAsset, Answer
<1>11. CASE Available(u) /\ u = "page"
  BY <1>1, <1>3, <1>4, <1>11, OutsideStep DEF Available, Answer
<1>12. CASE Available(u) /\ u # "page"
  BY <1>1, <1>3, <1>4, <1>12, OutsideStep DEF Available, Answer
<1>13. CASE Sleep(u)
  BY <1>1, <1>3, <1>4, <1>13, OutsideStep DEF Sleep
<1>14. CASE DownloadFails(u)
  BY <1>1, <1>2, <1>4, <1>14, OutsideStep DEF DownloadFails
<1> QED
  BY <1>5, <1>6, <1>7, <1>8, <1>9, <1>10, <1>11, <1>12, <1>13, <1>14 DEF CheckForUpdate

(* A release is published; nothing else changes. *)
LEMMA PublishStep ==
    ASSUME UpdaterInv, Publish
    PROVE  UpdaterInv'
<1>1. release + 1 \in Versions
  BY UpdaterAssumption DEF Publish, UpdaterInv, TypeOK, Versions
<1>2. UNCHANGED <<etag, exe, new, old, file, upc, cur, arg, fd, mishaps>>
  BY DEF Publish, diskVars
<1>3. TypeOK'
  BY <1>1, <1>2 DEF Publish, UpdaterInv, TypeOK
<1>4. OpenInv' /\ (DiskInv => DiskInv')
  BY <1>2 DEF UpdaterInv, OpenInv, DiskInv, SoloInv, NamesInv, NewInv, Present, MissingInv,
            Replacing, Program
<1> QED
  BY <1>2, <1>3, <1>4 DEF UpdaterInv
-----------------------------------------------------------------------------
(* DownloadAndUpdate *)

(* A caller moves on, with the version it installs and the file it has     *)
(* open, and the disk changes: the types stay.                             *)
LEMMA MoveType ==
    ASSUME TypeOK, OpenInv, NEW u \in Updaters, NEW s \in Stages,
           NEW x \in Versions \cup {Nothing}, NEW d \in Inodes \cup {Nothing},
           d # Nothing <=> s = "copy",
           s \in {"download"} \cup Inside => x \in Versions,
           upc' = [upc EXCEPT ![u] = s], arg' = [arg EXCEPT ![u] = x],
           fd' = [fd EXCEPT ![u] = d],
           {exe', new', old'} \subseteq Inodes \cup {Nothing}, file' \in [Inodes -> FileType],
           mishaps' \subseteq Mishaps, UNCHANGED <<release, etag, cur>>
    PROVE  TypeOK' /\ OpenInv'
<1>1. TypeOK'
  BY DEF TypeOK, FileType, Stages, Inside
<1>2. \A w \in Updaters : /\ upc'[w] = IF w = u THEN s ELSE upc[w]
                          /\ arg'[w] = IF w = u THEN x ELSE arg[w]
                          /\ fd'[w] = IF w = u THEN d ELSE fd[w]
  BY DEF TypeOK
<1>3. OpenInv'
  BY <1>2 DEF OpenInv
<1> QED
  BY <1>1, <1>3

(* What the invariant says of the caller inside the replacement: the       *)
(* others are outside.                                                     *)
LEMMA Alone ==
    ASSUME TypeOK, SoloInv, NEW u \in Updaters, NEW s, upc[u] \in Inside,
           upc' = [upc EXCEPT ![u] = s]
    PROVE  upc'[u] = s /\ \A w \in Updaters : w # u => upc'[w] \notin Inside
  BY DEF TypeOK, SoloInv, Replacing, Inside

(* Where it is alone it was alone before. *)
LEMMA Others ==
    ASSUME SoloInv, NEW u \in Updaters, upc[u] \in Inside
    PROVE  \A w \in Updaters : w # u => upc[w] \notin Inside
  BY DEF SoloInv, Replacing, Inside

(* With the others outside, the invariant of the disk is about the names   *)
(* and about one caller.                                                   *)
LEMMA OneCaller ==
    ASSUME NEW u \in Updaters, \A w \in Updaters : w # u => upc'[w] \notin Inside,
           NamesInv', MissingInv',
           upc'[u] = "copy" => /\ Present'
                               /\ new' = fd'[u]
                               /\ file'[new'].wrote = {arg'[u]} /\ file'[new'].by = u,
           upc'[u] \in {"chmod", "backup"}
               => Present' /\ new' # Nothing /\ Program(file'[new']),
           upc'[u] = "replace" => /\ exe' = Nothing /\ old' # Nothing
                                  /\ new' # Nothing /\ Program(file'[new'])
    PROVE  DiskInv'
<1>1. SoloInv'
  BY DEF SoloInv, Replacing, Inside
<1>2. NewInv'
  BY DEF NewInv, Inside
<1> QED
  BY <1>1, <1>2 DEF DiskInv

(* While one caller is inside the replacement, but not at the second       *)
(* rename, an executable that is missing was missing before.               *)
LEMMA MissingKept ==
    ASSUME MissingInv, NEW u \in Updaters, upc[u] # "replace",
           \A w \in Updaters : w # u => upc[w] \notin Inside,
           exe' = exe, mishaps \subseteq mishaps'
    PROVE  MissingInv'
  BY DEF MissingInv, Inside

(* os.Create: the .new file is truncated, or a free inode is taken, and    *)
(* neither is the executable or its backup.                                *)
LEMMA CreateStep ==
    ASSUME UpdaterInv, NEW u \in Updaters, Create(u)
    PROVE  UpdaterInv'
<1> DEFINE i == IF new = Nothing THEN FreeInode ELSE new
           writers == {w \in Updaters : fd[w] = i} \cup {u}
           rec == [whole |-> FALSE, wrote |-> {arg[w] : w \in writers}, by |-> u]
           f == [file EXCEPT ![i] = rec]
<1>1. /\ upc[u] = "download" /\ upc' = [upc EXCEPT ![u] = "copy"]
      /\ fd' = [fd EXCEPT ![u] = i] /\ Disk(exe, i, old, f)
      /\ UNCHANGED <<release, etag, cur, arg>>
      /\ mishaps' = mishaps
            \cup (IF \E w \in Updaters \ {u} : Replacing(w) THEN {"overlap"} ELSE {})
            \cup (IF exe = Nothing THEN {"retried"} ELSE {})
  BY DEF Create, Goto
<1>2. TypeOK /\ OpenInv
  BY DEF UpdaterInv
<1>3. fd[u] = Nothing /\ arg[u] \in Versions
  BY <1>1, <1>2 DEF OpenInv
<1>4. i \in Inodes /\ i # Nothing
  BY <1>2, <1>3, FreeIsFree, NothingElse DEF TypeOK
<1> HIDE DEF i
<1>5. rec \in FileType
  <2>1. \A w \in writers : arg[w] \in Versions
    BY <1>2, <1>3, <1>4 DEF OpenInv, Inside
  <2> QED
    BY <2>1 DEF FileType
<1>6. f \in [Inodes -> FileType] /\ f[i] = rec /\ \A j \in Inodes : j # i => f[j] = file[j]
  BY <1>2, <1>4, <1>5 DEF TypeOK, FileType
<1>7. fd' \in [Updaters -> Inodes \cup {Nothing}] /\ fd'[u] = i
  BY <1>1, <1>2, <1>4 DEF TypeOK
<1> HIDE DEF f
<1>8. exe' = exe /\ new' = i /\ old' = old
  BY <1>1 DEF Disk
<1>9. /\ file' \in [Inodes -> FileType]
      /\ file'[i].wrote = rec.wrote /\ file'[i].by = u
      /\ \A j \in Inodes : j \in {exe, old} /\ j # i => (Program(file'[j]) <=> Program(file[j]))
  BY <1>1, <1>4, <1>6, <1>7, DiskFile
<1>10. TypeOK' /\ OpenInv'
  <2>1. arg' = [arg EXCEPT ![u] = arg[u]]
    BY <1>1, <1>2 DEF TypeOK
  <2>2. {exe', new', old'} \subseteq Inodes \cup {Nothing} /\ mishaps' \subseteq Mishaps
    BY <1>1, <1>2, <1>4, <1>8 DEF TypeOK, Mishaps
  <2>3. "copy" \in Stages
    BY DEF Stages, Inside
  <2> QED
    BY <1>1, <1>2, <1>3, <1>4, <1>9, <2>1, <2>2, <2>3, MoveType
<1>11. ASSUME "overlap" \notin mishaps'
       PROVE  DiskInv'
  <2>1. /\ \A w \in Updaters : w # u => upc[w] \notin Inside
        /\ DiskInv /\ mishaps \subseteq mishaps'
    BY <1>1, <1>11 DEF UpdaterInv, Replacing, Inside
  <2>2. Present'
    BY <1>1, <1>8 DEF Present
  <2>3. i # exe /\ i # old
    BY <1>2, <1>3, <2>1, <1>4, FreeIsFree DEF i, DiskInv, NamesInv
  <2>4. writers = {u}
    BY <1>2, <1>4, <2>1 DEF OpenInv, Inside
  <2>5. file'[new'].wrote = {arg'[u]} /\ file'[new'].by = u
    BY <1>1, <1>8, <1>9, <2>4
  <2>6. NamesInv'
    BY <1>2, <1>8, <1>9, <2>1, <2>3, <2>2 DEF TypeOK, DiskInv, NamesInv
  <2>7. MissingInv'
    BY <1>1, <1>8, <2>1, MissingKept DEF DiskInv
  <2>8. \A w \in Updaters : w # u => upc'[w] \notin Inside
    BY <1>1, <1>2, <2>1 DEF TypeOK
  <2>9. upc'[u] = "copy"
    BY <1>1, <1>2 DEF TypeOK
  <2> QED
    BY <1>7, <1>8, <2>1, <2>5, <2>6, <2>7, <2>8, <2>9, <2>2, OneCaller
<1> QED
  BY <1>10, <1>11 DEF UpdaterInv

(* A caller that has its file closed, or closes it, goes to s with the     *)
(* version x.                                                              *)
Moves(u, s, x) ==
    /\ upc' = [upc EXCEPT ![u] = s] /\ arg' = [arg EXCEPT ![u] = x]
    /\ fd' = [fd EXCEPT ![u] = Nothing]
    /\ UNCHANGED <<release, etag, cur>>

(* With such a move it may change the names on disk. *)
LEMMA DiskMove ==
    ASSUME UpdaterInv, NEW u \in Updaters, NEW s \in Stages \ {"download", "copy"},
           NEW x \in Versions \cup {Nothing}, s \in Inside => x \in Versions,
           NEW e \in Inodes \cup {Nothing}, NEW n \in Inodes \cup {Nothing},
           NEW o \in Inodes \cup {Nothing}, NEW f \in [Inodes -> FileType],
           Moves(u, s, x), Disk(e, n, o, f), mishaps' \subseteq Mishaps
    PROVE  /\ TypeOK' /\ OpenInv'
           /\ exe' = e /\ new' = n /\ old' = o
           /\ \A i \in Inodes : i \in {e, n, o} => (Program(file'[i]) <=> Program(f[i]))
<1>1. TypeOK /\ OpenInv
  BY DEF UpdaterInv
<1>2. fd' \in [Updaters -> Inodes \cup {Nothing}]
  BY <1>1 DEF TypeOK, Moves
<1>3. /\ file' \in [Inodes -> FileType]
      /\ \A i \in Inodes : i \in {e, n, o} => (Program(file'[i]) <=> Program(f[i]))
  BY <1>2, DiskFile
<1>4. exe' = e /\ new' = n /\ old' = o
  BY DEF Disk
<1>5. TypeOK' /\ OpenInv'
  BY <1>1, <1>3, <1>4, MoveType DEF Moves
<1> QED
  BY <1>3, <1>4, <1>5

(* io.Copy to the end: nobody else truncated the file, so it is whole. *)
LEMMA CopyStep ==
    ASSUME UpdaterInv, NEW u \in Updaters, Copy(u)
    PROVE  UpdaterInv'
<1> DEFINE f == [file EXCEPT ![fd[u]].whole = @ \/ file[fd[u]].by = u]
<1>1. /\ upc[u] = "copy" /\ upc' = [upc EXCEPT ![u] = "chmod"]
      /\ fd' = [fd EXCEPT ![u] = Nothing] /\ Disk(exe, new, old, f)
      /\ UNCHANGED <<release, etag, cur, arg, mishaps>>
  BY DEF Copy, Goto
<1>2. TypeOK /\ OpenInv /\ mishaps \subseteq Mishaps
  BY DEF UpdaterInv, TypeOK
<1>3. fd[u] \in Inodes /\ arg[u] \in Versions /\ arg' = [arg EXCEPT ![u] = arg[u]]
  BY <1>1, <1>2 DEF OpenInv, Inside, TypeOK
<1>4. /\ f \in [Inodes -> FileType]
      /\ \A i \in Inodes : i # fd[u] => f[i] = file[i]
      /\ f[fd[u]].wrote = file[fd[u]].wrote
      /\ file[fd[u]].by = u => f[fd[u]].whole
  <2>1. file[fd[u]] \in FileType /\ file \in [Inodes -> FileType]
    BY <1>2, <1>3 DEF TypeOK, FileType
  <2>2. PICK b \in BOOLEAN : b = (file[fd[u]].whole \/ file[fd[u]].by = u)
    OBVIOUS
  <2>3. f = [file EXCEPT ![fd[u]] = [file[fd[u]] EXCEPT !.whole = b]]
    BY <2>1, <2>2, <1>3
  <2>4. [file[fd[u]] EXCEPT !.whole = b] \in FileType
        /\ [file[fd[u]] EXCEPT !.whole = b].wrote = file[fd[u]].wrote
        /\ [file[fd[u]] EXCEPT !.whole = b].whole = b
    BY <2>1 DEF FileType
  <2> HIDE DEF f
  <2> QED
    BY <1>3, <2>1, <2>2, <2>3, <2>4
<1> HIDE DEF f
<1>5. /\ TypeOK' /\ OpenInv' /\ exe' = exe /\ new' = new /\ old' = old
      /\ \A i \in Inodes : i \in {exe, new, old} => (Program(file'[i]) <=> Program(f[i]))
  <2>1. "chmod" \in Stages \ {"download", "copy"}
        /\ exe \in Inodes \cup {Nothing} /\ new \in Inodes \cup {Nothing}
        /\ old \in Inodes \cup {Nothing} /\ f \in [Inodes -> FileType]
    BY <1>2, <1>4 DEF Stages, Inside, TypeOK
  <2>2. mishaps' \subseteq Mishaps /\ arg[u] \in Versions \cup {Nothing}
    BY <1>1, <1>2, <1>3
  <2>3. Moves(u, "chmod", arg[u])
    BY <1>1, <1>3 DEF Moves
  <2> QED
    BY <1>1, <1>3, <2>1, <2>2, <2>3, DiskMove
<1>6. ASSUME "overlap" \notin mishaps
      PROVE  DiskInv'
  <2>1. DiskInv
    BY <1>6 DEF UpdaterInv
  <2>2. upc'[u] = "chmod" /\ \A w \in Updaters : w # u => upc'[w] \notin Inside
    BY <1>1, <1>2, <2>1, Alone DEF DiskInv, Inside
  <2>3. /\ Present' /\ new = fd[u] /\ new # Nothing
        /\ file[new].wrote = {arg[u]} /\ file[new].by = u
    BY <1>1, <1>3, <1>5, <2>1, NothingElse DEF DiskInv, NewInv, Present
  <2>4. Program(file'[new'])
    BY <1>3, <1>4, <1>5, <2>3 DEF Program
  <2>5. NamesInv'
    BY <1>2, <1>4, <1>5, <2>1, <2>3 DEF DiskInv, NamesInv, TypeOK
  <2>6. MissingInv'
    BY <1>1, <1>5, <2>1, MissingKept, Others DEF DiskInv, Inside
  <2> QED
    BY <1>5, <2>2, <2>3, <2>4, <2>5, <2>6, OneCaller
<1> QED
  BY <1>1, <1>5, <1>6 DEF UpdaterInv

(* The copy, Chmod or the first rename fails: the .new file is removed and *)
(* the executable was not touched.                                         *)
LEMMA FailStep ==
    ASSUME UpdaterInv, NEW u \in Updaters, CopyFails(u) \/ BackupFails(u)
    PROVE  UpdaterInv'
<1>1. TypeOK /\ OpenInv
  BY DEF UpdaterInv
<1>2. /\ upc[u] \in {"copy", "chmod", "backup"} /\ upc' = [upc EXCEPT ![u] = Retry(u)]
      /\ arg' = [arg EXCEPT ![u] = Nothing]
      /\ Disk(exe, Nothing, old, file)
      /\ UNCHANGED <<release, etag, cur, mishaps>>
  BY DEF CopyFails, BackupFails, Goto
<1>3. fd' = [fd EXCEPT ![u] = Nothing]
  BY <1>1 DEF CopyFails, BackupFails, Goto, TypeOK, OpenInv
<1>4. Retry(u) \in Stages \ {"download", "copy"} /\ Retry(u) \notin Inside
  BY DEF Retry, Stages, Inside
<1>5. /\ TypeOK' /\ OpenInv' /\ exe' = exe /\ new' = Nothing /\ old' = old
      /\ \A i \in Inodes : i \in {exe, Nothing, old} => (Program(file'[i]) <=> Program(file[i]))
  <2>1. /\ exe \in Inodes \cup {Nothing} /\ old \in Inodes \cup {Nothing}
        /\ file \in [Inodes -> FileType] /\ mishaps' \subseteq Mishaps
    BY <1>1, <1>2 DEF TypeOK, FileType
  <2>2. Moves(u, Retry(u), Nothing)
    BY <1>2, <1>3 DEF Moves
  <2> QED
    BY <1>2, <1>4, <2>1, <2>2, DiskMove
<1>6. ASSUME "overlap" \notin mishaps
      PROVE  DiskInv'
  <2>1. DiskInv
    BY <1>6 DEF UpdaterInv
  <2>2. upc'[u] = Retry(u) /\ \A w \in Updaters : w # u => upc'[w] \notin Inside
    <3>1. upc[u] \in Inside /\ SoloInv
      BY <1>2, <2>1 DEF DiskInv, Inside
    <3> QED
      BY <1>1, <1>2, <3>1, Alone
  <2>3. NamesInv'
    BY <1>1, <1>2, <1>5, <2>1 DEF DiskInv, NamesInv, TypeOK, Present
  <2>4. MissingInv'
    BY <1>2, <1>5, <2>1, MissingKept, Others DEF DiskInv, Inside
  <2> QED
    BY <1>4, <2>2, <2>3, <2>4, OneCaller DEF Inside
<1> QED
  BY <1>2, <1>5, <1>6 DEF UpdaterInv

(* The steps that succeed: the old backup is removed while the executable  *)
(* is there, the executable becomes the backup, the whole .new file        *)
(* becomes the executable.                                                 *)
LEMMA RenameStep ==
    ASSUME UpdaterInv, NEW u \in Updaters, RemoveOld(u) \/ Backup(u) \/ Replace(u)
    PROVE  UpdaterInv'
<1> USE DEF Goto
<1>1. TypeOK /\ OpenInv
  BY DEF UpdaterInv
<1>2. /\ upc[u] \in {"chmod", "backup", "replace"}
      /\ UNCHANGED <<release, etag, cur, mishaps, fd>>
  BY DEF RemoveOld, Backup, Replace
<1>3. /\ fd' = [fd EXCEPT ![u] = Nothing] /\ arg[u] \in Versions
      /\ arg = [arg EXCEPT ![u] = arg[u]]
  BY <1>1, <1>2 DEF TypeOK, OpenInv, Inside
<1>4. /\ exe \in Inodes \cup {Nothing} /\ new \in Inodes \cup {Nothing}
      /\ old \in Inodes \cup {Nothing} /\ file \in [Inodes -> FileType]
      /\ mishaps' \subseteq Mishaps
  BY <1>1, <1>2 DEF TypeOK, FileType
<1>5. ASSUME "overlap" \notin mishaps
      PROVE  /\ DiskInv /\ upc[u] \in Inside
             /\ new # Nothing /\ new \in Inodes /\ Program(file[new])
             /\ upc[u] # "replace" => Present
             /\ \A w \in Updaters : w # u => upc[w] \notin Inside
             /\ \A s : upc' = [upc EXCEPT ![u] = s] =>
                    upc'[u] = s /\ \A w \in Updaters : w # u => upc'[w] \notin Inside
  <2>1. DiskInv /\ upc[u] \in Inside
    BY <1>2, <1>5 DEF UpdaterInv, Inside
  <2> QED
    BY <1>1, <1>2, <1>4, <2>1, Alone, Others DEF DiskInv, NewInv
<1>6. CASE RemoveOld(u)
  <2>1. /\ upc' = [upc EXCEPT ![u] = "backup"] /\ Disk(exe, new, Nothing, file)
        /\ arg' = [arg EXCEPT ![u] = arg[u]] /\ upc[u] = "chmod"
    BY <1>3, <1>6 DEF RemoveOld
  <2>2. "backup" \in Stages \ {"download", "copy"}
    BY DEF Stages, Inside
  <2>3. /\ TypeOK' /\ OpenInv' /\ exe' = exe /\ new' = new /\ old' = Nothing
        /\ \A i \in Inodes : i \in {exe, new, Nothing} => (Program(file'[i]) <=> Program(file[i]))
    <3>1. Moves(u, "backup", arg[u])
      BY <1>2, <1>3, <2>1 DEF Moves
    <3> QED
      BY <1>3, <1>4, <2>1, <2>2, <3>1, DiskMove
  <2>4. ASSUME "overlap" \notin mishaps
        PROVE  DiskInv'
    <3>1. Present'
      BY <1>2, <1>5, <2>1, <2>3, <2>4 DEF Present
    <3>2. NamesInv'
      BY <1>4, <1>5, <2>1, <2>3, <2>4, <3>1 DEF DiskInv, NamesInv
    <3>3. MissingInv'
      BY <1>2, <1>5, <2>1, <2>3, <2>4, MissingKept DEF DiskInv
    <3> QED
      BY <1>5, <2>1, <2>3, <2>4, <3>1, <3>2, <3>3, OneCaller
  <2> QED
    BY <1>2, <2>3, <2>4 DEF UpdaterInv
<1>7. CASE Backup(u)
  <2>1. /\ upc' = [upc EXCEPT ![u] = "replace"] /\ Disk(Nothing, new, exe, file)
        /\ arg' = [arg EXCEPT ![u] = arg[u]] /\ upc[u] = "backup" /\ exe # Nothing
    BY <1>3, <1>7 DEF Backup
  <2>2. "replace" \in Stages \ {"download", "copy"}
    BY DEF Stages, Inside
  <2>3. /\ TypeOK' /\ OpenInv' /\ exe' = Nothing /\ new' = new /\ old' = exe
        /\ \A i \in Inodes : i \in {Nothing, new, exe} => (Program(file'[i]) <=> Program(file[i]))
    <3>1. Moves(u, "replace", arg[u])
      BY <1>2, <1>3, <2>1 DEF Moves
    <3> QED
      BY <1>3, <1>4, <2>1, <2>2, <3>1, DiskMove
  <2>4. ASSUME "overlap" \notin mishaps
        PROVE  DiskInv'
    <3>1. NamesInv'
      BY <1>4, <1>5, <2>1, <2>3, <2>4, NothingElse DEF DiskInv, NamesInv
    <3>2. MissingInv'
      BY <1>5, <2>1, <2>4 DEF MissingInv
    <3> QED
      BY <1>5, <2>1, <2>3, <2>4, <3>1, <3>2, OneCaller
  <2> QED
    BY <1>2, <2>3, <2>4 DEF UpdaterInv
<1>8. CASE Replace(u)
  <2>1. /\ upc' = [upc EXCEPT ![u] = Finished(u)] /\ Disk(new, Nothing, old, file)
        /\ arg' = [arg EXCEPT ![u] = Told(u, arg[u])] /\ upc[u] = "replace" /\ new # Nothing
    BY <1>1, <1>8 DEF Replace, TypeOK
  <2>2. /\ Finished(u) \in Stages \ {"download", "copy"} /\ Finished(u) \notin Inside
        /\ Told(u, arg[u]) \in Versions \cup {Nothing}
    BY <1>3 DEF Finished, Told, Stages, Inside
  <2>3. /\ TypeOK' /\ OpenInv' /\ exe' = new /\ new' = Nothing /\ old' = old
        /\ \A i \in Inodes : i \in {new, Nothing, old} => (Program(file'[i]) <=> Program(file[i]))
    <3>1. Moves(u, Finished(u), Told(u, arg[u]))
      BY <1>2, <1>3, <2>1 DEF Moves
    <3> QED
      BY <1>3, <1>4, <2>1, <2>2, <3>1, DiskMove
  <2>4. ASSUME "overlap" \notin mishaps
        PROVE  DiskInv'
    <3>1. NamesInv' /\ MissingInv'
      BY <1>4, <1>5, <2>1, <2>3, <2>4 DEF DiskInv, NamesInv, MissingInv, Present
    <3> QED
      BY <1>5, <2>1, <2>2, <2>4, <3>1, OneCaller DEF Inside
  <2> QED
    BY <1>2, <2>3, <2>4 DEF UpdaterInv
<1> QED
  BY <1>6, <1>7, <1>8

(* The second rename fails: the backup becomes the executable again, or,   *)
(* when that rename fails too, stays where it is.                          *)
LEMMA RollbackStep ==
    ASSUME UpdaterInv, NEW u \in Updaters, ReplaceFails(u)
    PROVE  UpdaterInv'
<1>1. TypeOK /\ OpenInv
  BY DEF UpdaterInv
<1>2. /\ upc[u] = "replace" /\ upc' = [upc EXCEPT ![u] = Retry(u)]
      /\ arg' = [arg EXCEPT ![u] = Nothing]
      /\ UNCHANGED <<release, etag, cur, fd>>
  BY DEF ReplaceFails, Goto
<1>3. fd' = [fd EXCEPT ![u] = Nothing]
  BY <1>1, <1>2 DEF TypeOK, OpenInv
<1>4. Retry(u) \in Stages \ {"download", "copy"} /\ Retry(u) \notin Inside
  BY DEF Retry, Stages, Inside
<1>5. /\ exe \in Inodes \cup {Nothing} /\ new \in Inodes \cup {Nothing}
      /\ old \in Inodes \cup {Nothing} /\ file \in [Inodes -> FileType]
      /\ mishaps \subseteq Mishaps
  BY <1>1 DEF TypeOK, FileType
<1>6. ASSUME "overlap" \notin mishaps
      PROVE  /\ DiskInv /\ exe = Nothing /\ old # Nothing /\ Program(file[old])
             /\ new # Nothing /\ new # old
             /\ upc'[u] = Retry(u) /\ \A w \in Updaters : w # u => upc'[w] \notin Inside
  <2>1. DiskInv
    BY <1>6 DEF UpdaterInv
  <2>2. upc[u] \in Inside /\ SoloInv
    BY <1>2, <2>1 DEF DiskInv, Inside
  <2>3. upc'[u] = Retry(u) /\ \A w \in Updaters : w # u => upc'[w] \notin Inside
    BY <1>1, <1>2, <2>2, Alone
  <2> QED
    BY <1>2, <2>1, <2>3 DEF DiskInv, NewInv, NamesInv
<1>7. CASE Disk(old, new, Nothing, file) /\ UNCHANGED mishaps
  <2>1. /\ TypeOK' /\ OpenInv' /\ exe' = old /\ new' = new /\ old' = Nothing
        /\ \A i \in Inodes : i \in {old, new, Nothing} => (Program(file'[i]) <=> Program(file[i]))
    <3>1. Disk(old, new, Nothing, file) /\ mishaps' \subseteq Mishaps
      BY <1>5, <1>7
    <3>2. Moves(u, Retry(u), Nothing)
      BY <1>2, <1>3 DEF Moves
    <3> QED
      BY <1>4, <1>5, <3>1, <3>2, DiskMove
  <2>2. ASSUME "overlap" \notin mishaps
        PROVE  DiskInv'
    <3>1. NamesInv' /\ MissingInv'
      BY <1>5, <1>6, <2>1, <2>2 DEF NamesInv, MissingInv, Present
    <3> QED
      BY <1>4, <1>6, <2>2, <3>1, OneCaller DEF Inside
  <2> QED
    BY <1>7, <2>1, <2>2 DEF UpdaterInv
<1>8. CASE /\ UNCHANGED diskVars
           /\ \/ old = Nothing /\ UNCHANGED mishaps
              \/ mishaps' = mishaps \cup {"rollback"}
  <2>1. UNCHANGED <<exe, new, old, file>> /\ mishaps' \subseteq Mishaps
        /\ mishaps \subseteq mishaps'
    BY <1>5, <1>8 DEF diskVars, Mishaps
  <2>2. TypeOK' /\ OpenInv'
    <3>1. {exe', new', old'} \subseteq Inodes \cup {Nothing} /\ file' \in [Inodes -> FileType]
      BY <1>5, <2>1
    <3> QED
      BY <1>1, <1>2, <1>3, <1>4, <2>1, <3>1, MoveType
  <2>3. ASSUME "overlap" \notin mishaps'
        PROVE  DiskInv'
    <3>1. "overlap" \notin mishaps
      BY <2>1, <2>3
    <3>2. "rollback" \in mishaps'
      BY <1>6, <1>8, <3>1
    <3>3. NamesInv' /\ MissingInv'
      BY <1>6, <2>1, <3>1, <3>2 DEF DiskInv, NamesInv, MissingInv, Present, Program
    <3> QED
      BY <1>4, <1>6, <3>1, <3>3, OneCaller DEF Inside
  <2> QED
    BY <2>2, <2>3 DEF UpdaterInv
<1> QED
  BY <1>7, <1>8 DEF ReplaceFails

(* A kill at any step: what is on disk stays, and a file that was being    *)
(* written is neither the executable nor its backup.                       *)
LEMMA KillStep ==
    ASSUME UpdaterInv, NEW u \in Updaters, Kill(u)
    PROVE  UpdaterInv'
<1>1. TypeOK /\ OpenInv
  BY DEF UpdaterInv
<1>2. /\ upc' = [upc EXCEPT ![u] = "idle"] /\ arg' = [arg EXCEPT ![u] = Nothing]
      /\ fd' = [fd EXCEPT ![u] = Nothing] /\ Disk(exe, new, old, file)
      /\ UNCHANGED <<release, etag, cur>>
  BY DEF Kill
<1>3. /\ mishaps \subseteq mishaps' /\ mishaps' \subseteq mishaps \cup {"cut", "killed"}
      /\ upc[u] = "replace" => "cut" \in mishaps'
  BY DEF Kill
<1>4. /\ exe \in Inodes \cup {Nothing} /\ new \in Inodes \cup {Nothing}
      /\ old \in Inodes \cup {Nothing} /\ file \in [Inodes -> FileType]
      /\ mishaps' \subseteq Mishaps
  BY <1>1, <1>3 DEF TypeOK, FileType, Mishaps
<1>5. "idle" \in Stages \ {"download", "copy"} /\ "idle" \notin Inside
  BY DEF Stages, Inside
<1>6. /\ TypeOK' /\ OpenInv' /\ exe' = exe /\ new' = new /\ old' = old
      /\ \A i \in Inodes : i \in {exe, new, old} => (Program(file'[i]) <=> Program(file[i]))
  <2>1. Moves(u, "idle", Nothing)
    BY <1>2 DEF Moves
  <2> QED
    BY <1>2, <1>4, <1>5, <2>1, DiskMove
<1>7. /\ fd' \in [Updaters -> Inodes \cup {Nothing}]
      /\ upc'[u] = "idle"
      /\ \A w \in Updaters : w # u => upc'[w] = upc[w] /\ arg'[w] = arg[w] /\ fd'[w] = fd[w]
  BY <1>1, <1>2 DEF TypeOK
<1>8. \A i \in Inodes : i \in {exe, new, old} =>
          /\ file'[i].wrote = file[i].wrote
          /\ \A w \in Updaters : file[i].by = w /\ fd'[w] = i => file'[i].by = w
  BY <1>2, <1>4, <1>7, DiskFile
<1>9. ASSUME "overlap" \notin mishaps'
      PROVE  DiskInv'
  <2>1. DiskInv
    BY <1>3, <1>9 DEF UpdaterInv
  <2>2. SoloInv'
    BY <1>7, <2>1 DEF DiskInv, SoloInv, Replacing
  <2>3. Present => Present'
    BY <1>3, <1>6 DEF Present
  <2>4. NamesInv'
    BY <1>4, <1>6, <2>1, <2>3 DEF DiskInv, NamesInv
  <2>5. ASSUME NEW w \in Updaters, upc'[w] \in Inside
        PROVE  /\ w # u /\ upc[w] = upc'[w] /\ arg'[w] = arg[w] /\ fd'[w] = fd[w]
               /\ new # Nothing /\ new \in Inodes
    <3>1. w # u /\ upc[w] = upc'[w] /\ arg'[w] = arg[w] /\ fd'[w] = fd[w]
      BY <1>5, <1>7, <2>5
    <3> QED
      BY <1>1, <1>4, <2>1, <2>5, <3>1 DEF DiskInv, NewInv, OpenInv, Inside
  <2>6. NewInv'
    BY <1>6, <1>8, <2>1, <2>5, <2>3 DEF DiskInv, NewInv, Inside
  <2>7. MissingInv'
    BY <1>3, <1>6, <1>7, <2>1 DEF DiskInv, MissingInv
  <2> QED
    BY <2>2, <2>4, <2>6, <2>7 DEF DiskInv
<1> QED
  BY <1>6, <1>9 DEF UpdaterInv
-----------------------------------------------------------------------------
(* Every step of every caller keeps the invariant. *)
LEMMA UpdaterStep == UpdaterInv /\ [Next]_vars => UpdaterInv'
<1> SUFFICES ASSUME UpdaterInv, [Next]_vars
             PROVE  UpdaterInv'
  OBVIOUS
<1>1. CASE Publish
  BY <1>1, PublishStep
<1>2. ASSUME NEW u \in Updaters,
             Launch(u) \/ CheckForUpdate(u) \/ Sleep(u) \/ DownloadAndUpdate(u) \/ Kill(u)
      PROVE  UpdaterInv'
  BY <1>2, CheckStep, CreateStep, CopyStep, FailStep, RenameStep, RollbackStep, KillStep
     DEF DownloadAndUpdate
<1>3. CASE UNCHANGED vars
  <2>1. UNCHANGED <<release, etag, exe, new, old, file, upc, cur, arg, fd, mishaps>>
    BY <1>3 DEF vars
  <2>2. TypeOK' /\ OpenInv'
    BY <2>1 DEF UpdaterInv, TypeOK, OpenInv
  <2>3. DiskInv => DiskInv'
    BY <2>1 DEF DiskInv, SoloInv, NamesInv, NewInv, Present, MissingInv, Replacing, Program
  <2> QED
    BY <2>1, <2>2, <2>3 DEF UpdaterInv
<1> QED
  BY <1>1, <1>2, <1>3 DEF Next

(* The invariant of the update holds at every step of every caller. *)
THEOREM UpdaterInvariant == Spec => []UpdaterInv
  BY UpdaterInit, UpdaterStep, PTL DEF Spec

(* The state keeps its types, with overlapping downloads too: five inodes  *)
(* are always enough.                                                      *)
THEOREM UpdaterTypeOK == Spec => []TypeOK
<1>1. UpdaterInv => TypeOK
  BY DEF UpdaterInv
<1> QED
  BY UpdaterInvariant, <1>1, PTL

(* A partly downloaded file never becomes the executable or its backup,    *)
(* unless two downloads overlapped (DownloadAndUpdate).                    *)
THEOREM NeverTornAlways == Spec => []NeverTorn
<1>1. UpdaterInv => NeverTorn
  BY DEF UpdaterInv, TypeOK, DiskInv, NamesInv, NeverTorn, Binary, Program
<1> QED
  BY UpdaterInvariant, <1>1, PTL

(* There is always a complete binary at exePath or at .old, whichever      *)
(* rename fails and whenever the updater is killed (DownloadAndUpdate),    *)
(* unless two downloads overlapped or one began without an executable at   *)
(* exePath, after a kill or a failed rollback there.                       *)
THEOREM AlwaysRecoverableAlways == Spec => []AlwaysRecoverable
<1>1. UpdaterInv => AlwaysRecoverable
  BY DEF UpdaterInv, DiskInv, NamesInv, Present, AlwaysRecoverable, Binary, Program
<1> QED
  BY UpdaterInvariant, <1>1, PTL

(* Every error path puts the executable back: it is missing only inside    *)
(* the two renames, or after a mishap there.                               *)
THEOREM MissingOnlyWhileReplacingAlways == Spec => []MissingOnlyWhileReplacing
<1>1. UpdaterInv => MissingOnlyWhileReplacing
  <2> SUFFICES ASSUME UpdaterInv
               PROVE  MissingOnlyWhileReplacing
    OBVIOUS
  <2>1. CASE "overlap" \in mishaps
    BY <2>1 DEF MissingOnlyWhileReplacing
  <2>2. CASE "overlap" \notin mishaps
    BY <2>2 DEF UpdaterInv, DiskInv, MissingInv, MissingOnlyWhileReplacing
  <2> QED
    BY <2>1, <2>2
<1> QED
  BY UpdaterInvariant, <1>1, PTL
=============================================================================
