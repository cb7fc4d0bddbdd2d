------------------------------ MODULE Updater ------------------------------
(***************************************************************************)
(* The self-update of internal/core/updater.go: the conditional request of *)
(* CheckForUpdate with its ETag file and the replacement of the executable *)
(* by DownloadAndUpdate, step by step on disk, with kills between any two  *)
(* steps.  Three callers share the ETag file and the executable, and       *)
(* nothing keeps them apart:                                               *)
(*   "checker"  the goroutine of StartUpdateChecker in a running process;  *)
(*   "command"  a process of its own, turnguard -check-update, as the user *)
(*              or the desktop application starts it;                      *)
(*   "page"     the web UI's handleCheckUpdate, which only checks.         *)
(*                                                                         *)
(* A version is a number, an ETag the version whose release it belongs to. *)
(* The disk has inodes, as two updaters may write one .new file, and one   *)
(* may rename what the other still writes.  A file is whole when the last  *)
(* one that truncated it has written it to the end; what was written since *)
(* is kept as a set of versions.                                           *)
(***************************************************************************)
EXTENDS Naturals, FiniteSets, FiniteSetsExt

CONSTANTS Updaters,     \* the callers, a subset of {"checker", "command", "page"}
          MaxRelease,   \* the newest version that will be released
          Nothing       \* no file, no ETag

ASSUME UpdaterAssumption ==
    /\ Updaters \subseteq {"checker", "command", "page"}
    /\ MaxRelease \in Nat
    /\ Nothing \notin Nat \cup Updaters

VARIABLES release,      \* the latest release on GitHub
          etag,         \* the cached ETag, or Nothing
          exe,          \* the inode at exePath
          new,          \* at exePath.new
          old,          \* at exePath.old
          file,         \* the files by inode
          upc,          \* where each caller is
          cur,          \* CurrentVersion of its process
          arg,          \* the ETag it sent, then the version it was told of
          fd,           \* the file it writes
          mishaps       \* what went wrong so far (history), see Mishaps

vars == <<release, etag, exe, new, old, file, upc, cur, arg, fd, mishaps>>
diskVars == <<exe, new, old, file>>

Versions == 0..MaxRelease

(* Three names and two open files: a sixth inode is never needed. *)
Inodes == 1..5
NoFile == [whole |-> FALSE, wrote |-> {}, by |-> Nothing]

(* A download that begins while another one's replacement is under way, or *)
(* one that begins while there is no executable at exePath; a kill between *)
(* the two renames, or earlier in the replacement; a rollback whose rename *)
(* fails.                                                                  *)
Mishaps == {"overlap", "retried", "cut", "killed", "rollback"}

Binary(i) == i # Nothing /\ file[i].whole /\ \E v \in Versions : file[i].wrote = {v}
VersionAt(i) == CHOOSE v \in Versions : file[i].wrote = {v}

Init ==
    /\ release = 0 /\ etag = Nothing
    /\ exe = 1 /\ new = Nothing /\ old = Nothing
    /\ file = [i \in Inodes |->
                  IF i = 1 THEN [whole |-> TRUE, wrote |-> {0}, by |-> Nothing] ELSE NoFile]
    /\ upc = [u \in Updaters |-> "idle"]
    /\ cur = [u \in Updaters |-> 0]
    /\ arg = [u \in Updaters |-> Nothing]
    /\ fd = [u \in Updaters |-> Nothing]
    /\ mishaps = {}

Publish ==
    /\ release < MaxRelease
    /\ release' = release + 1
    /\ UNCHANGED <<etag, diskVars, upc, cur, arg, fd, mishaps>>

Goto(u, from, to) == upc[u] = from /\ upc' = [upc EXCEPT ![u] = to]

(* Where a caller goes with an error, and with success: the checker sleeps *)
(* 60 s and ends its loop; the others end.                                 *)
Retry(u) == IF u = "checker" THEN "sleep" ELSE "idle"
Finished(u) == IF u = "checker" THEN "done" ELSE "idle"
Told(u, v) == IF u = "checker" THEN v ELSE Nothing

(* Unused inodes are wiped, and who truncated a file matters only while it *)
(* has the file open.                                                      *)
Disk(e, n, o, f) ==
    /\ exe' = e /\ new' = n /\ old' = o
    /\ file' = [i \in Inodes |-> IF i \in {e, n, o} \/ \E u \in Updaters : fd'[u] = i
                                 THEN [f[i] EXCEPT !.by = IF @ # Nothing /\ fd'[@] = i
                                                          THEN @ ELSE Nothing]
                                 ELSE NoFile]

-----------------------------------------------------------------------------
(* CheckForUpdate *)

(* A process or a handler begins; the executable must be there. *)
Launch(u) ==
    /\ Goto(u, "idle", "check")
    /\ Binary(exe)
    /\ cur' = [cur EXCEPT ![u] = VersionAt(exe)]
    /\ UNCHANGED <<release, etag, diskVars, arg, fd, mishaps>>

(* The request goes out with the ETag on file. *)
Ask(u) ==
    /\ Goto(u, "check", "asked")
    /\ arg' = [arg EXCEPT ![u] = etag]
    /\ UNCHANGED <<release, etag, diskVars, cur, fd, mishaps>>

(* No network, 403, or another status. *)
CheckFails(u) ==
    /\ Goto(u, "asked", Retry(u))
    /\ arg' = [arg EXCEPT ![u] = Nothing]
    /\ UNCHANGED <<release, etag, diskVars, cur, fd, mishaps>>

(* 304: taken for "no new version". *)
NotModified(u) ==
    /\ Goto(u, "asked", Finished(u)) /\ arg[u] = release
    /\ arg' = [arg EXCEPT ![u] = Told(u, release)]
    /\ UNCHANGED <<release, etag, diskVars, cur, fd, mishaps>>

(* 200: the ETag is saved first; the file may not be writable, and a write *)
(* that is cut off leaves an ETag that matches nothing.                    *)
Answer(u) ==
    /\ upc[u] = "asked" /\ arg[u] # release
    /\ etag' \in {etag, release, Nothing}

UpToDate(u) ==
    /\ Answer(u) /\ Goto(u, "asked", Finished(u))
    /\ release = cur[u]
    /\ arg' = [arg EXCEPT ![u] = Told(u, release)]
    /\ UNCHANGED <<release, diskVars, cur, fd, mishaps>>

(* The body does not parse, or has no asset for this platform yet. *)
NoAsset(u) ==
    /\ Answer(u) /\ Goto(u, "asked", Retry(u))
    /\ arg' = [arg EXCEPT ![u] = Nothing]
    /\ UNCHANGED <<release, diskVars, cur, fd, mishaps>>

Available(u) ==
    /\ Answer(u)
    /\ IF u = "page"
       THEN Goto(u, "asked", "idle") /\ arg' = [arg EXCEPT ![u] = Nothing]
       ELSE Goto(u, "asked", "download") /\ arg' = [arg EXCEPT ![u] = release]
    /\ release # cur[u]
    /\ UNCHANGED <<release, diskVars, cur, fd, mishaps>>

Sleep(u) ==
    /\ Goto(u, "sleep", "check")
    /\ UNCHANGED <<release, etag, diskVars, cur, arg, fd, mishaps>>

-----------------------------------------------------------------------------
(* DownloadAndUpdate *)

Replacing(u) == upc[u] \in {"copy", "chmod", "backup", "replace"}

DownloadFails(u) ==
    /\ Goto(u, "download", Retry(u))
    /\ arg' = [arg EXCEPT ![u] = Nothing]
    /\ UNCHANGED <<release, etag, diskVars, cur, fd, mishaps>>

FreeInode == Min(Inodes \ ({exe, new, old} \cup {fd[w] : w \in Updaters}))

(* os.Create truncates the .new file that is there, or makes one.  Another *)
(* caller that has it open goes on writing into it.                        *)
Create(u) ==
    /\ Goto(u, "download", "copy")
    /\ LET i == IF new = Nothing THEN FreeInode ELSE new
           writers == {w \in Updaters : fd[w] = i} \cup {u}
       IN  /\ fd' = [fd EXCEPT ![u] = i]
           /\ Disk(exe, i, old, [file EXCEPT ![i] =
                      [whole |-> FALSE, wrote |-> {arg[w] : w \in writers}, by |-> u]])
    /\ mishaps' = mishaps
          \cup (IF \E w \in Updaters \ {u} : Replacing(w) THEN {"overlap"} ELSE {})
          \cup (IF exe = Nothing THEN {"retried"} ELSE {})
    /\ UNCHANGED <<release, etag, cur, arg>>

(* Mutation: the end of the answer is not waited for. *)
CopyCutShort(u) ==
    /\ Goto(u, "copy", "chmod")
    /\ fd' = [fd EXCEPT ![u] = Nothing]
    /\ UNCHANGED <<release, etag, diskVars, cur, arg, mishaps>>

Copy(u) ==
    /\ Goto(u, "copy", "chmod")
    /\ fd' = [fd EXCEPT ![u] = Nothing]
    /\ Disk(exe, new, old, [file EXCEPT ![fd[u]].whole = @ \/ file[fd[u]].by = u])
    /\ UNCHANGED <<release, etag, cur, arg, mishaps>>

(* io.Copy or Chmod fails: whatever is at .new is removed. *)
CopyFails(u) ==
    /\ Goto(u, "copy", Retry(u)) \/ Goto(u, "chmod", Retry(u))
    /\ fd' = [fd EXCEPT ![u] = Nothing]
    /\ Disk(exe, Nothing, old, file)
    /\ arg' = [arg EXCEPT ![u] = Nothing]
    /\ UNCHANGED <<release, etag, cur, mishaps>>

(* Chmod succeeded (the file is there); os.Remove(backupPath). *)
RemoveOld(u) ==
    /\ Goto(u, "chmod", "backup") /\ new # Nothing
    /\ UNCHANGED fd
    /\ Disk(exe, new, Nothing, file)
    /\ UNCHANGED <<release, etag, cur, arg, mishaps>>

(* Mutation: the executable is deleted instead of renamed. *)
BackupByDelete(u) ==
    /\ Goto(u, "backup", "replace") /\ exe # Nothing
    /\ UNCHANGED fd
    /\ Disk(Nothing, new, old, file)
    /\ UNCHANGED <<release, etag, cur, arg, mishaps>>

Backup(u) ==
    /\ Goto(u, "backup", "replace") /\ exe # Nothing
    /\ UNCHANGED fd
    /\ Disk(Nothing, new, exe, file)
    /\ UNCHANGED <<release, etag, cur, arg, mishaps>>

BackupFails(u) ==
    /\ Goto(u, "backup", Retry(u))
    /\ UNCHANGED fd
    /\ Disk(exe, Nothing, old, file)
    /\ arg' = [arg EXCEPT ![u] = Nothing]
    /\ UNCHANGED <<release, etag, cur, mishaps>>

Replace(u) ==
    /\ Goto(u, "replace", Finished(u)) /\ new # Nothing
    /\ UNCHANGED fd
    /\ Disk(new, Nothing, old, file)
    /\ arg' = [arg EXCEPT ![u] = Told(u, @)]
    /\ UNCHANGED <<release, etag, cur, mishaps>>

(* Mutation: no rollback. *)
ReplaceFailsUnrolled(u) ==
    /\ Goto(u, "replace", Retry(u))
    /\ arg' = [arg EXCEPT ![u] = Nothing]
    /\ UNCHANGED <<release, etag, diskVars, cur, fd, mishaps>>

(* The second rename fails: the backup is renamed back, its error ignored. *)
ReplaceFails(u) ==
    /\ Goto(u, "replace", Retry(u))
    /\ UNCHANGED fd
    /\ \/ old # Nothing /\ Disk(old, new, Nothing, file) /\ UNCHANGED mishaps
       \/ old = Nothing /\ UNCHANGED <<diskVars, mishaps>>
       \/ old # Nothing /\ UNCHANGED diskVars /\ mishaps' = mishaps \cup {"rollback"}
    /\ arg' = [arg EXCEPT ![u] = Nothing]
    /\ UNCHANGED <<release, etag, cur>>

-----------------------------------------------------------------------------
(* The process of a caller is killed, ends, or its context is cancelled. *)
Kill(u) ==
    /\ upc[u] # "idle"
    /\ upc' = [upc EXCEPT ![u] = "idle"]
    /\ arg' = [arg EXCEPT ![u] = Nothing]
    /\ fd' = [fd EXCEPT ![u] = Nothing]
    /\ Disk(exe, new, old, file)
    /\ mishaps' = mishaps \cup (IF upc[u] = "replace" THEN {"cut"}
                                ELSE IF Replacing(u) THEN {"killed"} ELSE {})
    /\ UNCHANGED <<release, etag, cur>>

CheckForUpdate(u) ==
    \/ Ask(u) \/ CheckFails(u) \/ NotModified(u) \/ UpToDate(u) \/ NoAsset(u) \/ Available(u)

DownloadAndUpdate(u) ==
    \/ DownloadFails(u) \/ Create(u) \/ Copy(u) \/ CopyFails(u) \/ RemoveOld(u)
    \/ Backup(u) \/ BackupFails(u) \/ Replace(u) \/ ReplaceFails(u)

Next ==
    \/ Publish
    \/ \E u \in Updaters :
          Launch(u) \/ CheckForUpdate(u) \/ Sleep(u) \/ DownloadAndUpdate(u) \/ Kill(u)

Spec == Init /\ [][Next]_vars
-----------------------------------------------------------------------------
(* Properties *)

(* The type of the state. *)
TypeOK ==
    /\ release \in Versions
    /\ etag \in Versions \cup {Nothing}
    /\ {exe, new, old} \subseteq Inodes \cup {Nothing}
    /\ file \in [Inodes -> [whole : BOOLEAN, wrote : SUBSET Versions, by : Updaters \cup {Nothing}]]
    /\ upc \in [Updaters -> {"idle", "check", "asked", "sleep", "done", "download", "copy",
                             "chmod", "backup", "replace"}]
    /\ cur \in [Updaters -> Versions]
    /\ arg \in [Updaters -> Versions \cup {Nothing}]
    /\ fd \in [Updaters -> Inodes \cup {Nothing}]
    /\ mishaps \subseteq Mishaps

(* A partly downloaded file never becomes the executable or its backup,    *)
(* whichever step fails or is cut off by a kill, and whoever updates next  *)
(* with what is left, as long as two downloads did not overlap.            *)
NeverTorn ==
    "overlap" \in mishaps \/ \A i \in {exe, old} \ {Nothing} : Binary(i)

(* There is always a complete binary at exePath or beside it as .old: by   *)
(* itself no failure, of the rollback rename either, and no kill loses the *)
(* program.  Two downloads that overlap may (ProgramKept), and so may the  *)
(* next download once a kill or a failed rollback has left the program at  *)
(* .old only (RetryKeepsProgram): it begins by deleting the .old file.     *)
AlwaysRecoverable ==
    mishaps \cap {"overlap", "retried"} # {} \/ Binary(exe) \/ Binary(old)

(* The executable is missing only while one updater is inside the two      *)
(* renames: every error path puts it back, but after an overlap, a kill    *)
(* between the renames or a rollback that failed.                          *)
MissingOnlyWhileReplacing ==
    exe = Nothing => mishaps \ {"killed"} # {} \/ \E u \in Updaters : upc[u] = "replace"

(* "Auto-update ... downloads and replaces self" (README.md:14): without a *)
(* kill or a failing rollback the program is replaced and not lost, also   *)
(* when two callers update at a time.                                      *)
ProgramKept ==
    \/ mishaps \cap {"rollback", "cut", "killed"} # {}
    \/ \E u \in Updaters : Replacing(u)
    \/ Binary(exe) \/ Binary(old)

(* "On failure (no internet, rate limited, etc.): silent retry every 60    *)
(* seconds" (updater.go:230): whatever failed, the retry, with no second   *)
(* updater and no kill, does not lose the program.                         *)
RetryKeepsProgram ==
    \/ mishaps \cap {"overlap", "cut", "killed"} # {}
    \/ \E u \in Updaters : Replacing(u)
    \/ Binary(exe) \/ Binary(old)

(* The header of StartUpdateChecker: failures are retried and an available *)
(* version is installed before the loop ends, so a loop that has ended has *)
(* installed the release the server last told it about.                    *)
DoneMeansInstalled ==
    \A u \in Updaters : upc[u] = "done" => Binary(exe) /\ VersionAt(exe) = arg[u]
=============================================================================
