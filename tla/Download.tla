------------------------------ MODULE Download ------------------------------
(***************************************************************************)
(* The cache of downloaded binaries: DownloadWithCache for a plain file,   *)
(* DownloadWithCacheAndExtract for one file of an archive, as several      *)
(* kwokctl commands call them for one source, each with a destination of   *)
(* its own.  Commands fail, are killed and are run again at any point, and *)
(* between them the user may remove the files that are linked.             *)
(*                                                                         *)
(* A file is an inode that paths lead to: a file that is renamed or        *)
(* removed while it is open is still written.  Its content is the set of   *)
(* the blocks written so far and, when it may be executed, the block 0.    *)
(***************************************************************************)
EXTENDS Naturals, Sequences

CONSTANTS Command,      \* the commands
          Blocks,       \* the length of a file
          MaxRuns       \* bound on the runs of all commands together

VARIABLES source,       \* "plain", "archive" or, on this machine, "localArchive"
          inode,        \* the content of the inodes
          path,         \* the paths of the cache -> inode, 0 when there is none
          dest,         \* the commands whose destination is linked to the cache
          cmd,          \* command -> where it is, the file it makes, how far
                        \* it is, and the archive it reads
          runs,         \* bounded by MaxRuns
          broken,       \* inodes a command left before it was through
          torn          \* inodes two commands were writing at a time, or that
                        \* could not be closed

vars == <<source, inode, path, dest, cmd, runs, broken, torn>>

Executable == {0}
Whole == (1..Blocks) \cup Executable
Extracts == source # "plain"

(* What the destination is linked to.                                      *)
Final == IF Extracts THEN "match" ELSE "cache"

Exists(p) == path[p] # 0

At(pc) == [pc |-> pc, file |-> 0, at |-> 0, from |-> 0]

To(c, pc) == cmd' = [cmd EXCEPT ![c].pc = pc]

(* An error: files are closed, nothing is removed.  What the command was   *)
(* writing stays as it is.                                                 *)
Fail(c) ==
    /\ cmd' = [cmd EXCEPT ![c] = At("failed")]
    /\ broken' = broken \cup ({cmd[c].file} \ {0})

-----------------------------------------------------------------------------
(* DownloadWithCache and DownloadWithCacheAndExtract: a destination that   *)
(* leads somewhere is taken as it is.                                      *)
StatDest(c) ==
    /\ cmd[c].pc = "start"
    /\ To(c, IF c \in dest /\ Exists(Final) THEN "done"
             ELSE IF Extracts THEN "statMatch" ELSE "statCache")
    /\ UNCHANGED <<source, inode, path, dest, runs, broken, torn>>

(* getCachePath: a file on this machine is used where it is, and an error  *)
(* when it is gone.                                                        *)
getCachePath(c, pc) ==
    IF source = "localArchive" /\ ~Exists("cache") THEN Fail(c) ELSE To(c, pc) /\ UNCHANGED broken

StatMatch(c) ==
    /\ cmd[c].pc = "statMatch"
    /\ getCachePath(c, IF Exists("match") THEN "link" ELSE "statCache")
    /\ UNCHANGED <<source, inode, path, dest, runs, torn>>

(* getCacheOrDownload.                                                     *)
StatCache(c) ==
    /\ cmd[c].pc = "statCache"
    /\ getCachePath(c, IF ~Exists("cache") THEN "request"
                       ELSE IF Extracts THEN "untar" ELSE "link")
    /\ UNCHANGED <<source, inode, path, dest, runs, torn>>

(* Opening with O_CREATE and O_TRUNC keeps the inode of a file that is     *)
(* there, and its mode.                                                    *)
Open(c, p, mode, pc) ==
    LET i == IF Exists(p) THEN path[p] ELSE Len(inode) + 1
    IN  /\ inode' = IF Exists(p) THEN [inode EXCEPT ![i] = @ \cap Executable]
                     ELSE Append(inode, mode)
        /\ path' = [path EXCEPT ![p] = i]
        /\ cmd' = [cmd EXCEPT ![c] = [pc |-> pc, file |-> i, at |-> 0, from |-> path["cache"]]]
        /\ broken' = broken \ {i}
        /\ torn' = torn \cup {j \in {i} : \E d \in Command : cmd[d].file = j}

(* The request, with its retries, succeeds or not; a plain file is made    *)
(* with the mode of a binary.                                              *)
Request(c) ==
    /\ cmd[c].pc = "request"
    /\ \/ Fail(c) /\ UNCHANGED <<inode, path, torn>>
       \/ Open(c, "tmp", IF Extracts THEN {} ELSE Executable, "copy")
    /\ UNCHANGED <<source, dest, runs>>

WriteBlock(c) ==
    /\ inode' = [inode EXCEPT ![cmd[c].file] = @ \cup {cmd[c].at + 1}]
    /\ cmd' = [cmd EXCEPT ![c].at = @ + 1]

(* io.Copy of the body: a block, an error, or the end, which may come      *)
(* before the announced length.                                            *)
Copy(c) ==
    /\ cmd[c].pc = "copy"
    /\ \/ cmd[c].at < Blocks /\ WriteBlock(c) /\ UNCHANGED broken
       \/ Fail(c) /\ UNCHANGED inode
       \/ To(c, "close") /\ UNCHANGED <<inode, broken>>
    /\ UNCHANGED <<source, path, dest, runs, torn>>

(* An error of closing, when a block may not have come to the disk, is     *)
(* only logged.                                                            *)
Close(c) ==
    /\ cmd[c].pc = "close"
    /\ To(c, "rename")
    /\ \/ UNCHANGED <<inode, broken, torn>>
       \/ \E n \in 1..Blocks :
            /\ inode' = [inode EXCEPT ![cmd[c].file] = @ \ {n}]
            /\ broken' = broken \cup {cmd[c].file}
            /\ torn' = torn \cup {cmd[c].file}
    /\ UNCHANGED <<source, path, dest, runs>>

Rename(c) ==
    /\ path' = [path EXCEPT !["cache"] = path["tmp"], !["tmp"] = 0]
    /\ cmd' = [cmd EXCEPT ![c] = At(IF Extracts THEN "untar" ELSE "link")]

(* Mutant: what has come is taken to be all.                               *)
CheckAndRenameShort(c) ==
    /\ cmd[c].pc = "rename"
    /\ \/ ~Exists("tmp") /\ Fail(c) /\ UNCHANGED path
       \/ Exists("tmp") /\ Rename(c) /\ UNCHANGED broken
    /\ UNCHANGED <<source, inode, dest, runs, torn>>

(* The length is compared, and the temporary file, if it is still there,   *)
(* takes its place in the cache.                                           *)
CheckAndRename(c) ==
    /\ cmd[c].pc = "rename"
    /\ \/ (cmd[c].at # Blocks \/ ~Exists("tmp")) /\ Fail(c) /\ UNCHANGED path
       \/ cmd[c].at = Blocks /\ Exists("tmp") /\ Rename(c) /\ UNCHANGED broken
    /\ UNCHANGED <<source, inode, dest, runs, torn>>

(* untar: the archive is opened, and the file in it is written where it    *)
(* will be used.                                                           *)
Untar(c) ==
    /\ cmd[c].pc = "untar"
    /\ \/ ~Exists("cache") /\ Fail(c) /\ UNCHANGED <<inode, path, torn>>
       \/ Exists("cache") /\ Open(c, "match", {}, "extract")
    /\ UNCHANGED <<source, dest, runs>>

(* A block of the archive that is missing, or that is not there any more   *)
(* because the archive is being written anew, is an error.                 *)
Extract(c) ==
    /\ cmd[c].pc = "extract"
    /\ \/ /\ cmd[c].at < Blocks
          /\ cmd[c].at + 1 \in inode[cmd[c].from]
          /\ WriteBlock(c) /\ UNCHANGED broken
       \/ Fail(c) /\ UNCHANGED inode
       \/ cmd[c].at = Blocks /\ To(c, "clean") /\ UNCHANGED <<inode, broken>>
    /\ UNCHANGED <<source, path, dest, runs, torn>>

(* The archive is removed, also one that was not downloaded.               *)
Clean(c) ==
    /\ cmd[c].pc = "clean"
    /\ \/ ~Exists("cache") /\ Fail(c) /\ UNCHANGED path
       \/ Exists("cache") /\ path' = [path EXCEPT !["cache"] = 0] /\ To(c, "chmod")
          /\ UNCHANGED broken
    /\ UNCHANGED <<source, inode, dest, runs, torn>>

Chmod(c) ==
    /\ cmd[c].pc = "chmod"
    /\ inode' = [inode EXCEPT ![path["match"]] = @ \cup Executable]
    /\ cmd' = [cmd EXCEPT ![c] = At("link")]
    /\ UNCHANGED <<source, path, dest, runs, broken, torn>>

(* os.Symlink, which fails when there is a link already, also one that     *)
(* leads nowhere.                                                          *)
Link(c) ==
    /\ cmd[c].pc = "link"
    /\ \/ c \notin dest /\ dest' = dest \cup {c} /\ To(c, "done") /\ UNCHANGED broken
       \/ c \in dest /\ Fail(c) /\ UNCHANGED dest
    /\ UNCHANGED <<source, inode, path, runs, torn>>

-----------------------------------------------------------------------------
Ended(c) == cmd[c].pc \in {"idle", "done", "failed"}

Run(c) ==
    /\ Ended(c) /\ runs < MaxRuns
    /\ runs' = runs + 1
    /\ To(c, "start")
    /\ UNCHANGED <<source, inode, path, dest, broken, torn>>

Kill(c) ==
    /\ ~Ended(c)
    /\ Fail(c)
    /\ UNCHANGED <<source, inode, path, dest, runs, torn>>

(* The user clears the cache, or moves the archive away.                   *)
Clear ==
    /\ \A c \in Command : Ended(c)
    /\ path' = [p \in {"tmp", "cache", "match"} |-> 0]
    /\ UNCHANGED <<source, inode, dest, cmd, runs, broken, torn>>

Init ==
    /\ source \in {"plain", "archive", "localArchive"}
    /\ inode = IF source = "localArchive" THEN <<1..Blocks>> ELSE <<>>
    /\ path = [p \in {"tmp", "cache", "match"} |->
                 IF p = "cache" /\ source = "localArchive" THEN 1 ELSE 0]
    /\ dest = {} /\ runs = 0 /\ broken = {} /\ torn = {}
    /\ cmd = [c \in Command |-> At("idle")]

Next ==
    \/ Clear
    \/ \E c \in Command :
         \/ StatDest(c) \/ StatMatch(c) \/ StatCache(c) \/ Request(c) \/ Copy(c) \/ Close(c)
         \/ CheckAndRename(c) \/ Untar(c) \/ Extract(c) \/ Clean(c) \/ Chmod(c) \/ Link(c)
         \/ Run(c) \/ Kill(c)

Spec == Init /\ [][Next]_vars

-----------------------------------------------------------------------------
(* A binary that a command has linked is whole and executable, unless a    *)
(* command is still making it, or one that failed or was killed left it in *)
(* the middle; a plain download is whole even then, as long as no two      *)
(* commands were writing one file at a time and every file could be closed *)
(* (getCacheOrDownload: the temporary file, the comparison of the lengths, *)
(* the rename).                                                            *)
BinaryWhole ==
    dest # {} /\ Exists(Final) =>
      \/ inode[path[Final]] = Whole
      \/ \E c \in Command : cmd[c].file = path[Final]
      \/ path[Final] \in broken /\ (Extracts \/ torn # {})
=============================================================================
