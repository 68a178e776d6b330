---------------------------- MODULE DownloadProofs ----------------------------
(***************************************************************************)
(* Proof that linked binaries are whole (BinaryWhole), for every number of *)
(* commands, of runs and of blocks.                                        *)
(***************************************************************************)
EXTENDS Download, TLAPS, SequenceTheorems

(* The provers that try a step whose proof names none, in this order.      *)
USE SMTT(10), ZenonT(30), SMTT(60)

(* Where a command writes a file: a download, or a file of an archive.     *)
Downloading == {"copy", "close", "rename"}
Extracting == {"extract", "clean", "chmod"}
Pcs == {"idle", "start", "statMatch", "statCache", "request", "untar", "link", "done", "failed"}
         \cup Downloading \cup Extracting

Content == SUBSET (0..Blocks)
CmdType == [pc : Pcs, file : Nat, at : 0..Blocks, from : Nat]

DownloadType ==
    /\ source \in {"plain", "archive", "localArchive"}
    /\ inode \in Seq(Content)
    /\ path \in [{"tmp", "cache", "match"} -> 0..Len(inode)]
    /\ cmd \in [Command -> CmdType]

(* A command has the file it writes and no other: a download is written to *)
(* a file that is not the extracted one.                                   *)
FilesInv ==
    /\ \A c \in Command : /\ cmd[c].file \in 0..Len(inode)
                          /\ cmd[c].file # 0 <=> cmd[c].pc \in Downloading \cup Extracting
                          /\ cmd[c].pc \in Downloading => cmd[c].file # path["match"]
                          /\ cmd[c].pc \in Extracting => cmd[c].file = path["match"]
                          /\ cmd[c].pc \in {"clean", "chmod"} => cmd[c].at = Blocks
    /\ path["match"] # 0 => path["match"] \notin {path["tmp"], path["cache"]}
    /\ ~Extracts => /\ path["match"] = 0
                    /\ \A c \in Command : cmd[c].pc \notin {"statMatch", "untar"} \cup Extracting
                    /\ \A i \in DOMAIN inode : 0 \in inode[i]

(* The files that become binaries.                                         *)
Binaries == IF Extracts THEN {path["match"]} \ {0} ELSE DOMAIN inode

(* A binary is whole, or was left in the middle, or a command writes it    *)
(* and all it has written is there: the command that opened it last.       *)
MadeInv ==
    \A i \in Binaries :
      \/ i \in broken
      \/ inode[i] = Whole
      \/ \E c \in Command : cmd[c].file = i /\ 1..cmd[c].at \subseteq inode[i]

(* As long as no two commands wrote a file at a time, the temporary file   *)
(* is that of the command that downloads, and what is in the cache is      *)
(* whole.                                                                  *)
AloneInv ==
    ~Extracts /\ torn = {} =>
      /\ \A c \in Command : cmd[c].pc \in Downloading =>
           path["tmp"] = cmd[c].file /\ inode[cmd[c].file] = Executable \cup 1..cmd[c].at
      /\ \A c, d \in Command : c # d /\ cmd[c].file = cmd[d].file => cmd[c].file = 0
      /\ path["cache"] # 0 => inode[path["cache"]] = Whole /\ path["cache"] # path["tmp"]

DownloadInv == DownloadType /\ FilesInv /\ MadeInv /\ AloneInv

-----------------------------------------------------------------------------
(* A command goes on without opening, writing or leaving a file.           *)
LEMMA MoveStep ==
  ASSUME Blocks \in Nat, DownloadInv, NEW c \in Command, NEW pc \in Pcs,
         cmd' = [cmd EXCEPT ![c].pc = pc], UNCHANGED <<source, inode, path, broken, torn>>,
         cmd[c].pc \in Downloading <=> pc \in Downloading,
         cmd[c].pc \in Extracting <=> pc \in Extracting,
         pc \in {"clean", "chmod"} => cmd[c].at = Blocks,
         ~Extracts => pc \notin {"statMatch", "untar"} \cup Extracting
  PROVE  DownloadInv'
<1>1. DownloadType /\ FilesInv /\ MadeInv /\ AloneInv
  BY DEF DownloadInv
<1>2. cmd \in [Command -> CmdType]
  BY <1>1 DEF DownloadType
<1>3. cmd' \in [Command -> CmdType]
  BY <1>2 DEF CmdType
<1>4. /\ cmd'[c].pc = pc
      /\ \A d \in Command : /\ cmd'[d].file = cmd[d].file /\ cmd'[d].at = cmd[d].at
                            /\ d # c => cmd'[d].pc = cmd[d].pc
  BY <1>2 DEF CmdType
<1>5. Extracts' = Extracts
  BY DEF Extracts
<1>6. DownloadType'
  BY <1>1, <1>3 DEF DownloadType
<1>7. FilesInv'
  BY <1>1, <1>4, <1>5 DEF FilesInv
<1>8. MadeInv'
  BY <1>1, <1>4, <1>5 DEF MadeInv, Binaries
<1>9. AloneInv'
  BY <1>1, <1>4, <1>5 DEF AloneInv
<1> QED BY <1>6, <1>7, <1>8, <1>9 DEF DownloadInv

(* A command fails or is killed: what it was writing is broken.            *)
LEMMA FailStep ==
  ASSUME Blocks \in Nat, DownloadInv, NEW c \in Command, Fail(c),
         UNCHANGED <<source, inode, path, torn>>
  PROVE  DownloadInv'
<1>1. DownloadType /\ FilesInv /\ MadeInv /\ AloneInv
  BY DEF DownloadInv
<1>2. cmd \in [Command -> CmdType]
  BY <1>1 DEF DownloadType
<1>3. At("failed") \in CmdType
  BY DEF At, CmdType, Pcs
<1>4. /\ cmd'[c].pc = "failed" /\ cmd'[c].file = 0
      /\ \A d \in Command : d # c => cmd'[d] = cmd[d]
      /\ broken' = broken \cup ({cmd[c].file} \ {0})
  BY <1>2 DEF Fail, At
<1>5. Extracts' = Extracts
  BY DEF Extracts
<1>6. DownloadType'
  BY <1>1, <1>2, <1>3 DEF DownloadType, Fail
<1>7. FilesInv'
  BY <1>1, <1>4, <1>5 DEF FilesInv, Downloading, Extracting
<1>8. MadeInv'
  <2> SUFFICES ASSUME NEW i \in Binaries, i \notin broken', inode[i] # Whole
               PROVE  \E d \in Command : cmd'[d].file = i /\ 1..cmd'[d].at \subseteq inode[i]
    BY <1>5 DEF MadeInv, Binaries
  <2>1. PICK d \in Command : cmd[d].file = i /\ 1..cmd[d].at \subseteq inode[i]
    BY <1>1, <1>4 DEF MadeInv
  <2>2. i # 0
    <3>1. DOMAIN inode = 1..Len(inode)
      BY <1>1 DEF DownloadType
    <3> QED BY <3>1 DEF Binaries
  <2>3. d # c
    BY <1>4, <2>1, <2>2
  <2> QED BY <1>4, <2>1, <2>3
<1>9. AloneInv'
  BY <1>1, <1>4, <1>5 DEF AloneInv, Downloading
<1> QED BY <1>6, <1>7, <1>8, <1>9 DEF DownloadInv

(* A block is written: to a download, or from an archive.                  *)
LEMMA WriteStep ==
  ASSUME Blocks \in Nat, DownloadInv, NEW c \in Command, WriteBlock(c), cmd[c].at < Blocks,
         cmd[c].pc \in {"copy", "extract"}, UNCHANGED <<source, path, broken, torn>>
  PROVE  DownloadInv'
<1>1. DownloadType /\ FilesInv /\ MadeInv /\ AloneInv
  BY DEF DownloadInv
<1>2. cmd \in [Command -> CmdType]
  BY <1>1 DEF DownloadType
<1>3. cmd[c].at \in 0..Blocks /\ cmd[c].at + 1 \in 0..Blocks
  BY <1>2 DEF CmdType
<1>4. cmd' \in [Command -> CmdType]
  BY <1>2, <1>3 DEF CmdType, WriteBlock
<1>5. /\ cmd'[c].at = cmd[c].at + 1
      /\ \A d \in Command : /\ cmd'[d].file = cmd[d].file /\ cmd'[d].pc = cmd[d].pc
                            /\ d # c => cmd'[d].at = cmd[d].at
  BY <1>2 DEF CmdType, WriteBlock
<1> DEFINE f == cmd[c].file
           at == cmd[c].at
<1>6. f \in 1..Len(inode) /\ inode \in Seq(Content) /\ DOMAIN inode = 1..Len(inode)
  <2>1. f # 0 /\ f \in 0..Len(inode)
    BY <1>1 DEF FilesInv, Downloading, Extracting
  <2> QED BY <1>1, <2>1 DEF DownloadType
<1>7. /\ inode' \in Seq(Content) /\ Len(inode') = Len(inode) /\ DOMAIN inode' = DOMAIN inode
      /\ inode'[f] = inode[f] \cup {at + 1}
      /\ \A i \in DOMAIN inode : i # f => inode'[i] = inode[i]
  <2>1. inode' = [inode EXCEPT ![f] = inode[f] \cup {at + 1}]
    BY DEF WriteBlock
  <2>2. inode[f] \in Content
    BY <1>6, ElementOfSeq
  <2>3. inode[f] \cup {at + 1} \in Content
    BY <1>3, <2>2 DEF Content
  <2> QED BY <1>6, <2>1, <2>3, ExceptSeq
<1>8. Extracts' = Extracts
  BY DEF Extracts
<1>9. DownloadType'
  BY <1>1, <1>4, <1>7 DEF DownloadType
<1>10. FilesInv'
  <2>1. \A i \in DOMAIN inode : 0 \in inode[i] => 0 \in inode'[i]
    BY <1>7
  <2> HIDE DEF f, at
  <2> QED BY <1>1, <1>5, <1>7, <1>8, <2>1 DEF FilesInv, Downloading, Extracting
<1>11. MadeInv'
  <2> SUFFICES ASSUME NEW i \in Binaries, i \notin broken, inode'[i] # Whole
               PROVE  \E d \in Command : cmd'[d].file = i /\ 1..cmd'[d].at \subseteq inode'[i]
    BY <1>7, <1>8 DEF MadeInv, Binaries
  <2>1. CASE inode[i] = Whole
    <3>1. i \in DOMAIN inode
      BY <1>1, <1>6 DEF Binaries, DownloadType
    <3>2. at + 1 \in Whole
      BY <1>3 DEF Whole
    <3>3. inode'[i] = inode[i]
      BY Zenon, <1>7, <2>1, <3>1, <3>2
    <3> QED BY <2>1, <3>3
  <2>2. CASE inode[i] # Whole
    <3>1. PICK d \in Command : cmd[d].file = i /\ 1..cmd[d].at \subseteq inode[i]
      BY <1>1, <2>2 DEF MadeInv
    <3>2. i \in DOMAIN inode
      BY <1>1, <1>6 DEF Binaries, DownloadType
    <3>3. inode[i] \subseteq inode'[i]
      BY <1>7, <3>2
    <3>4. CASE d # c
      BY <1>5, <3>1, <3>3, <3>4
    <3>5. CASE d = c
      <4>1. i = f /\ 1..at \subseteq inode[i]
        BY <3>1, <3>5
      <4>2. 1..(at + 1) \subseteq inode'[i]
        <5>1. \A n \in 1..(at + 1) : n \in 1..at \/ n = at + 1
          BY <1>3
        <5> QED BY <5>1, <4>1, <1>7
      <4> QED BY <1>5, <3>1, <3>5, <4>2
    <3> QED BY <3>4, <3>5
  <2> QED BY <2>1, <2>2
<1>12. AloneInv'
  <2> SUFFICES ASSUME ~Extracts, torn = {} PROVE AloneInv'
    BY <1>8 DEF AloneInv
  <2>1. cmd[c].pc = "copy"
    BY <1>1 DEF FilesInv, Extracting
  <2>2. f = path["tmp"] /\ inode[f] = Executable \cup 1..at
    BY <1>1, <2>1 DEF AloneInv, Downloading
  <2>3. \A d \in Command : d # c => cmd[d].file # f
    BY <1>1, <1>6 DEF AloneInv
  <2>4. inode'[f] = Executable \cup 1..(at + 1)
    <3>1. 1..(at + 1) = 1..at \cup {at + 1}
      BY <1>3
    <3> QED BY <3>1, <2>2, <1>7
  <2>5. \A d \in Command : cmd[d].file \in 0..Len(inode)
    BY <1>1 DEF FilesInv
  <2>6. path["cache"] \in 0..Len(inode)
    BY <1>1 DEF DownloadType
  <2>7. ASSUME NEW d \in Command, cmd'[d].pc \in Downloading
        PROVE  path["tmp"] = cmd'[d].file /\ inode'[cmd'[d].file] = Executable \cup 1..cmd'[d].at
    <3>1. CASE d = c
      BY <1>5, <2>2, <2>4, <3>1
    <3>2. CASE d # c
      <4>1. path["tmp"] = cmd[d].file
        BY <1>1, <1>5, <2>7 DEF AloneInv
      <4> QED BY <4>1, <3>2, <2>2, <2>3
    <3> QED BY <3>1, <3>2
  <2>8. path["cache"] # 0 => inode'[path["cache"]] = Whole /\ path["cache"] # path["tmp"]
    BY <1>1, <1>6, <1>7, <2>2, <2>6 DEF AloneInv
  <2> QED BY <1>1, <1>5, <1>8, <2>7, <2>8 DEF AloneInv
<1> QED BY <1>9, <1>10, <1>11, <1>12 DEF DownloadInv

(* Closing fails: the file is broken.                                      *)
LEMMA CloseStep ==
  ASSUME Blocks \in Nat, DownloadInv, NEW c \in Command, cmd[c].pc = "close", To(c, "rename"),
         NEW n \in 1..Blocks, inode' = [inode EXCEPT ![cmd[c].file] = @ \ {n}],
         broken' = broken \cup {cmd[c].file}, torn' = torn \cup {cmd[c].file},
         UNCHANGED <<source, path>>
  PROVE  DownloadInv'
<1> DEFINE f == cmd[c].file
<1>1. DownloadType /\ FilesInv /\ MadeInv
  BY DEF DownloadInv
<1>2. cmd \in [Command -> CmdType] /\ Extracts' = Extracts
  BY <1>1 DEF DownloadType, Extracts
<1>3. cmd' \in [Command -> CmdType]
  BY <1>2 DEF CmdType, To, Pcs, Downloading
<1>4. /\ cmd'[c].pc = "rename"
      /\ \A d \in Command : /\ cmd'[d].file = cmd[d].file /\ cmd'[d].at = cmd[d].at
                            /\ d # c => cmd'[d].pc = cmd[d].pc
  BY <1>2 DEF CmdType, To
<1>5. f \in 1..Len(inode) /\ inode \in Seq(Content) /\ DOMAIN inode = 1..Len(inode)
  <2>1. f # 0 /\ f \in 0..Len(inode)
    BY <1>1 DEF FilesInv, Downloading
  <2> QED BY <1>1, <2>1 DEF DownloadType
<1>6. /\ inode' \in Seq(Content) /\ Len(inode') = Len(inode) /\ DOMAIN inode' = DOMAIN inode
      /\ inode'[f] = inode[f] \ {n}
      /\ \A i \in DOMAIN inode : i # f => inode'[i] = inode[i]
  <2>1. inode' = [inode EXCEPT ![f] = inode[f] \ {n}]
    OBVIOUS
  <2>2. inode[f] \in Content
    BY <1>5, ElementOfSeq
  <2>3. inode[f] \ {n} \in Content
    BY <2>2 DEF Content
  <2> QED BY <1>5, <2>1, <2>3, ExceptSeq
<1>7. DownloadType'
  BY <1>1, <1>3, <1>6 DEF DownloadType
<1>8. FilesInv'
  <2>1. \A i \in DOMAIN inode : 0 \in inode[i] => 0 \in inode'[i]
    BY <1>6
  <2> HIDE DEF f
  <2> QED BY <1>1, <1>2, <1>4, <1>6, <2>1 DEF FilesInv, Downloading, Extracting
<1>9. MadeInv'
  <2> SUFFICES ASSUME NEW i \in Binaries, i \notin broken', inode'[i] # Whole
               PROVE  \E d \in Command : cmd'[d].file = i /\ 1..cmd'[d].at \subseteq inode'[i]
    BY <1>2, <1>6 DEF MadeInv, Binaries
  <2>1. i # f /\ i \notin broken /\ i \in DOMAIN inode
    BY <1>1, <1>5 DEF Binaries, DownloadType
  <2>2. inode'[i] = inode[i]
    BY <1>6, <2>1
  <2>3. PICK d \in Command : cmd[d].file = i /\ 1..cmd[d].at \subseteq inode[i]
    BY <1>1, <2>1, <2>2 DEF MadeInv
  <2> QED BY <1>4, <2>2, <2>3
<1>10. AloneInv'
  BY DEF AloneInv
<1> QED BY <1>7, <1>8, <1>9, <1>10 DEF DownloadInv

-----------------------------------------------------------------------------
(* Opening a file: the inode, which is new unless the path leads to one.   *)
Opened(p) == IF Exists(p) THEN path[p] ELSE Len(inode) + 1

LEMMA OpenShape ==
  ASSUME Blocks \in Nat, DownloadType, NEW c \in Command, NEW p \in {"tmp", "match"},
         NEW mode \in {{}, Executable}, NEW pc \in Pcs, Open(c, p, mode, pc)
  PROVE  /\ Opened(p) \in 1..Len(inode') /\ Len(inode) <= Len(inode')
         /\ inode' \in Seq(Content) /\ Len(inode') \in Nat /\ DOMAIN inode' = 1..Len(inode')
         /\ DOMAIN inode' = DOMAIN inode \cup {Opened(p)}
         /\ inode'[Opened(p)] = IF Exists(p) THEN inode[Opened(p)] \cap Executable ELSE mode
         /\ \A j \in DOMAIN inode : j # Opened(p) => inode'[j] = inode[j]
         /\ path' = [path EXCEPT ![p] = Opened(p)]
         /\ path' \in [{"tmp", "cache", "match"} -> 0..Len(inode')]
         /\ cmd' \in [Command -> CmdType]
         /\ cmd'[c].pc = pc /\ cmd'[c].file = Opened(p) /\ cmd'[c].at = 0
         /\ \A d \in Command : d # c => cmd'[d] = cmd[d]
         /\ broken' = broken \ {Opened(p)}
         /\ torn' = torn \cup {j \in {Opened(p)} : \E d \in Command : cmd[d].file = j}
<1> DEFINE i == Opened(p)
<1>1. /\ inode \in Seq(Content) /\ Len(inode) \in Nat /\ DOMAIN inode = 1..Len(inode)
      /\ path \in [{"tmp", "cache", "match"} -> 0..Len(inode)] /\ cmd \in [Command -> CmdType]
  BY DEF DownloadType
<1>2. /\ inode' = IF Exists(p) THEN [inode EXCEPT ![i] = inode[i] \cap Executable]
                  ELSE Append(inode, mode)
      /\ path' = [path EXCEPT ![p] = i]
      /\ cmd' = [cmd EXCEPT ![c] = [pc |-> pc, file |-> i, at |-> 0, from |-> path["cache"]]]
      /\ broken' = broken \ {i}
      /\ torn' = torn \cup {j \in {i} : \E d \in Command : cmd[d].file = j}
  BY DEF Open, Opened
<1>3. mode \in Content
  BY DEF Content, Executable
<1>4. /\ i \in 1..Len(inode') /\ Len(inode) <= Len(inode') /\ inode' \in Seq(Content)
      /\ DOMAIN inode' = 1..Len(inode') /\ Len(inode') \in Nat
      /\ DOMAIN inode' = DOMAIN inode \cup {i}
      /\ inode'[i] = IF Exists(p) THEN inode[i] \cap Executable ELSE mode
      /\ \A j \in DOMAIN inode : j # i => inode'[j] = inode[j]
  <2>1. CASE Exists(p)
    <3>1. i = path[p] /\ i \in 1..Len(inode)
      BY <1>1, <2>1 DEF Opened, Exists
    <3> HIDE DEF i
    <3>2. inode[i] \in Content
      BY <1>1, <3>1, ElementOfSeq
    <3>3. inode[i] \cap Executable \in Content
      BY <3>2 DEF Content
    <3>4. inode' = [inode EXCEPT ![i] = inode[i] \cap Executable]
      BY <1>2, <2>1
    <3>5. inode' \in Seq(Content) /\ Len(inode') = Len(inode)
      BY <1>1, <3>1, <3>3, <3>4, ExceptSeq
    <3> QED BY <1>1, <2>1, <3>1, <3>4, <3>5
  <2>2. CASE ~Exists(p)
    <3>1. i = Len(inode) + 1
      BY <2>2 DEF Opened
    <3> HIDE DEF i
    <3>2. inode' = Append(inode, mode)
      BY <1>2, <2>2
    <3>3. /\ inode' \in Seq(Content) /\ Len(inode') = Len(inode) + 1
          /\ inode'[Len(inode) + 1] = mode
          /\ \A j \in 1..Len(inode) : inode'[j] = inode[j]
      BY <1>1, <1>3, <3>2, AppendProperties
    <3> QED BY <1>1, <2>2, <3>1, <3>3
  <2> QED BY <2>1, <2>2
<1> HIDE DEF i
<1>5. path' \in [{"tmp", "cache", "match"} -> 0..Len(inode')]
  BY <1>1, <1>2, <1>4
<1>6. path["cache"] \in Nat /\ i \in Nat /\ 0 \in 0..Blocks
  BY <1>1, <1>4
<1>7. [pc |-> pc, file |-> i, at |-> 0, from |-> path["cache"]] \in CmdType
  BY <1>6 DEF CmdType
<1>8. cmd' \in [Command -> CmdType]
  BY <1>1, <1>2, <1>7
<1>9. /\ cmd'[c].pc = pc /\ cmd'[c].file = i /\ cmd'[c].at = 0
      /\ \A d \in Command : d # c => cmd'[d] = cmd[d]
  BY <1>1, <1>2
<1> QED BY <1>2, <1>4, <1>5, <1>8, <1>9 DEF i

(* The file that is opened belongs to the command that opens it.           *)
LEMMA OpenMade ==
  ASSUME DownloadInv, NEW c \in Command, NEW p \in {"tmp", "match"}, NEW i,
         UNCHANGED source, cmd[c].file = 0,
         DOMAIN inode' = DOMAIN inode \cup {i}, \A j \in DOMAIN inode : j # i => inode'[j] = inode[j],
         cmd'[c].file = i, cmd'[c].at = 0, \A d \in Command : d # c => cmd'[d] = cmd[d],
         broken' = broken \ {i}, path' = [path EXCEPT ![p] = i]
  PROVE  MadeInv'
<1>1. DownloadType /\ MadeInv
  BY DEF DownloadInv
<1>2. Extracts' = Extracts
  BY DEF Extracts
<1>3. DOMAIN inode = 1..Len(inode) /\ path \in [{"tmp", "cache", "match"} -> 0..Len(inode)]
  BY <1>1 DEF DownloadType
<1> SUFFICES ASSUME NEW j \in Binaries', j \notin broken', inode'[j] # Whole
             PROVE  \E d \in Command : cmd'[d].file = j /\ 1..cmd'[d].at \subseteq inode'[j]
  BY DEF MadeInv
<1>4. CASE j = i
  <2>1. 1..cmd'[c].at = {}
    OBVIOUS
  <2> QED BY <1>4, <2>1
<1>5. CASE j # i
  <2>1. j \in Binaries /\ j \in DOMAIN inode
    BY <1>2, <1>3, <1>5 DEF Binaries
  <2>2. PICK d \in Command : cmd[d].file = j /\ 1..cmd[d].at \subseteq inode[j]
    BY <1>1, <1>5, <2>1 DEF MadeInv
  <2>3. d # c
    BY <1>3, <2>1, <2>2
  <2> QED BY <1>5, <2>1, <2>2, <2>3
<1> QED BY <1>4, <1>5

LEMMA RequestOpens ==
  ASSUME Blocks \in Nat, DownloadInv, NEW c \in Command, cmd[c].pc = "request",
         Open(c, "tmp", IF Extracts THEN {} ELSE Executable, "copy"), UNCHANGED source
  PROVE  DownloadInv'
<1> DEFINE i == Opened("tmp")
           mode == IF Extracts THEN {} ELSE Executable
<1>1. DownloadType /\ FilesInv /\ MadeInv /\ AloneInv
  BY DEF DownloadInv
<1>2. Extracts' = Extracts
  BY DEF Extracts
<1>3. cmd[c].file = 0
  BY <1>1 DEF FilesInv, Downloading, Extracting
<1>4. mode \in {{}, Executable} /\ "copy" \in Pcs
  BY DEF Pcs, Downloading
<1>6. /\ i \in 1..Len(inode') /\ Len(inode) <= Len(inode')
      /\ inode' \in Seq(Content) /\ Len(inode') \in Nat /\ DOMAIN inode' = 1..Len(inode')
      /\ DOMAIN inode' = DOMAIN inode \cup {i}
      /\ inode'[i] = IF Exists("tmp") THEN inode[i] \cap Executable ELSE mode
      /\ \A j \in DOMAIN inode : j # i => inode'[j] = inode[j]
      /\ path' = [path EXCEPT !["tmp"] = i]
      /\ path' \in [{"tmp", "cache", "match"} -> 0..Len(inode')]
      /\ cmd' \in [Command -> CmdType]
      /\ cmd'[c].pc = "copy" /\ cmd'[c].file = i /\ cmd'[c].at = 0
      /\ \A d \in Command : d # c => cmd'[d] = cmd[d]
      /\ broken' = broken \ {i}
      /\ torn' = torn \cup {j \in {i} : \E d \in Command : cmd[d].file = j}
  BY ZenonT(60), <1>1, <1>4, OpenShape
<1>5. MadeInv'
  BY ZenonT(60), <1>3, <1>6, OpenMade
<1>7. /\ path \in [{"tmp", "cache", "match"} -> 0..Len(inode)]
      /\ Len(inode) \in Nat /\ DOMAIN inode = 1..Len(inode)
      /\ path["tmp"] # 0 => Exists("tmp") /\ i = path["tmp"]
      /\ path["tmp"] = 0 => ~Exists("tmp") /\ i = Len(inode) + 1
  BY <1>1 DEF DownloadType, Opened, Exists
<1> HIDE DEF i
<1>8. path'["tmp"] = i /\ path'["cache"] = path["cache"] /\ path'["match"] = path["match"]
  BY <1>6, <1>7
<1>9. DownloadType'
  BY <1>1, <1>6 DEF DownloadType
<1>10. FilesInv'
  <2>1. i # path["match"] \/ path["match"] = 0
    BY <1>1, <1>7 DEF FilesInv
  <2>2. i # path["match"]
    BY <1>6, <2>1
  <2>3. ASSUME NEW d \in Command
        PROVE  /\ cmd'[d].file \in 0..Len(inode')
               /\ cmd'[d].file # 0 <=> cmd'[d].pc \in Downloading \cup Extracting
               /\ cmd'[d].pc \in Downloading => cmd'[d].file # path'["match"]
               /\ cmd'[d].pc \in Extracting => cmd'[d].file = path'["match"]
               /\ cmd'[d].pc \in {"clean", "chmod"} => cmd'[d].at = Blocks
               /\ ~Extracts => cmd'[d].pc \notin {"statMatch", "untar"} \cup Extracting
    <3>1. CASE d = c
      BY <1>6, <1>8, <2>2, <3>1 DEF Downloading, Extracting
    <3>2. CASE d # c
      <4>1. cmd'[d] = cmd[d] /\ cmd[d].file \in 0..Len(inode)
        BY <1>1, <1>6, <3>2 DEF FilesInv
      <4>2. cmd[d].file \in 0..Len(inode')
        BY <1>6, <1>7, <4>1
      <4> QED BY <1>1, <1>8, <4>1, <4>2 DEF FilesInv
    <3> QED BY <3>1, <3>2
  <2>4. ASSUME ~Extracts, NEW j \in DOMAIN inode' PROVE 0 \in inode'[j]
    <3>1. \A k \in DOMAIN inode : 0 \in inode[k]
      BY <1>1, <2>4 DEF FilesInv
    <3>2. CASE j # i
      BY Zenon, <1>6, <3>1, <3>2
    <3>3. CASE j = i
      BY <1>6, <1>7, <2>4, <3>1, <3>3 DEF Executable
    <3> QED BY <3>2, <3>3
  <2> QED BY <1>1, <1>2, <1>8, <2>2, <2>3, <2>4 DEF FilesInv
<1>11. AloneInv'
  <2> SUFFICES ASSUME ~Extracts, torn' = {} PROVE AloneInv'
    BY <1>2 DEF AloneInv
  <2>1. torn = {} /\ \A d \in Command : cmd[d].file # i
    BY Zenon, <1>6
  <2>2. \A d \in Command : cmd[d].pc \notin Downloading
    <3>1. ASSUME NEW d \in Command, cmd[d].pc \in Downloading PROVE FALSE
      <4>1. path["tmp"] = cmd[d].file /\ cmd[d].file # 0
        BY <1>1, <2>1, <3>1 DEF AloneInv, FilesInv
      <4> QED BY <1>7, <2>1, <4>1
    <3> QED BY <3>1
  <2>3. inode'[i] = Executable
    <3>1. CASE path["tmp"] # 0
      <4>1. i \in DOMAIN inode
        BY <1>7, <3>1
      <4>2. 0 \in inode[i]
        BY <1>1, <4>1 DEF FilesInv
      <4> QED BY <1>6, <1>7, <3>1, <4>2 DEF Executable
    <3>2. CASE path["tmp"] = 0
      BY <1>6, <1>7, <3>2
    <3> QED BY <3>1, <3>2
  <2>4. 1..0 = {} /\ Executable \cup 1..0 = Executable
    OBVIOUS
  <2>5. path["cache"] # 0 => inode'[path["cache"]] = Whole /\ path["cache"] # i
    <3>1. path["cache"] \in 0..Len(inode)
      BY <1>7
    <3>2. path["cache"] # 0 => path["cache"] # i
      BY <1>1, <1>7, <2>1, <3>1 DEF AloneInv
    <3> QED BY <1>1, <1>6, <1>7, <2>1, <3>1, <3>2 DEF AloneInv
  <2>6. ASSUME NEW d \in Command, cmd'[d].pc \in Downloading
        PROVE  d = c
    BY <1>6, <2>2, <2>6
  <2>7. \A d, e \in Command : d # e /\ cmd'[d].file = cmd'[e].file => cmd'[d].file = 0
    BY <1>1, <1>6, <2>1 DEF AloneInv
  <2> QED BY <1>6, <1>8, <2>3, <2>4, <2>5, <2>6, <2>7 DEF AloneInv
<1> QED BY <1>5, <1>9, <1>10, <1>11 DEF DownloadInv

LEMMA UntarOpens ==
  ASSUME Blocks \in Nat, DownloadInv, NEW c \in Command, cmd[c].pc = "untar",
         Open(c, "match", {}, "extract"), UNCHANGED source
  PROVE  DownloadInv'
<1> DEFINE i == Opened("match")
<1>1. DownloadType /\ FilesInv /\ MadeInv
  BY DEF DownloadInv
<1>2. Extracts' = Extracts /\ Extracts
  BY <1>1 DEF Extracts, FilesInv
<1>3. cmd[c].file = 0
  BY <1>1 DEF FilesInv, Downloading, Extracting
<1>4. {} \in {{}, Executable} /\ "extract" \in Pcs
  BY DEF Pcs, Extracting
<1>5. /\ i \in 1..Len(inode') /\ Len(inode) <= Len(inode')
      /\ inode' \in Seq(Content) /\ Len(inode') \in Nat
      /\ DOMAIN inode' = DOMAIN inode \cup {i}
      /\ \A j \in DOMAIN inode : j # i => inode'[j] = inode[j]
      /\ path' = [path EXCEPT !["match"] = i]
      /\ path' \in [{"tmp", "cache", "match"} -> 0..Len(inode')]
      /\ cmd' \in [Command -> CmdType]
      /\ cmd'[c].pc = "extract" /\ cmd'[c].file = i /\ cmd'[c].at = 0
      /\ \A d \in Command : d # c => cmd'[d] = cmd[d]
      /\ broken' = broken \ {i}
  BY Zenon, <1>1, <1>4, OpenShape
<1>6. MadeInv'
  BY ZenonT(60), <1>3, <1>5, OpenMade
<1>7. /\ path \in [{"tmp", "cache", "match"} -> 0..Len(inode)] /\ Len(inode) \in Nat
      /\ path["match"] # 0 => i = path["match"]
      /\ path["match"] = 0 => i = Len(inode) + 1
  BY <1>1 DEF DownloadType, Opened, Exists
<1> HIDE DEF i
<1>8. path'["tmp"] = path["tmp"] /\ path'["cache"] = path["cache"] /\ path'["match"] = i
  BY <1>5, <1>7
<1>9. i \notin {path["tmp"], path["cache"]}
  BY <1>1, <1>7 DEF FilesInv
<1>10. DownloadType'
  BY <1>1, <1>5 DEF DownloadType
<1>11. ASSUME NEW d \in Command
       PROVE  /\ cmd'[d].file \in 0..Len(inode')
              /\ cmd'[d].file # 0 <=> cmd'[d].pc \in Downloading \cup Extracting
              /\ cmd'[d].pc \in Downloading => cmd'[d].file # i
              /\ cmd'[d].pc \in Extracting => cmd'[d].file = i
              /\ cmd'[d].pc \in {"clean", "chmod"} => cmd'[d].at = Blocks
  <2>1. CASE d = c
    BY <1>5, <2>1 DEF Downloading, Extracting
  <2>2. CASE d # c
    <3>1. /\ cmd'[d] = cmd[d] /\ cmd[d].file \in 0..Len(inode)
          /\ cmd[d].file # 0 <=> cmd[d].pc \in Downloading \cup Extracting
          /\ cmd[d].pc \in Downloading => cmd[d].file # path["match"]
          /\ cmd[d].pc \in Extracting => cmd[d].file = path["match"]
          /\ cmd[d].pc \in {"clean", "chmod"} => cmd[d].at = Blocks
      BY <1>1, <1>5, <2>2 DEF FilesInv
    <3>2. cmd[d].file \in 0..Len(inode')
      BY <1>5, <1>7, <3>1
    <3>3. CASE path["match"] # 0
      BY <1>7, <3>1, <3>2, <3>3
    <3>4. CASE path["match"] = 0
      <4>1. cmd[d].pc \notin Extracting /\ cmd[d].file # i
        BY <1>7, <3>1, <3>4
      <4> QED BY <3>1, <3>2, <4>1
    <3> QED BY <3>3, <3>4
  <2> QED BY <2>1, <2>2
<1>12. FilesInv'
  BY <1>2, <1>8, <1>9, <1>11 DEF FilesInv
<1>13. AloneInv'
  BY <1>2 DEF AloneInv
<1> QED BY <1>6, <1>10, <1>12, <1>13 DEF DownloadInv

(* The command whose download has its full length makes it the cached file.*)
LEMMA RenameStep ==
  ASSUME Blocks \in Nat, DownloadInv, NEW c \in Command, cmd[c].pc = "rename",
         cmd[c].at = Blocks, Exists("tmp"), Rename(c), UNCHANGED <<source, inode, broken, torn>>
  PROVE  DownloadInv'
<1>1. DownloadType /\ FilesInv /\ MadeInv /\ AloneInv
  BY DEF DownloadInv
<1>2. Extracts' = Extracts
  BY DEF Extracts
<1> DEFINE pc == IF Extracts THEN "untar" ELSE "link"
<1>3. pc \in Pcs /\ pc \notin Downloading \cup Extracting /\ At(pc) \in CmdType
  BY DEF Pcs, Downloading, Extracting, CmdType, At
<1>4. /\ path \in [{"tmp", "cache", "match"} -> 0..Len(inode)] /\ cmd \in [Command -> CmdType]
      /\ Len(inode) \in Nat /\ DOMAIN inode = 1..Len(inode) /\ path["tmp"] # 0
  BY <1>1 DEF DownloadType, Exists
<1>5. /\ path' \in [{"tmp", "cache", "match"} -> 0..Len(inode)]
      /\ path'["tmp"] = 0 /\ path'["cache"] = path["tmp"] /\ path'["match"] = path["match"]
  BY <1>4 DEF Rename
<1>6. /\ cmd' \in [Command -> CmdType] /\ cmd'[c].pc = pc /\ cmd'[c].file = 0
      /\ \A d \in Command : d # c => cmd'[d] = cmd[d]
  BY <1>3, <1>4 DEF Rename, At
<1>7. DownloadType'
  BY <1>1, <1>5, <1>6 DEF DownloadType
<1>8. FilesInv'
  <2>1. \A d \in Command : /\ cmd'[d].file \in 0..Len(inode)
                           /\ cmd'[d].file # 0 <=> cmd'[d].pc \in Downloading \cup Extracting
                           /\ cmd'[d].pc \in Downloading => cmd'[d].file # path["match"]
                           /\ cmd'[d].pc \in Extracting => cmd'[d].file = path["match"]
                           /\ cmd'[d].pc \in {"clean", "chmod"} => cmd'[d].at = Blocks
                           /\ ~Extracts => cmd'[d].pc \notin {"statMatch", "untar"} \cup Extracting
    <3> SUFFICES ASSUME NEW d \in Command
                 PROVE  /\ cmd'[d].file \in 0..Len(inode)
                        /\ cmd'[d].file # 0 <=> cmd'[d].pc \in Downloading \cup Extracting
                        /\ cmd'[d].pc \in Downloading => cmd'[d].file # path["match"]
                        /\ cmd'[d].pc \in Extracting => cmd'[d].file = path["match"]
                        /\ cmd'[d].pc \in {"clean", "chmod"} => cmd'[d].at = Blocks
                        /\ ~Extracts => cmd'[d].pc \notin {"statMatch", "untar"} \cup Extracting
      OBVIOUS
    <3>1. CASE d = c
      BY <1>3, <1>4, <1>6, <3>1 DEF Downloading, Extracting
    <3>2. CASE d # c
      BY <1>1, <1>6, <3>2 DEF FilesInv
    <3> QED BY <3>1, <3>2
  <2>2. path["match"] # 0 => path["match"] \notin {path'["tmp"], path'["cache"]}
    BY <1>1, <1>5 DEF FilesInv
  <2> QED BY <1>1, <1>2, <1>5, <2>1, <2>2 DEF FilesInv
<1>9. MadeInv'
  <2> SUFFICES ASSUME NEW i \in Binaries, i \notin broken, inode[i] # Whole
               PROVE  \E d \in Command : cmd'[d].file = i /\ 1..cmd'[d].at \subseteq inode[i]
    BY <1>2, <1>5 DEF MadeInv, Binaries
  <2>1. PICK d \in Command : cmd[d].file = i /\ 1..cmd[d].at \subseteq inode[i]
    BY <1>1 DEF MadeInv
  <2>2. d # c
    <3> SUFFICES ASSUME d = c PROVE FALSE
      OBVIOUS
    <3>1. ~Extracts
      BY <1>1, <2>1 DEF FilesInv, Binaries, Downloading
    <3>2. i \in DOMAIN inode /\ 0 \in inode[i]
      BY <1>1, <3>1 DEF Binaries, FilesInv
    <3>3. inode[i] \in Content
      BY <1>1, <1>4, <3>2, ElementOfSeq DEF DownloadType
    <3>4. inode[i] \subseteq 0..Blocks /\ 1..Blocks \subseteq inode[i]
      BY <2>1, <3>3 DEF Content
    <3>5. inode[i] = Whole
      BY <3>2, <3>4 DEF Whole, Executable
    <3> QED BY <3>5
  <2> QED BY <1>6, <2>1, <2>2
<1>10. AloneInv'
  <2> SUFFICES ASSUME ~Extracts, torn = {} PROVE AloneInv'
    BY <1>2 DEF AloneInv
  <2>1. path["tmp"] = cmd[c].file /\ inode[cmd[c].file] = Executable \cup 1..cmd[c].at
    BY <1>1 DEF AloneInv, Downloading
  <2>2. inode[path["tmp"]] = Whole
    BY <2>1 DEF Whole
  <2>3. \A d \in Command : cmd'[d].pc \notin Downloading
    <3> SUFFICES ASSUME NEW d \in Command, cmd'[d].pc \in Downloading PROVE FALSE
      OBVIOUS
    <3>1. d # c /\ cmd[d].pc \in Downloading
      BY <1>3, <1>6
    <3>2. cmd[d].file = path["tmp"]
      BY <1>1, <3>1 DEF AloneInv
    <3> QED BY <1>1, <1>4, <2>1, <3>1, <3>2 DEF AloneInv
  <2>4. \A d, e \in Command : d # e /\ cmd'[d].file = cmd'[e].file => cmd'[d].file = 0
    BY <1>1, <1>6 DEF AloneInv
  <2> QED BY <1>4, <1>5, <2>2, <2>3, <2>4 DEF AloneInv
<1> QED BY <1>7, <1>8, <1>9, <1>10 DEF DownloadInv

(* The archive is removed; the extracted file becomes executable.          *)
LEMMA CleanStep ==
  ASSUME Blocks \in Nat, DownloadInv, NEW c \in Command, cmd[c].pc = "clean",
         path' = [path EXCEPT !["cache"] = 0], To(c, "chmod"),
         UNCHANGED <<source, inode, broken, torn>>
  PROVE  DownloadInv'
<1>1. DownloadType /\ FilesInv /\ MadeInv
  BY DEF DownloadInv
<1>2. Extracts' = Extracts /\ Extracts
  BY <1>1 DEF Extracts, FilesInv, Extracting
<1>3. cmd \in [Command -> CmdType] /\ path \in [{"tmp", "cache", "match"} -> 0..Len(inode)]
  BY <1>1 DEF DownloadType
<1>4. /\ path' \in [{"tmp", "cache", "match"} -> 0..Len(inode)] /\ path'["tmp"] = path["tmp"]
      /\ path'["cache"] = 0 /\ path'["match"] = path["match"]
  <2>1. 0 \in 0..Len(inode)
    BY <1>1 DEF DownloadType
  <2> QED BY <1>3, <2>1
<1>5. /\ cmd' \in [Command -> CmdType] /\ cmd'[c].pc = "chmod"
      /\ \A d \in Command : /\ cmd'[d].file = cmd[d].file /\ cmd'[d].at = cmd[d].at
                            /\ d # c => cmd'[d].pc = cmd[d].pc
  BY Zenon, <1>3 DEF To, CmdType, Pcs, Extracting
<1>6. DownloadType'
  BY <1>1, <1>4, <1>5 DEF DownloadType
<1>7. FilesInv'
  BY <1>1, <1>2, <1>4, <1>5 DEF FilesInv, Downloading, Extracting
<1>8. MadeInv'
  BY <1>1, <1>2, <1>4, <1>5 DEF MadeInv, Binaries
<1>9. AloneInv'
  BY <1>2 DEF AloneInv
<1> QED BY <1>6, <1>7, <1>8, <1>9 DEF DownloadInv

LEMMA ChmodStep ==
  ASSUME Blocks \in Nat, DownloadInv, NEW c \in Command, Chmod(c)
  PROVE  DownloadInv'
<1> DEFINE m == path["match"]
<1>1. DownloadType /\ FilesInv /\ MadeInv
  BY DEF DownloadInv
<1>2. cmd[c].pc = "chmod" /\ source' = source /\ path' = path /\ broken' = broken
  BY DEF Chmod
<1>3. Extracts' = Extracts /\ Extracts
  BY <1>1, <1>2 DEF Extracts, FilesInv, Extracting
<1>4. /\ cmd \in [Command -> CmdType] /\ inode \in Seq(Content)
      /\ Len(inode) \in Nat /\ DOMAIN inode = 1..Len(inode)
      /\ path \in [{"tmp", "cache", "match"} -> 0..Len(inode)]
  BY <1>1 DEF DownloadType
<1>5. cmd[c].file = m /\ m # 0 /\ m \in 1..Len(inode) /\ cmd[c].at = Blocks
  <2>1. cmd[c].file = m /\ cmd[c].file # 0 /\ cmd[c].at = Blocks
    BY <1>1, <1>2 DEF FilesInv, Extracting
  <2> QED BY <1>4, <2>1
<1>6. inode' = [inode EXCEPT ![m] = inode[m] \cup Executable]
  BY DEF Chmod
<1>7. /\ At("link") \in CmdType /\ At("link").pc = "link" /\ At("link").file = 0
  BY DEF At, CmdType, Pcs
<1>8. /\ cmd' \in [Command -> CmdType] /\ cmd'[c].pc = "link" /\ cmd'[c].file = 0
      /\ \A d \in Command : d # c => cmd'[d] = cmd[d]
  BY <1>4, <1>7 DEF Chmod
<1> HIDE DEF m
<1>9. inode[m] \in Content
  BY <1>4, <1>5, ElementOfSeq
<1>10. inode[m] \cup Executable \in Content
  BY <1>9 DEF Content, Executable
<1>11. inode' \in Seq(Content) /\ Len(inode') = Len(inode) /\ inode'[m] = inode[m] \cup Executable
  BY <1>4, <1>5, <1>6, <1>10, ExceptSeq
<1>12. DownloadType'
  BY <1>1, <1>2, <1>8, <1>11 DEF DownloadType
<1>13. FilesInv'
  BY <1>1, <1>2, <1>3, <1>8, <1>11 DEF FilesInv, Downloading, Extracting
<1>14. MadeInv'
  <2> SUFFICES ASSUME m \notin broken, inode'[m] # Whole
               PROVE  \E d \in Command : cmd'[d].file = m /\ 1..cmd'[d].at \subseteq inode'[m]
    BY <1>2, <1>3 DEF MadeInv, Binaries, m
  <2>1. inode[m] # Whole
    <3>1. Executable \subseteq Whole
      BY DEF Whole
    <3> QED BY <1>11, <3>1
  <2>2. m \in Binaries
    BY <1>3, <1>5 DEF Binaries, m
  <2>3. PICK d \in Command : cmd[d].file = m /\ 1..cmd[d].at \subseteq inode[m]
    BY <1>1, <2>1, <2>2 DEF MadeInv
  <2>4. d # c
    <3> SUFFICES ASSUME d = c PROVE FALSE
      OBVIOUS
    <3>1. 1..Blocks \subseteq inode[m] /\ inode[m] \subseteq 0..Blocks
      BY <1>5, <1>9, <2>3 DEF Content
    <3>2. inode'[m] = Whole
      BY <1>11, <3>1 DEF Whole, Executable
    <3> QED BY <3>2
  <2> QED BY <1>8, <1>11, <2>3, <2>4
<1>15. AloneInv'
  BY <1>3 DEF AloneInv
<1> QED BY <1>12, <1>13, <1>14, <1>15 DEF DownloadInv

-----------------------------------------------------------------------------
LEMMA DownloadInit ==
  ASSUME Blocks \in Nat
  PROVE  Init => DownloadInv
<1> SUFFICES ASSUME Init PROVE DownloadInv
  OBVIOUS
<1>1. \A c \in Command : cmd[c].file = 0 /\ cmd[c].pc = "idle"
  BY Zenon DEF Init, At
<1>2. cmd \in [Command -> CmdType]
  BY DEF Init, At, CmdType, Pcs
<1>3. 1..Blocks \in Content
  BY DEF Content
<1>4. inode \in Seq(Content) /\ path \in [{"tmp", "cache", "match"} -> 0..Len(inode)]
  <2>1. CASE source = "localArchive"
    <3>1. inode = <<1..Blocks>>
      BY <2>1 DEF Init
    <3>2. inode \in Seq(Content) /\ Len(inode) = 1
      BY <1>3, <3>1
    <3> QED BY <3>2 DEF Init
  <2>2. CASE source # "localArchive"
    <3>1. inode = <<>>
      BY <2>2 DEF Init
    <3>2. inode \in Seq(Content) /\ Len(inode) = 0
      BY <3>1
    <3> QED BY <2>2, <3>2 DEF Init
  <2> QED BY <2>1, <2>2
<1>5. DownloadType
  BY <1>2, <1>4 DEF DownloadType, Init
<1>6. path["match"] = 0 /\ (~Extracts => inode = <<>> /\ path["cache"] = 0)
  BY DEF Init, Extracts
<1>7. FilesInv
  <2>1. ~Extracts => DOMAIN inode = {}
    BY <1>6
  <2>2. Len(inode) \in Nat
    BY <1>4
  <2> QED BY <1>1, <1>6, <2>1, <2>2 DEF FilesInv, Downloading, Extracting
<1>8. MadeInv
  BY <1>6 DEF MadeInv, Binaries
<1>9. AloneInv
  BY <1>1, <1>6 DEF AloneInv, Downloading
<1> QED BY <1>5, <1>7, <1>8, <1>9 DEF DownloadInv

(* One step of one command, action by action.                              *)
LEMMA DownloadNext ==
  ASSUME Blocks \in Nat
  PROVE  DownloadInv /\ [Next]_vars => DownloadInv'
<1> SUFFICES ASSUME DownloadInv, [Next]_vars PROVE DownloadInv'
  OBVIOUS
<1>1. CASE UNCHANGED vars
  BY <1>1 DEF vars, DownloadInv, DownloadType, FilesInv, MadeInv, AloneInv, Binaries, Extracts
<1>2. ASSUME NEW c \in Command,
             \/ StatDest(c) \/ StatMatch(c) \/ StatCache(c) \/ Request(c) \/ Copy(c) \/ Close(c)
             \/ CheckAndRename(c) \/ Untar(c) \/ Extract(c) \/ Clean(c) \/ Chmod(c) \/ Link(c)
             \/ Run(c) \/ Kill(c)
      PROVE  DownloadInv'
  <2> USE DEF Downloading, Extracting, Pcs
  <2>a. ASSUME NEW pc \in {"start", "statMatch", "statCache", "request", "untar", "link", "done"},
               To(c, pc), UNCHANGED <<source, inode, path, broken, torn>>,
               cmd[c].pc \notin Downloading \cup Extracting,
               pc \in {"statMatch", "untar"} => Extracts
        PROVE  DownloadInv'
    BY Zenon, <2>a, MoveStep DEF To
  <2>1. CASE StatDest(c)
    BY <2>1, <2>a DEF StatDest
  <2>2. CASE StatMatch(c)
    <3>1. CASE Fail(c)
      BY <2>2, <3>1, FailStep DEF StatMatch
    <3>2. CASE ~Fail(c)
      BY <2>2, <2>a, <3>2 DEF StatMatch, getCachePath
    <3> QED BY <3>1, <3>2
  <2>3. CASE StatCache(c)
    <3>1. CASE Fail(c)
      BY <2>3, <3>1, FailStep DEF StatCache
    <3>2. CASE ~Fail(c)
      BY <2>3, <2>a, <3>2 DEF StatCache, getCachePath
    <3> QED BY <3>1, <3>2
  <2>4. CASE Request(c)
    BY <2>4, FailStep, RequestOpens DEF Request
  <2>5. CASE Copy(c)
    <3>1. cmd[c].pc = "copy" /\ UNCHANGED <<source, path, torn>>
      BY <2>5 DEF Copy
    <3>2. CASE cmd[c].at < Blocks /\ WriteBlock(c) /\ UNCHANGED broken
      BY <3>1, <3>2, WriteStep
    <3>3. CASE Fail(c) /\ UNCHANGED inode
      BY <3>1, <3>3, FailStep
    <3>4. CASE To(c, "close") /\ UNCHANGED <<inode, broken>>
      BY Zenon, <3>1, <3>4, MoveStep DEF To
    <3> QED BY <2>5, <3>2, <3>3, <3>4 DEF Copy
  <2>6. CASE CheckAndRename(c)
    <3>1. cmd[c].pc = "rename" /\ UNCHANGED <<source, inode, torn>>
      BY <2>6 DEF CheckAndRename
    <3>2. CASE Fail(c) /\ UNCHANGED path
      BY <3>1, <3>2, FailStep
    <3>3. CASE cmd[c].at = Blocks /\ Exists("tmp") /\ Rename(c) /\ UNCHANGED broken
      BY <3>1, <3>3, RenameStep
    <3> QED BY <2>6, <3>2, <3>3 DEF CheckAndRename
  <2>7. CASE Untar(c)
    BY <2>7, FailStep, UntarOpens DEF Untar
  <2>8. CASE Extract(c)
    <3>1. cmd[c].pc = "extract" /\ UNCHANGED <<source, path, torn>>
      BY <2>8 DEF Extract
    <3>2. CASE cmd[c].at < Blocks /\ WriteBlock(c) /\ UNCHANGED broken
      BY <3>1, <3>2, WriteStep
    <3>3. CASE Fail(c) /\ UNCHANGED inode
      BY <3>1, <3>3, FailStep
    <3>4. CASE cmd[c].at = Blocks /\ To(c, "clean") /\ UNCHANGED <<inode, broken>>
      <4>1. Extracts
        BY <3>1 DEF DownloadInv, FilesInv
      <4> QED BY Zenon, <3>1, <3>4, <4>1, MoveStep DEF To
    <3> QED BY <2>8, <3>2, <3>3, <3>4 DEF Extract
  <2>9. CASE Clean(c)
    BY <2>9, FailStep, CleanStep DEF Clean
  <2>10. CASE Chmod(c)
    BY <2>10, ChmodStep
  <2>11. CASE Link(c)
    <3>1. cmd[c].pc = "link" /\ UNCHANGED <<source, inode, path, torn>>
      BY <2>11 DEF Link
    <3>2. CASE To(c, "done") /\ UNCHANGED broken
      BY <2>a, <3>1, <3>2
    <3>3. CASE Fail(c)
      BY <3>1, <3>3, FailStep
    <3> QED BY <2>11, <3>2, <3>3 DEF Link
  <2>12. CASE Run(c)
    BY <2>12, <2>a DEF Run, Ended
  <2>13. CASE Kill(c)
    BY <2>13, FailStep DEF Kill
  <2>14. CASE Close(c)
    <3>1. cmd[c].pc = "close" /\ To(c, "rename") /\ UNCHANGED <<source, path>>
      BY <2>14 DEF Close
    <3>2. CASE UNCHANGED <<inode, broken, torn>>
      BY Zenon, <3>1, <3>2, MoveStep DEF To
    <3>3. CASE ~UNCHANGED <<inode, broken, torn>>
      BY <2>14, <3>1, <3>3, CloseStep DEF Close
    <3> QED BY <3>2, <3>3
  <2> QED BY <1>2, <2>1, <2>2, <2>3, <2>4, <2>5, <2>6, <2>7, <2>8, <2>9, <2>10, <2>11, <2>12, <2>13,
             <2>14
<1>3. CASE Clear
  <2>1. /\ UNCHANGED <<source, inode, cmd, broken, torn>> /\ Extracts' = Extracts
        /\ path' = [p \in {"tmp", "cache", "match"} |-> 0]
    BY <1>3 DEF Clear, Extracts
  <2>2. DownloadType /\ FilesInv /\ MadeInv /\ AloneInv /\ Len(inode) \in Nat
    BY DEF DownloadInv, DownloadType
  <2>3. \A c \in Command : cmd[c].pc \notin Downloading \cup Extracting
    BY <1>3 DEF Clear, Ended, Downloading, Extracting
  <2>4. path'["tmp"] = 0 /\ path'["cache"] = 0 /\ path'["match"] = 0
    BY <2>1
  <2>5. DownloadType'
    BY <2>1, <2>2 DEF DownloadType
  <2>6. FilesInv'
    BY <2>1, <2>2, <2>3, <2>4 DEF FilesInv
  <2>7. MadeInv'
    BY <2>1, <2>2, <2>4 DEF MadeInv, Binaries
  <2>8. AloneInv'
    BY <2>1, <2>2, <2>3, <2>4 DEF AloneInv
  <2> QED BY <2>5, <2>6, <2>7, <2>8 DEF DownloadInv
<1> QED BY <1>1, <1>2, <1>3 DEF Next

(***************************************************************************)
(* However many commands use the cache at a time, fail, are killed and run *)
(* again, and however long the file is: a linked binary is whole and       *)
(* executable unless a command is still making it or left it in the        *)
(* middle, and what is downloaded as it is can be left in the middle only  *)
(* after two commands have written one file at a time or a file could not  *)
(* be closed.                                                              *)
(***************************************************************************)
THEOREM LinkedIsWhole ==
  ASSUME Blocks \in Nat
  PROVE  Spec => []BinaryWhole
<1>1. DownloadInv => BinaryWhole
  <2> SUFFICES ASSUME DownloadInv, Exists(Final), inode[path[Final]] # Whole,
                      \A c \in Command : cmd[c].file # path[Final]
               PROVE  path[Final] \in broken /\ (Extracts \/ torn # {})
    BY DEF BinaryWhole
  <2>1. DownloadType /\ MadeInv /\ AloneInv
    BY DEF DownloadInv
  <2>2. path[Final] \in Binaries
    BY <2>1 DEF DownloadType, Binaries, Final, Exists
  <2>3. path[Final] \in broken
    BY <2>1, <2>2 DEF MadeInv
  <2>4. ~Extracts => torn # {}
    BY <2>1 DEF AloneInv, Final, Exists
  <2> QED BY <2>3, <2>4
<1> QED BY <1>1, DownloadInit, DownloadNext, PTL DEF Spec
=============================================================================
