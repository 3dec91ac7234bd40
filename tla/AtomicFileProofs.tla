-------------------------- MODULE AtomicFileProofs --------------------------
(***************************************************************************)
(* Proofs about AtomicFile, for any number of writers, readers, processes  *)
(* and files: no reader ever sees a torn file, and the file implements     *)
(* DurableRegister.                                                        *)
(***************************************************************************)
EXTENDS AtomicFile, TLAPS

-----------------------------------------------------------------------------
(* The inductive invariant.                                                *)

WriterRecord == [pc : Labels, value : Values \cup {Nothing}, tmp : Names, inode : 0..MaxInodes]

FileTypeOK ==
  /\ entry \in [Names -> 0..lastInode]
  /\ disk \in [Names -> 0..lastInode]
  /\ data \in [Inodes -> Content]
  /\ synced \subseteq Inodes
  /\ lastInode \in 0..MaxInodes
  /\ pid \in Pids
  /\ counter \in 0..MaxCounter
  /\ writer \in [Writers -> WriterRecord]
  /\ reader \in [Readers -> 0..lastInode]

\* A file has one name, on disk as well, and a temporary name never leads
\* to the file that a power loss would bring back.
NamesApart ==
  /\ \A m, n \in Names : m # n /\ entry[m] # 0 => entry[m] # entry[n]
  /\ \A m, n \in Names : m # n /\ disk[m] # 0 => disk[m] # disk[n]
  /\ \A n \in TmpNames : entry[n] # 0 => entry[n] # disk[Path]

\* Every write in progress has a temporary name of its own.
TmpsApart ==
  /\ \A w \in Writers : ~At(w, "idle") =>
       \E k \in Counters : k < counter /\ writer[w].tmp = <<pid, k>>
  /\ \A w, x \in Writers :
       w # x /\ ~At(w, "idle") /\ ~At(x, "idle") => writer[w].tmp # writer[x].tmp

\* A reader does not have a temporary file open.
ReadersApart ==
  \A r \in Readers : reader[r] # 0 => \A n \in TmpNames : reader[r] # entry[n]

\* The metadata file is whole, and so that a power loss cannot tear it.
FilesWhole ==
  /\ entry[Path] # 0 => Whole(entry[Path]) /\ entry[Path] \in synced
  /\ disk[Path] # 0 => Whole(disk[Path]) /\ disk[Path] \in synced
  /\ \A r \in Readers : reader[r] # 0 => Whole(reader[r])

Writing == {"write", "writeRest", "syncFile", "rename"}

\* From create to rename, the open file belongs to its writer alone.
OwnsFile(w) ==
  LET i == writer[w].inode
  IN writer[w].pc \in Writing =>
       /\ i \in 1..lastInode
       /\ entry[writer[w].tmp] \in {0, i}
       /\ i # entry[Path]
       /\ i # disk[Path]
       /\ \A n \in Names : n # writer[w].tmp => entry[n] # i
       /\ \A r \in Readers : reader[r] # i
       /\ \A x \in Writers : x # w /\ writer[x].pc \in Writing => writer[x].inode # i

\* What is renamed holds the value, all of it, and is on disk.
FileReady(w) ==
  /\ writer[w].pc \in {"syncFile", "rename"} =>
       data[writer[w].inode] = [value |-> writer[w].value, part |-> "all"]
  /\ At(w, "rename") => writer[w].inode \in synced
  /\ writer[w].pc \in {"idle", "remove"} => writer[w].value = Nothing

WritesOK == \A w \in Writers : OwnsFile(w) /\ FileReady(w)

FileInv ==
  /\ FileTypeOK
  /\ NamesApart
  /\ TmpsApart
  /\ ReadersApart
  /\ FilesWhole
  /\ WritesOK

-----------------------------------------------------------------------------
(* Facts about names and inodes.                                           *)

LEMMA NoWriteType == NoWrite \in WriterRecord
BY FileBoundsAssumption DEF NoWrite, WriterRecord, Names, Labels

LEMMA TmpName ==
  ASSUME FileInv, NEW w \in Writers, ~At(w, "idle")
  PROVE  writer[w].tmp \in TmpNames /\ writer[w].tmp # Path
<1>1. PICK k \in Counters : writer[w].tmp = <<pid, k>>
  BY DEF FileInv, TmpsApart
<1>2. <<pid, k>> \in TmpNames
  BY DEF FileInv, FileTypeOK, TmpNames
<1> QED BY <1>1, <1>2, NamesAssumption

\* The name for the next write is one that no write in progress has.
LEMMA NextTmp ==
  ASSUME FileInv, counter < MaxCounter
  PROVE  /\ UniqueTmpPath(counter) \in TmpNames
         /\ counter \in Counters
         /\ \A w \in Writers : ~At(w, "idle") => writer[w].tmp # UniqueTmpPath(counter)
<1>1. counter \in Counters /\ counter \in Nat /\ pid \in Pids
  BY FileBoundsAssumption DEF FileInv, FileTypeOK, Counters
<1>2. ASSUME NEW w \in Writers, ~At(w, "idle") PROVE writer[w].tmp # UniqueTmpPath(counter)
  <2>1. PICK k \in Counters : k < counter /\ writer[w].tmp = <<pid, k>>
    BY <1>2 DEF FileInv, TmpsApart
  <2>2. k # counter
    BY <2>1, <1>1 DEF Counters
  <2> QED BY <2>1, <2>2 DEF UniqueTmpPath
<1> QED BY <1>1, <1>2 DEF UniqueTmpPath, TmpNames

\* The file that File::create makes or empties is nobody else's.
LEMMA CreatedFile ==
  ASSUME FileInv, NEW w \in Writers, CreateTmp(w)
  PROVE  \E i \in Inodes :
           /\ i \in 1..lastInode'
           /\ lastInode' \in lastInode..MaxInodes
           /\ entry' = [entry EXCEPT ![writer[w].tmp] = i]
           /\ data' = [data EXCEPT ![i] = [value |-> Nothing, part |-> "empty"]]
           /\ synced' = synced \ {i}
           /\ writer' = [writer EXCEPT ![w].pc = "write", ![w].inode = i]
           /\ i # entry[Path] /\ i # disk[Path]
           /\ \A n \in Names : n # writer[w].tmp => entry[n] # i
           /\ \A r \in Readers : reader[r] # i
           /\ \A x \in Writers : x # w /\ writer[x].pc \in Writing => writer[x].inode # i
<1> DEFINE tmp == writer[w].tmp
           i == IF entry[tmp] = 0 THEN lastInode + 1 ELSE entry[tmp]
<1>1. tmp \in TmpNames /\ tmp # Path /\ tmp \in Names /\ Path \in Names
  BY TmpName DEF CreateTmp, At, Names
<1>2. /\ i \in Inodes
      /\ entry' = [entry EXCEPT ![tmp] = i]
      /\ lastInode' = (IF entry[tmp] = 0 THEN i ELSE lastInode)
      /\ data' = [data EXCEPT ![i] = [value |-> Nothing, part |-> "empty"]]
      /\ synced' = synced \ {i}
      /\ writer' = [writer EXCEPT ![w].pc = "write", ![w].inode = i]
  BY DEF CreateTmp
<1>3. /\ \A n \in Names : entry[n] \in 0..lastInode /\ disk[n] \in 0..lastInode
      /\ lastInode \in 0..MaxInodes
      /\ \A r \in Readers : reader[r] \in 0..lastInode
      /\ \A x \in Writers : writer[x].pc \in Writing =>
            writer[x].inode \in 1..lastInode /\ writer[x].tmp \in Names
  BY DEF FileInv, FileTypeOK, WritesOK, OwnsFile, WriterRecord
<1>4. CASE entry[tmp] = 0
  <2>1. i = lastInode + 1 /\ lastInode' = i /\ i \in 1..MaxInodes
    BY <1>2, <1>4 DEF Inodes
  <2>2. i \in 1..lastInode' /\ lastInode' \in lastInode..MaxInodes
    BY <1>3, <2>1, FileBoundsAssumption
  <2>3. /\ \A n \in Names : entry[n] # i /\ disk[n] # i
        /\ \A r \in Readers : reader[r] # i
        /\ \A x \in Writers : writer[x].pc \in Writing => writer[x].inode # i
    BY <1>3, <2>1
  <2> QED BY <1>1, <1>2, <2>2, <2>3
<1>5. CASE entry[tmp] # 0
  <2>1. i # entry[Path] /\ i # disk[Path] /\ \A n \in Names : n # tmp => entry[n] # i
    BY <1>1, <1>5 DEF FileInv, NamesApart
  <2>2. \A r \in Readers : reader[r] # i
    BY <1>1, <1>5 DEF FileInv, ReadersApart
  <2>3. ASSUME NEW x \in Writers, x # w, writer[x].pc \in Writing
        PROVE  writer[x].inode # i
    <3>1. writer[x].tmp # tmp
      BY <2>3 DEF FileInv, TmpsApart, CreateTmp, At, Writing
    <3> QED BY <1>1, <1>5, <2>3, <3>1 DEF FileInv, WritesOK, OwnsFile
  <2>4. i \in 1..lastInode /\ lastInode' \in lastInode..MaxInodes
    BY <1>1, <1>2, <1>3, <1>5, FileBoundsAssumption
  <2> QED BY <1>2, <1>5, <2>1, <2>2, <2>3, <2>4
<1> QED BY <1>4, <1>5

LEMMA OpenInode ==
  ASSUME FileInv, NEW w \in Writers, writer[w].pc \in Writing
  PROVE  writer[w].inode \in Inodes
<1>1. writer[w].inode \in 1..lastInode /\ lastInode \in 0..MaxInodes
  BY DEF FileInv, FileTypeOK, WritesOK, OwnsFile
<1> QED BY <1>1, FileBoundsAssumption DEF Inodes

-----------------------------------------------------------------------------
(* Every step keeps the invariant.                                         *)

LEMMA FileTypeStep ==
  ASSUME FileInv, Next
  PROVE  FileTypeOK'
<1> USE DEF FileInv, FileTypeOK, files, process, At, WriterRecord, Labels
<1>1. ASSUME NEW w \in Writers, NEW v \in Values, BeginWrite(w, v) PROVE FileTypeOK'
  <2>1. UniqueTmpPath(counter) \in Names
    BY <1>1, NextTmp DEF BeginWrite, Names
  <2>2. counter' \in 0..MaxCounter
    BY <1>1, FileBoundsAssumption DEF BeginWrite
  <2>3. writer' \in [Writers -> WriterRecord]
    BY <1>1, <2>1, FileBoundsAssumption DEF BeginWrite
  <2> QED BY <1>1, <2>2, <2>3 DEF BeginWrite
<1>2. ASSUME NEW w \in Writers, CreateTmp(w) PROVE FileTypeOK'
  <2>1. PICK i \in Inodes :
          /\ i \in 1..lastInode'
          /\ lastInode' \in lastInode..MaxInodes
          /\ entry' = [entry EXCEPT ![writer[w].tmp] = i]
          /\ data' = [data EXCEPT ![i] = [value |-> Nothing, part |-> "empty"]]
          /\ synced' = synced \ {i}
          /\ writer' = [writer EXCEPT ![w].pc = "write", ![w].inode = i]
    BY <1>2, CreatedFile
  <2>2. data' \in [Inodes -> Content]
    BY <2>1 DEF Content
  <2>3. writer' \in [Writers -> WriterRecord]
    <3>1. [writer[w] EXCEPT !.pc = "write", !.inode = i] \in WriterRecord
      <4>1. writer[w] \in WriterRecord /\ i \in 0..MaxInodes
        BY FileBoundsAssumption DEF Inodes
      <4> QED BY <4>1
    <3>2. writer' = [writer EXCEPT ![w] = [writer[w] EXCEPT !.pc = "write", !.inode = i]]
      BY <2>1
    <3> QED BY <3>1, <3>2
  <2>4. /\ entry' \in [Names -> 0..lastInode']
        /\ disk' \in [Names -> 0..lastInode']
        /\ reader' \in [Readers -> 0..lastInode']
        /\ lastInode' \in 0..MaxInodes
    BY <1>2, <2>1, FileBoundsAssumption DEF CreateTmp
  <2> QED BY <1>2, <2>1, <2>2, <2>3, <2>4 DEF CreateTmp
<1>3. ASSUME NEW w \in Writers, WriteSome(w) PROVE FileTypeOK'
  <2>1. data' \in [Inodes -> Content]
    BY <1>3 DEF WriteSome, Write, Content
  <2>2. writer' \in [Writers -> WriterRecord]
    BY <1>3 DEF WriteSome, Goto
  <2> QED BY <1>3, <2>1, <2>2 DEF WriteSome, Write
<1>4. ASSUME NEW w \in Writers, WriteRest(w) PROVE FileTypeOK'
  <2>1. data' \in [Inodes -> Content]
    BY <1>4 DEF WriteRest, Write, Content
  <2>2. writer' \in [Writers -> WriterRecord]
    BY <1>4 DEF WriteRest, Goto
  <2> QED BY <1>4, <2>1, <2>2 DEF WriteRest, Write
<1>5. ASSUME NEW w \in Writers, SyncFile(w) PROVE FileTypeOK'
  <2>1. writer[w].inode \in 1..MaxInodes
    BY <1>5 DEF SyncFile, FileInv, WritesOK, OwnsFile, Writing
  <2>2. writer' \in [Writers -> WriterRecord]
    BY <1>5 DEF SyncFile, Goto
  <2> QED BY <1>5, <2>1, <2>2 DEF SyncFile, Inodes
<1>6. ASSUME NEW w \in Writers, Rename(w) PROVE FileTypeOK'
  BY <1>6 DEF Rename, Goto
<1>7. ASSUME NEW w \in Writers, SyncParentDir(w) PROVE FileTypeOK'
  BY <1>7 DEF SyncParentDir, Goto
<1>8. ASSUME NEW w \in Writers, WriteDone(w) PROVE FileTypeOK'
  BY <1>8, NoWriteType DEF WriteDone
<1>9. ASSUME NEW w \in Writers, WriteFails(w) PROVE FileTypeOK'
  BY <1>9 DEF WriteFails
<1>10. ASSUME NEW w \in Writers, RemoveTmp(w) PROVE FileTypeOK'
  <2>1. entry' \in [Names -> 0..lastInode']
    BY <1>10 DEF RemoveTmp
  <2> QED BY <1>10, <2>1, NoWriteType DEF RemoveTmp
<1>11. ASSUME NEW r \in Readers, OpenFile(r) PROVE FileTypeOK'
  BY <1>11 DEF OpenFile, Names
<1>12. ASSUME NEW r \in Readers, ReadFile(r) PROVE FileTypeOK'
  BY <1>12 DEF ReadFile
<1>13. ASSUME NEW n \in Names, Unlink(n) PROVE FileTypeOK'
  BY <1>13 DEF Unlink
<1>14. ASSUME WriteDirectory PROVE FileTypeOK'
  BY <1>14 DEF WriteDirectory
<1>15. ASSUME RestartDaemon PROVE FileTypeOK'
  BY <1>15, NoWriteType, FileBoundsAssumption DEF RestartDaemon, NewProcess
<1>16. ASSUME PowerLoss PROVE FileTypeOK'
  <2>1. \A d \in Content : [d EXCEPT !.part = "some"] \in Content
    BY DEF Content
  <2>3. data' \in [Inodes -> Content]
    BY <1>16, <2>1 DEF PowerLoss
  <2>2. synced' \subseteq Inodes
    BY <1>16, FileBoundsAssumption DEF PowerLoss, Inodes
  <2> QED BY <1>16, <2>2, <2>3, NoWriteType, FileBoundsAssumption DEF PowerLoss, NewProcess
<1> QED
  BY <1>1, <1>2, <1>3, <1>4, <1>5, <1>6, <1>7, <1>8,
     <1>9, <1>10, <1>11, <1>12, <1>13, <1>14, <1>15, <1>16 DEF Next, WriterStep

LEMMA NamesStep ==
  ASSUME FileInv, Next
  PROVE  NamesApart'
<1> USE DEF FileInv, FileTypeOK, NamesApart, files, process, Names, At
<1>1. ASSUME NEW w \in Writers, NEW v \in Values, BeginWrite(w, v) PROVE NamesApart'
  BY <1>1 DEF BeginWrite
<1>2. ASSUME NEW w \in Writers, CreateTmp(w) PROVE NamesApart'
  <2>1. PICK i \in Inodes :
          /\ entry' = [entry EXCEPT ![writer[w].tmp] = i]
          /\ i # disk[Path]
          /\ \A n \in Names : n # writer[w].tmp => entry[n] # i
    BY <1>2, CreatedFile
  <2> QED BY <1>2, <2>1 DEF CreateTmp
<1>3. ASSUME NEW w \in Writers, WriteSome(w) PROVE NamesApart'
  BY <1>3 DEF WriteSome, Write, Goto
<1>4. ASSUME NEW w \in Writers, WriteRest(w) PROVE NamesApart'
  BY <1>4 DEF WriteRest, Write, Goto
<1>5. ASSUME NEW w \in Writers, SyncFile(w) PROVE NamesApart'
  BY <1>5 DEF SyncFile, Goto
<1>6. ASSUME NEW w \in Writers, Rename(w) PROVE NamesApart'
  <2>1. writer[w].tmp \in TmpNames /\ writer[w].tmp # Path
    BY <1>6, TmpName DEF Rename
  <2>2. entry[writer[w].tmp] = writer[w].inode
    BY <1>6 DEF Rename, WritesOK, OwnsFile, Writing
  <2>3. entry[writer[w].tmp] # disk[Path]
    BY <1>6, <2>1 DEF Rename
  <2> QED BY <1>6, <2>1, <2>3, NamesAssumption DEF Rename
<1>7. ASSUME NEW w \in Writers, SyncParentDir(w) PROVE NamesApart'
  BY <1>7, NamesAssumption DEF SyncParentDir
<1>8. ASSUME NEW w \in Writers, WriteDone(w) PROVE NamesApart'
  BY <1>8 DEF WriteDone
<1>9. ASSUME NEW w \in Writers, WriteFails(w) PROVE NamesApart'
  BY <1>9 DEF WriteFails
<1>10. ASSUME NEW w \in Writers, RemoveTmp(w) PROVE NamesApart'
  BY <1>10 DEF RemoveTmp
<1>11. ASSUME NEW r \in Readers, OpenFile(r) PROVE NamesApart'
  BY <1>11 DEF OpenFile
<1>12. ASSUME NEW r \in Readers, ReadFile(r) PROVE NamesApart'
  BY <1>12 DEF ReadFile
<1>13. ASSUME NEW n \in Names, Unlink(n) PROVE NamesApart'
  BY <1>13 DEF Unlink
<1>14. ASSUME WriteDirectory PROVE NamesApart'
  BY <1>14, NamesAssumption DEF WriteDirectory
<1>15. ASSUME RestartDaemon PROVE NamesApart'
  BY <1>15 DEF RestartDaemon, NewProcess
<1>16. ASSUME PowerLoss PROVE NamesApart'
  BY <1>16, NamesAssumption DEF PowerLoss
<1> QED
  BY <1>1, <1>2, <1>3, <1>4, <1>5, <1>6, <1>7, <1>8,
     <1>9, <1>10, <1>11, <1>12, <1>13, <1>14, <1>15, <1>16 DEF Next, WriterStep

LEMMA TmpsStep ==
  ASSUME FileInv, Next
  PROVE  TmpsApart'
<1> USE DEF FileInv, FileTypeOK, TmpsApart, files, process, NoWrite, At, WriterRecord, Labels
<1>1. ASSUME NEW w \in Writers, NEW v \in Values, BeginWrite(w, v) PROVE TmpsApart'
  <2>1. /\ counter \in Counters /\ counter \in Nat /\ counter' = counter + 1
        /\ pid' = pid
        /\ writer'[w].tmp = UniqueTmpPath(counter)
        /\ \A x \in Writers \ {w} : writer'[x] = writer[x]
    BY <1>1, NextTmp DEF BeginWrite
  <2>2. \A x \in Writers \ {w} : ~At(x, "idle") => writer[x].tmp # writer'[w].tmp
    BY <1>1, <2>1, NextTmp DEF BeginWrite
  <2>3. ASSUME NEW x \in Writers, ~At(x, "idle")'
        PROVE  \E k \in Counters : k < counter' /\ writer'[x].tmp = <<pid, k>>
    <3>1. CASE x = w
      BY <2>1, <3>1 DEF UniqueTmpPath
    <3>2. CASE x # w
      BY <2>1, <2>3, <3>2 DEF Counters
    <3> QED BY <3>1, <3>2
  <2> QED BY <2>1, <2>2, <2>3
<1>2. ASSUME NEW w \in Writers, CreateTmp(w) PROVE TmpsApart'
  BY <1>2 DEF CreateTmp
<1>3. ASSUME NEW w \in Writers, WriteSome(w) PROVE TmpsApart'
  BY <1>3 DEF WriteSome, Write, Goto
<1>4. ASSUME NEW w \in Writers, WriteRest(w) PROVE TmpsApart'
  BY <1>4 DEF WriteRest, Write, Goto
<1>5. ASSUME NEW w \in Writers, SyncFile(w) PROVE TmpsApart'
  BY <1>5 DEF SyncFile, Goto
<1>6. ASSUME NEW w \in Writers, Rename(w) PROVE TmpsApart'
  BY <1>6 DEF Rename, Goto
<1>7. ASSUME NEW w \in Writers, SyncParentDir(w) PROVE TmpsApart'
  BY <1>7 DEF SyncParentDir, Goto
<1>8. ASSUME NEW w \in Writers, WriteDone(w) PROVE TmpsApart'
  BY <1>8 DEF WriteDone
<1>9. ASSUME NEW w \in Writers, WriteFails(w) PROVE TmpsApart'
  BY <1>9 DEF WriteFails
<1>10. ASSUME NEW w \in Writers, RemoveTmp(w) PROVE TmpsApart'
  BY <1>10 DEF RemoveTmp
<1>11. ASSUME NEW r \in Readers, OpenFile(r) PROVE TmpsApart'
  BY <1>11 DEF OpenFile
<1>12. ASSUME NEW r \in Readers, ReadFile(r) PROVE TmpsApart'
  BY <1>12 DEF ReadFile
<1>13. ASSUME NEW n \in Names, Unlink(n) PROVE TmpsApart'
  BY <1>13 DEF Unlink
<1>14. ASSUME WriteDirectory PROVE TmpsApart'
  BY <1>14 DEF WriteDirectory
<1>15. ASSUME RestartDaemon PROVE TmpsApart'
  BY <1>15 DEF RestartDaemon, NewProcess
<1>16. ASSUME PowerLoss PROVE TmpsApart'
  BY <1>16 DEF PowerLoss, NewProcess
<1> QED
  BY <1>1, <1>2, <1>3, <1>4, <1>5, <1>6, <1>7, <1>8,
     <1>9, <1>10, <1>11, <1>12, <1>13, <1>14, <1>15, <1>16 DEF Next, WriterStep

LEMMA ReadersStep ==
  ASSUME FileInv, Next
  PROVE  ReadersApart'
<1> USE DEF FileInv, FileTypeOK, ReadersApart, files, process, Names, At
<1>1. ASSUME NEW w \in Writers, NEW v \in Values, BeginWrite(w, v) PROVE ReadersApart'
  BY <1>1 DEF BeginWrite
<1>2. ASSUME NEW w \in Writers, CreateTmp(w) PROVE ReadersApart'
  <2>1. PICK i \in Inodes :
          /\ entry' = [entry EXCEPT ![writer[w].tmp] = i]
          /\ \A r \in Readers : reader[r] # i
    BY <1>2, CreatedFile
  <2> QED BY <1>2, <2>1 DEF CreateTmp
<1>3. ASSUME NEW w \in Writers, WriteSome(w) PROVE ReadersApart'
  BY <1>3 DEF WriteSome, Write, Goto
<1>4. ASSUME NEW w \in Writers, WriteRest(w) PROVE ReadersApart'
  BY <1>4 DEF WriteRest, Write, Goto
<1>5. ASSUME NEW w \in Writers, SyncFile(w) PROVE ReadersApart'
  BY <1>5 DEF SyncFile, Goto
<1>6. ASSUME NEW w \in Writers, Rename(w) PROVE ReadersApart'
  <2>1. writer[w].tmp \in TmpNames /\ writer[w].tmp # Path
    BY <1>6, TmpName DEF Rename
  <2> QED BY <1>6, <2>1, NamesAssumption DEF Rename
<1>7. ASSUME NEW w \in Writers, SyncParentDir(w) PROVE ReadersApart'
  BY <1>7 DEF SyncParentDir, Goto
<1>8. ASSUME NEW w \in Writers, WriteDone(w) PROVE ReadersApart'
  BY <1>8 DEF WriteDone
<1>9. ASSUME NEW w \in Writers, WriteFails(w) PROVE ReadersApart'
  BY <1>9 DEF WriteFails
<1>10. ASSUME NEW w \in Writers, RemoveTmp(w) PROVE ReadersApart'
  BY <1>10 DEF RemoveTmp
<1>11. ASSUME NEW r \in Readers, OpenFile(r) PROVE ReadersApart'
  <2>1. \A n \in TmpNames : entry[n] # entry[Path]
    BY <1>11, NamesAssumption DEF OpenFile, NamesApart
  <2> QED BY <1>11, <2>1 DEF OpenFile
<1>12. ASSUME NEW r \in Readers, ReadFile(r) PROVE ReadersApart'
  BY <1>12 DEF ReadFile
<1>13. ASSUME NEW n \in Names, Unlink(n) PROVE ReadersApart'
  BY <1>13 DEF Unlink
<1>14. ASSUME WriteDirectory PROVE ReadersApart'
  BY <1>14 DEF WriteDirectory
<1>15. ASSUME RestartDaemon PROVE ReadersApart'
  BY <1>15 DEF RestartDaemon, NewProcess
<1>16. ASSUME PowerLoss PROVE ReadersApart'
  BY <1>16 DEF PowerLoss, NewProcess
<1> QED
  BY <1>1, <1>2, <1>3, <1>4, <1>5, <1>6, <1>7, <1>8,
     <1>9, <1>10, <1>11, <1>12, <1>13, <1>14, <1>15, <1>16 DEF Next, WriterStep

LEMMA WholeStep ==
  ASSUME FileInv, Next
  PROVE  FilesWhole'
<1> USE DEF FileInv, FileTypeOK, FilesWhole, files, process, Names, At, Whole
<1>1. ASSUME NEW w \in Writers, NEW v \in Values, BeginWrite(w, v) PROVE FilesWhole'
  BY <1>1 DEF BeginWrite
<1>2. ASSUME NEW w \in Writers, CreateTmp(w) PROVE FilesWhole'
  <2>1. PICK i \in Inodes :
          /\ entry' = [entry EXCEPT ![writer[w].tmp] = i]
          /\ data' = [data EXCEPT ![i] = [value |-> Nothing, part |-> "empty"]]
          /\ synced' = synced \ {i}
          /\ i # entry[Path] /\ i # disk[Path]
          /\ \A r \in Readers : reader[r] # i
    BY <1>2, CreatedFile
  <2>2. writer[w].tmp # Path
    BY <1>2, TmpName DEF CreateTmp
  <2> QED BY <1>2, <2>1, <2>2 DEF CreateTmp, Inodes
<1>3. ASSUME NEW w \in Writers, WriteSome(w) PROVE FilesWhole'
  <2>1. LET i == writer[w].inode
        IN i # entry[Path] /\ i # disk[Path] /\ \A r \in Readers : reader[r] # i
    BY <1>3 DEF WriteSome, WritesOK, OwnsFile, Writing
  <2> QED BY <1>3, <2>1 DEF WriteSome, Write, Inodes
<1>4. ASSUME NEW w \in Writers, WriteRest(w) PROVE FilesWhole'
  <2>1. LET i == writer[w].inode
        IN i # entry[Path] /\ i # disk[Path] /\ \A r \in Readers : reader[r] # i
    BY <1>4 DEF WriteRest, WritesOK, OwnsFile, Writing
  <2> QED BY <1>4, <2>1 DEF WriteRest, Write, Inodes
<1>5. ASSUME NEW w \in Writers, SyncFile(w) PROVE FilesWhole'
  BY <1>5 DEF SyncFile, Goto
<1>6. ASSUME NEW w \in Writers, Rename(w) PROVE FilesWhole'
  <2>1. writer[w].tmp # Path
    BY <1>6, TmpName DEF Rename
  <2>2. entry[writer[w].tmp] = writer[w].inode
    BY <1>6 DEF Rename, WritesOK, OwnsFile, Writing
  <2>3. /\ data[writer[w].inode] = [value |-> writer[w].value, part |-> "all"]
        /\ writer[w].inode \in synced
    BY <1>6 DEF Rename, WritesOK, FileReady
  <2> QED BY <1>6, <2>1, <2>2, <2>3 DEF Rename
<1>7. ASSUME NEW w \in Writers, SyncParentDir(w) PROVE FilesWhole'
  BY <1>7 DEF SyncParentDir, Goto
<1>8. ASSUME NEW w \in Writers, WriteDone(w) PROVE FilesWhole'
  BY <1>8 DEF WriteDone
<1>9. ASSUME NEW w \in Writers, WriteFails(w) PROVE FilesWhole'
  BY <1>9 DEF WriteFails
<1>10. ASSUME NEW w \in Writers, RemoveTmp(w) PROVE FilesWhole'
  BY <1>10 DEF RemoveTmp
<1>11. ASSUME NEW r \in Readers, OpenFile(r) PROVE FilesWhole'
  BY <1>11 DEF OpenFile
<1>12. ASSUME NEW r \in Readers, ReadFile(r) PROVE FilesWhole'
  BY <1>12 DEF ReadFile
<1>13. ASSUME NEW n \in Names, Unlink(n) PROVE FilesWhole'
  BY <1>13 DEF Unlink
<1>14. ASSUME WriteDirectory PROVE FilesWhole'
  BY <1>14 DEF WriteDirectory
<1>15. ASSUME RestartDaemon PROVE FilesWhole'
  BY <1>15 DEF RestartDaemon, NewProcess
<1>16. ASSUME PowerLoss PROVE FilesWhole'
  BY <1>16 DEF PowerLoss, NewProcess
<1> QED
  BY <1>1, <1>2, <1>3, <1>4, <1>5, <1>6, <1>7, <1>8,
     <1>9, <1>10, <1>11, <1>12, <1>13, <1>14, <1>15, <1>16 DEF Next, WriterStep

LEMMA OwnsStep ==
  ASSUME FileInv, NEW y \in Writers, Next
  PROVE  OwnsFile(y)'
<1> USE DEF FileInv, FileTypeOK, WritesOK, OwnsFile, Writing, files, process, Names, At, NoWrite
<1>1. ASSUME NEW w \in Writers, NEW v \in Values, BeginWrite(w, v) PROVE OwnsFile(y)'
  BY <1>1 DEF BeginWrite
<1>2. ASSUME NEW w \in Writers, CreateTmp(w) PROVE OwnsFile(y)'
  <2>1. PICK i \in Inodes :
          /\ i \in 1..lastInode'
          /\ entry' = [entry EXCEPT ![writer[w].tmp] = i]
          /\ writer' = [writer EXCEPT ![w].pc = "write", ![w].inode = i]
          /\ i # entry[Path] /\ i # disk[Path]
          /\ \A n \in Names : n # writer[w].tmp => entry[n] # i
          /\ \A r \in Readers : reader[r] # i
          /\ \A x \in Writers : x # w /\ writer[x].pc \in Writing => writer[x].inode # i
    BY <1>2, CreatedFile
  <2>2. writer[w].tmp # Path /\ writer[w].tmp \in Names
    BY <1>2, TmpName DEF CreateTmp
  <2>3. CASE y = w
    BY <1>2, <2>1, <2>2, <2>3 DEF CreateTmp
  <2>4. CASE y # w /\ writer[y].pc \in Writing
    <3>1. writer[y].tmp # writer[w].tmp
      BY <1>2, <2>4 DEF CreateTmp, TmpsApart
    <3> QED BY <1>2, <2>1, <2>2, <2>4, <3>1 DEF CreateTmp
  <2>5. CASE y # w /\ writer[y].pc \notin Writing
    BY <2>1, <2>5
  <2> QED BY <2>3, <2>4, <2>5
<1>3. ASSUME NEW w \in Writers, WriteSome(w) PROVE OwnsFile(y)'
  BY <1>3 DEF WriteSome, Write, Goto
<1>4. ASSUME NEW w \in Writers, WriteRest(w) PROVE OwnsFile(y)'
  BY <1>4 DEF WriteRest, Write, Goto
<1>5. ASSUME NEW w \in Writers, SyncFile(w) PROVE OwnsFile(y)'
  BY <1>5 DEF SyncFile, Goto
<1>6. ASSUME NEW w \in Writers, Rename(w) PROVE OwnsFile(y)'
  <2>1. CASE y = w
    BY <1>6, <2>1 DEF Rename, Goto
  <2>2. CASE y # w /\ writer[y].pc \in Writing
    <3>1. writer[w].tmp # Path /\ writer[w].tmp \in Names /\ writer[y].tmp # Path
      BY <1>6, <2>2, TmpName DEF Rename
    <3>2. writer[y].tmp # writer[w].tmp
      BY <1>6, <2>2 DEF Rename, TmpsApart
    <3>3. /\ writer'[y] = writer[y] /\ writer[y].tmp \in Names
          /\ \A x \in Writers : writer'[x].pc \in Writing => writer'[x] = writer[x]
      <4>1. writer'[w].pc \notin Writing /\ \A x \in Writers \ {w} : writer'[x] = writer[x]
        BY <1>6 DEF Rename, Goto
      <4>2. writer[y].tmp \in Names
        BY DEF WriterRecord
      <4> QED BY <2>2, <4>1, <4>2
    <3>4. /\ entry'[writer[y].tmp] = entry[writer[y].tmp]
          /\ \A n \in Names : entry'[n] \in {0, entry[n], entry[writer[w].tmp]}
      BY <1>6, <3>1, <3>2, <3>3 DEF Rename
    <3>5. UNCHANGED <<disk, reader, lastInode>>
      BY <1>6 DEF Rename
    <3> QED BY <2>2, <3>1, <3>2, <3>3, <3>4, <3>5
  <2>3. CASE y # w /\ writer[y].pc \notin Writing
    BY <1>6, <2>3 DEF Rename, Goto
  <2> QED BY <2>1, <2>2, <2>3
<1>7. ASSUME NEW w \in Writers, SyncParentDir(w) PROVE OwnsFile(y)'
  BY <1>7 DEF SyncParentDir, Goto
<1>8. ASSUME NEW w \in Writers, WriteDone(w) PROVE OwnsFile(y)'
  BY <1>8 DEF WriteDone
<1>9. ASSUME NEW w \in Writers, WriteFails(w) PROVE OwnsFile(y)'
  BY <1>9 DEF WriteFails
<1>10. ASSUME NEW w \in Writers, RemoveTmp(w) PROVE OwnsFile(y)'
  <2>1. CASE y = w
    BY <1>10, <2>1 DEF RemoveTmp
  <2>2. CASE y # w /\ writer[y].pc \in Writing
    <3>1. writer[w].tmp # Path /\ writer[w].tmp \in Names /\ writer[y].tmp # Path
      BY <1>10, <2>2, TmpName DEF RemoveTmp
    <3>2. writer[y].tmp # writer[w].tmp
      BY <1>10, <2>2 DEF RemoveTmp, TmpsApart
    <3>3. /\ writer'[y] = writer[y] /\ writer[y].tmp \in Names
          /\ \A x \in Writers : writer'[x].pc \in Writing => writer'[x] = writer[x]
      <4>1. writer'[w].pc \notin Writing /\ \A x \in Writers \ {w} : writer'[x] = writer[x]
        BY <1>10 DEF RemoveTmp
      <4>2. writer[y].tmp \in Names
        BY DEF WriterRecord
      <4> QED BY <2>2, <4>1, <4>2
    <3>4. /\ entry'[writer[y].tmp] = entry[writer[y].tmp]
          /\ \A n \in Names : entry'[n] \in {0, entry[n], entry[writer[w].tmp]}
      BY <1>10, <3>1, <3>2, <3>3 DEF RemoveTmp
    <3>5. UNCHANGED <<disk, reader, lastInode>>
      BY <1>10 DEF RemoveTmp
    <3> QED BY <2>2, <3>1, <3>2, <3>3, <3>4, <3>5
  <2>3. CASE y # w /\ writer[y].pc \notin Writing
    BY <1>10, <2>3 DEF RemoveTmp
  <2> QED BY <2>1, <2>2, <2>3
<1>11. ASSUME NEW r \in Readers, OpenFile(r) PROVE OwnsFile(y)'
  BY <1>11 DEF OpenFile
<1>12. ASSUME NEW r \in Readers, ReadFile(r) PROVE OwnsFile(y)'
  BY <1>12 DEF ReadFile
<1>13. ASSUME NEW n \in Names, Unlink(n) PROVE OwnsFile(y)'
  BY <1>13 DEF Unlink
<1>14. ASSUME WriteDirectory PROVE OwnsFile(y)'
  BY <1>14 DEF WriteDirectory
<1>15. ASSUME RestartDaemon PROVE OwnsFile(y)'
  BY <1>15 DEF RestartDaemon, NewProcess
<1>16. ASSUME PowerLoss PROVE OwnsFile(y)'
  BY <1>16 DEF PowerLoss, NewProcess
<1> QED
  BY <1>1, <1>2, <1>3, <1>4, <1>5, <1>6, <1>7, <1>8,
     <1>9, <1>10, <1>11, <1>12, <1>13, <1>14, <1>15, <1>16 DEF Next, WriterStep

LEMMA ReadyStep ==
  ASSUME FileInv, NEW y \in Writers, Next
  PROVE  FileReady(y)'
<1> USE DEF FileInv, FileTypeOK, WritesOK, FileReady, files, process, Names, At, NoWrite
<1>1. ASSUME NEW w \in Writers, NEW v \in Values, BeginWrite(w, v) PROVE FileReady(y)'
  BY <1>1 DEF BeginWrite
<1>2. ASSUME NEW w \in Writers, CreateTmp(w) PROVE FileReady(y)'
  <2>1. PICK i \in Inodes :
          /\ data' = [data EXCEPT ![i] = [value |-> Nothing, part |-> "empty"]]
          /\ synced' = synced \ {i}
          /\ writer' = [writer EXCEPT ![w].pc = "write", ![w].inode = i]
          /\ \A x \in Writers : x # w /\ writer[x].pc \in Writing => writer[x].inode # i
    BY <1>2, CreatedFile
  <2>2. CASE y = w
    BY <2>1, <2>2
  <2>3. CASE y # w
    <3>1. writer[y].pc \in Writing => writer[y].inode # i /\ writer[y].inode \in Inodes
      BY <2>1, <2>3, OpenInode
    <3>2. writer'[y] = writer[y]
      BY <2>1, <2>3
    <3> QED BY <2>1, <2>3, <3>1, <3>2 DEF Writing
  <2> QED BY <2>2, <2>3
<1>3. ASSUME NEW w \in Writers, WriteSome(w) PROVE FileReady(y)'
  <2>1. CASE y = w
    <3>1. writer[w].inode \in Inodes
      BY <1>3, OpenInode DEF WriteSome, Writing
    <3> QED BY <1>3, <2>1, <3>1 DEF WriteSome, Write, Goto
  <2>2. CASE y # w
    <3>1. writer[y].pc \in Writing => writer[y].inode # writer[w].inode
      BY <1>3, <2>2 DEF WriteSome, OwnsFile, Writing
    <3> QED BY <1>3, <2>2, <3>1 DEF WriteSome, Write, Goto, Writing
  <2> QED BY <2>1, <2>2
<1>4. ASSUME NEW w \in Writers, WriteRest(w) PROVE FileReady(y)'
  <2>1. CASE y = w
    <3>1. writer[w].inode \in Inodes
      BY <1>4, OpenInode DEF WriteRest, Writing
    <3> QED BY <1>4, <2>1, <3>1 DEF WriteRest, Write, Goto
  <2>2. CASE y # w
    <3>1. writer[y].pc \in Writing => writer[y].inode # writer[w].inode
      BY <1>4, <2>2 DEF WriteRest, OwnsFile, Writing
    <3> QED BY <1>4, <2>2, <3>1 DEF WriteRest, Write, Goto, Writing
  <2> QED BY <2>1, <2>2
<1>5. ASSUME NEW w \in Writers, SyncFile(w) PROVE FileReady(y)'
  BY <1>5 DEF SyncFile, Goto
<1>6. ASSUME NEW w \in Writers, Rename(w) PROVE FileReady(y)'
  BY <1>6 DEF Rename, Goto
<1>7. ASSUME NEW w \in Writers, SyncParentDir(w) PROVE FileReady(y)'
  BY <1>7 DEF SyncParentDir, Goto
<1>8. ASSUME NEW w \in Writers, WriteDone(w) PROVE FileReady(y)'
  BY <1>8 DEF WriteDone
<1>9. ASSUME NEW w \in Writers, WriteFails(w) PROVE FileReady(y)'
  BY <1>9 DEF WriteFails
<1>10. ASSUME NEW w \in Writers, RemoveTmp(w) PROVE FileReady(y)'
  BY <1>10 DEF RemoveTmp
<1>11. ASSUME NEW r \in Readers, OpenFile(r) PROVE FileReady(y)'
  BY <1>11 DEF OpenFile
<1>12. ASSUME NEW r \in Readers, ReadFile(r) PROVE FileReady(y)'
  BY <1>12 DEF ReadFile
<1>13. ASSUME NEW n \in Names, Unlink(n) PROVE FileReady(y)'
  BY <1>13 DEF Unlink
<1>14. ASSUME WriteDirectory PROVE FileReady(y)'
  BY <1>14 DEF WriteDirectory
<1>15. ASSUME RestartDaemon PROVE FileReady(y)'
  BY <1>15 DEF RestartDaemon, NewProcess
<1>16. ASSUME PowerLoss PROVE FileReady(y)'
  BY <1>16 DEF PowerLoss, NewProcess
<1> QED
  BY <1>1, <1>2, <1>3, <1>4, <1>5, <1>6, <1>7, <1>8,
     <1>9, <1>10, <1>11, <1>12, <1>13, <1>14, <1>15, <1>16 DEF Next, WriterStep

LEMMA FileInit == Init => FileInv
<1> SUFFICES ASSUME Init PROVE FileInv
  OBVIOUS
<1>1. FileTypeOK
  BY NoWriteType, FileBoundsAssumption DEF Init, FileTypeOK, Content
<1>2. \A w \in Writers : writer[w] = NoWrite
  BY DEF Init
<1>3. TmpsApart /\ WritesOK
  BY <1>2 DEF TmpsApart, WritesOK, OwnsFile, FileReady, At, NoWrite, Writing
<1>4. NamesApart /\ ReadersApart /\ FilesWhole
  BY DEF Init, NamesApart, ReadersApart, FilesWhole, Names
<1> QED BY <1>1, <1>3, <1>4 DEF FileInv

LEMMA FileStutter == ASSUME FileInv, UNCHANGED vars PROVE FileInv'
BY DEF FileInv, FileTypeOK, NamesApart, TmpsApart, ReadersApart, FilesWhole, WritesOK,
       OwnsFile, FileReady, At, Whole, vars

LEMMA FileStep == FileInv /\ [Next]_vars => FileInv'
<1> SUFFICES ASSUME FileInv, [Next]_vars PROVE FileInv'
  OBVIOUS
<1>1. CASE Next
  <2>1. WritesOK'
    BY <1>1, OwnsStep, ReadyStep DEF WritesOK
  <2> QED BY <1>1, <2>1, FileTypeStep, NamesStep, TmpsStep, ReadersStep, WholeStep DEF FileInv
<1>2. CASE UNCHANGED vars
  BY <1>2, FileStutter
<1> QED BY <1>1, <1>2

LEMMA FileInvariance == Spec => []FileInv
BY FileInit, FileStep, PTL DEF Spec

\* write_tmp_and_rename with names from unique_tmp_path: whatever fails or
\* restarts, a read_json reads one whole value.
THEOREM ReadersNeverSeeTornFiles == Spec => []ReadersSeeWholeFiles
<1>1. FileInv => ReadersSeeWholeFiles
  BY DEF FileInv, FilesWhole, ReadersSeeWholeFiles
<1> QED BY <1>1, FileInvariance, PTL

-----------------------------------------------------------------------------
(* The file implements the register.                                       *)

LEMMA CallSet ==
  ASSUME NEW w \in Writers, NEW r, writer' = [writer EXCEPT ![w] = r],
         writer \in [Writers -> WriterRecord]
  PROVE  Calls' = [Calls EXCEPT ![w] = [phase |-> Phase(r.pc), value |-> r.value]]
BY DEF Calls

LEMMA CallKept ==
  ASSUME NEW w \in Writers, NEW r, writer' = [writer EXCEPT ![w] = r],
         writer \in [Writers -> WriterRecord],
         Phase(r.pc) = Phase(writer[w].pc), r.value = writer[w].value
  PROVE  Calls' = Calls
BY DEF Calls

\* As long as the metadata file and its directory entry on disk are left
\* alone, so is the register.
LEMMA RegisterKept ==
  ASSUME entry'[Path] = entry[Path], disk'[Path] = disk[Path],
         entry[Path] # 0 => data'[entry[Path]] = data[entry[Path]],
         disk[Path] # 0 => data'[disk[Path]] = data[disk[Path]]
  PROVE  ValueOf(entry[Path])' = ValueOf(entry[Path]) /\ ValueOf(disk[Path])' = ValueOf(disk[Path])
BY DEF ValueOf, Whole

LEMMA RegisterInit == Init => Register!Init
<1> SUFFICES ASSUME Init PROVE Register!Init
  OBVIOUS
<1>1. entry[Path] = 0 /\ disk[Path] = 0
  BY DEF Init, Names
<1>2. Calls = [w \in Writers |-> Register!NoCall]
  BY DEF Init, NoWrite, Calls, Phase, Register!NoCall
<1> QED BY <1>1, <1>2 DEF Register!Init, ValueOf

LEMMA RegisterStep == ASSUME FileInv, Next PROVE [Register!Next]_(Register!vars)
<1> DEFINE Mapped == [Register!Next]_(Register!vars)
<1>0. writer \in [Writers -> WriterRecord]
  BY DEF FileInv, FileTypeOK
<1> USE <1>0 DEF At, files, process
<1>a. Path \in Names
  BY DEF Names
<1>1. ASSUME NEW w \in Writers, NEW v \in Values, BeginWrite(w, v) PROVE Mapped
  <2>1. Calls' = [Calls EXCEPT ![w] = [phase |-> "pending", value |-> v]]
    BY <1>1, CallSet DEF BeginWrite, Phase
  <2>2. Register!Begin(w, v)
    BY <1>1, <2>1 DEF BeginWrite, Register!Begin, Register!Set, Register!InPhase, Calls, Phase, ValueOf, Whole
  <2> QED BY <1>1, <2>2 DEF Register!Next
<1>2. ASSUME NEW w \in Writers, CreateTmp(w) PROVE Mapped
  <2>1. PICK i \in Inodes :
          /\ entry' = [entry EXCEPT ![writer[w].tmp] = i]
          /\ data' = [data EXCEPT ![i] = [value |-> Nothing, part |-> "empty"]]
          /\ writer' = [writer EXCEPT ![w].pc = "write", ![w].inode = i]
          /\ i # entry[Path] /\ i # disk[Path]
    BY <1>2, CreatedFile
  <2>2. Calls' = Calls
    <3>1. writer' = [writer EXCEPT ![w] = [writer[w] EXCEPT !.pc = "write", !.inode = i]]
      BY <2>1
    <3>2. LET r == [writer[w] EXCEPT !.pc = "write", !.inode = i]
          IN r.pc = "write" /\ r.value = writer[w].value
      BY DEF WriterRecord
    <3> QED BY <1>2, <3>1, <3>2, CallKept DEF CreateTmp, Phase
  <2>3. writer[w].tmp # Path
    BY <1>2, TmpName DEF CreateTmp
  <2>4. entry'[Path] = entry[Path] /\ disk' = disk
    BY <1>2, <2>1, <2>3, <1>a DEF FileInv, FileTypeOK, CreateTmp
  <2>5. \A j \in Nat : j # 0 /\ j # i => data'[j] = data[j]
    BY <2>1
  <2> QED BY <2>1, <2>2, <2>4, <2>5, RegisterKept DEF Register!vars
<1>3. ASSUME NEW w \in Writers, WriteSome(w) PROVE Mapped
  <2>1. LET i == writer[w].inode
        IN i # entry[Path] /\ i # disk[Path]
    BY <1>3 DEF WriteSome, FileInv, WritesOK, OwnsFile, Writing
  <2>2. Calls' = Calls
    <3>1. writer' = [writer EXCEPT ![w] = [writer[w] EXCEPT !.pc = "writeRest"]]
      BY <1>3 DEF WriteSome, Goto
    <3>2. LET r == [writer[w] EXCEPT !.pc = "writeRest"]
          IN r.pc = "writeRest" /\ r.value = writer[w].value
      BY DEF WriterRecord
    <3> QED BY <1>3, <3>1, <3>2, CallKept DEF WriteSome, Phase
  <2>3. \A j \in Nat : j # writer[w].inode => data'[j] = data[j]
    BY <1>3 DEF WriteSome, Write
  <2>4. entry' = entry /\ disk' = disk
    BY <1>3 DEF WriteSome, Write
  <2>5. entry[Path] \in Nat /\ disk[Path] \in Nat
    BY <1>a, FileBoundsAssumption DEF FileInv, FileTypeOK
  <2> QED BY <2>1, <2>2, <2>3, <2>4, <2>5, RegisterKept DEF Register!vars
<1>4. ASSUME NEW w \in Writers, WriteRest(w) PROVE Mapped
  <2>1. LET i == writer[w].inode
        IN i # entry[Path] /\ i # disk[Path]
    BY <1>4 DEF WriteRest, FileInv, WritesOK, OwnsFile, Writing
  <2>2. Calls' = Calls
    <3>1. writer' = [writer EXCEPT ![w] = [writer[w] EXCEPT !.pc = "syncFile"]]
      BY <1>4 DEF WriteRest, Goto
    <3>2. LET r == [writer[w] EXCEPT !.pc = "syncFile"]
          IN r.pc = "syncFile" /\ r.value = writer[w].value
      BY DEF WriterRecord
    <3> QED BY <1>4, <3>1, <3>2, CallKept DEF WriteRest, Phase
  <2>3. \A j \in Nat : j # writer[w].inode => data'[j] = data[j]
    BY <1>4 DEF WriteRest, Write
  <2>4. entry' = entry /\ disk' = disk
    BY <1>4 DEF WriteRest, Write
  <2>5. entry[Path] \in Nat /\ disk[Path] \in Nat
    BY <1>a, FileBoundsAssumption DEF FileInv, FileTypeOK
  <2> QED BY <2>1, <2>2, <2>3, <2>4, <2>5, RegisterKept DEF Register!vars
<1>5. ASSUME NEW w \in Writers, SyncFile(w) PROVE Mapped
  <2>1. Calls' = Calls
    <3>1. writer' = [writer EXCEPT ![w] = [writer[w] EXCEPT !.pc = "rename"]]
      BY <1>5 DEF SyncFile, Goto
    <3>2. LET r == [writer[w] EXCEPT !.pc = "rename"]
          IN r.pc = "rename" /\ r.value = writer[w].value
      BY DEF WriterRecord
    <3> QED BY <1>5, <3>1, <3>2, CallKept DEF SyncFile, Phase
  <2>2. UNCHANGED <<entry, disk, data>>
    BY <1>5 DEF SyncFile
  <2> QED BY <2>1, <2>2, RegisterKept DEF Register!vars
<1>6. ASSUME NEW w \in Writers, Rename(w) PROVE Mapped
  <2>1. Calls' = [Calls EXCEPT ![w] = [phase |-> "visible", value |-> writer[w].value]]
    <3>1. writer' = [writer EXCEPT ![w] = [writer[w] EXCEPT !.pc = "syncDir"]]
      BY <1>6 DEF Rename, Goto
    <3>2. LET r == [writer[w] EXCEPT !.pc = "syncDir"]
          IN r.pc = "syncDir" /\ r.value = writer[w].value
      BY DEF WriterRecord
    <3> QED BY <3>1, <3>2, CallSet DEF Phase
  <2>2. Calls[w] = [phase |-> "pending", value |-> writer[w].value]
    BY <1>6 DEF Rename, Calls, Phase
  <2>3. writer[w].tmp # Path /\ writer[w].tmp \in Names
    BY <1>6, TmpName DEF Rename, Names
  <2>4. /\ entry[writer[w].tmp] = writer[w].inode
        /\ writer[w].inode # 0
        /\ data[writer[w].inode] = [value |-> writer[w].value, part |-> "all"]
    BY <1>6, FileBoundsAssumption DEF Rename, FileInv, FileTypeOK, WritesOK, OwnsFile, FileReady, Writing
  <2>5. entry'[Path] = writer[w].inode /\ disk' = disk /\ data' = data
    BY <1>6, <1>a, <2>3, <2>4 DEF Rename, FileInv, FileTypeOK
  <2>6. ValueOf(entry[Path])' = writer[w].value
    BY <2>4, <2>5 DEF ValueOf, Whole
  <2>7. ValueOf(disk[Path])' = ValueOf(disk[Path])
    BY <2>5 DEF ValueOf, Whole
  <2>8. Register!Commit(w)
    BY <2>1, <2>2, <2>6, <2>7 DEF Register!Commit, Register!InPhase, Register!Set
  <2> QED BY <2>8 DEF Register!Next
<1>7. ASSUME NEW w \in Writers, SyncParentDir(w) PROVE Mapped
  <2>1. LET r == [writer[w] EXCEPT !.pc = "done"]
        IN /\ writer' = [writer EXCEPT ![w] = r]
           /\ r.pc = "done" /\ r.value = writer[w].value
    BY <1>7 DEF SyncParentDir, Goto, WriterRecord
  <2>2. Calls[w] = [phase |-> "visible", value |-> writer[w].value]
    BY <1>7 DEF SyncParentDir, Calls, Phase
  <2>3. CASE SyncsDir
    <3>1. Calls' = [Calls EXCEPT ![w] = [phase |-> "durable", value |-> writer[w].value]]
      BY <2>1, <2>3, CallSet DEF Phase
    <3>2. /\ ValueOf(entry[Path])' = ValueOf(entry[Path])
          /\ ValueOf(disk[Path])' = ValueOf(entry[Path])
      BY <1>7, <2>3 DEF SyncParentDir, ValueOf, Whole
    <3>3. Register!Sync(w)
      BY <2>2, <3>1, <3>2 DEF Register!Sync, Register!InPhase, Register!Set
    <3> QED BY <3>3 DEF Register!Next
  <2>4. CASE ~SyncsDir
    <3>1. Calls' = Calls
      BY <1>7, <2>1, <2>4, CallKept DEF SyncParentDir, Phase
    <3>2. UNCHANGED <<entry, disk, data>>
      BY <1>7, <2>4 DEF SyncParentDir
    <3> QED BY <3>1, <3>2, RegisterKept DEF Register!vars
  <2> QED BY <2>3, <2>4
<1>8. ASSUME NEW w \in Writers, WriteDone(w) PROVE Mapped
  <2>1. Calls' = [Calls EXCEPT ![w] = Register!NoCall]
    BY <1>8, CallSet DEF WriteDone, NoWrite, Phase, Register!NoCall
  <2>2. Calls[w].phase = (IF SyncsDir THEN "durable" ELSE "visible")
    BY <1>8 DEF WriteDone, Calls, Phase
  <2>3. UNCHANGED <<entry, disk, data>>
    BY <1>8 DEF WriteDone
  <2>4. Register!Succeed(w)
    BY <2>1, <2>2, <2>3, RegisterKept DEF Register!Succeed, Register!InPhase
  <2> QED BY <2>4 DEF Register!Next
<1>9. ASSUME NEW w \in Writers, WriteFails(w) PROVE Mapped
  <2>1. LET r == [writer[w] EXCEPT !.pc = "remove", !.value = Nothing]
        IN /\ writer' = [writer EXCEPT ![w] = r]
           /\ r.pc = "remove" /\ r.value = Nothing
    BY <1>9 DEF WriteFails, WriterRecord
  <2>2. Calls' = [Calls EXCEPT ![w] = Register!NoCall]
    BY <2>1, CallSet DEF Phase, Register!NoCall
  <2>3. UNCHANGED <<entry, disk, data>>
    BY <1>9 DEF WriteFails
  <2>4. Register!Fail(w)
    BY <2>2, <2>3, RegisterKept DEF Register!Fail
  <2> QED BY <2>4 DEF Register!Next
<1>10. ASSUME NEW w \in Writers, RemoveTmp(w) PROVE Mapped
  <2>1. Calls' = Calls
    <3>1. writer[w].value = Nothing
      BY <1>10 DEF RemoveTmp, FileInv, WritesOK, FileReady
    <3> QED BY <1>10, <3>1, CallKept DEF RemoveTmp, NoWrite, Phase
  <2>2. writer[w].tmp # Path
    BY <1>10, TmpName DEF RemoveTmp
  <2>3. entry'[Path] = entry[Path] /\ disk' = disk /\ data' = data
    BY <1>10, <1>a, <2>2 DEF RemoveTmp, FileInv, FileTypeOK
  <2> QED BY <2>1, <2>3, RegisterKept DEF Register!vars
<1>11. ASSUME NEW r \in Readers, OpenFile(r) PROVE Mapped
  <2>1. UNCHANGED <<entry, disk, data, writer>>
    BY <1>11 DEF OpenFile
  <2> QED BY <2>1, RegisterKept DEF Register!vars, Calls
<1>12. ASSUME NEW r \in Readers, ReadFile(r) PROVE Mapped
  <2>1. UNCHANGED <<entry, disk, data, writer>>
    BY <1>12 DEF ReadFile
  <2> QED BY <2>1, RegisterKept DEF Register!vars, Calls
<1>13. ASSUME NEW n \in Names, Unlink(n) PROVE Mapped
  <2>1. UNCHANGED <<disk, data, writer>>
    BY <1>13 DEF Unlink
  <2>2. CASE n = Path
    <3>1. ValueOf(entry[Path])' = Nothing /\ ValueOf(disk[Path])' = ValueOf(disk[Path])
      BY <1>13, <1>a, <2>1, <2>2 DEF Unlink, ValueOf, Whole, FileInv, FileTypeOK
    <3>2. Register!Remove
      BY <2>1, <3>1 DEF Register!Remove, Calls
    <3> QED BY <3>2 DEF Register!Next
  <2>3. CASE n # Path
    <3>1. entry'[Path] = entry[Path]
      BY <1>13, <1>a, <2>3 DEF Unlink, FileInv, FileTypeOK
    <3> QED BY <2>1, <3>1, RegisterKept DEF Register!vars, Calls
  <2> QED BY <2>2, <2>3
<1>14. ASSUME WriteDirectory PROVE Mapped
  <2>1. Register!Flush
    BY <1>14 DEF WriteDirectory, Register!Flush, Calls, ValueOf, Whole
  <2> QED BY <2>1 DEF Register!Next
<1>15. ASSUME RestartDaemon PROVE Mapped
  <2>1. Calls' = [w \in Writers |-> Register!NoCall]
    BY <1>15 DEF RestartDaemon, NewProcess, NoWrite, Calls, Phase, Register!NoCall
  <2>2. Register!Restart
    BY <1>15, <2>1, RegisterKept DEF RestartDaemon, Register!Restart
  <2> QED BY <2>2 DEF Register!Next
<1>16. ASSUME PowerLoss PROVE Mapped
  <2>1. Calls' = [w \in Writers |-> Register!NoCall]
    BY <1>16 DEF PowerLoss, NewProcess, NoWrite, Calls, Phase, Register!NoCall
  <2>2. entry'[Path] = disk[Path] /\ disk'[Path] = disk[Path]
    BY <1>16 DEF PowerLoss
  <2>3. disk[Path] # 0 => data'[disk[Path]] = data[disk[Path]]
    <3>1. disk[Path] # 0 => disk[Path] \in synced /\ disk[Path] \in Inodes
      BY DEF FileInv, FilesWhole, FileTypeOK
    <3> QED BY <1>16, <3>1 DEF PowerLoss
  <2>4. /\ ValueOf(entry[Path])' = ValueOf(disk[Path])
        /\ ValueOf(disk[Path])' = ValueOf(disk[Path])
    BY <2>2, <2>3 DEF ValueOf, Whole
  <2>5. Register!PowerLoss
    BY <2>1, <2>4 DEF Register!PowerLoss
  <2> QED BY <2>5 DEF Register!Next
<1> QED
  BY <1>1, <1>2, <1>3, <1>4, <1>5, <1>6, <1>7, <1>8,
     <1>9, <1>10, <1>11, <1>12, <1>13, <1>14, <1>15, <1>16 DEF Next, WriterStep

\* write_json and write_bytes_file implement a durable register: each write
\* takes effect at once or not at all, and once it has reported success a
\* power loss does not undo it.
THEOREM FileIsRegister == Spec => ImplementsRegister
<1>1. Init => Register!Init
  BY RegisterInit
<1>2. FileInv /\ [Next]_vars => [Register!Next]_(Register!vars)
  <2> SUFFICES ASSUME FileInv, [Next]_vars PROVE [Register!Next]_(Register!vars)
    OBVIOUS
  <2>1. CASE Next
    BY <2>1, RegisterStep
  <2>2. CASE UNCHANGED vars
    BY <2>2 DEF vars, Register!vars, Calls, ValueOf, Whole
  <2> QED BY <2>1, <2>2
<1> QED BY <1>1, <1>2, FileInvariance, PTL DEF Spec, ImplementsRegister, Register!Spec

=============================================================================
