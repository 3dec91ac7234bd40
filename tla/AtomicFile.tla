----------------------------- MODULE AtomicFile -----------------------------
(***************************************************************************)
(* How agent-core/src/storage.rs replaces a metadata file: write_json and  *)
(* write_bytes_file write a temporary file next to it, sync it, rename it  *)
(* over the file and sync the directory.  Tasks of the daemon write and    *)
(* read one file at the same time; env_destroy unlinks what it finds; the  *)
(* daemon or the whole host may stop at any step.                          *)
(*                                                                         *)
(* The file system is one directory: names, inodes, their content, and the *)
(* state of both on disk.  A power loss takes the directory back to its    *)
(* last synced or written state and may tear a file that was not synced.   *)
(* The directory itself is taken to be on disk: create_dir_all, which      *)
(* makes a missing one, does not sync the parents.                         *)
(***************************************************************************)
EXTENDS Naturals

CONSTANTS
  Writers,      \* tasks in write_json or write_bytes_file
  Readers,      \* tasks in read_json
  Values,       \* what they write
  Nothing,      \* no content
  Path,         \* the name of the metadata file
  Pids,         \* process ids a daemon can get (again)
  SyncsDir,     \* sync_parent_dir does something: not on Windows
  MaxCounter,   \* bound: writes of one process
  MaxInodes     \* bound: files ever made

Counters == 0..(MaxCounter - 1)

TmpNames == Pids \X Counters

Names == {Path} \cup TmpNames

Inodes == 1..MaxInodes

ASSUME NamesAssumption == Path \notin TmpNames /\ Pids # {}
ASSUME ValuesAssumption == Nothing \notin Values
ASSUME FileBoundsAssumption ==
  /\ MaxCounter \in Nat
  /\ MaxInodes \in Nat
  /\ SyncsDir \in BOOLEAN

VARIABLES
  entry,      \* the directory: name -> inode, or 0
  disk,       \* the directory on disk
  data,       \* inode -> content
  synced,     \* inodes whose content is on disk
  lastInode,  \* the inode made last
  pid,        \* std::process::id
  counter,    \* WRITE_JSON_TMP_COUNTER
  writer,     \* per writer: next step, value, temporary name, open inode
  reader      \* per reader: the inode it has open, or 0

vars == <<entry, disk, data, synced, lastInode, pid, counter, writer, reader>>

files == <<entry, disk, data, synced, lastInode>>

process == <<pid, counter, reader>>

Content == [value : Values \cup {Nothing}, part : {"empty", "some", "all"}]

Whole(i) == data[i].part = "all"

-----------------------------------------------------------------------------
NoWrite == [pc |-> "idle", value |-> Nothing, tmp |-> Path, inode |-> 0]

At(w, label) == writer[w].pc = label

Goto(w, label) == writer' = [writer EXCEPT ![w].pc = label]

\* Mutant: one temporary name for all writes.
SharedTmpPath(k) == <<pid, 0>>

UniqueTmpPath(k) == <<pid, k>>

\* create_dir_all, unique_tmp_path.
BeginWrite(w, v) ==
  /\ At(w, "idle")
  /\ counter < MaxCounter
  /\ counter' = counter + 1
  /\ writer' = [writer EXCEPT ![w] =
                  [pc |-> "create", value |-> v, tmp |-> UniqueTmpPath(counter), inode |-> 0]]
  /\ UNCHANGED <<files, pid, reader>>

\* File::create makes the file, or empties the one of that name.
CreateTmp(w) ==
  LET tmp == writer[w].tmp
      i == IF entry[tmp] = 0 THEN lastInode + 1 ELSE entry[tmp]
  IN /\ At(w, "create")
     /\ i \in Inodes
     /\ entry' = [entry EXCEPT ![tmp] = i]
     /\ lastInode' = (IF entry[tmp] = 0 THEN i ELSE lastInode)
     /\ data' = [data EXCEPT ![i] = [value |-> Nothing, part |-> "empty"]]
     /\ synced' = synced \ {i}
     /\ writer' = [writer EXCEPT ![w].pc = "write", ![w].inode = i]
     /\ UNCHANGED <<disk, process>>

Write(w, part) ==
  /\ data' = [data EXCEPT ![writer[w].inode] = [value |-> writer[w].value, part |-> part]]
  /\ synced' = synced \ {writer[w].inode}
  /\ UNCHANGED <<entry, disk, lastInode, process>>

\* write_all writes in more than one go; the newline of write_json is the
\* last part.
WriteSome(w) ==
  /\ At(w, "write")
  /\ Write(w, "some")
  /\ Goto(w, "writeRest")

WriteRest(w) ==
  /\ At(w, "writeRest")
  /\ Write(w, "all")
  /\ Goto(w, "syncFile")

SyncFile(w) ==
  /\ At(w, "syncFile")
  /\ synced' = synced \cup {writer[w].inode}
  /\ Goto(w, "rename")
  /\ UNCHANGED <<entry, disk, data, lastInode, process>>

Rename(w) ==
  LET tmp == writer[w].tmp
  IN /\ At(w, "rename")
     /\ entry[tmp] # 0
     /\ entry' = [entry EXCEPT ![Path] = entry[tmp], ![tmp] = 0]
     /\ Goto(w, "syncDir")
     /\ UNCHANGED <<disk, data, synced, lastInode, process>>

\* Mutant: the rename is not synced.
SyncParentDirSkipped(w) ==
  /\ At(w, "syncDir")
  /\ Goto(w, "done")
  /\ UNCHANGED <<files, process>>

SyncParentDir(w) ==
  /\ At(w, "syncDir")
  /\ disk' = (IF SyncsDir THEN entry ELSE disk)
  /\ Goto(w, "done")
  /\ UNCHANGED <<entry, data, synced, lastInode, process>>

WriteDone(w) ==
  /\ At(w, "done")
  /\ writer' = [writer EXCEPT ![w] = NoWrite]
  /\ UNCHANGED <<files, process>>

\* Any call may fail; the temporary file is removed, if it can be.
WriteFails(w) ==
  /\ writer[w].pc \in {"create", "write", "writeRest", "syncFile", "rename", "syncDir"}
  /\ writer' = [writer EXCEPT ![w].pc = "remove", ![w].value = Nothing]
  /\ UNCHANGED <<files, process>>

RemoveTmp(w) ==
  /\ At(w, "remove")
  /\ \/ entry' = [entry EXCEPT ![writer[w].tmp] = 0]
     \/ UNCHANGED entry
  /\ writer' = [writer EXCEPT ![w] = NoWrite]
  /\ UNCHANGED <<disk, data, synced, lastInode, process>>

-----------------------------------------------------------------------------
(* read_json opens the file and then reads it.                             *)

OpenFile(r) ==
  /\ reader[r] = 0
  /\ entry[Path] # 0
  /\ reader' = [reader EXCEPT ![r] = entry[Path]]
  /\ UNCHANGED <<files, pid, counter, writer>>

ReadFile(r) ==
  /\ reader[r] # 0
  /\ reader' = [reader EXCEPT ![r] = 0]
  /\ UNCHANGED <<files, pid, counter, writer>>

-----------------------------------------------------------------------------
(* The rest of the world.                                                  *)

\* remove_dir_all of the env unlinks what it lists, one name at a time.
Unlink(n) ==
  /\ entry[n] # 0
  /\ entry' = [entry EXCEPT ![n] = 0]
  /\ UNCHANGED <<disk, data, synced, lastInode, process, writer>>

\* The file system writes the directory to disk of its own accord.
WriteDirectory ==
  /\ disk # entry
  /\ disk' = entry
  /\ UNCHANGED <<entry, data, synced, lastInode, process, writer>>

NewProcess ==
  /\ pid' \in Pids
  /\ counter' = 0
  /\ writer' = [w \in Writers |-> NoWrite]
  /\ reader' = [r \in Readers |-> 0]

RestartDaemon == NewProcess /\ UNCHANGED files

PowerLoss ==
  /\ NewProcess
  /\ entry' = disk
  /\ \E torn \in SUBSET ((1..lastInode) \ synced) :
       data' = [i \in Inodes |->
                  IF i \in torn THEN [data[i] EXCEPT !.part = "some"] ELSE data[i]]
  /\ synced' = 1..lastInode
  /\ UNCHANGED <<disk, lastInode>>

Init ==
  /\ entry = [n \in Names |-> 0]
  /\ disk = [n \in Names |-> 0]
  /\ data = [i \in Inodes |-> [value |-> Nothing, part |-> "empty"]]
  /\ synced = {}
  /\ lastInode = 0
  /\ pid \in Pids
  /\ counter = 0
  /\ writer = [w \in Writers |-> NoWrite]
  /\ reader = [r \in Readers |-> 0]

WriterStep(w) ==
  \/ \E v \in Values : BeginWrite(w, v)
  \/ CreateTmp(w) \/ WriteSome(w) \/ WriteRest(w) \/ SyncFile(w) \/ Rename(w)
  \/ SyncParentDir(w) \/ WriteDone(w) \/ WriteFails(w) \/ RemoveTmp(w)

Next ==
  \/ \E w \in Writers : WriterStep(w)
  \/ \E r \in Readers : OpenFile(r) \/ ReadFile(r)
  \/ \E n \in Names : Unlink(n)
  \/ WriteDirectory \/ RestartDaemon \/ PowerLoss

Spec == Init /\ [][Next]_vars

-----------------------------------------------------------------------------
(* Properties.                                                             *)

Labels == {"idle", "create", "write", "writeRest", "syncFile", "rename", "syncDir",
           "done", "remove"}

\* A read_json that has opened the file, now or while older writes were
\* being made, reads one whole value: no writer truncates or extends a file
\* that is or was the metadata file.
ReadersSeeWholeFiles ==
  /\ entry[Path] # 0 => Whole(entry[Path])
  /\ \A r \in Readers : reader[r] # 0 => Whole(reader[r])

\* What a reader of inode i gets; a torn file is none of the values.
ValueOf(i) ==
  IF i = 0 THEN Nothing ELSE IF Whole(i) THEN data[i].value ELSE "torn"

\* How far a write has come, in the terms of DurableRegister.
Phase(pc) ==
  CASE pc \in {"create", "write", "writeRest", "syncFile", "rename"} -> "pending"
    [] pc = "syncDir" -> "visible"
    [] pc = "done" -> IF SyncsDir THEN "durable" ELSE "visible"
    [] OTHER -> "none"

Calls == [w \in Writers |-> [phase |-> Phase(writer[w].pc), value |-> writer[w].value]]

Register == INSTANCE DurableRegister
  WITH reg <- ValueOf(entry[Path]),
       stable <- ValueOf(disk[Path]),
       call <- Calls,
       Durable <- SyncsDir

\* The file is a durable register: writes take effect at once and whole, a
\* write that reports success survives a power loss, and no other write in
\* progress disturbs it.
ImplementsRegister == Register!Spec

=============================================================================
