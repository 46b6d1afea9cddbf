--------------------------- MODULE SaveFileProofs ---------------------------
(***************************************************************************)
(* Proofs about SaveFile, for any bounds, any ways to back up the file,    *)
(* any calls that fail and any programs that change the file.              *)
(*                                                                         *)
(* SaveInv says for each place of a save where the text of the file is,    *)
(* which of the flags are set and how old the copies are; it is inductive  *)
(* without an assumption.  SeenInv says which versions the user knows of;  *)
(* it needs time stamps that tell when a file was changed.                 *)
(***************************************************************************)
EXTENDS SaveFile, TLAPS

(* Between saves; until the backup is made; until the result is known;     *)
(* while a failed save is taken back.                                      *)
Rest == {"idle", "autosave", "autowrite"}
Before == {"backup", "rename", "copy", "fill"}
Midway == {"open", "write", "wrote"}
After == {"unlink", "restore", "copyback", "fillback"}

Flags ==
  /\ pc \in Before \cup {"open", "write"} => ~failed
  /\ pc \in Before => ~backedUp
  /\ pc \in After => failed /\ backedUp
  /\ pc \notin Rest => dirty = modified
  /\ pc \in {"autosave", "autowrite"} => modified
  /\ pc = "autowrite" => kept = Missing

Same(n, m) ==
  Exists(n) /\ Exists(m) /\ disk[n].v = disk[m].v /\ disk[n].mtime = disk[m].mtime

(* Where the text of the file and that of the buffer are.                  *)
Copies ==
  /\ pc \in Before \/ (pc = "open" /\ ~backedUp)
       => stable = Missing \/ Whole("file", stable)
  /\ pc \in Midway \cup After /\ backedUp
       => Exists("backup") /\ (stable = Missing \/ Whole("backup", stable))
  /\ pc = "fill" => Same("backup", "file")
  /\ pc = "fillback" => Same("backup", "file")
  /\ pc \in {"restore", "copyback"} => ~Exists("file")
  /\ pc = "write" => Exists("file")
  /\ pc = "wrote" /\ ~failed => Whole("file", buf)

Saved ==
  pc \in Rest /\ ~modified /\ ~foreign => Whole("file", buf) \/ (failed /\ ~dirty)

(* No file is newer than the clock, and a backup never newer than what is  *)
(* put in its place.                                                       *)
Times ==
  /\ clock >= 1 /\ \A n \in Names : Exists(n) => disk[n].mtime <= clock
  /\ pc \in Midway /\ backedUp /\ Exists("file")
       => disk["backup"].mtime <= disk["file"].mtime
  /\ pc \in After /\ c_time # 0 => disk["backup"].mtime <= c_time
  /\ pc \in Rest /\ c_time # 0 /\ ~foreign /\ Exists("file")
       => disk["file"].mtime <= c_time

SaveInv == TypeOK /\ Flags /\ Copies /\ AutosaveKept /\ Saved /\ Times

(* Time stamps grow: no old file is put back, and nobody changes the file  *)
(* in the second of JED's last look.                                       *)
StampsTell == "putback" \notin Foreigners /\ ~SameSecond

(* What the user knows: what he has in the buffer, and all that a save may *)
(* overwrite or a failed one put back.                                     *)
SeenInv ==
  /\ buf \in seen
  /\ pc \in Before \cup Midway /\ Exists("file") => disk["file"].v \in seen
  /\ pc \in Midway \cup After /\ backedUp => disk["backup"].v \in seen
  /\ pc \in Rest /\ Exists("file") /\ disk["file"].mtime <= c_time
       => disk["file"].v \in seen
-----------------------------------------------------------------------------
(* What the calls leave on the disk.                                       *)

DiskType == disk \in [Names -> FileData \cup {Missing}] /\ inodes \in Nat

PlainType ==
  /\ clock \in Nat /\ buf \in Nat /\ c_time \in Nat /\ inode \in Nat \cup {Missing}
  /\ modified \in BOOLEAN /\ changed \in BOOLEAN
  /\ method \in Methods /\ failed \in BOOLEAN /\ backedUp \in BOOLEAN
  /\ pc \in Rest \cup Before \cup Midway \cup After
  /\ versions \in Nat /\ saves \in Nat /\ faults \in Nat
  /\ seen \subseteq Nat /\ dirty \in BOOLEAN /\ stable \in Nat \cup {Missing}
  /\ kept \in Nat \cup {Missing} /\ foreign \in BOOLEAN

PlaceType ==
  /\ pc \in {"rename", "copy", "fill"} => Exists("file")
  /\ pc \in {"unlink", "restore", "copyback", "fillback"} => Exists("backup")

(* The type invariant, in parts that are proved one by one.                 *)
LEMMA TypeParts == TypeOK <=> DiskType /\ PlainType /\ PlaceType
  BY DEF TypeOK, DiskType, PlainType, PlaceType, Rest, Before, Midway, After

(* A name has a file or none.                                               *)
LEMMA FileOrMissing ==
  ASSUME TypeOK, NEW n \in Names
  PROVE  Exists(n) <=> disk[n] \in FileData
  BY SaveAssumption DEF TypeOK, Exists

(* The fields of a file have their types.                                   *)
LEMMA FileTypes ==
  ASSUME TypeOK, NEW n \in Names
  PROVE  /\ Exists(n) => /\ disk[n].v \in Nat /\ disk[n].whole \in BOOLEAN
                         /\ disk[n].mtime \in Nat /\ disk[n].inode \in Nat
         /\ Inode(n) \in Nat \cup {Missing} /\ Mtime(n) \in Nat
  <1>1. CASE Exists(n)
    BY <1>1, FileOrMissing DEF FileData, Inode, Mtime
  <1>2. CASE ~Exists(n)
    BY <1>2 DEF Inode, Mtime
  <1> QED BY <1>1, <1>2

(* The file n has been put there in second c.                              *)
Stamped(n, c) == disk'[n].mtime = c /\ \A m \in Names \ {n} : disk'[m] = disk[m]

(* Put leaves the other files alone.                                        *)
LEMMA PutDisk ==
  ASSUME TypeOK, NEW n \in Names, NEW v \in Nat, NEW w \in BOOLEAN, Put(n, v, w)
  PROVE  /\ disk' \in [Names -> FileData \cup {Missing}] /\ inodes' \in Nat
         /\ disk'[n] # Missing
         /\ disk'[n].v = v /\ disk'[n].whole = w /\ disk'[n].mtime = clock
         /\ \A m \in Names \ {n} : disk'[m] = disk[m]
  <1> DEFINE i == IF Exists(n) THEN Inode(n) ELSE inodes + 1
             r == [v |-> v, whole |-> w, mtime |-> clock, inode |-> i]
  <1>1. i \in Nat
    BY FileOrMissing DEF TypeOK, Inode, FileData
  <1>2. r \in FileData
    BY <1>1 DEF TypeOK, FileData
  <1>3. disk' = [disk EXCEPT ![n] = r] /\ inodes' \in Nat
    BY DEF Put, TypeOK
  <1> HIDE DEF i
  <1>4. r.v = v /\ r.whole = w /\ r.mtime = clock
    OBVIOUS
  <1> HIDE DEF r
  <1>5. disk'[n] = r /\ \A m \in Names \ {n} : disk'[m] = disk[m]
    BY <1>3 DEF TypeOK
  <1>6. disk' \in [Names -> FileData \cup {Missing}]
    BY <1>2, <1>3 DEF TypeOK
  <1> QED BY <1>2, <1>3, <1>4, <1>5, <1>6, SaveAssumption

(* A copy starts with the version and the time stamp of its source.         *)
LEMMA CreateCopyDisk ==
  ASSUME TypeOK, NEW from \in Names, NEW to \in Names, Exists(from), from # to,
         CreateCopy(from, to)
  PROVE  /\ disk' \in [Names -> FileData \cup {Missing}] /\ inodes' \in Nat
         /\ disk'[to] # Missing
         /\ disk'[to].v = disk[from].v /\ disk'[to].mtime = disk[from].mtime
         /\ \A m \in Names \ {to} : disk'[m] = disk[m]
  <1> DEFINE r == [disk[from] EXCEPT !.whole = FALSE, !.inode = inodes + 1]
  <1>1. disk[from] \in FileData
    BY FileOrMissing
  <1>2. inodes + 1 \in Nat
    BY DEF TypeOK
  <1>copy. r \in FileData /\ r.v = disk[from].v /\ r.mtime = disk[from].mtime
    BY <1>1, <1>2 DEF FileData
  <1>3. disk' = [disk EXCEPT ![to] = r] /\ inodes' \in Nat
    BY DEF CreateCopy, TypeOK
  <1> HIDE DEF r
  <1>4. disk'[to] = r /\ \A m \in Names \ {to} : disk'[m] = disk[m]
    BY <1>3 DEF TypeOK
  <1>5. disk' \in [Names -> FileData \cup {Missing}]
    BY <1>copy, <1>3 DEF TypeOK
  <1> QED BY <1>copy, <1>3, <1>4, <1>5, SaveAssumption

(* A filled copy is as whole as its source.                                 *)
LEMMA FillCopyDisk ==
  ASSUME TypeOK, NEW from \in Names, NEW to \in Names, Exists(from), Exists(to),
         from # to, FillCopy(from, to)
  PROVE  /\ disk' \in [Names -> FileData \cup {Missing}]
         /\ disk'[to] # Missing
         /\ disk'[to].v = disk[to].v /\ disk'[to].mtime = disk[to].mtime
         /\ disk'[to].whole = disk[from].whole
         /\ \A m \in Names \ {to} : disk'[m] = disk[m]
  <1> DEFINE r == [disk[to] EXCEPT !.whole = disk[from].whole]
  <1>1. disk[from] \in FileData /\ disk[to] \in FileData
    BY FileOrMissing
  <1>2. r \in FileData /\ r.v = disk[to].v /\ r.mtime = disk[to].mtime
        /\ r.whole = disk[from].whole
    BY <1>1 DEF FileData
  <1>3. disk' = [disk EXCEPT ![to] = r]
    BY DEF FillCopy
  <1> HIDE DEF r
  <1>4. disk'[to] = r /\ \A m \in Names \ {to} : disk'[m] = disk[m]
    BY <1>3 DEF TypeOK
  <1>5. disk' \in [Names -> FileData \cup {Missing}]
    BY <1>2, <1>3 DEF TypeOK
  <1> QED BY <1>2, <1>3, <1>4, <1>5, SaveAssumption

(* rename(2) moves the file, whatever was there before.                     *)
LEMMA RenameDisk ==
  ASSUME TypeOK, NEW from \in Names, NEW to \in Names, Exists(from), from # to,
         Rename(from, to)
  PROVE  /\ disk' \in [Names -> FileData \cup {Missing}]
         /\ disk'[to] = disk[from] /\ disk'[from] = Missing
         /\ \A m \in Names \ {from, to} : disk'[m] = disk[m]
  BY DEF Rename, TypeOK

(* Each step keeps the flags of a save true to its place.                   *)
LEMMA FlagsStep ==
  ASSUME SaveInv, Next, TypeOK'
  PROVE  Flags'
  <1>0. TypeOK
    BY DEF SaveInv
  <1> USE <1>0, SaveAssumption DEF SaveInv, Exists, Inode, Mtime, Names, Rest, Before,
      Midway, After, Flags
  <1>1. CASE Edit
    BY <1>1, FileTypes DEF TypeOK, Edit
  <1>2. CASE Save
    BY <1>2, FileTypes DEF TypeOK, Save, BeginSave, Told, OtherInode, ChangedOnDisk
  <1>3. CASE Declined
    BY <1>3, FileTypes DEF TypeOK, Declined, jed, counters, ghosts
  <1>4. CASE AutoSave
    BY <1>4, FileTypes DEF TypeOK, AutoSave, BeginSave, jed, ghosts
  <1>5. CASE AutoDelete
    BY <1>5, FileTypes DEF TypeOK, AutoDelete, Unlink, jed, counters
  <1>6. CASE AutoWrite
    <2>1. CASE Put("autosave", buf, TRUE) /\ kept' = buf /\ NoFault
      BY <1>6, <2>1, FileTypes, PutDisk DEF TypeOK, AutoWrite, Fault, NoFault, jed
    <2>2. CASE Fault("autosave") /\ UNCHANGED kept /\ Put("autosave", buf, FALSE)
      BY <1>6, <2>2, FileTypes, PutDisk DEF TypeOK, AutoWrite, Fault, NoFault, jed
    <2>3. CASE Fault("autosave") /\ UNCHANGED <<kept, disk, inodes>>
      BY <1>6, <2>3, FileTypes DEF TypeOK, AutoWrite, Fault, NoFault, jed
    <2> QED BY <1>6, <2>1, <2>2, <2>3 DEF AutoWrite
  <1>7. CASE Backup
    BY <1>7, FileTypes DEF TypeOK, Backup, AllMethods, Unlink, step, jed, ghosts
  <1>8. CASE RenameToBackup
    <2>1. CASE Rename("file", "backup") /\ NoFault /\ backedUp' = TRUE /\ pc' = "open"
      BY <1>8, <2>1, FileTypes, RenameDisk DEF TypeOK, RenameToBackup, Fault, NoFault,
          step, jed, ghosts
    <2>2. CASE Fault("rename") /\ pc' = "copy" /\ UNCHANGED <<disk, backedUp>>
      BY <1>8, <2>2, FileTypes DEF TypeOK, RenameToBackup, Fault, NoFault, step, jed,
          ghosts
    <2> QED BY <1>8, <2>1, <2>2 DEF RenameToBackup
  <1>9. CASE CopyToBackup
    <2>1. CASE CreateCopy("file", "backup") /\ pc' = "fill" /\ NoFault
      BY <1>9, <2>1, FileTypes, CreateCopyDisk DEF TypeOK, CopyToBackup, Fault, NoFault,
          step, jed, ghosts
    <2>2. CASE Fault("copy") /\ pc' = "open" /\ UNCHANGED <<disk, inodes>>
      BY <1>9, <2>2, FileTypes DEF TypeOK, CopyToBackup, Fault, NoFault, step, jed,
          ghosts
    <2> QED BY <1>9, <2>1, <2>2 DEF CopyToBackup
  <1>10. CASE FillBackup
    <2>1. CASE FillCopy("file", "backup") /\ backedUp' = TRUE /\ NoFault
      BY <1>10, <2>1, FileTypes, FillCopyDisk DEF TypeOK, FillBackup, Fault, NoFault,
          step, jed, ghosts
    <2>2. CASE Fault("copy") /\ UNCHANGED <<disk, backedUp>>
      BY <1>10, <2>2, FileTypes DEF TypeOK, FillBackup, Fault, NoFault, step, jed,
          ghosts
    <2> QED BY <1>10, <2>1, <2>2 DEF FillBackup
  <1>11. CASE OpenFile
    <2>1. CASE Put("file", buf, FALSE) /\ pc' = "write" /\ NoFault /\ UNCHANGED failed
      BY <1>11, <2>1, FileTypes, PutDisk DEF TypeOK, OpenFile, Fault, NoFault, step,
          jed, ghosts
    <2>2. CASE Fault("open") /\ failed' = TRUE /\ pc' = "wrote"
               /\ UNCHANGED <<disk, inodes>>
      BY <1>11, <2>2, FileTypes DEF TypeOK, OpenFile, Fault, NoFault, step, jed, ghosts
    <2> QED BY <1>11, <2>1, <2>2 DEF OpenFile
  <1>12. CASE WriteOut
    <2>1. CASE Put("file", buf, TRUE) /\ NoFault /\ UNCHANGED failed
      BY <1>12, <2>1, FileTypes, PutDisk DEF TypeOK, WriteOut, Fault, NoFault, step,
          jed, ghosts
    <2>2. CASE Fault("write") /\ failed' = TRUE /\ UNCHANGED <<disk, inodes>>
      BY <1>12, <2>2, FileTypes DEF TypeOK, WriteOut, Fault, NoFault, step, jed, ghosts
    <2> QED BY <1>12, <2>1, <2>2 DEF WriteOut
  <1>13. CASE Written
    BY <1>13, FileTypes DEF TypeOK, Written, Unlink, counters
  <1>14. CASE RestoreFile
    BY <1>14, FileTypes DEF TypeOK, RestoreFile, Unlink, step, jed, ghosts
  <1>15. CASE RenameBack
    <2>1. CASE Rename("backup", "file") /\ NoFault /\ Restored(Inode("backup"))
               /\ UNCHANGED inodes
      BY <1>15, <2>1, FileTypes, RenameDisk DEF TypeOK, RenameBack, Restored, Fault,
          NoFault, step, jed, ghosts
    <2>2. CASE Fault("restore") /\ pc' = "copyback"
               /\ UNCHANGED <<disk, failed, backedUp, inodes, step>>
      BY <1>15, <2>2, FileTypes DEF TypeOK, RenameBack, Restored, Fault, NoFault, step,
          jed, ghosts
    <2> QED BY <1>15, <2>1, <2>2 DEF RenameBack
  <1>16. CASE CopyBack
    <2>1. CASE CreateCopy("backup", "file") /\ pc' = "fillback" /\ NoFault
               /\ UNCHANGED <<failed, backedUp, step>>
      BY <1>16, <2>1, FileTypes, CreateCopyDisk DEF TypeOK, CopyBack, Restored, Fault,
          NoFault, step, jed, ghosts
    <2>2. CASE Fault("copy") /\ UNCHANGED <<disk, inodes>> /\ Restored(Missing)
      BY <1>16, <2>2, FileTypes DEF TypeOK, CopyBack, Restored, Fault, NoFault, step,
          jed, ghosts
    <2> QED BY <1>16, <2>1, <2>2 DEF CopyBack
  <1>17. CASE FillBack
    <2>1. CASE FillCopy("backup", "file") /\ NoFault
      BY <1>17, <2>1, FileTypes, FillCopyDisk DEF TypeOK, FillBack, Restored, Fault,
          NoFault, ghosts
    <2>2. CASE Fault("copy") /\ UNCHANGED disk
      BY <1>17, <2>2, FileTypes DEF TypeOK, FillBack, Restored, Fault, NoFault, ghosts
    <2> QED BY <1>17, <2>1, <2>2 DEF FillBack
  <1>18. CASE Tick
    BY <1>18, FileTypes DEF TypeOK, Tick, jed, counters, ghosts
  <1>19. CASE Foreign
    BY <1>19, FileTypes DEF TypeOK, Foreign, jed
  <1> QED BY <1>1, <1>2, <1>3, <1>4, <1>5, <1>6, <1>7, <1>8, <1>9, <1>10, <1>11, <1>12,
      <1>13, <1>14, <1>15, <1>16, <1>17, <1>18, <1>19
      DEF Next, Command, Saving

(* Each step keeps the text in the file or in the backup.                   *)
LEMMA CopiesStep ==
  ASSUME SaveInv, Next, TypeOK'
  PROVE  Copies'
  <1>0. TypeOK
    BY DEF SaveInv
  <1> USE <1>0, SaveAssumption DEF SaveInv, Exists, Inode, Mtime, Names, Rest, Before,
      Midway, After, Flags, Copies, Whole, Same
  <1>1. CASE Edit
    BY <1>1, FileTypes DEF TypeOK, Edit
  <1>2. CASE Save
    BY <1>2, FileTypes DEF TypeOK, Save, BeginSave, Told, OtherInode, ChangedOnDisk
  <1>3. CASE Declined
    BY <1>3, FileTypes DEF TypeOK, Declined, jed, counters, ghosts
  <1>4. CASE AutoSave
    BY <1>4, FileTypes DEF TypeOK, AutoSave, BeginSave, jed, ghosts
  <1>5. CASE AutoDelete
    BY <1>5, FileTypes DEF TypeOK, AutoDelete, Unlink, jed, counters
  <1>6. CASE AutoWrite
    <2>1. CASE Put("autosave", buf, TRUE) /\ kept' = buf /\ NoFault
      BY <1>6, <2>1, FileTypes, PutDisk DEF TypeOK, AutoWrite, Fault, NoFault, jed
    <2>2. CASE Fault("autosave") /\ UNCHANGED kept /\ Put("autosave", buf, FALSE)
      BY <1>6, <2>2, FileTypes, PutDisk DEF TypeOK, AutoWrite, Fault, NoFault, jed
    <2>3. CASE Fault("autosave") /\ UNCHANGED <<kept, disk, inodes>>
      BY <1>6, <2>3, FileTypes DEF TypeOK, AutoWrite, Fault, NoFault, jed
    <2> QED BY <1>6, <2>1, <2>2, <2>3 DEF AutoWrite
  <1>7. CASE Backup
    BY <1>7, FileTypes DEF TypeOK, Backup, AllMethods, Unlink, step, jed, ghosts
  <1>8. CASE RenameToBackup
    <2>1. CASE Rename("file", "backup") /\ NoFault /\ backedUp' = TRUE /\ pc' = "open"
      BY <1>8, <2>1, FileTypes, RenameDisk DEF TypeOK, RenameToBackup, Fault, NoFault,
          step, jed, ghosts
    <2>2. CASE Fault("rename") /\ pc' = "copy" /\ UNCHANGED <<disk, backedUp>>
      BY <1>8, <2>2, FileTypes DEF TypeOK, RenameToBackup, Fault, NoFault, step, jed,
          ghosts
    <2> QED BY <1>8, <2>1, <2>2 DEF RenameToBackup
  <1>9. CASE CopyToBackup
    <2>1. CASE CreateCopy("file", "backup") /\ pc' = "fill" /\ NoFault
      BY <1>9, <2>1, FileTypes, CreateCopyDisk DEF TypeOK, CopyToBackup, Fault, NoFault,
          step, jed, ghosts
    <2>2. CASE Fault("copy") /\ pc' = "open" /\ UNCHANGED <<disk, inodes>>
      BY <1>9, <2>2, FileTypes DEF TypeOK, CopyToBackup, Fault, NoFault, step, jed,
          ghosts
    <2> QED BY <1>9, <2>1, <2>2 DEF CopyToBackup
  <1>10. CASE FillBackup
    <2>1. CASE FillCopy("file", "backup") /\ backedUp' = TRUE /\ NoFault
      <3>1. disk'["backup"] # Missing /\ disk'["backup"].v = disk["backup"].v
            /\ disk'["backup"].mtime = disk["backup"].mtime
            /\ disk'["backup"].whole = disk["file"].whole
            /\ disk'["file"] = disk["file"]
        BY <1>10, <2>1, FillCopyDisk DEF FillBackup
      <3> QED BY <1>10, <2>1, <3>1 DEF FillBackup, Fault, NoFault, step, jed, ghosts
    <2>2. CASE Fault("copy") /\ UNCHANGED <<disk, backedUp>>
      BY <1>10, <2>2, FileTypes DEF TypeOK, FillBackup, Fault, NoFault, step, jed,
          ghosts
    <2> QED BY <1>10, <2>1, <2>2 DEF FillBackup
  <1>11. CASE OpenFile
    <2>1. CASE Put("file", buf, FALSE) /\ pc' = "write" /\ NoFault /\ UNCHANGED failed
      BY <1>11, <2>1, FileTypes, PutDisk DEF TypeOK, OpenFile, Fault, NoFault, step,
          jed, ghosts
    <2>2. CASE Fault("open") /\ failed' = TRUE /\ pc' = "wrote"
               /\ UNCHANGED <<disk, inodes>>
      BY <1>11, <2>2, FileTypes DEF TypeOK, OpenFile, Fault, NoFault, step, jed, ghosts
    <2> QED BY <1>11, <2>1, <2>2 DEF OpenFile
  <1>12. CASE WriteOut
    <2>1. CASE Put("file", buf, TRUE) /\ NoFault /\ UNCHANGED failed
      BY <1>12, <2>1, FileTypes, PutDisk DEF TypeOK, WriteOut, Fault, NoFault, step,
          jed, ghosts
    <2>2. CASE Fault("write") /\ failed' = TRUE /\ UNCHANGED <<disk, inodes>>
      BY <1>12, <2>2, FileTypes DEF TypeOK, WriteOut, Fault, NoFault, step, jed, ghosts
    <2> QED BY <1>12, <2>1, <2>2 DEF WriteOut
  <1>13. CASE Written
    BY <1>13, FileTypes DEF TypeOK, Written, Unlink, counters
  <1>14. CASE RestoreFile
    BY <1>14, FileTypes DEF TypeOK, RestoreFile, Unlink, step, jed, ghosts
  <1>15. CASE RenameBack
    <2>1. CASE Rename("backup", "file") /\ NoFault /\ Restored(Inode("backup"))
               /\ UNCHANGED inodes
      BY <1>15, <2>1, FileTypes, RenameDisk DEF TypeOK, RenameBack, Restored, Fault,
          NoFault, step, jed, ghosts
    <2>2. CASE Fault("restore") /\ pc' = "copyback"
               /\ UNCHANGED <<disk, failed, backedUp, inodes, step>>
      BY <1>15, <2>2, FileTypes DEF TypeOK, RenameBack, Restored, Fault, NoFault, step,
          jed, ghosts
    <2> QED BY <1>15, <2>1, <2>2 DEF RenameBack
  <1>16. CASE CopyBack
    <2>1. CASE CreateCopy("backup", "file") /\ pc' = "fillback" /\ NoFault
               /\ UNCHANGED <<failed, backedUp, step>>
      BY <1>16, <2>1, FileTypes, CreateCopyDisk DEF TypeOK, CopyBack, Restored, Fault,
          NoFault, step, jed, ghosts
    <2>2. CASE Fault("copy") /\ UNCHANGED <<disk, inodes>> /\ Restored(Missing)
      BY <1>16, <2>2, FileTypes DEF TypeOK, CopyBack, Restored, Fault, NoFault, step,
          jed, ghosts
    <2> QED BY <1>16, <2>1, <2>2 DEF CopyBack
  <1>17. CASE FillBack
    <2>1. CASE FillCopy("backup", "file") /\ NoFault
      <3>1. disk'["file"] # Missing /\ disk'["file"].v = disk["file"].v
            /\ disk'["file"].mtime = disk["file"].mtime
            /\ disk'["file"].whole = disk["backup"].whole
            /\ disk'["backup"] = disk["backup"]
        BY <1>17, <2>1, FillCopyDisk DEF FillBack
      <3> QED BY <1>17, <2>1, <3>1 DEF FillBack, Restored, Fault, NoFault, ghosts
    <2>2. CASE Fault("copy") /\ UNCHANGED disk
      BY <1>17, <2>2, FileTypes DEF TypeOK, FillBack, Restored, Fault, NoFault, ghosts
    <2> QED BY <1>17, <2>1, <2>2 DEF FillBack
  <1>18. CASE Tick
    BY <1>18, FileTypes DEF TypeOK, Tick, jed, counters, ghosts
  <1>19. CASE Foreign
    BY <1>19, FileTypes DEF TypeOK, Foreign, jed
  <1> QED BY <1>1, <1>2, <1>3, <1>4, <1>5, <1>6, <1>7, <1>8, <1>9, <1>10, <1>11, <1>12,
      <1>13, <1>14, <1>15, <1>16, <1>17, <1>18, <1>19
      DEF Next, Command, Saving

(* Each step keeps the autosaved text in the autosave file.                 *)
LEMMA AutosaveKeptStep ==
  ASSUME SaveInv, Next, TypeOK'
  PROVE  AutosaveKept'
  <1>0. TypeOK
    BY DEF SaveInv
  <1> USE <1>0, SaveAssumption DEF SaveInv, Exists, Inode, Mtime, Names, Rest, Before,
      Midway, After, Flags, AutosaveKept, Whole
  <1>1. CASE Edit
    BY <1>1, FileTypes DEF TypeOK, Edit
  <1>2. CASE Save
    BY <1>2, FileTypes DEF TypeOK, Save, BeginSave, Told, OtherInode, ChangedOnDisk
  <1>3. CASE Declined
    BY <1>3, FileTypes DEF TypeOK, Declined, jed, counters, ghosts
  <1>4. CASE AutoSave
    BY <1>4, FileTypes DEF TypeOK, AutoSave, BeginSave, jed, ghosts
  <1>5. CASE AutoDelete
    BY <1>5, FileTypes DEF TypeOK, AutoDelete, Unlink, jed, counters
  <1>6. CASE AutoWrite
    <2>1. CASE Put("autosave", buf, TRUE) /\ kept' = buf /\ NoFault
      BY <1>6, <2>1, FileTypes, PutDisk DEF TypeOK, AutoWrite, Fault, NoFault, jed
    <2>2. CASE Fault("autosave") /\ UNCHANGED kept /\ Put("autosave", buf, FALSE)
      BY <1>6, <2>2, FileTypes, PutDisk DEF TypeOK, AutoWrite, Fault, NoFault, jed
    <2>3. CASE Fault("autosave") /\ UNCHANGED <<kept, disk, inodes>>
      BY <1>6, <2>3, FileTypes DEF TypeOK, AutoWrite, Fault, NoFault, jed
    <2> QED BY <1>6, <2>1, <2>2, <2>3 DEF AutoWrite
  <1>7. CASE Backup
    BY <1>7, FileTypes DEF TypeOK, Backup, AllMethods, Unlink, step, jed, ghosts
  <1>8. CASE RenameToBackup
    <2>1. CASE Rename("file", "backup") /\ NoFault /\ backedUp' = TRUE /\ pc' = "open"
      BY <1>8, <2>1, FileTypes, RenameDisk DEF TypeOK, RenameToBackup, Fault, NoFault,
          step, jed, ghosts
    <2>2. CASE Fault("rename") /\ pc' = "copy" /\ UNCHANGED <<disk, backedUp>>
      BY <1>8, <2>2, FileTypes DEF TypeOK, RenameToBackup, Fault, NoFault, step, jed,
          ghosts
    <2> QED BY <1>8, <2>1, <2>2 DEF RenameToBackup
  <1>9. CASE CopyToBackup
    <2>1. CASE CreateCopy("file", "backup") /\ pc' = "fill" /\ NoFault
      BY <1>9, <2>1, FileTypes, CreateCopyDisk DEF TypeOK, CopyToBackup, Fault, NoFault,
          step, jed, ghosts
    <2>2. CASE Fault("copy") /\ pc' = "open" /\ UNCHANGED <<disk, inodes>>
      BY <1>9, <2>2, FileTypes DEF TypeOK, CopyToBackup, Fault, NoFault, step, jed,
          ghosts
    <2> QED BY <1>9, <2>1, <2>2 DEF CopyToBackup
  <1>10. CASE FillBackup
    <2>1. CASE FillCopy("file", "backup") /\ backedUp' = TRUE /\ NoFault
      BY <1>10, <2>1 DEF TypeOK, FillCopy, FillBackup, Fault, NoFault, step, jed, ghosts
    <2>2. CASE Fault("copy") /\ UNCHANGED <<disk, backedUp>>
      BY <1>10, <2>2, FileTypes DEF TypeOK, FillBackup, Fault, NoFault, step, jed,
          ghosts
    <2> QED BY <1>10, <2>1, <2>2 DEF FillBackup
  <1>11. CASE OpenFile
    <2>1. CASE Put("file", buf, FALSE) /\ pc' = "write" /\ NoFault /\ UNCHANGED failed
      BY <1>11, <2>1, FileTypes, PutDisk DEF TypeOK, OpenFile, Fault, NoFault, step,
          jed, ghosts
    <2>2. CASE Fault("open") /\ failed' = TRUE /\ pc' = "wrote"
               /\ UNCHANGED <<disk, inodes>>
      BY <1>11, <2>2, FileTypes DEF TypeOK, OpenFile, Fault, NoFault, step, jed, ghosts
    <2> QED BY <1>11, <2>1, <2>2 DEF OpenFile
  <1>12. CASE WriteOut
    <2>1. CASE Put("file", buf, TRUE) /\ NoFault /\ UNCHANGED failed
      BY <1>12, <2>1, FileTypes, PutDisk DEF TypeOK, WriteOut, Fault, NoFault, step,
          jed, ghosts
    <2>2. CASE Fault("write") /\ failed' = TRUE /\ UNCHANGED <<disk, inodes>>
      BY <1>12, <2>2, FileTypes DEF TypeOK, WriteOut, Fault, NoFault, step, jed, ghosts
    <2> QED BY <1>12, <2>1, <2>2 DEF WriteOut
  <1>13. CASE Written
    BY <1>13, FileTypes DEF TypeOK, Written, Unlink, counters
  <1>14. CASE RestoreFile
    BY <1>14, FileTypes DEF TypeOK, RestoreFile, Unlink, step, jed, ghosts
  <1>15. CASE RenameBack
    <2>1. CASE Rename("backup", "file") /\ NoFault /\ Restored(Inode("backup"))
               /\ UNCHANGED inodes
      BY <1>15, <2>1, FileTypes, RenameDisk DEF TypeOK, RenameBack, Restored, Fault,
          NoFault, step, jed, ghosts
    <2>2. CASE Fault("restore") /\ pc' = "copyback"
               /\ UNCHANGED <<disk, failed, backedUp, inodes, step>>
      BY <1>15, <2>2, FileTypes DEF TypeOK, RenameBack, Restored, Fault, NoFault, step,
          jed, ghosts
    <2> QED BY <1>15, <2>1, <2>2 DEF RenameBack
  <1>16. CASE CopyBack
    <2>1. CASE CreateCopy("backup", "file") /\ pc' = "fillback" /\ NoFault
               /\ UNCHANGED <<failed, backedUp, step>>
      BY <1>16, <2>1, FileTypes, CreateCopyDisk DEF TypeOK, CopyBack, Restored, Fault,
          NoFault, step, jed, ghosts
    <2>2. CASE Fault("copy") /\ UNCHANGED <<disk, inodes>> /\ Restored(Missing)
      BY <1>16, <2>2, FileTypes DEF TypeOK, CopyBack, Restored, Fault, NoFault, step,
          jed, ghosts
    <2> QED BY <1>16, <2>1, <2>2 DEF CopyBack
  <1>17. CASE FillBack
    <2>1. CASE FillCopy("backup", "file") /\ NoFault
      BY <1>17, <2>1 DEF TypeOK, FillCopy, FillBack, Restored, Fault, NoFault, ghosts
    <2>2. CASE Fault("copy") /\ UNCHANGED disk
      BY <1>17, <2>2, FileTypes DEF TypeOK, FillBack, Restored, Fault, NoFault, ghosts
    <2> QED BY <1>17, <2>1, <2>2 DEF FillBack
  <1>18. CASE Tick
    BY <1>18, FileTypes DEF TypeOK, Tick, jed, counters, ghosts
  <1>19. CASE Foreign
    BY <1>19, FileTypes DEF TypeOK, Foreign, jed
  <1> QED BY <1>1, <1>2, <1>3, <1>4, <1>5, <1>6, <1>7, <1>8, <1>9, <1>10, <1>11, <1>12,
      <1>13, <1>14, <1>15, <1>16, <1>17, <1>18, <1>19
      DEF Next, Command, Saving

(* Each step leaves a buffer marked modified until its file has its text.   *)
LEMMA SavedStep ==
  ASSUME SaveInv, Next, TypeOK'
  PROVE  Saved'
  <1>0. TypeOK
    BY DEF SaveInv
  <1> USE <1>0, SaveAssumption DEF SaveInv, Exists, Inode, Mtime, Names, Rest, Before,
      Midway, After, Flags, Saved, Copies, Whole
  <1>1. CASE Edit
    BY <1>1, FileTypes DEF TypeOK, Edit
  <1>2. CASE Save
    BY <1>2, FileTypes DEF TypeOK, Save, BeginSave, Told, OtherInode, ChangedOnDisk
  <1>3. CASE Declined
    BY <1>3, FileTypes DEF TypeOK, Declined, jed, counters, ghosts
  <1>4. CASE AutoSave
    BY <1>4, FileTypes DEF TypeOK, AutoSave, BeginSave, jed, ghosts
  <1>5. CASE AutoDelete
    BY <1>5, FileTypes DEF TypeOK, AutoDelete, Unlink, jed, counters
  <1>6. CASE AutoWrite
    <2>1. CASE Put("autosave", buf, TRUE) /\ kept' = buf /\ NoFault
      BY <1>6, <2>1, FileTypes, PutDisk DEF TypeOK, AutoWrite, Fault, NoFault, jed
    <2>2. CASE Fault("autosave") /\ UNCHANGED kept /\ Put("autosave", buf, FALSE)
      BY <1>6, <2>2, FileTypes, PutDisk DEF TypeOK, AutoWrite, Fault, NoFault, jed
    <2>3. CASE Fault("autosave") /\ UNCHANGED <<kept, disk, inodes>>
      BY <1>6, <2>3, FileTypes DEF TypeOK, AutoWrite, Fault, NoFault, jed
    <2> QED BY <1>6, <2>1, <2>2, <2>3 DEF AutoWrite
  <1>7. CASE Backup
    BY <1>7, FileTypes DEF TypeOK, Backup, AllMethods, Unlink, step, jed, ghosts
  <1>8. CASE RenameToBackup
    <2>1. CASE Rename("file", "backup") /\ NoFault /\ backedUp' = TRUE /\ pc' = "open"
      BY <1>8, <2>1, FileTypes, RenameDisk DEF TypeOK, RenameToBackup, Fault, NoFault,
          step, jed, ghosts
    <2>2. CASE Fault("rename") /\ pc' = "copy" /\ UNCHANGED <<disk, backedUp>>
      BY <1>8, <2>2, FileTypes DEF TypeOK, RenameToBackup, Fault, NoFault, step, jed,
          ghosts
    <2> QED BY <1>8, <2>1, <2>2 DEF RenameToBackup
  <1>9. CASE CopyToBackup
    <2>1. CASE CreateCopy("file", "backup") /\ pc' = "fill" /\ NoFault
      BY <1>9, <2>1, FileTypes, CreateCopyDisk DEF TypeOK, CopyToBackup, Fault, NoFault,
          step, jed, ghosts
    <2>2. CASE Fault("copy") /\ pc' = "open" /\ UNCHANGED <<disk, inodes>>
      BY <1>9, <2>2, FileTypes DEF TypeOK, CopyToBackup, Fault, NoFault, step, jed,
          ghosts
    <2> QED BY <1>9, <2>1, <2>2 DEF CopyToBackup
  <1>10. CASE FillBackup
    <2>1. CASE FillCopy("file", "backup") /\ backedUp' = TRUE /\ NoFault
      BY <1>10, <2>1, FileTypes, FillCopyDisk DEF TypeOK, FillBackup, Fault, NoFault,
          step, jed, ghosts
    <2>2. CASE Fault("copy") /\ UNCHANGED <<disk, backedUp>>
      BY <1>10, <2>2, FileTypes DEF TypeOK, FillBackup, Fault, NoFault, step, jed,
          ghosts
    <2> QED BY <1>10, <2>1, <2>2 DEF FillBackup
  <1>11. CASE OpenFile
    <2>1. CASE Put("file", buf, FALSE) /\ pc' = "write" /\ NoFault /\ UNCHANGED failed
      BY <1>11, <2>1, FileTypes, PutDisk DEF TypeOK, OpenFile, Fault, NoFault, step,
          jed, ghosts
    <2>2. CASE Fault("open") /\ failed' = TRUE /\ pc' = "wrote"
               /\ UNCHANGED <<disk, inodes>>
      BY <1>11, <2>2, FileTypes DEF TypeOK, OpenFile, Fault, NoFault, step, jed, ghosts
    <2> QED BY <1>11, <2>1, <2>2 DEF OpenFile
  <1>12. CASE WriteOut
    <2>1. CASE Put("file", buf, TRUE) /\ NoFault /\ UNCHANGED failed
      BY <1>12, <2>1, FileTypes, PutDisk DEF TypeOK, WriteOut, Fault, NoFault, step,
          jed, ghosts
    <2>2. CASE Fault("write") /\ failed' = TRUE /\ UNCHANGED <<disk, inodes>>
      BY <1>12, <2>2, FileTypes DEF TypeOK, WriteOut, Fault, NoFault, step, jed, ghosts
    <2> QED BY <1>12, <2>1, <2>2 DEF WriteOut
  <1>13. CASE Written
    BY <1>13, FileTypes DEF TypeOK, Written, Unlink, counters
  <1>14. CASE RestoreFile
    BY <1>14, FileTypes DEF TypeOK, RestoreFile, Unlink, step, jed, ghosts
  <1>15. CASE RenameBack
    <2>1. CASE Rename("backup", "file") /\ NoFault /\ Restored(Inode("backup"))
               /\ UNCHANGED inodes
      BY <1>15, <2>1, FileTypes, RenameDisk DEF TypeOK, RenameBack, Restored, Fault,
          NoFault, step, jed, ghosts
    <2>2. CASE Fault("restore") /\ pc' = "copyback"
               /\ UNCHANGED <<disk, failed, backedUp, inodes, step>>
      BY <1>15, <2>2, FileTypes DEF TypeOK, RenameBack, Restored, Fault, NoFault, step,
          jed, ghosts
    <2> QED BY <1>15, <2>1, <2>2 DEF RenameBack
  <1>16. CASE CopyBack
    <2>1. CASE CreateCopy("backup", "file") /\ pc' = "fillback" /\ NoFault
               /\ UNCHANGED <<failed, backedUp, step>>
      BY <1>16, <2>1, FileTypes, CreateCopyDisk DEF TypeOK, CopyBack, Restored, Fault,
          NoFault, step, jed, ghosts
    <2>2. CASE Fault("copy") /\ UNCHANGED <<disk, inodes>> /\ Restored(Missing)
      BY <1>16, <2>2, FileTypes DEF TypeOK, CopyBack, Restored, Fault, NoFault, step,
          jed, ghosts
    <2> QED BY <1>16, <2>1, <2>2 DEF CopyBack
  <1>17. CASE FillBack
    <2>1. CASE FillCopy("backup", "file") /\ NoFault
      BY <1>17, <2>1, FileTypes, FillCopyDisk DEF TypeOK, FillBack, Restored, Fault,
          NoFault, ghosts
    <2>2. CASE Fault("copy") /\ UNCHANGED disk
      BY <1>17, <2>2, FileTypes DEF TypeOK, FillBack, Restored, Fault, NoFault, ghosts
    <2> QED BY <1>17, <2>1, <2>2 DEF FillBack
  <1>18. CASE Tick
    BY <1>18, FileTypes DEF TypeOK, Tick, jed, counters, ghosts
  <1>19. CASE Foreign
    BY <1>19, FileTypes DEF TypeOK, Foreign, jed
  <1> QED BY <1>1, <1>2, <1>3, <1>4, <1>5, <1>6, <1>7, <1>8, <1>9, <1>10, <1>11, <1>12,
      <1>13, <1>14, <1>15, <1>16, <1>17, <1>18, <1>19
      DEF Next, Command, Saving

(* Each step keeps the files no newer than the time JED has noted.          *)
LEMMA TimesStep ==
  ASSUME SaveInv, Next, TypeOK'
  PROVE  Times'
  <1>0. TypeOK
    BY DEF SaveInv
  <1> USE <1>0, SaveAssumption DEF SaveInv, Exists, Inode, Mtime, Names, Rest, Before,
      Midway, After, Flags, Copies, Times, Same, Stamped
  <1>1. CASE Edit
    BY <1>1, FileTypes DEF TypeOK, Edit
  <1>2. CASE Save
    BY <1>2, FileTypes DEF TypeOK, Save, BeginSave, Told, OtherInode, ChangedOnDisk
  <1>3. CASE Declined
    BY <1>3, FileTypes DEF TypeOK, Declined, jed, counters, ghosts
  <1>4. CASE AutoSave
    BY <1>4, FileTypes DEF TypeOK, AutoSave, BeginSave, jed, ghosts
  <1>5. CASE AutoDelete
    BY <1>5, FileTypes DEF TypeOK, AutoDelete, Unlink, jed, counters
  <1>6. CASE AutoWrite
    <2>1. CASE Put("autosave", buf, TRUE) /\ kept' = buf /\ NoFault
      <3>1. Stamped("autosave", clock)
        BY <2>1, PutDisk DEF TypeOK
      <3> QED BY <1>6, <2>1, <3>1 DEF TypeOK, AutoWrite, Fault, NoFault, jed
    <2>2. CASE Fault("autosave") /\ UNCHANGED kept /\ Put("autosave", buf, FALSE)
      <3>1. Stamped("autosave", clock)
        BY <2>2, PutDisk DEF TypeOK
      <3> QED BY <1>6, <2>2, <3>1 DEF TypeOK, AutoWrite, Fault, NoFault, jed
    <2>3. CASE Fault("autosave") /\ UNCHANGED <<kept, disk, inodes>>
      BY <1>6, <2>3, FileTypes DEF TypeOK, AutoWrite, Fault, NoFault, jed
    <2> QED BY <1>6, <2>1, <2>2, <2>3 DEF AutoWrite
  <1>7. CASE Backup
    BY <1>7, FileTypes DEF TypeOK, Backup, AllMethods, Unlink, step, jed, ghosts
  <1>8. CASE RenameToBackup
    <2>1. CASE Rename("file", "backup") /\ NoFault /\ backedUp' = TRUE /\ pc' = "open"
      BY <1>8, <2>1, FileTypes, RenameDisk DEF TypeOK, RenameToBackup, Fault, NoFault,
          step, jed, ghosts
    <2>2. CASE Fault("rename") /\ pc' = "copy" /\ UNCHANGED <<disk, backedUp>>
      BY <1>8, <2>2, FileTypes DEF TypeOK, RenameToBackup, Fault, NoFault, step, jed,
          ghosts
    <2> QED BY <1>8, <2>1, <2>2 DEF RenameToBackup
  <1>9. CASE CopyToBackup
    <2>1. CASE CreateCopy("file", "backup") /\ pc' = "fill" /\ NoFault
      BY <1>9, <2>1, FileTypes, CreateCopyDisk DEF TypeOK, CopyToBackup, Fault, NoFault,
          step, jed, ghosts
    <2>2. CASE Fault("copy") /\ pc' = "open" /\ UNCHANGED <<disk, inodes>>
      BY <1>9, <2>2, FileTypes DEF TypeOK, CopyToBackup, Fault, NoFault, step, jed,
          ghosts
    <2> QED BY <1>9, <2>1, <2>2 DEF CopyToBackup
  <1>10. CASE FillBackup
    <2>1. CASE FillCopy("file", "backup") /\ backedUp' = TRUE /\ NoFault
      BY <1>10, <2>1, FileTypes, FillCopyDisk DEF TypeOK, FillBackup, Fault, NoFault,
          step, jed, ghosts
    <2>2. CASE Fault("copy") /\ UNCHANGED <<disk, backedUp>>
      BY <1>10, <2>2, FileTypes DEF TypeOK, FillBackup, Fault, NoFault, step, jed,
          ghosts
    <2> QED BY <1>10, <2>1, <2>2 DEF FillBackup
  <1>11. CASE OpenFile
    <2>1. CASE Put("file", buf, FALSE) /\ pc' = "write" /\ NoFault /\ UNCHANGED failed
      <3>1. Stamped("file", clock)
        BY <2>1, PutDisk DEF TypeOK
      <3> QED BY <1>11, <2>1, <3>1 DEF TypeOK, OpenFile, Fault, NoFault, step, jed,
          ghosts
    <2>2. CASE Fault("open") /\ failed' = TRUE /\ pc' = "wrote"
               /\ UNCHANGED <<disk, inodes>>
      BY <1>11, <2>2, FileTypes DEF TypeOK, OpenFile, Fault, NoFault, step, jed, ghosts
    <2> QED BY <1>11, <2>1, <2>2 DEF OpenFile
  <1>12. CASE WriteOut
    <2>1. CASE Put("file", buf, TRUE) /\ NoFault /\ UNCHANGED failed
      <3>1. Stamped("file", clock)
        BY <2>1, PutDisk DEF TypeOK
      <3> QED BY <1>12, <2>1, <3>1 DEF TypeOK, WriteOut, Fault, NoFault, step, jed,
          ghosts
    <2>2. CASE Fault("write") /\ failed' = TRUE /\ UNCHANGED <<disk, inodes>>
      BY <1>12, <2>2, FileTypes DEF TypeOK, WriteOut, Fault, NoFault, step, jed, ghosts
    <2> QED BY <1>12, <2>1, <2>2 DEF WriteOut
  <1>13. CASE Written
    BY <1>13, FileTypes DEF TypeOK, Written, Unlink, counters
  <1>14. CASE RestoreFile
    BY <1>14, FileTypes DEF TypeOK, RestoreFile, Unlink, step, jed, ghosts
  <1>15. CASE RenameBack
    <2>1. CASE Rename("backup", "file") /\ NoFault /\ Restored(Inode("backup"))
               /\ UNCHANGED inodes
      BY <1>15, <2>1, FileTypes, RenameDisk DEF TypeOK, RenameBack, Restored, Fault,
          NoFault, step, jed, ghosts
    <2>2. CASE Fault("restore") /\ pc' = "copyback"
               /\ UNCHANGED <<disk, failed, backedUp, inodes, step>>
      BY <1>15, <2>2, FileTypes DEF TypeOK, RenameBack, Restored, Fault, NoFault, step,
          jed, ghosts
    <2> QED BY <1>15, <2>1, <2>2 DEF RenameBack
  <1>16. CASE CopyBack
    <2>1. CASE CreateCopy("backup", "file") /\ pc' = "fillback" /\ NoFault
               /\ UNCHANGED <<failed, backedUp, step>>
      BY <1>16, <2>1, FileTypes, CreateCopyDisk DEF TypeOK, CopyBack, Restored, Fault,
          NoFault, step, jed, ghosts
    <2>2. CASE Fault("copy") /\ UNCHANGED <<disk, inodes>> /\ Restored(Missing)
      BY <1>16, <2>2, FileTypes DEF TypeOK, CopyBack, Restored, Fault, NoFault, step,
          jed, ghosts
    <2> QED BY <1>16, <2>1, <2>2 DEF CopyBack
  <1>17. CASE FillBack
    <2>1. CASE FillCopy("backup", "file") /\ NoFault
      BY <1>17, <2>1, FileTypes, FillCopyDisk DEF TypeOK, FillBack, Restored, Fault,
          NoFault, ghosts
    <2>2. CASE Fault("copy") /\ UNCHANGED disk
      BY <1>17, <2>2, FileTypes DEF TypeOK, FillBack, Restored, Fault, NoFault, ghosts
    <2> QED BY <1>17, <2>1, <2>2 DEF FillBack
  <1>18. CASE Tick
    BY <1>18, FileTypes DEF TypeOK, Tick, jed, counters, ghosts
  <1>19. CASE Foreign
    BY <1>19, FileTypes DEF TypeOK, Foreign, jed
  <1> QED BY <1>1, <1>2, <1>3, <1>4, <1>5, <1>6, <1>7, <1>8, <1>9, <1>10, <1>11, <1>12,
      <1>13, <1>14, <1>15, <1>16, <1>17, <1>18, <1>19
      DEF Next, Command, Saving

(* Each step leaves files on the disk.                                      *)
LEMMA DiskTypeStep ==
  ASSUME SaveInv, Next
  PROVE  DiskType'
  <1>0. TypeOK
    BY DEF SaveInv
  <1> USE <1>0, SaveAssumption DEF SaveInv, Exists, Inode, Mtime, Names, Rest, Before,
      Midway, After, DiskType, Copies, Same, FileData
  <1>1. CASE Edit
    BY <1>1, FileTypes DEF TypeOK, Edit
  <1>2. CASE Save
    BY <1>2, FileTypes DEF TypeOK, Save, BeginSave, Told, OtherInode, ChangedOnDisk
  <1>3. CASE Declined
    BY <1>3, FileTypes DEF TypeOK, Declined, jed, counters, ghosts
  <1>4. CASE AutoSave
    BY <1>4, FileTypes DEF TypeOK, AutoSave, BeginSave, jed, ghosts
  <1>5. CASE AutoDelete
    BY <1>5, FileTypes DEF TypeOK, AutoDelete, Unlink, jed, counters
  <1>6. CASE AutoWrite
    <2>1. CASE Put("autosave", buf, TRUE) /\ kept' = buf /\ NoFault
      BY <1>6, <2>1, FileTypes, PutDisk DEF TypeOK, AutoWrite, Fault, NoFault, jed
    <2>2. CASE Fault("autosave") /\ UNCHANGED kept /\ Put("autosave", buf, FALSE)
      BY <1>6, <2>2, FileTypes, PutDisk DEF TypeOK, AutoWrite, Fault, NoFault, jed
    <2>3. CASE Fault("autosave") /\ UNCHANGED <<kept, disk, inodes>>
      BY <1>6, <2>3, FileTypes DEF TypeOK, AutoWrite, Fault, NoFault, jed
    <2> QED BY <1>6, <2>1, <2>2, <2>3 DEF AutoWrite
  <1>7. CASE Backup
    BY <1>7, FileTypes DEF TypeOK, Backup, AllMethods, Unlink, step, jed, ghosts
  <1>8. CASE RenameToBackup
    <2>1. CASE Rename("file", "backup") /\ NoFault /\ backedUp' = TRUE /\ pc' = "open"
      BY <1>8, <2>1, FileTypes, RenameDisk DEF TypeOK, RenameToBackup, Fault, NoFault,
          step, jed, ghosts
    <2>2. CASE Fault("rename") /\ pc' = "copy" /\ UNCHANGED <<disk, backedUp>>
      BY <1>8, <2>2, FileTypes DEF TypeOK, RenameToBackup, Fault, NoFault, step, jed,
          ghosts
    <2> QED BY <1>8, <2>1, <2>2 DEF RenameToBackup
  <1>9. CASE CopyToBackup
    <2>1. CASE CreateCopy("file", "backup") /\ pc' = "fill" /\ NoFault
      BY <1>9, <2>1, FileTypes, CreateCopyDisk DEF TypeOK, CopyToBackup, Fault, NoFault,
          step, jed, ghosts
    <2>2. CASE Fault("copy") /\ pc' = "open" /\ UNCHANGED <<disk, inodes>>
      BY <1>9, <2>2, FileTypes DEF TypeOK, CopyToBackup, Fault, NoFault, step, jed,
          ghosts
    <2> QED BY <1>9, <2>1, <2>2 DEF CopyToBackup
  <1>10. CASE FillBackup
    <2>1. CASE FillCopy("file", "backup") /\ backedUp' = TRUE /\ NoFault
      BY <1>10, <2>1, FileTypes, FillCopyDisk DEF TypeOK, FillBackup, Fault, NoFault,
          step, jed, ghosts
    <2>2. CASE Fault("copy") /\ UNCHANGED <<disk, backedUp>>
      BY <1>10, <2>2, FileTypes DEF TypeOK, FillBackup, Fault, NoFault, step, jed,
          ghosts
    <2> QED BY <1>10, <2>1, <2>2 DEF FillBackup
  <1>11. CASE OpenFile
    <2>1. CASE Put("file", buf, FALSE) /\ pc' = "write" /\ NoFault /\ UNCHANGED failed
      BY <1>11, <2>1, FileTypes, PutDisk DEF TypeOK, OpenFile, Fault, NoFault, step,
          jed, ghosts
    <2>2. CASE Fault("open") /\ failed' = TRUE /\ pc' = "wrote"
               /\ UNCHANGED <<disk, inodes>>
      BY <1>11, <2>2, FileTypes DEF TypeOK, OpenFile, Fault, NoFault, step, jed, ghosts
    <2> QED BY <1>11, <2>1, <2>2 DEF OpenFile
  <1>12. CASE WriteOut
    <2>1. CASE Put("file", buf, TRUE) /\ NoFault /\ UNCHANGED failed
      BY <1>12, <2>1, FileTypes, PutDisk DEF TypeOK, WriteOut, Fault, NoFault, step,
          jed, ghosts
    <2>2. CASE Fault("write") /\ failed' = TRUE /\ UNCHANGED <<disk, inodes>>
      BY <1>12, <2>2, FileTypes DEF TypeOK, WriteOut, Fault, NoFault, step, jed, ghosts
    <2> QED BY <1>12, <2>1, <2>2 DEF WriteOut
  <1>13. CASE Written
    BY <1>13, FileTypes DEF TypeOK, Written, Unlink, counters
  <1>14. CASE RestoreFile
    BY <1>14, FileTypes DEF TypeOK, RestoreFile, Unlink, step, jed, ghosts
  <1>15. CASE RenameBack
    <2>1. CASE Rename("backup", "file") /\ NoFault /\ Restored(Inode("backup"))
               /\ UNCHANGED inodes
      BY <1>15, <2>1, FileTypes, RenameDisk DEF TypeOK, RenameBack, Restored, Fault,
          NoFault, step, jed, ghosts
    <2>2. CASE Fault("restore") /\ pc' = "copyback"
               /\ UNCHANGED <<disk, failed, backedUp, inodes, step>>
      BY <1>15, <2>2, FileTypes DEF TypeOK, RenameBack, Restored, Fault, NoFault, step,
          jed, ghosts
    <2> QED BY <1>15, <2>1, <2>2 DEF RenameBack
  <1>16. CASE CopyBack
    <2>1. CASE CreateCopy("backup", "file") /\ pc' = "fillback" /\ NoFault
               /\ UNCHANGED <<failed, backedUp, step>>
      BY <1>16, <2>1, FileTypes, CreateCopyDisk DEF TypeOK, CopyBack, Restored, Fault,
          NoFault, step, jed, ghosts
    <2>2. CASE Fault("copy") /\ UNCHANGED <<disk, inodes>> /\ Restored(Missing)
      BY <1>16, <2>2, FileTypes DEF TypeOK, CopyBack, Restored, Fault, NoFault, step,
          jed, ghosts
    <2> QED BY <1>16, <2>1, <2>2 DEF CopyBack
  <1>17. CASE FillBack
    <2>1. CASE FillCopy("backup", "file") /\ NoFault
      BY <1>17, <2>1, FileTypes, FillCopyDisk DEF TypeOK, FillBack, Restored, Fault,
          NoFault, ghosts
    <2>2. CASE Fault("copy") /\ UNCHANGED disk
      BY <1>17, <2>2, FileTypes DEF TypeOK, FillBack, Restored, Fault, NoFault, ghosts
    <2> QED BY <1>17, <2>1, <2>2 DEF FillBack
  <1>18. CASE Tick
    BY <1>18, FileTypes DEF TypeOK, Tick, jed, counters, ghosts
  <1>19. CASE Foreign
    <2> DEFINE same == IF Exists("file") THEN Inode("file") ELSE inodes + 1
               new == [v |-> versions + 1, whole |-> TRUE, mtime |-> clock,
                       inode |-> inodes + 1]
    <2>1. same \in Nat
      BY FileTypes DEF TypeOK
    <2>new. new \in FileData
      BY DEF TypeOK
    <2>2. new \in FileData /\ [new EXCEPT !.inode = same] \in FileData
          /\ [new EXCEPT !.mtime = 1] \in FileData
      <3> HIDE DEF new, same
      <3> QED BY <2>1, <2>new
    <2>3. \E r \in FileData : disk' = [disk EXCEPT !["file"] = r]
      BY <1>19, <2>2 DEF Foreign
    <2>4. inodes' \in Nat
      BY <1>19 DEF TypeOK, Foreign
    <2> QED BY <2>3, <2>4 DEF TypeOK
  <1> QED BY <1>1, <1>2, <1>3, <1>4, <1>5, <1>6, <1>7, <1>8, <1>9, <1>10, <1>11, <1>12,
      <1>13, <1>14, <1>15, <1>16, <1>17, <1>18, <1>19
      DEF Next, Command, Saving

(* Each step keeps the types of the other variables.                        *)
LEMMA PlainTypeStep ==
  ASSUME SaveInv, Next
  PROVE  PlainType'
  <1>0. TypeOK
    BY DEF SaveInv
  <1> USE <1>0, SaveAssumption DEF SaveInv, Exists, Inode, Mtime, Names, Rest, Before,
      Midway, After, PlainType
  <1>1. CASE Edit
    <2>1. changed' \in BOOLEAN
      BY <1>1 DEF Edit
    <2>text. \/ versions' = versions + 1 /\ buf' = versions + 1 /\ modified' = TRUE
          \/ UNCHANGED <<versions, buf, modified>>
      BY <1>1 DEF Edit
    <2>2. versions' \in Nat /\ buf' \in Nat
      BY <2>text DEF TypeOK
    <2>flag. modified' \in BOOLEAN
      BY <2>text DEF TypeOK
    <2>seen. seen' \subseteq Nat
      <3>1. seen \subseteq Nat /\ (Exists("file") => seen \cup {disk["file"].v}
          \subseteq Nat)
        BY FileTypes DEF TypeOK
      <3>2. \E s \in SUBSET Nat : seen' = s \/ seen' = s \cup {versions + 1}
        BY <1>1, <3>1 DEF Edit
      <3>3. versions + 1 \in Nat
        BY DEF TypeOK
      <3> QED BY <3>2, <3>3
    <2>3. inode' \in Nat \cup {Missing}
      BY <1>1, FileTypes DEF TypeOK, Edit
    <2> QED BY <1>1, <2>1, <2>2, <2>seen, <2>flag, <2>3 DEF TypeOK, Edit
  <1>2. CASE Save
    <2>1. changed' \in BOOLEAN
      BY <1>2 DEF Save
    <2>2. seen' \subseteq Nat
      BY <1>2, FileTypes DEF TypeOK, Save, Told
    <2>3. saves' \in Nat /\ pc' \in {"idle", "backup", "autosave"}
      BY <1>2 DEF TypeOK, Save, BeginSave
    <2>4. failed' \in BOOLEAN /\ backedUp' \in BOOLEAN /\ dirty' \in BOOLEAN
          /\ stable' \in Nat \cup {Missing}
      BY <1>2, FileTypes DEF TypeOK, Save
    <2>5. inode' \in Nat \cup {Missing}
      BY <1>2, FileTypes DEF Save
    <2> QED BY <1>2, <2>1, <2>2, <2>3, <2>4, <2>5 DEF TypeOK, Save
  <1>3. CASE Declined
    BY <1>3, FileTypes DEF TypeOK, Declined, jed, counters, ghosts
  <1>4. CASE AutoSave
    BY <1>4, FileTypes DEF TypeOK, AutoSave, BeginSave, jed, ghosts
  <1>5. CASE AutoDelete
    BY <1>5, FileTypes DEF TypeOK, AutoDelete, Unlink, jed, counters
  <1>6. CASE AutoWrite
    <2>1. CASE Put("autosave", buf, TRUE) /\ kept' = buf /\ NoFault
      BY <1>6, <2>1, FileTypes, PutDisk DEF TypeOK, AutoWrite, Fault, NoFault, jed
    <2>2. CASE Fault("autosave") /\ UNCHANGED kept /\ Put("autosave", buf, FALSE)
      BY <1>6, <2>2, FileTypes, PutDisk DEF TypeOK, AutoWrite, Fault, NoFault, jed
    <2>3. CASE Fault("autosave") /\ UNCHANGED <<kept, disk, inodes>>
      BY <1>6, <2>3, FileTypes DEF TypeOK, AutoWrite, Fault, NoFault, jed
    <2> QED BY <1>6, <2>1, <2>2, <2>3 DEF AutoWrite
  <1>7. CASE Backup
    BY <1>7, FileTypes DEF TypeOK, Backup, AllMethods, Unlink, step, jed, ghosts
  <1>8. CASE RenameToBackup
    <2>1. CASE Rename("file", "backup") /\ NoFault /\ backedUp' = TRUE /\ pc' = "open"
      BY <1>8, <2>1, FileTypes, RenameDisk DEF TypeOK, RenameToBackup, Fault, NoFault,
          step, jed, ghosts
    <2>2. CASE Fault("rename") /\ pc' = "copy" /\ UNCHANGED <<disk, backedUp>>
      BY <1>8, <2>2, FileTypes DEF TypeOK, RenameToBackup, Fault, NoFault, step, jed,
          ghosts
    <2> QED BY <1>8, <2>1, <2>2 DEF RenameToBackup
  <1>9. CASE CopyToBackup
    <2>1. CASE CreateCopy("file", "backup") /\ pc' = "fill" /\ NoFault
      BY <1>9, <2>1, FileTypes, CreateCopyDisk DEF TypeOK, CopyToBackup, Fault, NoFault,
          step, jed, ghosts
    <2>2. CASE Fault("copy") /\ pc' = "open" /\ UNCHANGED <<disk, inodes>>
      BY <1>9, <2>2, FileTypes DEF TypeOK, CopyToBackup, Fault, NoFault, step, jed,
          ghosts
    <2> QED BY <1>9, <2>1, <2>2 DEF CopyToBackup
  <1>10. CASE FillBackup
    <2>1. CASE FillCopy("file", "backup") /\ backedUp' = TRUE /\ NoFault
      BY <1>10, <2>1, FileTypes, FillCopyDisk DEF TypeOK, FillBackup, Fault, NoFault,
          step, jed, ghosts
    <2>2. CASE Fault("copy") /\ UNCHANGED <<disk, backedUp>>
      BY <1>10, <2>2, FileTypes DEF TypeOK, FillBackup, Fault, NoFault, step, jed,
          ghosts
    <2> QED BY <1>10, <2>1, <2>2 DEF FillBackup
  <1>11. CASE OpenFile
    <2>1. CASE Put("file", buf, FALSE) /\ pc' = "write" /\ NoFault /\ UNCHANGED failed
      BY <1>11, <2>1, FileTypes, PutDisk DEF TypeOK, OpenFile, Fault, NoFault, step,
          jed, ghosts
    <2>2. CASE Fault("open") /\ failed' = TRUE /\ pc' = "wrote"
               /\ UNCHANGED <<disk, inodes>>
      BY <1>11, <2>2, FileTypes DEF TypeOK, OpenFile, Fault, NoFault, step, jed, ghosts
    <2> QED BY <1>11, <2>1, <2>2 DEF OpenFile
  <1>12. CASE WriteOut
    <2>1. CASE Put("file", buf, TRUE) /\ NoFault /\ UNCHANGED failed
      BY <1>12, <2>1, FileTypes, PutDisk DEF TypeOK, WriteOut, Fault, NoFault, step,
          jed, ghosts
    <2>2. CASE Fault("write") /\ failed' = TRUE /\ UNCHANGED <<disk, inodes>>
      BY <1>12, <2>2, FileTypes DEF TypeOK, WriteOut, Fault, NoFault, step, jed, ghosts
    <2> QED BY <1>12, <2>1, <2>2 DEF WriteOut
  <1>13. CASE Written
    BY <1>13, FileTypes DEF TypeOK, Written, Unlink, counters
  <1>14. CASE RestoreFile
    BY <1>14, FileTypes DEF TypeOK, RestoreFile, Unlink, step, jed, ghosts
  <1>15. CASE RenameBack
    <2>1. CASE Rename("backup", "file") /\ NoFault /\ Restored(Inode("backup"))
               /\ UNCHANGED inodes
      BY <1>15, <2>1, FileTypes, RenameDisk DEF TypeOK, RenameBack, Restored, Fault,
          NoFault, step, jed, ghosts
    <2>2. CASE Fault("restore") /\ pc' = "copyback"
               /\ UNCHANGED <<disk, failed, backedUp, inodes, step>>
      BY <1>15, <2>2, FileTypes DEF TypeOK, RenameBack, Restored, Fault, NoFault, step,
          jed, ghosts
    <2> QED BY <1>15, <2>1, <2>2 DEF RenameBack
  <1>16. CASE CopyBack
    <2>1. CASE CreateCopy("backup", "file") /\ pc' = "fillback" /\ NoFault
               /\ UNCHANGED <<failed, backedUp, step>>
      BY <1>16, <2>1, FileTypes, CreateCopyDisk DEF TypeOK, CopyBack, Restored, Fault,
          NoFault, step, jed, ghosts
    <2>2. CASE Fault("copy") /\ UNCHANGED <<disk, inodes>> /\ Restored(Missing)
      BY <1>16, <2>2, FileTypes DEF TypeOK, CopyBack, Restored, Fault, NoFault, step,
          jed, ghosts
    <2> QED BY <1>16, <2>1, <2>2 DEF CopyBack
  <1>17. CASE FillBack
    <2>1. CASE FillCopy("backup", "file") /\ NoFault
      BY <1>17, <2>1, FileTypes, FillCopyDisk DEF TypeOK, FillBack, Restored, Fault,
          NoFault, ghosts
    <2>2. CASE Fault("copy") /\ UNCHANGED disk
      BY <1>17, <2>2, FileTypes DEF TypeOK, FillBack, Restored, Fault, NoFault, ghosts
    <2> QED BY <1>17, <2>1, <2>2 DEF FillBack
  <1>18. CASE Tick
    BY <1>18, FileTypes DEF TypeOK, Tick, jed, counters, ghosts
  <1>19. CASE Foreign
    BY <1>19, FileTypes DEF TypeOK, Foreign, jed
  <1> QED BY <1>1, <1>2, <1>3, <1>4, <1>5, <1>6, <1>7, <1>8, <1>9, <1>10, <1>11, <1>12,
      <1>13, <1>14, <1>15, <1>16, <1>17, <1>18, <1>19
      DEF Next, Command, Saving

(* With time stamps that tell, each step keeps what the user knows.         *)
LEMMA SeenInvStep ==
  ASSUME SaveInv, Next, TypeOK', StampsTell, SeenInv
  PROVE  SeenInv'
  <1>0. TypeOK
    BY DEF SaveInv
  <1> USE <1>0, SaveAssumption DEF SaveInv, Exists, Inode, Mtime, Names, Rest, Before,
      Midway, After, Flags, Copies, Same, Whole, SeenInv, StampsTell, Times
  <1>1. CASE Edit
    BY <1>1, FileTypes DEF TypeOK, Edit
  <1>2. CASE Save
    BY <1>2, FileTypes DEF TypeOK, Save, BeginSave, Told, OtherInode, ChangedOnDisk
  <1>3. CASE Declined
    BY <1>3, FileTypes DEF TypeOK, Declined, jed, counters, ghosts
  <1>4. CASE AutoSave
    BY <1>4, FileTypes DEF TypeOK, AutoSave, BeginSave, jed, ghosts
  <1>5. CASE AutoDelete
    BY <1>5, FileTypes DEF TypeOK, AutoDelete, Unlink, jed, counters
  <1>6. CASE AutoWrite
    <2>1. CASE Put("autosave", buf, TRUE) /\ kept' = buf /\ NoFault
      BY <1>6, <2>1, FileTypes, PutDisk DEF TypeOK, AutoWrite, Fault, NoFault, jed
    <2>2. CASE Fault("autosave") /\ UNCHANGED kept /\ Put("autosave", buf, FALSE)
      BY <1>6, <2>2, FileTypes, PutDisk DEF TypeOK, AutoWrite, Fault, NoFault, jed
    <2>3. CASE Fault("autosave") /\ UNCHANGED <<kept, disk, inodes>>
      BY <1>6, <2>3, FileTypes DEF TypeOK, AutoWrite, Fault, NoFault, jed
    <2> QED BY <1>6, <2>1, <2>2, <2>3 DEF AutoWrite
  <1>7. CASE Backup
    BY <1>7, FileTypes DEF TypeOK, Backup, AllMethods, Unlink, step, jed, ghosts
  <1>8. CASE RenameToBackup
    <2>1. CASE Rename("file", "backup") /\ NoFault /\ backedUp' = TRUE /\ pc' = "open"
      BY <1>8, <2>1, FileTypes, RenameDisk DEF TypeOK, RenameToBackup, Fault, NoFault,
          step, jed, ghosts
    <2>2. CASE Fault("rename") /\ pc' = "copy" /\ UNCHANGED <<disk, backedUp>>
      BY <1>8, <2>2, FileTypes DEF TypeOK, RenameToBackup, Fault, NoFault, step, jed,
          ghosts
    <2> QED BY <1>8, <2>1, <2>2 DEF RenameToBackup
  <1>9. CASE CopyToBackup
    <2>1. CASE CreateCopy("file", "backup") /\ pc' = "fill" /\ NoFault
      BY <1>9, <2>1, FileTypes, CreateCopyDisk DEF TypeOK, CopyToBackup, Fault, NoFault,
          step, jed, ghosts
    <2>2. CASE Fault("copy") /\ pc' = "open" /\ UNCHANGED <<disk, inodes>>
      BY <1>9, <2>2, FileTypes DEF TypeOK, CopyToBackup, Fault, NoFault, step, jed,
          ghosts
    <2> QED BY <1>9, <2>1, <2>2 DEF CopyToBackup
  <1>10. CASE FillBackup
    <2>1. CASE FillCopy("file", "backup") /\ backedUp' = TRUE /\ NoFault
      BY <1>10, <2>1, FileTypes, FillCopyDisk DEF TypeOK, FillBackup, Fault, NoFault,
          step, jed, ghosts
    <2>2. CASE Fault("copy") /\ UNCHANGED <<disk, backedUp>>
      BY <1>10, <2>2, FileTypes DEF TypeOK, FillBackup, Fault, NoFault, step, jed,
          ghosts
    <2> QED BY <1>10, <2>1, <2>2 DEF FillBackup
  <1>11. CASE OpenFile
    <2>1. CASE Put("file", buf, FALSE) /\ pc' = "write" /\ NoFault /\ UNCHANGED failed
      BY <1>11, <2>1, FileTypes, PutDisk DEF TypeOK, OpenFile, Fault, NoFault, step,
          jed, ghosts
    <2>2. CASE Fault("open") /\ failed' = TRUE /\ pc' = "wrote"
               /\ UNCHANGED <<disk, inodes>>
      BY <1>11, <2>2, FileTypes DEF TypeOK, OpenFile, Fault, NoFault, step, jed, ghosts
    <2> QED BY <1>11, <2>1, <2>2 DEF OpenFile
  <1>12. CASE WriteOut
    <2>1. CASE Put("file", buf, TRUE) /\ NoFault /\ UNCHANGED failed
      BY <1>12, <2>1, FileTypes, PutDisk DEF TypeOK, WriteOut, Fault, NoFault, step,
          jed, ghosts
    <2>2. CASE Fault("write") /\ failed' = TRUE /\ UNCHANGED <<disk, inodes>>
      BY <1>12, <2>2, FileTypes DEF TypeOK, WriteOut, Fault, NoFault, step, jed, ghosts
    <2> QED BY <1>12, <2>1, <2>2 DEF WriteOut
  <1>13. CASE Written
    BY <1>13, FileTypes DEF TypeOK, Written, Unlink, counters
  <1>14. CASE RestoreFile
    BY <1>14, FileTypes DEF TypeOK, RestoreFile, Unlink, step, jed, ghosts
  <1>15. CASE RenameBack
    <2>1. CASE Rename("backup", "file") /\ NoFault /\ Restored(Inode("backup"))
               /\ UNCHANGED inodes
      BY <1>15, <2>1, FileTypes, RenameDisk DEF TypeOK, RenameBack, Restored, Fault,
          NoFault, step, jed, ghosts
    <2>2. CASE Fault("restore") /\ pc' = "copyback"
               /\ UNCHANGED <<disk, failed, backedUp, inodes, step>>
      BY <1>15, <2>2, FileTypes DEF TypeOK, RenameBack, Restored, Fault, NoFault, step,
          jed, ghosts
    <2> QED BY <1>15, <2>1, <2>2 DEF RenameBack
  <1>16. CASE CopyBack
    <2>1. CASE CreateCopy("backup", "file") /\ pc' = "fillback" /\ NoFault
               /\ UNCHANGED <<failed, backedUp, step>>
      BY <1>16, <2>1, FileTypes, CreateCopyDisk DEF TypeOK, CopyBack, Restored, Fault,
          NoFault, step, jed, ghosts
    <2>2. CASE Fault("copy") /\ UNCHANGED <<disk, inodes>> /\ Restored(Missing)
      BY <1>16, <2>2, FileTypes DEF TypeOK, CopyBack, Restored, Fault, NoFault, step,
          jed, ghosts
    <2> QED BY <1>16, <2>1, <2>2 DEF CopyBack
  <1>17. CASE FillBack
    <2>1. CASE FillCopy("backup", "file") /\ NoFault
      BY <1>17, <2>1, FileTypes, FillCopyDisk DEF TypeOK, FillBack, Restored, Fault,
          NoFault, ghosts
    <2>2. CASE Fault("copy") /\ UNCHANGED disk
      BY <1>17, <2>2, FileTypes DEF TypeOK, FillBack, Restored, Fault, NoFault, ghosts
    <2> QED BY <1>17, <2>1, <2>2 DEF FillBack
  <1>18. CASE Tick
    BY <1>18, FileTypes DEF TypeOK, Tick, jed, counters, ghosts
  <1>19. CASE Foreign
    BY <1>19, FileTypes DEF TypeOK, Foreign, jed
  <1> QED BY <1>1, <1>2, <1>3, <1>4, <1>5, <1>6, <1>7, <1>8, <1>9, <1>10, <1>11, <1>12,
      <1>13, <1>14, <1>15, <1>16, <1>17, <1>18, <1>19
      DEF Next, Command, Saving

(* Each step has a file where the save goes on with it.                     *)
LEMMA PlaceTypeStep ==
  ASSUME SaveInv, Next
  PROVE  PlaceType'
  <1>0. TypeOK
    BY DEF SaveInv
  <1> USE <1>0, SaveAssumption DEF SaveInv, Exists, Inode, Mtime, Names, Rest, Before,
      Midway, After, PlaceType, Flags, Copies, Same
  <1>1. CASE Edit
    BY <1>1, FileTypes DEF TypeOK, Edit
  <1>2. CASE Save
    BY <1>2, FileTypes DEF TypeOK, Save, BeginSave, Told, OtherInode, ChangedOnDisk
  <1>3. CASE Declined
    BY <1>3, FileTypes DEF TypeOK, Declined, jed, counters, ghosts
  <1>4. CASE AutoSave
    BY <1>4, FileTypes DEF TypeOK, AutoSave, BeginSave, jed, ghosts
  <1>5. CASE AutoDelete
    BY <1>5, FileTypes DEF TypeOK, AutoDelete, Unlink, jed, counters
  <1>6. CASE AutoWrite
    <2>1. CASE Put("autosave", buf, TRUE) /\ kept' = buf /\ NoFault
      BY <1>6, <2>1, FileTypes, PutDisk DEF TypeOK, AutoWrite, Fault, NoFault, jed
    <2>2. CASE Fault("autosave") /\ UNCHANGED kept /\ Put("autosave", buf, FALSE)
      BY <1>6, <2>2, FileTypes, PutDisk DEF TypeOK, AutoWrite, Fault, NoFault, jed
    <2>3. CASE Fault("autosave") /\ UNCHANGED <<kept, disk, inodes>>
      BY <1>6, <2>3, FileTypes DEF TypeOK, AutoWrite, Fault, NoFault, jed
    <2> QED BY <1>6, <2>1, <2>2, <2>3 DEF AutoWrite
  <1>7. CASE Backup
    BY <1>7, FileTypes DEF TypeOK, Backup, AllMethods, Unlink, step, jed, ghosts
  <1>8. CASE RenameToBackup
    <2>1. CASE Rename("file", "backup") /\ NoFault /\ backedUp' = TRUE /\ pc' = "open"
      BY <1>8, <2>1, FileTypes, RenameDisk DEF TypeOK, RenameToBackup, Fault, NoFault,
          step, jed, ghosts
    <2>2. CASE Fault("rename") /\ pc' = "copy" /\ UNCHANGED <<disk, backedUp>>
      BY <1>8, <2>2, FileTypes DEF TypeOK, RenameToBackup, Fault, NoFault, step, jed,
          ghosts
    <2> QED BY <1>8, <2>1, <2>2 DEF RenameToBackup
  <1>9. CASE CopyToBackup
    <2>1. CASE CreateCopy("file", "backup") /\ pc' = "fill" /\ NoFault
      BY <1>9, <2>1, FileTypes, CreateCopyDisk DEF TypeOK, CopyToBackup, Fault, NoFault,
          step, jed, ghosts
    <2>2. CASE Fault("copy") /\ pc' = "open" /\ UNCHANGED <<disk, inodes>>
      BY <1>9, <2>2, FileTypes DEF TypeOK, CopyToBackup, Fault, NoFault, step, jed,
          ghosts
    <2> QED BY <1>9, <2>1, <2>2 DEF CopyToBackup
  <1>10. CASE FillBackup
    <2>1. CASE FillCopy("file", "backup") /\ backedUp' = TRUE /\ NoFault
      BY <1>10, <2>1, FileTypes, FillCopyDisk DEF TypeOK, FillBackup, Fault, NoFault,
          step, jed, ghosts
    <2>2. CASE Fault("copy") /\ UNCHANGED <<disk, backedUp>>
      BY <1>10, <2>2, FileTypes DEF TypeOK, FillBackup, Fault, NoFault, step, jed,
          ghosts
    <2> QED BY <1>10, <2>1, <2>2 DEF FillBackup
  <1>11. CASE OpenFile
    <2>1. CASE Put("file", buf, FALSE) /\ pc' = "write" /\ NoFault /\ UNCHANGED failed
      BY <1>11, <2>1, FileTypes, PutDisk DEF TypeOK, OpenFile, Fault, NoFault, step,
          jed, ghosts
    <2>2. CASE Fault("open") /\ failed' = TRUE /\ pc' = "wrote"
               /\ UNCHANGED <<disk, inodes>>
      BY <1>11, <2>2, FileTypes DEF TypeOK, OpenFile, Fault, NoFault, step, jed, ghosts
    <2> QED BY <1>11, <2>1, <2>2 DEF OpenFile
  <1>12. CASE WriteOut
    <2>1. CASE Put("file", buf, TRUE) /\ NoFault /\ UNCHANGED failed
      BY <1>12, <2>1, FileTypes, PutDisk DEF TypeOK, WriteOut, Fault, NoFault, step,
          jed, ghosts
    <2>2. CASE Fault("write") /\ failed' = TRUE /\ UNCHANGED <<disk, inodes>>
      BY <1>12, <2>2, FileTypes DEF TypeOK, WriteOut, Fault, NoFault, step, jed, ghosts
    <2> QED BY <1>12, <2>1, <2>2 DEF WriteOut
  <1>13. CASE Written
    BY <1>13, FileTypes DEF TypeOK, Written, Unlink, counters
  <1>14. CASE RestoreFile
    BY <1>14, FileTypes DEF TypeOK, RestoreFile, Unlink, step, jed, ghosts
  <1>15. CASE RenameBack
    <2>1. CASE Rename("backup", "file") /\ NoFault /\ Restored(Inode("backup"))
               /\ UNCHANGED inodes
      BY <1>15, <2>1, FileTypes, RenameDisk DEF TypeOK, RenameBack, Restored, Fault,
          NoFault, step, jed, ghosts
    <2>2. CASE Fault("restore") /\ pc' = "copyback"
               /\ UNCHANGED <<disk, failed, backedUp, inodes, step>>
      BY <1>15, <2>2, FileTypes DEF TypeOK, RenameBack, Restored, Fault, NoFault, step,
          jed, ghosts
    <2> QED BY <1>15, <2>1, <2>2 DEF RenameBack
  <1>16. CASE CopyBack
    <2>1. CASE CreateCopy("backup", "file") /\ pc' = "fillback" /\ NoFault
               /\ UNCHANGED <<failed, backedUp, step>>
      BY <1>16, <2>1, FileTypes, CreateCopyDisk DEF TypeOK, CopyBack, Restored, Fault,
          NoFault, step, jed, ghosts
    <2>2. CASE Fault("copy") /\ UNCHANGED <<disk, inodes>> /\ Restored(Missing)
      BY <1>16, <2>2, FileTypes DEF TypeOK, CopyBack, Restored, Fault, NoFault, step,
          jed, ghosts
    <2> QED BY <1>16, <2>1, <2>2 DEF CopyBack
  <1>17. CASE FillBack
    <2>1. CASE FillCopy("backup", "file") /\ NoFault
      BY <1>17, <2>1, FileTypes, FillCopyDisk DEF TypeOK, FillBack, Restored, Fault,
          NoFault, ghosts
    <2>2. CASE Fault("copy") /\ UNCHANGED disk
      BY <1>17, <2>2, FileTypes DEF TypeOK, FillBack, Restored, Fault, NoFault, ghosts
    <2> QED BY <1>17, <2>1, <2>2 DEF FillBack
  <1>18. CASE Tick
    BY <1>18, FileTypes DEF TypeOK, Tick, jed, counters, ghosts
  <1>19. CASE Foreign
    BY <1>19, FileTypes DEF TypeOK, Foreign, jed
  <1> QED BY <1>1, <1>2, <1>3, <1>4, <1>5, <1>6, <1>7, <1>8, <1>9, <1>10, <1>11, <1>12,
      <1>13, <1>14, <1>15, <1>16, <1>17, <1>18, <1>19
      DEF Next, Command, Saving
-----------------------------------------------------------------------------
(* A file just found is safe ...                                            *)
LEMMA SaveInvInit == Init => SaveInv
  <1> SUFFICES ASSUME Init PROVE SaveInv
    OBVIOUS
  <1> USE SaveAssumption DEF Init
  <1> DEFINE r == [v |-> 0, whole |-> TRUE, mtime |-> 1, inode |-> 1]
  <1>1. r \in FileData
    BY DEF FileData
  <1> HIDE DEF r
  <1>2. disk = [n \in Names |-> IF n = "file" THEN r ELSE Missing]
    BY DEF r
  <1>3. disk["file"] = r /\ disk["file"] # Missing
        /\ disk["backup"] = Missing /\ disk["autosave"] = Missing
    BY <1>1, <1>2 DEF Names
  <1>4. r.v = 0 /\ r.whole = TRUE /\ r.mtime = 1
    BY DEF r
  <1>5. DiskType
    BY <1>1, <1>2 DEF DiskType
  <1>6. TypeOK
    <2>1. PlaceType
      BY DEF PlaceType
    <2>2. pc \in Rest \cup Before \cup Midway \cup After /\ method \in Methods
      BY DEF Rest
    <2>3. clock \in Nat /\ buf \in Nat /\ c_time \in Nat /\ inode \in Nat \cup {Missing}
          /\ versions \in Nat /\ saves \in Nat /\ faults \in Nat
          /\ stable \in Nat \cup {Missing} /\ kept \in Nat \cup {Missing}
      OBVIOUS
    <2>4. seen \subseteq Nat
      OBVIOUS
    <2>5. modified \in BOOLEAN /\ changed \in BOOLEAN /\ failed \in BOOLEAN
          /\ backedUp \in BOOLEAN /\ dirty \in BOOLEAN /\ foreign \in BOOLEAN
      OBVIOUS
    <2>6. PlainType
      BY <2>2, <2>3, <2>4, <2>5 DEF PlainType
    <2> QED BY <1>5, <2>1, <2>6, TypeParts
  <1>7. Flags /\ Copies /\ AutosaveKept
    BY DEF Flags, Copies, AutosaveKept, Rest, Before, Midway, After
  <1>8. Saved
    BY <1>3, <1>4 DEF Saved, Whole, Exists
  <1>9. Times
    BY <1>3, <1>4 DEF Times, Names, Exists, Midway, After
  <1> QED BY <1>6, <1>7, <1>8, <1>9 DEF SaveInv

(* ... and every step keeps it so.                                          *)
LEMMA SaveInvStep == SaveInv /\ [Next]_vars => SaveInv'
  <1> SUFFICES ASSUME SaveInv, [Next]_vars PROVE SaveInv'
    OBVIOUS
  <1>1. CASE Next
    <2>1. DiskType' /\ PlainType' /\ PlaceType'
      BY <1>1, DiskTypeStep, PlainTypeStep, PlaceTypeStep
    <2>2. TypeOK'
      BY <2>1, TypeParts, PTL
    <2> QED BY <1>1, <2>2, FlagsStep, CopiesStep, AutosaveKeptStep, SavedStep, TimesStep
            DEF SaveInv
  <1>2. CASE UNCHANGED vars
    BY <1>2 DEF SaveInv, TypeOK, Flags, Copies, Same, AutosaveKept, Saved, Times, Whole,
                Exists, vars, jed, counters, ghosts
  <1> QED BY <1>1, <1>2
-----------------------------------------------------------------------------
(* The theorems.                                                           *)

(* Every variable of a save keeps its type, and no step goes on with a     *)
(* file that is not there.                                                 *)
THEOREM SaveTypeCorrect == Spec => []TypeOK
  <1>1. SaveInv => TypeOK
    BY DEF SaveInv
  <1> QED BY <1>1, SaveInvInit, SaveInvStep, PTL DEF Spec

(* Whatever calls of a save fail, and wherever JED dies, no text is lost:  *)
(* neither that of the file, which is whole in the file or the backup, nor *)
(* the autosaved one.                                                      *)
THEOREM SaveLosesNoText == Spec => []NoTextLost
  <1>1. SaveInv => NoTextLost
    BY DEF SaveInv, NoTextLost, TypeOK, TextSurvives, Flags, Copies, Rest, Before,
        Midway,
           After
  <1> QED BY <1>1, SaveInvInit, SaveInvStep, PTL DEF Spec

(* No failure on the way to the disk marks the buffer saved.               *)
THEOREM SaveMarksTruly == Spec => []UnmodifiedIsSaved
  <1>1. SaveInv => UnmodifiedIsSaved
    BY DEF SaveInv, Saved, UnmodifiedIsSaved, Rest
  <1> QED BY <1>1, SaveInvInit, SaveInvStep, PTL DEF Spec

(* JED does not take its own writing for that of somebody else.            *)
THEOREM SaveKnowsItsOwnFile == Spec => []KnowsItsOwnFile
  <1>1. ASSUME SaveInv PROVE KnowsItsOwnFile
    <2> SUFFICES ASSUME c_time # 0, pc = "idle", ~foreign, Exists("file")
                 PROVE  ~(Mtime("file") > c_time)
      BY DEF KnowsItsOwnFile, NoFalseAlarm, ChangedOnDisk
    <2>1. disk["file"].mtime <= c_time
      BY <1>1 DEF SaveInv, Times, Rest
    <2>2. disk["file"].mtime \in Nat /\ c_time \in Nat
      BY <1>1, FileTypes DEF SaveInv, TypeOK, Names
    <2> QED BY <2>1, <2>2 DEF Mtime
  <1> QED BY <1>1, SaveInvInit, SaveInvStep, PTL DEF Spec

(* A save overwrites no version that the user does not know of, as long as *)
(* the time stamps tell when a file was changed.                           *)
THEOREM SaveOverwritesNothingUnseen ==
  ASSUME StampsTell PROVE Spec => NoSilentOverwrite
  <1> DEFINE Overwrite ==
        (pc \in {"rename", "open"} /\ Exists("file") /\ disk'["file"] # disk["file"])
          => disk["file"].v \in seen
  <1>1. Init => SeenInv
    <2> SUFFICES ASSUME Init PROVE SeenInv
      OBVIOUS
    <2>1. disk["file"].v = 0
      BY DEF Init, Names
    <2> QED BY <2>1 DEF Init, SeenInv, Before, Midway, After
  <1>2. SaveInv /\ SaveInv' /\ SeenInv /\ [Next]_vars => SeenInv'
    <2> SUFFICES ASSUME SaveInv, SaveInv', SeenInv, [Next]_vars PROVE SeenInv'
      OBVIOUS
    <2>1. CASE Next
      BY <2>1, SeenInvStep DEF SaveInv
    <2>2. CASE UNCHANGED vars
      BY <2>2 DEF SeenInv, Exists, vars, jed, ghosts
    <2> QED BY <2>1, <2>2
  <1>3. SeenInv => [Overwrite]_vars
    BY DEF SeenInv, Before, Midway
  <1> QED BY <1>1, <1>2, <1>3, SaveInvInit, SaveInvStep, PTL DEF Spec, NoSilentOverwrite
=============================================================================
