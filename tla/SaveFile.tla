------------------------------ MODULE SaveFile ------------------------------
(***************************************************************************)
(* Saving one buffer to its file (file.c, ledit.c), with the backup, the   *)
(* autosave file and the tests that tell whether somebody else has changed *)
(* the file.                                                               *)
(*                                                                         *)
(* The text is a version number.  A file is a record of the version it     *)
(* holds, whether it holds all of it, its time stamp and its inode.  Each  *)
(* system call that changes the disk is an action: a crash leaves the disk *)
(* as it is, so that what an invariant says of the disk at every state it  *)
(* says of a crash there.  The calls of Faults may fail.  Other programs   *)
(* (Foreign actions) change the file while JED waits for a key.            *)
(***************************************************************************)
EXTENDS Naturals, FiniteSets

CONSTANTS
  Missing,     \* no such file, and no inode (-1)
  Methods,     \* how the file may be backed up, a subset of AllMethods
  Faults,      \* the calls that may fail, a subset of AllFaults
  MaxFaults,   \* bound on the failing calls
  Foreigners,  \* what other programs do, a subset of AllForeigners
  SameSecond,  \* may they do it in the second in which JED looked last?
  MaxVersions, \* bound on the versions of the text
  MaxSaves,    \* bound on saves and autosaves
  MaxTime      \* bound on the clock (seconds)

(* No backup (make_backup_filename gives no name), by rename(2), or by a    *)
(* copy (BACKUP_BY_COPYING, or the file has other hard links).             *)
AllMethods == {"none", "rename", "copy"}
AllFaults == {"rename", "copy", "open", "write", "restore", "autosave"}
AllForeigners == {"write", "replace", "putback"}
Names == {"file", "backup", "autosave"}

FileData == [v: Nat, whole: BOOLEAN, mtime: Nat, inode: Nat]

ASSUME SaveAssumption ==
  /\ Missing \notin Nat \cup FileData
  /\ Methods \subseteq AllMethods /\ SameSecond \in BOOLEAN
  /\ Faults \subseteq AllFaults /\ Foreigners \subseteq AllForeigners
  /\ MaxFaults \in Nat /\ MaxVersions \in Nat /\ MaxSaves \in Nat /\ MaxTime \in Nat

VARIABLES
  disk,      \* disk[n]: the file of name n, or Missing
  clock,     \* the time in seconds
  buf,       \* the version of the text in the buffer
  modified,  \* BUFFER_MODIFIED
  changed,   \* FILE_MODIFIED: the file has changed on disk
  c_time,    \* CBuf->c_time
  inode,     \* CBuf->inode
  pc,        \* where the save is
  method,    \* how the file is backed up
  failed,    \* write_file_internal returned -1
  backedUp,  \* backup_went_ok
  inodes,    \* number of inodes used so far
  versions,  \* number of versions so far
  saves,     \* number of saves and autosaves so far
  faults,    \* number of calls that have failed
  seen,      \* ghost: the versions the user has read, written, or been told of
  stable,    \* ghost: the version the file had when the save began
  dirty,     \* ghost: was the buffer modified when the save began?
  kept,      \* ghost: the version last autosaved and not saved since, or Missing
  foreign    \* ghost: has another program changed the file since JED looked?

jed == <<buf, modified, changed, c_time, inode, method>>
ghosts == <<seen, stable, dirty, kept, foreign>>
counters == <<inodes, versions, saves, faults>>
vars == <<disk, clock, jed, pc, failed, backedUp, counters, ghosts>>

(* find_file: the file has been read and then looked at.                   *)
Init ==
  /\ method \in Methods
  /\ disk = [n \in Names |-> IF n = "file"
               THEN [v |-> 0, whole |-> TRUE, mtime |-> 1, inode |-> 1] ELSE Missing]
  /\ clock = 1
  /\ buf = 0 /\ modified = FALSE /\ changed = FALSE
  /\ c_time = 1 /\ inode = 1
  /\ pc = "idle" /\ failed = FALSE /\ backedUp = FALSE
  /\ inodes = 1 /\ versions = 0 /\ saves = 0 /\ faults = 0
  /\ seen = {0} /\ stable = 0 /\ dirty = FALSE /\ kept = Missing /\ foreign = FALSE

Exists(n) == disk[n] # Missing
Mtime(n) == IF Exists(n) THEN disk[n].mtime ELSE 0
Inode(n) == IF Exists(n) THEN disk[n].inode ELSE Missing
Whole(n, v) == Exists(n) /\ disk[n].whole /\ disk[n].v = v

Fault(f) == f \in Faults /\ faults < MaxFaults /\ faults' = faults + 1
NoFault == UNCHANGED faults

(* A file under name n with part or all of version v; an existing file     *)
(* keeps its inode.                                                        *)
Put(n, v, whole) ==
  /\ disk' = [disk EXCEPT ![n] =
       [v |-> v, whole |-> whole, mtime |-> clock,
        inode |-> IF Exists(n) THEN Inode(n) ELSE inodes + 1]]
  /\ inodes' = IF Exists(n) THEN inodes ELSE inodes + 1

Unlink(n) == disk' = [disk EXCEPT ![n] = Missing]

(* rename(from, to)                                                        *)
Rename(from, to) == disk' = [disk EXCEPT ![to] = disk[from], ![from] = Missing]
-----------------------------------------------------------------------------
(* Has the file changed on disk?                                           *)

(* Mutant: the time stamp is not looked at.                                *)
BugChangedOnDisk == IF Exists("file") THEN 0 ELSE 1

(* What file_changed_on_disk returns ...                                   *)
ChangedOnDisk ==
  IF Exists("file") THEN IF Mtime("file") > c_time THEN 1 ELSE 0
  ELSE IF c_time = 0 \/ modified THEN 0 ELSE 2   \* -1 in the code

(* ... and FILE_MODIFIED, which it sets when the inode is another one.     *)
OtherInode == inode # Missing /\ Inode("file") # inode

(* The user was told and goes ahead: he knows what the file has.           *)
Told == seen' = IF Exists("file") THEN seen \cup {disk["file"].v} ELSE seen
-----------------------------------------------------------------------------
(* Commands.                                                               *)

(* A change of the text.  jed_prepare_for_modification checks the file     *)
(* before the first one and asks if it has changed.                        *)
Edit ==
  /\ pc = "idle" /\ versions < MaxVersions
  /\ LET check == ~modified /\ ~changed
         alarm == ~modified /\ (changed \/ OtherInode \/ ChangedOnDisk # 0)
     IN /\ inode' = IF check THEN Inode("file") ELSE inode
        /\ changed' = (changed \/ alarm)
        /\ \/ /\ versions' = versions + 1 /\ buf' = versions + 1
              /\ modified' = TRUE
              /\ seen' = (IF alarm /\ Exists("file") THEN seen \cup {disk["file"].v}
                          ELSE seen) \cup {versions + 1}
           \/ alarm /\ UNCHANGED <<versions, buf, modified, seen>>
  /\ UNCHANGED <<disk, clock, method, c_time, pc, failed, backedUp, inodes, saves, faults,
                 stable, dirty, kept, foreign>>

BeginSave(place) ==
  /\ pc = "idle" /\ saves < MaxSaves
  /\ saves' = saves + 1
  /\ pc' = place

(* jed_save_buffer_to_file asks if the file has changed; the user may say  *)
(* no.  A hook that returns -1 turns the save into an autosave.            *)
Save ==
  /\ \E next \in {"backup", "autosave"} :
       BeginSave(IF next = "autosave" /\ ~modified THEN "idle" ELSE next)
  /\ inode' = Inode("file")
  /\ changed' = (changed \/ OtherInode)
  /\ IF ChangedOnDisk = 1 THEN Told ELSE UNCHANGED seen
  /\ IF pc' = "backup"
     THEN /\ failed' = FALSE /\ backedUp' = FALSE /\ dirty' = modified
          /\ stable' = IF Exists("file") /\ disk["file"].whole
                       THEN disk["file"].v ELSE Missing
     ELSE UNCHANGED <<failed, backedUp, stable, dirty>>
  /\ UNCHANGED <<disk, clock, method, buf, modified, c_time, inodes, versions, faults,
                 kept, foreign>>

Declined ==
  /\ pc = "idle" /\ ChangedOnDisk = 1
  /\ inode' = Inode("file")
  /\ changed' = (changed \/ OtherInode)
  /\ UNCHANGED <<disk, clock, method, buf, modified, c_time, pc, failed, backedUp, counters,
                 ghosts>>

(* auto_save_buffer: the old autosave file goes first.                     *)
AutoSave ==
  /\ modified
  /\ BeginSave("autosave")
  /\ UNCHANGED <<disk, clock, jed, failed, backedUp, inodes, versions, faults, ghosts>>
-----------------------------------------------------------------------------
(* auto_save_buffer.                                                       *)

AutoDelete ==
  /\ pc = "autosave" /\ pc' = "autowrite"
  /\ Unlink("autosave")
  /\ kept' = Missing
  /\ UNCHANGED <<clock, jed, failed, backedUp, counters, seen, stable, dirty, foreign>>

AutoWrite ==
  /\ pc = "autowrite" /\ pc' = "idle"
  /\ \/ Put("autosave", buf, TRUE) /\ kept' = buf /\ NoFault
     \/ Fault("autosave") /\ UNCHANGED kept
        /\ (Put("autosave", buf, FALSE) \/ UNCHANGED <<disk, inodes>>)
  /\ UNCHANGED <<clock, jed, failed, backedUp, versions, saves, seen, stable, dirty, foreign>>
-----------------------------------------------------------------------------
(* write_file_with_backup.                                                 *)

step == <<clock, jed, versions, saves, ghosts>>

(* perform_backup (dirfile, old, 0): rename, unless the file is to be      *)
(* copied; unlink(old) precedes either.                                    *)
Backup ==
  /\ pc = "backup"
  /\ IF method # "none" /\ Exists("file")
     THEN Unlink("backup") /\ pc' = method
     ELSE pc' = "open" /\ UNCHANGED disk
  /\ UNCHANGED <<failed, backedUp, inodes, faults, step>>

RenameToBackup ==
  /\ pc = "rename"
  /\ \/ Rename("file", "backup") /\ NoFault
        /\ backedUp' = TRUE /\ pc' = "open"
     \/ Fault("rename") /\ pc' = "copy" /\ UNCHANGED <<disk, backedUp>>
  /\ UNCHANGED <<failed, inodes, step>>

(* jed_copy_file creates the copy, fills it and gives it the time stamp of *)
(* the original.                                                           *)
CreateCopy(from, to) ==
  /\ disk' = [disk EXCEPT ![to] =
       [disk[from] EXCEPT !.whole = FALSE, !.inode = inodes + 1]]
  /\ inodes' = inodes + 1

FillCopy(from, to) == disk' = [disk EXCEPT ![to].whole = disk[from].whole]

CopyToBackup ==
  /\ pc = "copy"
  /\ \/ CreateCopy("file", "backup") /\ pc' = "fill" /\ NoFault
     \/ Fault("copy") /\ pc' = "open" /\ UNCHANGED <<disk, inodes>>
  /\ UNCHANGED <<failed, backedUp, step>>

FillBackup ==
  /\ pc = "fill" /\ pc' = "open"
  /\ \/ FillCopy("file", "backup") /\ backedUp' = TRUE /\ NoFault
     \/ Fault("copy") /\ UNCHANGED <<disk, backedUp>>
  /\ UNCHANGED <<failed, inodes, step>>

(* write_file_internal: the lock may be refused or the file not opened;    *)
(* opening it truncates it.                                                *)
OpenFile ==
  /\ pc = "open"
  /\ \/ Put("file", buf, FALSE) /\ pc' = "write" /\ NoFault /\ UNCHANGED failed
     \/ Fault("open") /\ failed' = TRUE /\ pc' = "wrote" /\ UNCHANGED <<disk, inodes>>
  /\ UNCHANGED <<backedUp, step>>

WriteOut ==
  /\ pc = "write" /\ pc' = "wrote"
  /\ \/ Put("file", buf, TRUE) /\ NoFault /\ UNCHANGED failed
     \/ Fault("write") /\ failed' = TRUE /\ UNCHANGED <<disk, inodes>>
  /\ UNCHANGED <<backedUp, step>>

(* Mutant: the buffer is marked unmodified before the result is looked at. *)
BugWritten ==
  /\ pc = "wrote"
  /\ c_time' = Mtime("file") /\ inode' = Inode("file")
  /\ modified' = FALSE /\ changed' = FALSE
  /\ foreign' = FALSE
  /\ seen' = seen \cup {buf}
  /\ IF failed
     THEN pc' = (IF backedUp THEN "unlink" ELSE "idle") /\ UNCHANGED <<disk, kept>>
     ELSE pc' = "idle" /\ Unlink("autosave") /\ kept' = Missing
  /\ UNCHANGED <<clock, method, buf, failed, backedUp, counters, stable, dirty>>

(* Mutant: the time stamp of what was written is not taken.                *)
BugWrittenTime ==
  /\ pc = "wrote"
  /\ inode' = Inode("file")
  /\ foreign' = FALSE
  /\ IF failed
     THEN /\ pc' = IF backedUp THEN "unlink" ELSE "idle"
          /\ UNCHANGED <<disk, modified, changed, seen, kept>>
     ELSE /\ pc' = "idle"
          /\ Unlink("autosave") /\ kept' = Missing
          /\ modified' = FALSE /\ changed' = FALSE
          /\ seen' = seen \cup {buf}
  /\ UNCHANGED <<clock, method, buf, c_time, failed, backedUp, counters, stable, dirty>>

(* Mutant: the autosave file goes whether or not the save went well.       *)
BugWrittenDeletes ==
  /\ pc = "wrote"
  /\ c_time' = Mtime("file") /\ inode' = Inode("file")
  /\ foreign' = FALSE
  /\ Unlink("autosave")
  /\ IF failed
     THEN /\ pc' = IF backedUp THEN "unlink" ELSE "idle"
          /\ UNCHANGED <<modified, changed, seen, kept>>
     ELSE /\ pc' = "idle"
          /\ kept' = Missing /\ seen' = seen \cup {buf}
          /\ modified' = FALSE /\ changed' = FALSE
  /\ UNCHANGED <<clock, method, buf, failed, backedUp, counters, stable, dirty>>

(* After the write.  c_time is set before the backup is put back, the      *)
(* inode (again) after that.                                               *)
Written ==
  /\ pc = "wrote"
  /\ c_time' = Mtime("file") /\ inode' = Inode("file")
  /\ foreign' = FALSE
  /\ IF failed
     THEN /\ pc' = IF backedUp THEN "unlink" ELSE "idle"
          /\ UNCHANGED <<disk, modified, changed, seen, kept>>
     ELSE /\ pc' = "idle"
          /\ Unlink("autosave") /\ kept' = Missing
          /\ modified' = FALSE /\ changed' = FALSE
          /\ seen' = seen \cup {buf}
  /\ UNCHANGED <<clock, method, buf, failed, backedUp, counters, stable, dirty>>

(* Mutant: the restore is a copy that starts by deleting the original.     *)
BugRestoreFile ==
  /\ pc = "unlink" /\ pc' = "restore"
  /\ Unlink("backup")
  /\ UNCHANGED <<failed, backedUp, inodes, faults, step>>

(* perform_backup (old, dirfile, 1): put it back.                          *)
RestoreFile ==
  /\ pc = "unlink" /\ pc' = "restore"
  /\ Unlink("file")
  /\ UNCHANGED <<failed, backedUp, inodes, faults, step>>

Restored(n) ==
  /\ inode' = n
  /\ pc' = "idle"
  /\ UNCHANGED <<clock, method, buf, modified, changed, c_time, failed, backedUp, versions,
                 saves, ghosts>>

RenameBack ==
  /\ pc = "restore"
  /\ \/ Rename("backup", "file") /\ NoFault
        /\ Restored(Inode("backup")) /\ UNCHANGED inodes
     \/ Fault("restore") /\ pc' = "copyback"
        /\ UNCHANGED <<disk, failed, backedUp, inodes, step>>

CopyBack ==
  /\ pc = "copyback"
  /\ \/ CreateCopy("backup", "file") /\ pc' = "fillback" /\ NoFault
        /\ UNCHANGED <<failed, backedUp, step>>
     \/ Fault("copy") /\ UNCHANGED <<disk, inodes>> /\ Restored(Missing)

FillBack ==
  /\ pc = "fillback"
  /\ \/ FillCopy("backup", "file") /\ NoFault
     \/ Fault("copy") /\ UNCHANGED disk
  /\ Restored(Inode("file"))
  /\ UNCHANGED inodes
-----------------------------------------------------------------------------
(* Other programs.                                                         *)

Tick ==
  /\ pc = "idle" /\ clock < MaxTime
  /\ clock' = clock + 1
  /\ UNCHANGED <<disk, jed, pc, failed, backedUp, counters, ghosts>>

(* Writing the file in place, replacing it by a new file of that name, or  *)
(* putting back an older file with its old time stamp (mv).                *)
Foreign ==
  /\ pc = "idle" /\ versions < MaxVersions
  /\ SameSecond \/ clock > c_time
  /\ versions' = versions + 1
  /\ LET new == [v |-> versions + 1, whole |-> TRUE, mtime |-> clock,
                 inode |-> inodes + 1]
         same == IF Exists("file") THEN Inode("file") ELSE inodes + 1
     IN \/ /\ "write" \in Foreigners
           /\ disk' = [disk EXCEPT !["file"] = [new EXCEPT !.inode = same]]
        \/ /\ "replace" \in Foreigners
           /\ disk' = [disk EXCEPT !["file"] = new]
        \/ /\ "putback" \in Foreigners
           /\ disk' = [disk EXCEPT !["file"] = [new EXCEPT !.mtime = 1]]
  /\ inodes' = inodes + 1
  /\ foreign' = TRUE
  /\ UNCHANGED <<clock, jed, pc, failed, backedUp, saves, faults, seen, stable, dirty, kept>>
-----------------------------------------------------------------------------
Command == Edit \/ Save \/ Declined \/ AutoSave

Saving ==
  \/ AutoDelete \/ AutoWrite
  \/ Backup \/ RenameToBackup \/ CopyToBackup \/ FillBackup
  \/ OpenFile \/ WriteOut \/ Written
  \/ RestoreFile \/ RenameBack \/ CopyBack \/ FillBack

Next == Command \/ Saving \/ Tick \/ Foreign

Spec == Init /\ [][Next]_vars /\ WF_vars(Saving)
-----------------------------------------------------------------------------
(* Types.  The file is there whenever JED copies it.                       *)
TypeOK ==
  /\ disk \in [Names -> FileData \cup {Missing}]
  /\ clock \in Nat /\ buf \in Nat /\ c_time \in Nat /\ inode \in Nat \cup {Missing}
  /\ modified \in BOOLEAN /\ changed \in BOOLEAN
  /\ method \in Methods /\ failed \in BOOLEAN /\ backedUp \in BOOLEAN
  /\ pc \in {"idle", "autosave", "autowrite", "backup", "rename", "copy", "fill",
             "open", "write", "wrote", "unlink", "restore", "copyback", "fillback"}
  /\ inodes \in Nat /\ versions \in Nat /\ saves \in Nat /\ faults \in Nat
  /\ seen \subseteq Nat /\ dirty \in BOOLEAN /\ stable \in Nat \cup {Missing}
  /\ kept \in Nat \cup {Missing} /\ foreign \in BOOLEAN
  /\ pc \in {"rename", "copy", "fill"} => Exists("file")
  /\ pc \in {"unlink", "restore", "copyback", "fillback"} => Exists("backup")

(* Whatever calls of a save fail, and wherever the editor dies, the text   *)
(* the file had before the save or the new text is whole in the file or in *)
(* the backup (write_file_with_backup, perform_backup).  No claim is made  *)
(* for a save that goes on without a backup, because none is wanted or     *)
(* copying failed: it truncates the only whole text.                       *)
TextSurvives ==
  /\ pc \notin {"idle", "autosave", "autowrite"} /\ stable # Missing
  /\ pc \in {"write", "wrote"} => backedUp
  =>
    \/ Whole("file", stable) \/ Whole("file", buf) \/ Whole("backup", stable)

(* A buffer that is not shown as modified is what the file has, unless     *)
(* another program has been at it: no failure on the way to the disk marks *)
(* the buffer saved.  The exception is a buffer that was unmodified when a *)
(* save of it failed and could not be taken back: it stays unmodified.     *)
UnmodifiedIsSaved ==
  pc = "idle" /\ ~modified /\ ~foreign =>
    Whole("file", buf) \/ (failed /\ ~dirty)

(* The autosave file stays until a newer text is in the file itself, or    *)
(* the next autosave begins: a save that fails does not take it away.      *)
AutosaveKept ==
  kept # Missing => Whole("autosave", kept)

(* No failing call and no crash loses a text: not that of the file, nor    *)
(* the autosaved one (write_file_with_backup, auto_save_buffer).           *)
NoTextLost == TypeOK /\ TextSurvives /\ AutosaveKept

(* JED never takes its own writing for somebody else's: between commands   *)
(* the file does not count as changed unless another program changed it    *)
(* (write_file_with_backup: c_time is updated even if the write failed).   *)
NoFalseAlarm == pc = "idle" /\ ~foreign => ChangedOnDisk # 1

(* The same but for the one case in which the code breaks it: there was no *)
(* file to take the time stamp of, and c_time is 0.                        *)
KnowsItsOwnFile == c_time # 0 => NoFalseAlarm

(* A save never destroys a version of the text that the user has neither   *)
(* read nor written, and was not asked about (file_changed_on_disk).       *)
NoSilentOverwrite ==
  [][(pc \in {"rename", "open"} /\ Exists("file") /\ disk'["file"] # disk["file"])
       => disk["file"].v \in seen]_vars
=============================================================================
