------------------------------ MODULE Buffers ------------------------------
(***************************************************************************)
(* The buffers of JED and the files they visit: finding a file, saving     *)
(* under its own or another name, killing a buffer, and what points to a   *)
(* buffer (buffer.c, ledit.c, file.c, paste.c).                            *)
(*                                                                         *)
(* A buffer is known by its address; the lowest free one is taken for a    *)
(* new buffer.  The ring of buffers is the set of the addresses in use: where *)
(* the code takes the first buffer of the ring that will do, the model     *)
(* takes any.  A version of a file is a number, later ones being larger,   *)
(* and it stands for the time stamp too: no two are written in the same    *)
(* second (module SaveFile has the seconds, the backup and FILE_MODIFIED). *)
(* A file has an inode; it may have several names, and a number that is    *)
(* not in use is given to a new file.                                      *)
(***************************************************************************)
EXTENDS Naturals, Sequences, FiniteSets, SequencesExt

CONSTANTS
  MaxBuffers,  \* bound on the buffers
  Paths,       \* canonical names of files
  Inodes,      \* inode numbers
  FileName,    \* FileName[p]: the name of p in its directory
  UserNames,   \* names of buffers without a file that users and programs select
  Scratch,     \* "*scratch*"
  Paste,       \* " <paste>"
  NumWindows,  \* the number of windows
  None,
  MaxVersions, \* bound on the versions of files
  MaxSteps,    \* bound on the commands
  Lapses       \* what users and other programs do that the code is not prepared for

(* "internal": select or kill " <paste>".  "unnamed": the save of a buffer *)
(* that has no file over an existing file is not carried out.  "race":     *)
(* files change while JED is at one.                                       *)
AllLapses == {"internal", "unnamed", "race"}

ASSUME BuffersAssumption ==
  /\ Cardinality({Scratch, Paste, None}) = 3
  /\ UserNames \cap {Scratch, Paste} = {}
  /\ None \notin Paths \cup Inodes
  /\ DOMAIN FileName = Paths /\ \A p \in Paths : FileName[p] \notin {Scratch, Paste}
  /\ MaxBuffers \in Nat \ {0} /\ NumWindows \in Nat \ {0}
  /\ MaxVersions \in Nat /\ MaxSteps \in Nat /\ Lapses \subseteq AllLapses

(* A file: its inode and its version.                                      *)
File == [inode: Inodes, v: Nat]

ASSUME NoneAssumption == None \notin File

Addr == 1..MaxBuffers
Null == 0
Names == UserNames \cup {Scratch, Paste} \cup {FileName[p] : p \in Paths}

VARIABLES
  ed,     \* the editor
  disk,   \* disk[p]: the file of name p, or None
  pc,     \* where the command is
  job,    \* what it is about
  count   \* versions of files and commands so far

vars == <<ed, disk, pc, job, count>>

(* name: base and number of "base<number>", 0 when there is none.  path:   *)
(* canonical_dirfile, None without a file.  seen: ghost, the latest       *)
(* version that the buffer has read or written, or the user was told of.   *)
Buffer ==
  [name: Names \X Nat, path: Paths \cup {None}, inode: Inodes \cup {None},
   c_time: Nat, modified: BOOLEAN, seen: Nat]

(* cbuf, last, paste: CBuf, Last_Buffer, Paste_Buffer.  win: the buffers   *)
(* of the windows, from JWindow on.                                        *)
Live == DOMAIN ed.bufs

(* path: the file that is looked for or written.  buf: the buffer that may *)
(* be killed.  this: CBuf when the command began.  window: find_file is to *)
(* show it.  kill: it is to be killed after the save.  declined: ghost,    *)
(* the user has said no to that save.                                      *)
NoJob == [path |-> None, buf |-> Null, this |-> Null, window |-> FALSE, kill |-> FALSE,
          declined |-> FALSE]

(* Of disk d: the version and the inode of the file of name p.             *)
Version(d, p) == IF d[p] = None THEN 0 ELSE d[p].v
Inode(d, p) == IF d[p] = None THEN None ELSE d[p].inode
-----------------------------------------------------------------------------
(* Names and addresses.                                                    *)

(* Mutant: only the plain name is tried.                                   *)
BugUniquelyNamed(e, b, base) ==
  [e EXCEPT !.bufs[b].name =
     <<base, IF \E c \in DOMAIN e.bufs \ {b} : e.bufs[c].name = <<base, 0>> THEN 1 ELSE 0>>]

UniquelyNamed(e, b, base) ==
  LET taken == {e.bufs[c].name : c \in DOMAIN e.bufs \ {b}}
  IN [e EXCEPT !.bufs[b].name =
        <<base, Min({n \in 0..Cardinality(Addr) : <<base, n>> \notin taken})>>]

Internal(e, b) == e.bufs[b].name[1] = Paste
Named(e, base) == {b \in DOMAIN e.bufs : e.bufs[b].name = <<base, 0>>}

(* make_buffer (base, dir, NULL): the editor, and the new buffer; none     *)
(* when the bound on the buffers is reached.                               *)
NewBuffer(base) ==
  [name |-> <<base, 0>>, path |-> None, inode |-> None, c_time |-> 0, modified |-> FALSE,
   seen |-> 0]

MakeBuffer(e, base) ==
  {<<UniquelyNamed([e EXCEPT !.bufs = [c \in DOMAIN e.bufs \cup {b} |->
                                         IF c = b THEN NewBuffer(base) ELSE e.bufs[c]]],
                   b, base), b>> :
     b \in {c \in Addr \ DOMAIN e.bufs : \A d \in Addr \ DOMAIN e.bufs : c <= d}}

(* find_buffer, and make_buffer if there is none.                          *)
FindOrMake(e, base) ==
  IF Named(e, base) # {} THEN {<<e, b>> : b \in Named(e, base)} ELSE MakeBuffer(e, base)

(* delete_buffer: a buffer that is not in the ring is left alone.          *)
Deleted(e, b) == [e EXCEPT !.bufs = [c \in DOMAIN e.bufs \ {b} |-> e.bufs[c]]]

Visible(e, b) == b \in Range(e.win)
-----------------------------------------------------------------------------
(* Killing a buffer.                                                       *)

(* find_non_visible_buffer (kill), when the scratch buffer is scratch.     *)
NonVisible(e, kill, scratch) ==
  LET fit == {b \in DOMAIN e.bufs \ {kill, scratch} : ~Internal(e, b) /\ ~Visible(e, b)}
  IN IF fit = {} THEN {scratch} ELSE fit

(* The windows that show kill get another buffer, one after the other from *)
(* JWindow on, each a buffer that is not visible then.  In the editor      *)
(* Shown (e, to, i) the windows before i have got theirs.                  *)
Shown(e, to, i) ==
  [e EXCEPT !.win = [j \in 1..NumWindows |-> IF j < i THEN to[j] ELSE e.win[j]]]

Replaced(e, kill, scratch) ==
  {[e EXCEPT !.win = to] : to \in {win \in [1..NumWindows -> DOMAIN e.bufs] :
     \A i \in 1..NumWindows :
       IF e.win[i] # kill THEN win[i] = e.win[i]
       ELSE win[i] \in NonVisible(Shown(e, win, i), kill, scratch)}}

(* Mutant: Last_Buffer is left as it is.                                   *)
BugKilled(e, kill, this) ==
  UNION {
    LET f == made[1]
        scratch == made[2]
    IN IF kill = scratch
       THEN {[f EXCEPT !.bufs[kill].modified = m, !.cbuf = this] :
               m \in {TRUE, f.bufs[kill].modified}}
       ELSE UNION {
         {Deleted([g EXCEPT !.cbuf = IF this = kill THEN b ELSE this], kill)
            : b \in NonVisible(g, kill, scratch)}
         : g \in Replaced(f, kill, scratch)}
    : made \in FindOrMake(e, Scratch)}

(* The rest of kill_buffer_cmd.  The scratch buffer is erased only.  For   *)
(* this, CBuf before, the buffer found after the last replacement is taken *)
(* when it is the one to be killed.                                        *)
Killed(e, kill, this) ==
  UNION {
    LET f == made[1]
        scratch == made[2]
    IN IF kill = scratch
       THEN {[f EXCEPT !.bufs[kill].modified = m, !.cbuf = this] :
               m \in {TRUE, f.bufs[kill].modified}}
       ELSE UNION {
         {Deleted([g EXCEPT !.last = IF @ = kill THEN Null ELSE @,
                            !.cbuf = IF this = kill THEN b ELSE this], kill)
            : b \in NonVisible(g, kill, scratch)}
         : g \in Replaced(f, kill, scratch)}
    : made \in FindOrMake(e, Scratch)}
-----------------------------------------------------------------------------
(* Files.                                                                  *)

(* Mutant: a look at the file takes its time stamp as well.                *)
BugLooked(e, b, p) ==
  [e EXCEPT !.bufs[b].inode = Inode(disk, p), !.bufs[b].c_time = Version(disk, p)]

(* file_changed_on_disk (b, p): a name that is not the buffer's own is     *)
(* looked at only if a file has it.  It takes the inode of what is there   *)
(* ...                                                                     *)
Looked(e, b, p) ==
  IF e.bufs[b].path = p \/ disk[p] # None THEN [e EXCEPT !.bufs[b].inode = Inode(disk, p)]
  ELSE e

(* ... and returns whether that is newer.                                  *)
Newer(e, b, p) == Version(disk, p) > e.bufs[b].c_time

(* Mutant: the inodes are those of the last look.                          *)
BugChecked(e, d) == e

(* check_buffers: the buffers with a file look at it.                      *)
Checked(e, d) ==
  [e EXCEPT !.bufs = [b \in DOMAIN e.bufs |->
     IF e.bufs[b].path = None THEN e.bufs[b]
     ELSE [e.bufs[b] EXCEPT !.inode = Inode(d, e.bufs[b].path)]]]

(* The user has been told of what is there.                                *)
Told(e, b, p) == [e EXCEPT !.bufs[b].seen = Max({@, Version(disk, p)})]

(* find_file_buffer: by name, then by inode.                               *)
ByName(e, p) == {b \in DOMAIN e.bufs : e.bufs[b].path = p}
ByInode(e, p) ==
  {b \in DOMAIN e.bufs : disk[p] # None /\ e.bufs[b].inode = disk[p].inode}
FileBuffers(e, p) == IF ByName(e, p) # {} THEN ByName(e, p) ELSE ByInode(e, p)

(* buffer_filename (b, p), when the disk is d.                             *)
Filenamed(e, b, p, d) ==
  UniquelyNamed([e EXCEPT !.bufs[b].path = p, !.bufs[b].inode = Inode(d, p),
                          !.bufs[b].c_time = Version(d, p)], b, FileName[p])

(* visit_file, for the current buffer.                                     *)
VisitFile(e, p, d) ==
  Checked(IF e.bufs[e.cbuf].path = p THEN e ELSE Filenamed(e, e.cbuf, p, d), d)
-----------------------------------------------------------------------------
Commanded == count' = [count EXCEPT !.steps = @ + 1] /\ count.steps < MaxSteps
Idle == pc = "idle" /\ Commanded

Done == pc' = "idle" /\ job' = NoJob

(* switch_to_buffer.                                                       *)
Switched(e, b) == [e EXCEPT !.cbuf = b]

WindowBuffer(e, b) == [e EXCEPT !.win[1] = b]

(* What find_file_in_window does with what find_file_cmd leaves.           *)
Found(e) ==
  /\ Done
  /\ ed' = IF ~job.window THEN e
           ELSE WindowBuffer(IF job.this # e.cbuf /\ ~Internal(e, e.cbuf)
                             THEN [e EXCEPT !.last = e.cbuf] ELSE e, e.cbuf)

(* find_file_cmd.                                                          *)
FindFile ==
  /\ Idle
  /\ \E p \in Paths, w \in BOOLEAN :
       job' = [NoJob EXCEPT !.path = p, !.this = ed.cbuf, !.window = w]
  /\ pc' = "find"
  /\ UNCHANGED <<ed, disk>>

(* A buffer of the file is taken, after a question when the file is newer; *)
(* or a buffer is made and the file read into it.                          *)
Lookup ==
  /\ pc = "find"
  /\ LET e == Checked(ed, disk) p == job.path
     IN IF FileBuffers(e, p) # {}
        THEN \E b \in FileBuffers(e, p) :
               LET f == Looked(e, b, p)
               IN IF Newer(f, b, p)
                  THEN /\ ed' = Told(f, b, p)
                       /\ pc' = "reread" /\ job' = [job EXCEPT !.buf = b]
                  ELSE Found(Switched(f, b))
        ELSE \E made \in MakeBuffer(e, FileName[p]) :
               /\ ed' = Switched(Told(made[1], made[2], p), made[2])
               /\ pc' = "attach" /\ job' = [job EXCEPT !.buf = made[2]]
  /\ UNCHANGED <<disk, count>>

(* "File changed on disk.  Read from disk?"  If so the buffer is killed    *)
(* and find_file_cmd begins again.  An interrupt leaves all as it is.      *)
Reread ==
  /\ pc = "reread"
  /\ \/ /\ ed' \in Killed(Switched([ed EXCEPT !.bufs[job.buf].modified = FALSE], job.buf),
                          job.buf, ed.cbuf)
        /\ pc' = "find" /\ job' = [job EXCEPT !.buf = Null]
     \/ Found(Switched(ed, job.buf))
     \/ Found(ed)
  /\ UNCHANGED <<disk, count>>

(* visit_file: the name, the inode and the time stamp of the file that has *)
(* been read are taken.                                                    *)
Attach ==
  /\ pc = "attach"
  /\ Found(VisitFile(ed, job.path, disk))
  /\ UNCHANGED <<disk, count>>
-----------------------------------------------------------------------------
(* Saving.                                                                 *)

(* Editors, pcs and jobs when jed_save_buffer_to_file begins with CBuf.  A *)
(* file that is newer than the buffer, or that may not be written, is      *)
(* asked about.                                                            *)
ToSave(p, e, j) ==
  LET f == Looked(e, e.cbuf, p)
  IN /\ job' = [j EXCEPT !.path = p]
     /\ IF Newer(f, e.cbuf, p)
        THEN ed' = Told(f, e.cbuf, p) /\ pc' = "overwrite"
        ELSE ed' = f /\ pc' \in {"overwrite", "write"}

(* save_buffer for a buffer with a file, write_buffer under any name.  For *)
(* another file's name a script has asked before (save_buffer_as).         *)
Save ==
  /\ Idle
  /\ \E p \in Paths : ToSave(p, ed, [NoJob EXCEPT !.this = ed.cbuf])
  /\ UNCHANGED disk

(* Mutant: kill_buffer_cmd does not look for an error.                     *)
BugSaved(e, end) ==
  \/ ~job.kill /\ ed' = e /\ Done
  \/ /\ job.kill
     /\ ed' = e /\ pc' = "kill" /\ job' = [job EXCEPT !.declined = end = "declined"]

(* The end of a save: "ok", "error" or "declined", of which                *)
(* kill_buffer_cmd looks at the error only.                                *)
Saved(e, end) ==
  \/ ~job.kill /\ ed' = e /\ Done
  \/ job.kill /\ end = "error" /\ ed' = Switched(e, job.this) /\ Done
  \/ /\ job.kill /\ end # "error"
     /\ ed' = e /\ pc' = "kill" /\ job' = [job EXCEPT !.declined = end = "declined"]

(* The save is not carried out.                                            *)
NotSaved(e, end) ==
  /\ ed.bufs[ed.cbuf].path = None /\ disk[job.path] # None => "unnamed" \in Lapses
  /\ Saved(e, end)

(* The user answers the question, or interrupts it, which is an error.     *)
Overwrite ==
  /\ pc = "overwrite"
  /\ \/ pc' = "write" /\ UNCHANGED <<ed, job>>
     \/ \E end \in {"declined", "error"} : NotSaved(ed, end)
  /\ UNCHANGED <<disk, count>>

(* The file keeps its inode, and its other names, or is a new one (after a *)
(* backup by rename).                                                      *)
Written(p, n) ==
  disk' = [q \in Paths |->
    IF q = p \/ (disk[q] # None /\ disk[q].inode = n) THEN [inode |-> n, v |-> count.versions + 1]
    ELSE disk[q]]

Unused == Inodes \ {Inode(disk, p) : p \in Paths}
NewVersion == count.versions < MaxVersions /\ count' = [count EXCEPT !.versions = @ + 1]

(* The hooks before the save may fail.  write_file_with_backup and         *)
(* visit_file; the hooks after may fail although the file is written.  A   *)
(* failure of the writing takes the time stamp and the inode of what is    *)
(* there (and here leaves the file as it was; see module SaveFile).        *)
WriteFile ==
  /\ pc = "write"
  /\ \/ UNCHANGED <<disk, count>> /\ NotSaved(ed, "error")
     \/ \E n \in Unused \cup ({Inode(disk, job.path)} \ {None}), end \in {"ok", "error"} :
          /\ NewVersion
          /\ Written(job.path, n)
          /\ LET v == count.versions + 1
                 e == [ed EXCEPT !.bufs[ed.cbuf] =
                         [@ EXCEPT !.c_time = v, !.inode = n, !.modified = FALSE,
                                   !.seen = v]]
             IN Saved(VisitFile(e, job.path, disk'), end)
     \/ /\ UNCHANGED <<disk, count>>
        /\ NotSaved([ed EXCEPT !.bufs[ed.cbuf].c_time = Version(disk, job.path),
                                !.bufs[ed.cbuf].inode = Inode(disk, job.path)], "error")
-----------------------------------------------------------------------------
(* Killing, selecting and copying.                                         *)

Allowed(e, b) == Internal(e, b) => "internal" \in Lapses

(* kill_buffer_cmd selects the buffer and asks if it is modified.          *)
KillBufferCmd ==
  /\ Idle
  /\ \E b \in Live :
       /\ Allowed(ed, b)
       /\ job' = [NoJob EXCEPT !.buf = b, !.this = ed.cbuf]
       /\ ed' = Switched(ed, b)
       /\ pc' = IF ed.bufs[b].modified /\ ~Internal(ed, b) THEN "modified" ELSE "kill"
  /\ UNCHANGED disk

(* "(K)ill, (S)ave first, (A)bort": S is jed_save_buffer_as_cmd, which     *)
(* asks for the name of a file, and may be interrupted or find that there  *)
(* is no name, both errors; after A the buffer stays selected.             *)
KillAnswer ==
  /\ pc = "modified"
  /\ \/ ed' \in Killed(ed, job.buf, job.this) /\ Done
     \/ \E p \in Paths : ToSave(p, ed, [job EXCEPT !.kill = TRUE])
     \/ ed' = Switched(ed, job.this) /\ Done
     \/ UNCHANGED ed /\ Done
  /\ UNCHANGED <<disk, count>>

Kill ==
  /\ pc = "kill"
  /\ ed' \in Killed(ed, job.buf, job.this)
  /\ Done
  /\ UNCHANGED <<disk, count>>

(* set_buffer, for a program, and switch_to_buffer_cmd.                    *)
SetBuffer ==
  /\ Idle
  /\ \E made \in (UNION {FindOrMake(ed, n) : n \in UserNames}) \cup {<<ed, b>> : b \in Live},
        cmd \in BOOLEAN :
       LET e == made[1] b == made[2]
       IN /\ Allowed(e, b)
          /\ ed' = IF ~cmd THEN Switched(e, b)
                   ELSE LET f == WindowBuffer(Switched(e, b), b)
                        IN IF b # ed.cbuf /\ ~Internal(e, b)
                           THEN [f EXCEPT !.last = ed.cbuf] ELSE f
  /\ UNCHANGED <<disk, pc, job>>

(* get_last_buffer, which get_buffer calls before it shows the name.       *)
GetLastBuffer ==
  /\ Idle
  /\ ed.last = ed.cbuf \/ ed.last = Null \/ (ed.last \in Live /\ Internal(ed, ed.last))
  /\ \E made \in FindOrMake(ed, Scratch) :
       \E b \in NonVisible(made[1], ed.cbuf, made[2]) : ed' = [made[1] EXCEPT !.last = b]
  /\ UNCHANGED <<disk, pc, job>>

(* other_window.                                                           *)
OtherWindow ==
  /\ Idle
  /\ LET ring == Tail(ed.win) \o <<Head(ed.win)>>
     IN ed' = Switched([ed EXCEPT !.win = ring], ring[1])
  /\ UNCHANGED <<disk, pc, job>>

(* copy_to_pastebuffer.                                                    *)
Copy ==
  /\ Idle
  /\ LET e == IF ed.paste = Null THEN ed ELSE Deleted(ed, ed.paste)
     IN \E made \in MakeBuffer(e, Paste) : ed' = [made[1] EXCEPT !.paste = made[2]]
  /\ UNCHANGED <<disk, pc, job>>

(* A change of the text.                                                   *)
Edit ==
  /\ pc = "idle" /\ ~ed.bufs[ed.cbuf].modified
  /\ ed' = [ed EXCEPT !.bufs[ed.cbuf].modified = TRUE]
  /\ UNCHANGED <<disk, pc, job, count>>

(* do_jed selects the buffer of the window again.                          *)
EndCommand ==
  /\ pc = "idle" /\ ed.cbuf # ed.win[1]
  /\ ed' = Switched(ed, ed.win[1])
  /\ UNCHANGED <<disk, pc, job, count>>
-----------------------------------------------------------------------------
(* Other programs write a file in place or replace it, remove it, rename   *)
(* it or give it another name.                                             *)
Foreign ==
  /\ pc = "idle" \/ "race" \in Lapses
  /\ \E p \in Paths :
       \/ /\ NewVersion
          /\ \E n \in Unused \cup ({Inode(disk, p)} \ {None}) : Written(p, n)
       \/ /\ disk[p] # None /\ UNCHANGED count
          /\ \/ disk' = [disk EXCEPT ![p] = None]
             \/ \E q \in Paths \ {p} :
                  \/ disk' = [disk EXCEPT ![q] = disk[p], ![p] = None]
                  \/ disk[q] = None /\ disk' = [disk EXCEPT ![q] = disk[p]]
  /\ UNCHANGED <<ed, pc, job>>
-----------------------------------------------------------------------------
(* The scratch buffer is in all windows.                                   *)
Init ==
  /\ ed = [bufs |-> [b \in {1} |-> NewBuffer(Scratch)], cbuf |-> 1,
           win |-> [w \in 1..NumWindows |-> 1], last |-> Null, paste |-> Null]
  /\ disk \in [Paths -> {None} \cup [inode: Inodes, v: {1, 2}]]
  /\ \A p, q \in Paths : disk[p] # None /\ disk[q] # None
       => (disk[p].v = disk[q].v <=> disk[p].inode = disk[q].inode)
  /\ pc = "idle" /\ job = NoJob /\ count = [versions |-> 2, steps |-> 0]

Finding == FindFile \/ Lookup \/ Reread \/ Attach
Saving == Save \/ Overwrite \/ WriteFile
Killing == KillBufferCmd \/ KillAnswer \/ Kill
Selecting == SetBuffer \/ GetLastBuffer \/ OtherWindow \/ EndCommand

Next == Finding \/ Saving \/ Killing \/ Selecting \/ Copy \/ Edit \/ Foreign

Spec == Init /\ [][Next]_vars
-----------------------------------------------------------------------------
(* Types.                                                                  *)
TypeOK ==
  /\ DOMAIN ed = {"bufs", "cbuf", "win", "last", "paste"}
  /\ Live \subseteq Addr /\ \A b \in Live : ed.bufs[b] \in Buffer
  /\ ed.win \in [1..NumWindows -> Addr]
  /\ disk \in [Paths -> File \cup {None}]
  /\ pc \in {"idle", "find", "reread", "attach", "overwrite", "write", "modified", "kill"}
  /\ job \in [path: Paths \cup {None}, buf: Addr \cup {Null}, this: Addr \cup {Null},
              window: BOOLEAN, kill: BOOLEAN, declined: BOOLEAN]

(* No two buffers have the same name, so that a name typed by the user or  *)
(* kept by a script finds one buffer (uniquely_name_buffer), and nothing   *)
(* points to a buffer that has been deleted: CBuf, the windows,            *)
(* Last_Buffer, Paste_Buffer, nor the variables of a command that waits    *)
(* for an answer.                                                          *)
BufferPointersLive ==
  /\ TypeOK
  /\ \A b, c \in Live : ed.bufs[b].name = ed.bufs[c].name => b = c
  /\ ed.cbuf \in Live /\ Range(ed.win) \subseteq Live
  /\ {ed.last, ed.paste, job.buf} \subseteq Live \cup {Null}
  /\ pc \in {"modified", "overwrite", "write", "kill"} => job.this \in Live

(* The buffer visits the file that is looked for, maybe by another name.  *)
VisitsTarget(b) ==
  /\ ed.bufs[b].path # None
  /\ \/ ed.bufs[b].path = job.path
     \/ disk[job.path] # None /\ disk[ed.bufs[b].path] = disk[job.path]

(* find_file gives a buffer that visits the file, under the name given or  *)
(* under another name of it, and makes a new one only if there is none     *)
(* (doc/tm/rtl/file.tm), whatever was renamed, linked, removed and       *)
(* replaced on the disk since the buffers looked at their files.           *)
FindsTheFile ==
  [][pc = "find" => IF pc' = "attach" THEN ~\E b \in Live : VisitsTarget(b)
                    ELSE LET b == IF pc' = "reread" THEN job'.buf ELSE ed'.cbuf
                         IN b \in Live /\ VisitsTarget(b)]_vars

(* A modified buffer is deleted only on an answer of the user about that   *)
(* buffer: kill it, or read its file from the disk again, or no to the     *)
(* save he has asked for instead (kill_buffer_cmd then goes on).  A save   *)
(* that fails or is interrupted, in the questions, the hooks or the        *)
(* writing, keeps the buffer, and with it the text.                        *)
KillLosesNothing ==
  [][\A b \in Live :
       b \notin Live' /\ ed.bufs[b].modified /\ ~Internal(ed, b) =>
       /\ job.buf = b
       /\ pc \in {"modified", "reread"} \/ (pc = "kill" /\ job.declined)]_vars

(* The time stamp of a buffer is not later than a version that the buffer  *)
(* has read or written, or that the user was told about: what another      *)
(* program or another buffer has written since is newer than the stamp,    *)
(* and no save under the buffer's name overwrites it without a question.   *)
StampIsSeen ==
  \A b \in Live : ed.bufs[b].c_time <= ed.bufs[b].seen
=============================================================================
