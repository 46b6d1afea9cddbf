# JED in TLA+

JED is a text editor: a C core (`src/src`, 78,700 lines with the drivers of its window systems)
that keeps buffers, windows, files and subprocesses, and an extension language, S-Lang, in which the commands of `lib/` are
written. The core is one thread. It runs one command per key to its end; between two keys
it waits for input, and only there, or in a few named places, can something else happen: a
signal, a subprocess, another JED, another program that touches the file. What makes it hard
is therefore long sequences of commands over shared, mutable structures (the undo ring, the
list of lines with all that points into it, the rings of windows and buffers, the cache of what is
on the screen, the stack of key loops), and the places where the outside comes in (locks, saving,
subprocesses, typed-ahead keys, signals).

Paths such as `undo.c:91` are in `src/src/`.

* [Components](#components)
* [Modules](#modules): what each models, and how it corresponds to the code
* [Runs](#runs): what is checked, with which bounds
* [Fairness](#fairness)
* [Proofs](#proofs)
* [Findings](#findings)
* [Not modelled](#not-modelled)
* [Plan](#plan)

## Components

| component | state | operations | works with | what is hard | correct when |
|---|---|---|---|---|---|
| Undo ring, `undo.c` | ring of 10,000 objects of 8 bytes, `Current_Undo`, `Undo_Buf_Unch_Flag` | record an insertion, a newline, a deletion, the position; mark a boundary; undo | called by the text primitives; undo calls them | it reverts objects while its own changes are recorded in the same ring; merging; wrapping | each object reverts what it stands for; undo and redo retrace the texts; "unmodified" means saved |
| Text primitives, `ins.c`, `line.c` | the list of lines, the point | insert and delete bytes, split and join lines | marks, spots, narrowings, windows, undo, locks | every pointer into the list is brought up to date by hand | list and marks stay sound at every level of narrowing |
| Marks and narrowing, `paste.c` | marks, spots, user marks, stack of narrowings | push and pop marks, narrow, widen, save and restore restrictions | cuts the list of lines; window positions | cuts nested while the text changes; newlines added and taken out | the whole is an editor of plain text with marks |
| Buffers, `buffer.c` | ring of buffers, names, flags, the file, time stamp and inode of each; the current, the last and the paste buffer | make, name, find, switch, delete, erase | everything | buffers deleted while referred to; files that other programs move and replace | no reference to a deleted buffer; find_file finds the file; nothing unsaved killed unasked |
| File locks, `lock.c` | the symbolic link `.#FILE` | lock, unlock, ask | `ins.c` before the first change; saving, discarding, quitting | several JEDs and several machines, crashes, stale locks | one holder; nobody robbed unasked; given up when unmodified |
| Files, `file.c`, `vfile.c` | file, backup, autosave; `c_time`, inode of the last look | save, restore, autosave, compare | `ledit.c`, hooks | calls that fail, crashes in the middle, other programs | no text lost; no foreign version overwritten in silence |
| Windows, `window.c` | ring of windows with place, height and buffer | split, delete, enlarge, resize, select | screen, menu bar, buffers | geometry by local steps; loops that walk the ring until a row turns up | the windows tile the screen |
| Buffer and minibuffer commands, `ledit.c`, `misc.c` | minibuffer, completions, windows to go back to | kill, switch, pop, read, complete | windows, buffers | commands and windows change while something is read | no trace left; current window keeps its buffer |
| Subprocesses, `jprocess.c` | table of processes, descriptors, counters of changes | open, read, close, report, clear | SIGCHLD, SIGUSR1, S-Lang hooks, buffers | signals between any two steps; hooks that call back | no end, no output lost; no dangling pointer |
| Key dispatch, `keymap.c`, `misc.c` | the key sequence read so far, the repeat count, the macro being defined or played | do_key, prefix arguments, key strings, macros, prompts, quit character | all commands | a loop that its own commands call again, each with a part of the same global state | keys served once and in order; macros replay what was done |
| Commands on text, `cmds.c`, `search.c`, `replace.c`, ... | hardly any | compositions of the primitives | text primitives, abbreviations | - | follows from the primitives |
| Hooks, `hooks.c` | lists of S-Lang functions, with marks of removed ones and counts of the runs at each | add, append, remove, run | S-Lang | a hook that changes, or runs, the list that runs it | no freed node used; no hook left out or called twice |
| Abbreviations, `abbrev.c` | list of tables, the global table, the table of each buffer | create, define, use, delete, expand | typing (`cmds.c`), buffers | tables deleted while buffers use them; where a word begins | the word before the cursor is replaced and nothing else |
| Local variables, `blocal.c` | tables of ten variables for each buffer | add, get, set | S-Lang | - | not modelled |
| Signals and terminal input, `sig.c`, `sysdep.c` | ring of pending bytes, the quit and hang-up flags | read, unget, flush, poll | key dispatch, subprocess input | hang-up or quit at any moment, also while a macro plays | a hang-up ends the editor |
| Screen, `screen.c` | the cache `JScreen` of which line is in which row, marks on it, the beginnings of the windows | touch, trash, update, recentre, redraw, resize | text primitives, windows | updates suspended, skipped or interrupted; lines freed while the cache names them | when JED waits for a key each window shows its text and the cursor |
| Start-up, exit, panic | - | save everything and leave | files | only part saved | not modelled |
| Containers, `c-btree.c`, ... | trees, hashes | insert, find, delete | menus, colours | rotations | not modelled |

`PROJECT.json` lists these again with the files of each, together with the components left out
(menus, colours, syntax, platform back ends, S-Lang binding tables, stand-alone helpers),
and the hazards, each at its line with the properties that would catch it.

## Modules

Eleven groups; each has a module of instances (`MC...`) and `.cfg` files for TLC.

```
UndoText <- Undo <- UndoProofs            MCUndo       undo.c, ins.c
LockService <= FileLock                   MCFileLock   lock.c and its callers
SaveFile <- SaveFileProofs                MCSaveFile   file.c, ledit.c
LineList <- Narrow => MarkedText          MCNarrow     line.c, ins.c, paste.c, buffer.c
Buffers <- BuffersProofs                  MCBuffers    buffer.c, ledit.c, file.c, paste.c
Windows <- WindowsProofs                  MCWindows    window.c, ledit.c, misc.c
Display <- DisplayProofs                  MCDisplay    screen.c, display.c, window.c
KeysProofs -> Keys => KeyQueue            MCKeys       keymap.c, misc.c, sysdep.c, unix.c, sig.c
Subprocess <- SubprocessProofs            MCSubprocess jprocess.c
Hooks                                     MCHooks      hooks.c
Abbrev                                    MCAbbrev     abbrev.c, cmds.c
```
(`<-` and `->` are EXTENDS, `=>` and `<=` implements, by a refinement that TLC or TLAPS checks.) The
proofs about FileLock, Hooks and Abbrev, which share nothing, are in one module, SmallPartsProofs.

The modules meet in the code as follows. `Keys` says when a command runs and what it reads; a command
is what Undo, Narrow, Windows, Buffers and Display call a command. After it do_jed selects the buffer of
`JWindow` again (`EndOfKey` of Windows, `home` of Display) and updates the screen. SaveFile is the saving
that Buffers takes as one step; FileLock is what an edit and that saving do to the lock. Each
module takes of the others only what it needs, as a choice of outcomes: a save succeeds, fails or is
declined in Buffers; a window is a row of the screen in Display and a rectangle in Windows. The
S-Lang functions that Windows and Display let make any calls are, among others, those that Hooks runs.

### UndoText, Undo

The text is the flat sequence of its bytes, the cursor the number of bytes before it. `LineOf`,
`PointOf`, `LineStart` and `LineLen` give the line numbers and offsets that the objects of the
ring hold; they count, so that they are natural numbers on every text and bounded by its length.
`Undo` keeps the ring as `Undo_Type` has it (`ring`, `first`, `last`, `current`). Commands run to
their end before the next one, but their loops are cut at the iterations: an insertion is one
`InsertNewline` or `InsertRun` per segment (jed_quick_insert), a deletion one
`DeleteSegment` per line and one `DeleteBytes` per object of the ring that takes part of it
(`record_deletion`), and undo() one `UndoStep` per object followed by the primitives that
revert it. A change may be refused (`Denials`), recording may be switched off (`toggle_undo`).
`was` is a ghost: the text before the first change each object stands for. `disk` is what the
last save wrote. `trusted` is a ghost that says whether the ring can stand for the text: changes made while
recording is off, or refused inside undo(), are in no object, until the buffer is erased and the ring with it.

### LockService, FileLock

`LockService` is what `doc/txt/filelock.txt` promises: granted to one, kept until given up or
until its holder ends. In `FileLock` each process goes through `jed_lock_file`
and `jed_unlock_file` with one action per system call (`symlink`, `lstat`, `readlink`, `kill`,
`unlink`), because other processes come between them: the link may vanish between the `lstat` and the `readlink`
of `get_lock_info`, which ends the attempt; the commands that lead there are edits
(`ins.c:264`), setting the flag, saving, writing a region, discarding the buffer and quitting.
Users answer (S)teal, (P)roceed or (A)bort. Processes may die at any step, run on another machine
(no `kill(pid, 0)` there), have no right to create links, or run in batch mode. `held` (who
was told he has the lock), `guarded` (who has unsaved changes made under it) and `consent` (whom
his user agreed to rob) are ghosts.

### SaveFile

The text is a version number; a file is the version it holds, whether all of it, its time and
its inode. Each system call of `write_file_with_backup`, `perform_backup`, the restoring after
a failure and `auto_save_buffer` is an action and may fail where `Faults` says so. The disk
outlives the editor, so an invariant about it holds at a crash at any step.
`ChangedOnDisk` is `file_changed_on_disk`, which compares inode and time; other programs
write or replace the file while JED waits for a key. `seen` is a ghost: the versions the user has read or written or was told of.

### LineList, Narrow, MarkedText

`LineList` has the doubly linked list of lines in a heap, with the point, marks, spots, user
marks and the position of another window, and translates every primitive of `ins.c` and `line.c`
together with the loops that bring the marks up to date. `Narrow` adds narrowing: cut by lines,
cut by region (which inserts two newlines that widening takes out), nested, and saved and
restored (`push_narrow`, `pop_narrow`). `MarkedText` says what a user thinks he has: a text,
offsets, and intervals. `TextSpec` is the refinement: the ghost `doc` is a function of `buf` (the
list with all restrictions lifted, flattened), carried as a variable so that TLC computes it once.

### Subprocess

JED is a stack of frames (`open_process`, `jed_get_child_status`, `read_process_input`, the S-Lang
functions these call) that the handlers of SIGCHLD and SIGUSR1 may interrupt at each step;
children start, write, stop, continue and end on their own. The counters
`Child_Status_Changed_Flag` and `status_changed` are decremented by a load and a store, as the
code does. `told` is a ghost: the last status each hook was told.

### Windows

The ring is the sequence of the windows from `JWindow` on; `other_window` turns it. A function of
the code is an operator from an editor (a record) to an editor, since the functions call each
other: `pop_to_buffer` splits, `exit_minibuffer` pops, kills and makes one window. The windows
have place, height and buffer; `action`, `target` and `start` are what reading from the
minibuffer goes back to, `listed` and `wins` what completion does. An S-Lang function may make
any number of calls before do_jed selects the buffer of `JWindow` again (`EndOfKey`). `quiet` is
a ghost: what the screen showed when the reading began, if only the minibuffer's
own commands were used since. `Tiled` is the geometry said locally, and so in a form in which each function of
window.c can be seen to keep it: the window after one in the ring (but for the minibuffer's) begins
below its status line, or at the top if it was the bottom one, and there is one bottom window.

### KeyQueue, Keys

`jed_do_key` reads a sequence of keys and interprets it; a command may call it again (a key string, a
macro, a prompt with its minibuffer, a question), so the editor is a stack of such loops and `ed.at`
says where the innermost one is. A step reads one key and does everything up to the next point at which a
key is wanted, a loop is tested or jed_do_key returns. Keys come from the buffer of pending keys, from the
string or the macro that is played, or from the terminal; a character with its eighth bit set becomes
two keys (`Meta`), the quit character becomes SIGINT, and SIGHUP only leaves a function to be called later.
A count (`digit_arg`) points to a static variable that every digit_arg shares, and gives back the
key that ended it; called again by a count that was meant for an unbound key, it finds no digit to begin with
and makes the number 0. There is one place to keep the state of a macro aside (`Macro_State`), used by
begin_macro, end_macro, executing and macro_query. `KeyQueue` is what a user thinks of it: keys are appended to
a queue and served once, from its front; what programs type is put in at any place, a beep may drop the rest, and only the
abort character passes keys that were typed before it. `KeysAreAQueue` is the refinement: the queue is the buffer of
pending keys followed by the keys of the terminal, with each key that has its eighth bit set counted as two.
A user is one of a set of sessions: what will be typed (with typing ahead up to `MaxAhead`)
and how many signals may come.

### Display

The text of each buffer is a sequence of addresses of lines. An address may be given to another line as
soon as its line is freed, which is what makes `JScreen`, a cache of addresses with a mark each, delicate.
`shown` is a ghost beside each entry: the line whose present text the terminal has in that row.
Editing marks the entries that name the changed line (`register_change`) and trashes the window in use, other changes mark a
window (`touch_window`); while updates are suspended neither happens. recenter(0) makes the window in use begin with a line
of the current buffer, whichever the window shows (`screen.c:2166`); the window is trashed, so that nothing is drawn from there
(`RecenterAll`). update() draws the windows until a key arrives, and
do_jed leaves it out when keys are waiting. find_top and recentring look for the line of the first row of the
window in the text. Commands and S-Lang callbacks of subprocesses are sequences of at most `MaxSteps` steps;
after them the buffer of the window is selected again. `astray` and `plain` are ghosts that say whether an
S-Lang function has moved the cursor of another window's buffer, and whether what happened since the last
wait was a command. TLC compares states by `View`, which names a line by where it occurs first, so that
addresses, buffers and names of windows are interchangeable.

### Buffers

A buffer is a record at an address that is free again when it is deleted; `CBuf`, the buffers of the windows,
`Last_Buffer` and `Paste_Buffer` are addresses. The ring of buffers is a set of addresses, and where the code
takes the first buffer of the ring that fits, the model takes any. A file is an inode with a version, and the version is its
time stamp; the lowest free inode is used again, as file systems do. find_file tries the name, then the
inode, then reads; `file_changed_on_disk` stores the inode of whatever file it was asked about. Killing asks
(K)ill, (S)ave first or (A)bort; a save asks when the file is newer or may not be written, and may end well, with an error (a
question that is interrupted, a hook or the writing that fails), or, after a no, without either. Other programs write, replace, remove, rename and link files between two
commands.

### Hooks

A list is the sequence of its functions; a node is known by its function, since a function that is in
the list is not put into it again. `valid` are the functions that have not been removed, `locks` the
counts `num_locks`. A run of a list is a frame on `stack`: `RunHooks` starts one and calls the first hook,
`Return` ends the function that is running, in one of the ways that matter (it fails, leaves no
integer, 0 or 1) and goes on to the next hook, which is looked up before the one that ran is released. Between a
call and its return any function may be added to any list, or removed, and any list be run, so that runs
nest. `due`, `called` and `again` (in each frame) and `ended` are ghosts: which functions have been in the list
all the time, which of them the run has called, which twice, and whom the last run left out.

### Abbrev

A table is known by its name; a buffer points to a table or, with `Null`, stands for the global one. The
line that is typed in, the place in it and overwrite mode are inputs of `InsCharCmd`, which is
ins_char_cmd with abbrev mode on: it looks for the word that ends at the cursor (`WordAt`), for its
entry in the table in force, deletes the word, makes room in overwrite mode, and inserts the expansion and, unless the
expansion ends with a mark that says no, the character. `IsUnlinked` says of which tables the list can be
rid (see Findings).

## Runs

| run | instance | shows |
|---|---|---|
| `undo` | ring of 3 objects of 2 bytes, all commands, refusals, recording on and off, 4 commands | `UndoSound`: the window of the ring has no gaps, undo() never looks at a blank object, no deletion reads past the text; `RecordsInvert`: each object, merged or split, reverts exactly its changes; `UndoRetracesHistory`: undo and redo walk back through the texts there were, and find their places in them; `UndoTerminates` |
| `lock` | 2 processes of one machine, one elsewhere that is read-only and in batch, crashes, 4 commands | `EditIsLocked`, `IdleHoldsNoLock`, the refinement `ServiceSpec`, `AttemptEnds` |
| `save` | no backup, by rename, by copy; 3 failing calls; other programs | `NoTextLost`, `UnmodifiedIsSaved`, `KnowsItsOwnFile`, `NoSilentOverwrite` |
| `narrow` | 3 lines, 5 bytes, 2 nested narrowings, 6 commands | `BufferSound`: list, marks and window positions; refinement `TextSpec` |
| `subprocess` | 2 children, 2 slots, 1 chunk of output, 1 stop | `TablesSound`: tables, descriptors and buffers agree, no pointer to a buffer that is gone; `EndReported` (with all output), `OpenReturns`, `EndNoticed` |
| `windows` | 3 windows and the minibuffer's, screens of 5 and 10 rows, commands without bound | `ScreenSound`: the windows tile the screen and show live buffers; `MiniInPlace`, `PopKeepsCurrent`, `ReadLeavesNoTrace` |
| `keys` | 207 sessions of 2 to 8 keys, with and without a signal | `MacroState`: a macro is played only by its loop, never while one is defined, wherever the state was kept aside, and read within its bounds; `ReplaysDefinition`, `CountIsKept`, `HangupExits`, refinement `KeysAreAQueue` |
| `display` | 2 buffers, 3 lines, 2 windows, screens of 5 and 7 rows, 2 steps between two waits | `ScreenShowsText`: while JED waits for a key each window shows its text and the cursor; `CacheSound`: a row that is not marked has what the cache says |
| `buffers` | 4 buffers, 2 files of one name, 3 inodes, 4 versions, 3 commands | `BufferPointersLive`, `StampIsSeen`: the time stamp is that of a text that was read or written; `FindsTheFile`, `KillLosesNothing` |
| `buffers_unnamed` | the same with a save that is not carried out; violation | see Findings |
| `hooks` | 1 list, 3 functions, 2 runs inside one another, commands without bound | `NodesSound`: the node a run is at is never freed under it, and a removed node goes with the last run that leaves it; `CalledOnce`, `RunCallsAll`: no hook that is there all the time is left out or called twice; `RunsEnd` |
| `abbrev` | 3 tables and the global one, 2 buffers, 3 lines, 4 commands | `TablesSound`: no buffer has a deleted table, a word has one expansion; `ExpandsWord`: what a character does to the line is what `doc/txt/abbrev.txt` says |

The largest are `undo` (2.4 million states, about 130 s with two workers), `lock` (1.1 million states, 160 s), `display` (367,000
states, 115 s) and `buffers` (4.3 million states, 100 s). Every property has a mutant, the definition
of a plausible bug (`Bug...`) that makes TLC refute it.

Why the bounds are enough. *Undo*: `MaxUndos` 3 makes the ring wrap after three
changes, also in the middle of a deletion or of undo(); `BufSize` 2 makes a deletion of 3 bytes
take two objects and leaves room for one byte in a second; `MergeMax` 1 makes insertions reach
it; the texts have both kinds of bytes, so that lines join and split. *Locks*: with 4 commands two
processes lock, give up, die and lock again (7 commands of two processes pass as well); the third process is needed for a
second machine. Theft, failing writes, writing regions and edits that change nothing are left to the theorems. *Save*: 3 faults let the write, the restoring and one
more call fail in one save; 3 versions tell the text before, the text after and a foreign one apart.
*Narrow*: two levels nest, a stack of two is saved; the three lines have a first, a middle
and a last; six commands suffice to narrow twice, change, and widen in any order (seven
pass as well, in about three minutes). *Subprocess*: two children contend for the table and
for the shared counters; one chunk and one stop make each ordering of output, stop and end
possible. *Windows*: 3 windows are the least with a middle one; 10 rows are the least that split
into three, 5 the least a screen may have, so that resizing squeezes. No bound on the
number of commands: the state space is finite. *Keys*: the sessions are built so that a macro's
definition and its execution each meet a count, a prompt, a question, a key string, an unbound key, a key that a
program gives back, and the end of the macro buffer (4 keys); the input buffer of 4 keys is filled by two
eight-bit keys, a sequence has at most 3 keys, and a string may not run within a string (the code allows 10).
*Display*: 3 lines in 2 buffers make each address used again; 5 rows hold one window of more rows than the
text, 7 rows two; two steps let one undo what the other has marked. *Buffers*: two files of one
name need a made-up name, four buffers are the scratch and the paste buffer and two of the user's; three
inodes let a file be replaced while its old inode lives under another name. *Hooks*: with three functions there is one
before, one after and one that runs; a second run inside the first makes counts of two and lets the inner run
meet what the outer one is at. The state space is finite without a bound on commands. *Abbrev*: create, define, use
or define again, then type or delete; three tables are the least with one that is neither of the first two of the
list; the lines have a word at their beginning, one after another character, and one that is part of a
longer one.

Assumptions on the environment are constants, so that a run may drop them:
`HooksUpdate = FALSE` (hooks of processes do not call update(); otherwise `TablesSound` fails,
the slot is cleared twice), `DropClosed = FALSE` (no buffer is dropped between kill_process() and
the end of its process; otherwise `TablesSound` fails), `Lapses = {}` (see `Windows`; otherwise
`MiniInPlace` or `ScreenSound` fails), `SameSecond = FALSE` (others do not write within the second
of JED's last look, which no time stamp could tell), `Failures = {}` in `lock` (a write that fails
leaves the lock, as does a lock that cannot be read when it is to be given up, and `IdleHoldsNoLock` fails), no "touch" and "region" in its `Ops` and no "steal" in its
`Replies` (see Proofs and Findings). The properties of Subprocess except children
that were stopped once: see Findings. In Display `Lapses` has "typeahead" (type while a command that suspended
the updates is running; `ScreenShowsText` and `CacheSound` fail, with `MaxSteps = 3`) and "redraw" (redraw from an S-Lang
function that has moved the cursor off a window that is not trashed; `CursorInWindow`, a part of `ScreenShowsText`, fails). In Buffers it has "internal" (`BufferPointersLive` fails), "unnamed"
(`FindsTheFile`) and "race" (`StampIsSeen`).

`CHECK_DEADLOCK FALSE` is set where commands are bounded and the editor then has nothing left to do,
or where all processes may have quit.

## Fairness

Commands run on: the thread that is in a command takes its next step (`WF_vars(Work \/ UndoStep)` in
Undo, `WF_vars(Saving)` in SaveFile, per process in FileLock, where a process in a prompt is answered).
Nothing forces a user to start a command. In Subprocess the operating system starts the child that was
forked and delivers a pending signal (`ChildStart`, `Handler`), the thread goes on and S-Lang functions
return (`Thread`), and update() is called again (`Update`): the loop of `unix.c` that waits for a key
returns from `select` at each signal and the editor then updates. Nothing makes a child write or end. In Keys the editor goes on
while it has a key to read or a signal to answer (`WF_vars(Program)`); nobody has to type. In Hooks the S-Lang
functions that are called return (`WF_vars(AnyReturn)`); `RunsEnd` assumes besides, in its own statement, that the hooks
leave the lists alone from some moment on.

## Proofs

TLAPS proves, for every value of the constants (under the named assumptions in the modules):

* `UndoTypeCorrect`, `UndoRingSound` (UndoProofs): `TypeOK` and `UndoSound`, which adds `RingOK`, for every ring size, object
  size, text, set of commands, with refusals and with recording switched. Neither is inductive alone: the
  type invariant needs to know that the count of a deletion is the length of its bytes (else an
  object could overrun its buffer or a read pass the end of the text), and the ring's
  soundness needs the types. Together, as `UndoSound`, they are inductive; there is one lemma per
  action (`InsertNewlineStep`, `DeleteBytesStep`, ...), resting on lemmas on counting bytes and lines
  (`PlaceType`, `LineFits`), on the sizes of what is put in (`FilledType`, `DeletionFitsType`), and on
  the ring (`PrepareNextSound`: moving on by one, wrapped or not, keeps the window).
* `UndoRecordsInvert`, `UndoRetraces` (UndoProofs): `RecordsInvert` and `UndoRetracesHistory`, for a ring of more than one object
  (MAX_UNDOS is 10000; with one object Last_Undo has nowhere to move, and the text noted for the object is not the one
  its next changes begin with). The invariant is `HistInv`: `UndoSound` and, as long as the ring is trusted, that every object
  in the window inverts its changes (`AllInvert`) and that undo() stands where it should (`Retraced`): outside undo() and at the
  head of its loop the text is what the object at Current_Undo left, and inside an object the steps still to take lead to the
  text before it (`Goal`). It rests on four groups of lemmas: that a line and a point name one place, which depends only
  on the bytes before it (`SamePlace`, `Placed`); what inserting and removing do to the bytes, and that each takes the other
  back (`InsertTwice`, `InsertRemoved`, `RemoveInserted`, `InsertBeforeNewline`); that an object still inverts when a record is
  merged into it or begun in the next object (`PutInverts`, `PrepareInverts`, `RecordInsertionInverts`, `RecordDeletionInverts`);
  and one lemma per action.
* `LockTypeCorrect` (SmallPartsProofs): `LockTypeOK` always.
* `LockExcludes`, `LockImplementsService`: for any number of processes on any machines, which edit, save, discard,
  quit and die at any system call, find stale locks and break them, and whose calls may fail; under `NoRace`: no user steals, and
  either nobody ends, so that no lock is stale, or two processes that may create links and share a machine are the only ones that
  may. The invariant `LockInv` has `MutualExclusion`, and of each process (`LockOf`) that one about to unlink its own lock is still named
  by the link and no longer counts on it; that one that faces the lock of another process does not have the link itself;
  and that one about to break a lock has seen, on its own machine, an owner who has ended. Then the link cannot
  have changed hands since it was read: the owner is gone, nobody else may create one (`NobodyElse`), so that unlink removes the very
  lock that was read. `AllRun` serves the case that nobody ends. Without `NoRace` both statements are false (see Findings).
* `LockKeepsEdits`: `EditIsLocked` with thieves, crashes and failures, if nobody writes a region of another
  buffer to the file (`"region" \notin Ops`). The invariant `EditInv` says where a guarded buffer may be without its lock
  (on the way out), which commands unlock at all, and that a discarded buffer is no longer guarded.
* `LockIdleHoldsNothing`: `IdleHoldsNoLock`, if no edit changes nothing (`"touch" \notin Ops`) and
  writing the file and reading the lock do not fail (`Failures = {}`). `IdleInv` says at which steps a process with an unmodified buffer is not named by
  the link, and which commands may be at the others.
* `SaveTypeCorrect`, `SaveLosesNoText`, `SaveMarksTruly`, `SaveKnowsItsOwnFile` (SaveFileProofs): for any ways to back
  up, failing calls, other programs and bounds. None of the properties is inductive. `SaveInv` divides a save into
  the places between saves, before the backup is made, between the backup and the result, and those where a
  failed save is taken back, and says for each which flags are set (`Flags`), which file has the text
  (`Copies`), and how old the copies are (`Times`: the backup is never newer than what replaces it, so that
  putting it back is no change by somebody else). There is a lemma per part with a step per action, resting on
  lemmas on what each call leaves on the disk (`PutDisk`, `RenameDisk`, ...).
* `SaveOverwritesNothingUnseen`: `NoSilentOverwrite` under `StampsTell` (no old file is put back, and
  nobody writes in the second of JED's last look). `SeenInv` adds to `SaveInv` that every version a save may
  overwrite or a failed save put back is one that the user knows of.

* `HooksTypeCorrect`, `HooksNodesSound`, `HooksCalledOnce`, `HooksRunCallsAll` (SmallPartsProofs): for any lists, functions and
  depth of runs. `HooksInv` says that a list has a function once; that the count of a node is the number of runs that are at
  it; that a node is listed as long as it is valid or locked; and of each run that its own node is listed and that it has
  called, of the functions that were there all the time, those up to its place and none behind it (`Good`, `Placed`).
  Insertions before and behind the place, and removals, keep the last of these because nodes keep their order; the node a run is
  at is kept by its count, which needs the count to be exact, and that needs each function to have one node.
* `SubprocessTablesSound`, `SubprocessEndReported` (SubprocessProofs): for any number of children, slots, buffers, chunks and stops, under
  `Careful` (`HooksUpdate` and `DropClosed` are FALSE, as in the run; each is one of the findings). `SubInv` describes the
  stack of frames, which the handlers of signals grow at any step: which frame may be on top of which, and which slot a frame
  speaks of. A slot is cleared only by the one frame that has seen the end of its child, and the counters of changes are
  at least what is still to be looked at, although they are decremented by a load and a store that a handler may interrupt.
* `BuffersPointersLive`, `BuffersStampIsSeen`, `BuffersFindsTheFile`, `BuffersKillLosesNothing` (BuffersProofs): for any addresses, names,
  inodes, versions and bounds. `BuffersInv` has four parts: the pointers and the table of buffers (names differ, what is
  used is live), the stamps, the files (a buffer that knows an inode is the buffer of a file of that inode), and what a kill has
  thrown away. Each theorem assumes only that the lapses of `Lapses` it depends on do not happen: `PointersLive` that JED's
  own buffers are left alone ("internal"), `StampIsSeen` also "race", `FindsTheFile` also "unnamed",
  `KillLosesNothing` "internal". These are the findings below.
* `KeysMacroState`, `KeysCountIsKept` (KeysProofs): for any keymap, strings, depths, sizes and sessions. `KeysInv` describes the stack of
  loops (`Stacked`: what may call what, and what each frame keeps), the count (`Held`), the
  flags of the macro (`Flags`: defined, played, kept aside, and by which frame), that the place in the macro is within the macro
  (`Bounded`), and that no string is being read when digit_arg gives its last key back to a macro (`Spared`). `MacroState` needs for
  its bounds that no key string has a count in it (`NoCountStrings`; with one it is false, see Findings); `CountIsKept` needs no hypothesis.
* `WindowsScreenSound`, `WindowsMiniInPlace`, `WindowsPopKeepsCurrent` (WindowsProofs): for any buffers, any heights of the screen
  from 5 rows on, and any number of windows. `Sound` says that the ring is a sequence of windows of different identities that tile
  the screen (`Tiling`), that the minibuffer's is in it exactly while something is read and then on the last row, and that what
  is shown or selected is live; `MiniOwn` that no other window shows the minibuffer and that one nothing else; `Listed` that the
  buffer of the completions is live. That `Tiled` speaks of neighbours only does not suffice for `enlarge_window`, which looks
  for a window below or above JWindow and moves all between: `RingLayout` and `EnlargeOrder` derive the global order (ranks from the bottom window on;
  who comes later in the ring is lower on the screen; `RingDescends`, by the least rank that would not be). One lemma per function of the code says what it keeps
  (`SplitKeeps`, `DeleteKeeps`, `OneWindowKeeps`, `PopKeeps`, ...), resting on one on tilings each
  (`TurnedTiling`, `EnlargeTiling`, `MergeTiling`, ...). All three theorems assume that no window is enlarged across the
  minibuffer's ("across"; a code bug, see Findings); `WindowsMiniInPlace` also that no other buffer is selected in it ("mini"),
  `WindowsScreenSound` that the buffer of the completions is not deleted while its name is kept ("listed").
* `WindowsReadLeavesNoTrace` (WindowsProofs): `ReadLeavesNoTrace` under the hypotheses of `WindowsMiniInPlace`. The screen at the end is
  compared with one several commands ago, so the invariant must say at every moment of a reading what is left of it: `Tidy` says
  that completions are listed only while something is read, and are in a window only then; `Undisturbed` what becomes of the
  view `quiet`: the windows are as they were (`Same`), or one of several has lent its place to the completions and is the target
  (`Lent`), or the only one has been split for them, if it is large enough (`Halved`). One lemma per function says which of the
  three it leads from and to.
* `KeysQueue` (KeysProofs): `KeysAreAQueue`, under `NoCountStrings`, with the mapping of `Keys`: the pending keys and then the terminal's,
  each as the characters keymaps see (`AllKeys`). The invariant `Queued` is `KeysInv` with the types of the two and of what is still to be
  typed. Lemmas say what `AllKeys` is of an empty sequence, of one more key, of a concatenation and of a tail (by induction on the length, done with a least
  counterexample), one per function says which steps of the queue it makes (`MyGetkey` takes the first key or notices an abort,
  `Ungetkey` puts one back in front, `BufferKeystring` inserts, `flush_input` drops), and one per action puts them together.
* `AbbrevTypeCorrect`, `AbbrevTablesSound`, `AbbrevExpandsWord` (SmallPartsProofs): for any tables,
  buffers, characters, abbreviations, lines and any set of characters for words. `TablesInv` is `TablesSound` with the types it
  needs; only names are in the list, so that the global table is not found there. For `ExpandsWord` there are lemmas on the pieces
  of a line (`FirstHalf`, `Behind`, `DeletedBetween`, `InsertedBetween`, `RestIsSuffix`), that a word before a place begins at one
  place (`StartExists`, `StartUnique`), hence that the loop of jed_expand_abbrev finds it (`WordAtIs`), and that one expansion at most is possible
  (`OneExpansion`, from one table in force and `TablesSound`).
* `DisplayCacheSound` (DisplayProofs): `CacheSound`, for any buffers, lines (as many as there are addresses, used again
  as soon as they are free), heights and bounds, and one window or two, unless keys are typed while a command that has
  suspended the updates is running ("typeahead"; then update() is left undone with rows that hold addresses of lines
  that are gone). `CacheSound` is not inductive: a row that is not marked might hold a free address, which the next line
  gets. The invariant, `DisplayInv`, says that while updates are not suspended no such row exists: a row that is not
  marked is blank or shows a line *of the buffer its window shows* (`Clean`). It needs that the windows tile the screen
  (`Shape`), that a line is in one buffer and at one place there and the cursors are in their buffers (`Texts`), that
  the cursors of the windows are too, and the lines they begin with unless they are trashed (`Views`), and that nothing is suspended once a command has ended. Each function of
  the code keeps it: most only mark more rows and windows (`Touched`, a preorder that keeps all of it); `del_newline` and
  `erase_buffer` free lines that no unmarked row shows (`Outdated...`); windows are joined, split or given another
  buffer where all of their rows are marked; a window is no longer trashed only when it has been drawn from a
  line of its buffer (`Begun`).
* `DisplayShowsText` (DisplayProofs): `ScreenShowsText`, of the same buffers, lines, heights and windows, without "typeahead"
  and without "redraw" (with either it fails, see Runs). The invariant is `DisplayInv /\ ShownInv`. `ShownInv` says that while
  JED waits every window shows its text (`AllShown`); that during a command which has only changed or moved along its
  line (`plain`) updates are not suspended and the windows still show their texts, or the window in use is marked to be
  drawn (`Fit`), as it is when any other command returns; that a callback comes back to the buffer of the window in use;
  and that the row of the cursor is never looked for where it is not (`astray`).
  The lemmas follow the code: `find_top` always comes to a top that has the
  cursor in view (`FindTopReaches`, `FindTopOnScreen`); drawing a window whose unmarked rows are current shows its text
  from there on, the rows that are skipped included (`DrawShows`); the other windows keep showing theirs while one is
  drawn, since windows share no row (`OtherWindowShows`); and `update` does the other windows and then the one in use, or
  leaves it marked when a key waits (`DrawWindowsShow`, `UpdateShows`, `WaitingShows`).

Model-checked only: liveness (`UndoTerminates`, `AttemptEnds`, `OpenReturns`, `EndNoticed`, `HangupExits`, `RunsEnd`), which
is out of the prover's reach; `ReplaysDefinition` of Keys, which compares two whole plays of a macro; and Narrow's
`BufferSound` with its refinement (`TextSpec`), which rest on what each primitive of LineList does to a list in the heap.

## Findings

One run expects a violation; `PROJECT.json` quotes the lines.

* `buffers_unnamed`: `file_changed_on_disk` notes in the buffer the inode of the file it was asked about
  (`file.c:1741`). If a buffer without a file is to be saved over an existing file and that is declined,
  interrupted or fails, find_file then takes the buffer for the file: it shows it instead, or offers to read the file
  and kills the buffer with its unsaved text.

Met on the way, excluded from the passing runs by a constant or a guard, without a run of their own:

* Undo: delete, save, delete at the same place, undo: the second deletion joins the object of the first and
  takes its flag "unmodified before" along, so that undo marks a text unmodified that is not the file's
  (`undo.c:100`). Switching recording off and on, or a refusal in the middle of undo(), leaves objects that no
  longer fit the text.
* Locks: two races. Of three processes for a stale lock (`lock.c:334`): one reads the lock of a second, which unlocks and quits, a
  third locks the file, and the first, finding the second gone, removes the lock of the third, whose user is never
  asked (`doc/txt/filelock.txt:14`). Of an owner and a thief (`lock.c:468`): the owner reads its lock, the thief takes it,
  and the owner's unlink removes the thief's. write_region and edits that change
  nothing leave the file locked.
* Saving: when the file cannot be opened after it was renamed to its backup, `c_time` becomes 0 and the file
  that is put back counts as changed by somebody else (`file.c:1221`). A failed save forgets that
  the file had been changed by others.
* Subprocesses: kill_process() and then deleting the buffer leaves a pointer to it in the table
  (`jprocess.c:372`). A hook that calls update() clears the slot of its process twice, although the comment at
  `jprocess.c:960` demands reentrance. A process that ends while its hook is being told that it has stopped is
  cleared unreported, its last output unread (`jprocess.c:301`); with an error pending, the last output
  is not read before it is cleared (`jprocess.c:982`).
* Windows: `enlarge_window` does not end when no window has more than two rows, as after splitting one of five
  (`window.c:264`), and moves the minibuffer's window if it is linked between the two (`window.c:283`). A reading
  that ends while another buffer is shown in the minibuffer's window erases that buffer (`misc.c:434`).
  pop2buf's promise (`doc/tm/rtl/buffer.tm:172`) fails while something is being read or where the only window is
  too small to split.
* Keys: executing a macro in the minibuffer of macro_query loses the definition that is being made, since
  there is one place to keep it (`misc.c:128`). When a key string that runs itself is
  stopped, its depth is set to 0 and then decremented by each level that returns: the next one may go
  deeper by as much (`keymap.c:448`). digit_arg gives the key that ended its number back to the macro that is defined or
  played also when that key came from a string; a string with two counts puts `Macro_Buffer_Ptr` before the beginning of
  the buffer if the macro is empty (`keymap.c:825`, `keymap.c:829`; by TLC with a string of two counts). Met in the proof of `MacroState`.
* Display: keys typed while a command has suspended updates end update() before the suspension is
  taken back with its marks, so that changes made meanwhile are not drawn (`keymap.c:760`, `screen.c:1883`).
  A redraw from an S-Lang function that moved the cursor off a window that is not trashed, alone or after a change made while
  updates were suspended, leaves it there (`screen.c:2136`, against the comment at `screen.c:1107`). recenter(0) from another
  buffer leaves the window beginning with a line of that buffer until it is drawn (`screen.c:2166`); only is_line_visible
  (`window.c:448`), which is not modelled, would see it.
* Buffers: killing `" <paste>"`, or looking at it in a window when a region is copied, leaves a
  dangling `Paste_Buffer` or window (`paste.c:740`). (S)ave first followed by no to a question of the save (the file is
  newer, or may not be written) kills the buffer all the same (`ledit.c:250`); `KillLosesNothing` counts that no as an answer. A save of another process between the reading of a file and its
  stat gives the buffer the time of a text it has not read (`buffer.c:1390`). find_file in a window makes the new
  buffer its own `Last_Buffer` (`ledit.c:838`); aborting a kill leaves the buffer to be killed current;
  copying a region deletes the old clip before it checks that there is a region; the test for a symbolic link
  (`& S_IFLNK`) holds for regular files too.
* Hooks: adding to the beginning or the end of a list a function that is in it, also one that was removed while it
  runs, leaves it where it is, though `doc/tm/rtl/hooks.tm` says beginning (`hooks.c:149`). Two hooks that each
  remove the other and append it again are called for ever.
* Abbreviations: `delete_abbrev_table` looks for the table before the one to be deleted by advancing the wrong pointer
  (`abbrev.c:219`): it works for the first two tables of the list and follows a NULL pointer for any other; the model
  deletes only the first two. In overwrite mode an expansion deletes as many of the following
  characters as it is long, although the word had overwritten its own (`abbrev.c:110`). A newline does not
  expand the word before it.
* Text: `jed_count_lines_in_region` subtracts unsigned numbers and wraps when the mark is above the narrowing
  (`paste.c:1650`).

## Not modelled

* Undo: narrowed buffers (undo() checks for them), AUTO_SAVE_JUST_SAVE.
* Locks: a lock whose text cannot be parsed, pids that are used again, file systems without links.
* Saving: reading files, prompts for read-only files, several names of one file beyond "copy".
* Lines: read-only and hidden lines, inserts with several newlines at once, delete_region (a
  composition), the minibuffer's newlines, the allocator of lines; one mark at a time in Narrow.
* Subprocesses: writing to a process, signals sent by S-Lang, ptys, EIO, the query at exit, jed_popen,
  which buffer is current, S-Lang errors, a child that dies before it has started its program.
* Windows: the marks of windows, which of several invisible buffers comes first (any may),
  nested S-Lang frames.
* Keys: menus and the mouse, c_getkey, malloc failures that longjmp, key strings with counts (in the model, but in no session), macro_query
  called from a window that is not the macro's.
* Display: the row of the minibuffer, the menu bar, the status line, hidden lines, columns and horizontal
  scrolling (`WantsHScroll = FALSE` in the run), highlighting, `[EOB]`; the S-Lang variable that turns updates off;
  callbacks that select windows.
* Buffers: the minibuffer and buried buffers (Windows), backups and the flag FILE_MODIFIED (SaveFile), the order of
  the ring, auto-save, the text of the paste buffer, directories, reading line by line.
* Menus, colours, syntax highlighting, the drivers of terminals and window systems (`gtkterm.c`,
  `gtkmenu.c`, `xterm.c`, `wterm.c`, `win32.c` and others: about 35,000 of the 78,700 lines) draw, or translate events of a
  library; a model of them would be a model of that library. This is why the modules map a small share of
  the lines: what decides over text, files, locks and processes is in some 20,000 of them.
* Hooks: the names and arguments of hooks, running out of memory, asking whether a hook exists.
* Abbrev: writing a table into a buffer, listing the tables, wrapping of long lines and the blinking of brackets as one types.
* Commands on text and indentation are compositions of the primitives; local variables of a buffer are added and looked
  up, and nothing else; the containers (`c-btree.c`,
  `c-hash.c`) are sequential data structures for the Gtk build, better served by tests; start-up is read from
  scripts. `PROJECT.json` has each with its reason.

## Plan

What would come next, in this order:

1. Line attributes in LineList (read-only lines refuse a
   change in the middle of a composition; hidden lines under the display).
2. The autosaves of a panic (`panic.c`, `sig.c`) as the crash of Buffers composed with SaveFile.
3. Theorems: lemmas on the primitives of LineList (what they do to the marks).
