-------------------------------- MODULE Keys --------------------------------
(***************************************************************************)
(* From the keyboard to the commands of JED: the input buffer (sysdep.c),  *)
(* the terminal and signals (unix.c, sig.c), keyboard macros (misc.c), the *)
(* reading of key sequences, repeat counts and keys bound to strings       *)
(* (keymap.c), and the minibuffer's loop, as far as it reads keys.         *)
(*                                                                         *)
(* jed_do_key reads a sequence and interprets it; commands call it again:  *)
(* the editor is a stack of such loops.  ed.at says where the innermost    *)
(* one is.  A step reads one key and does all that follows until a key is  *)
(* wanted, a loop is tested or jed_do_key returns.                         *)
(***************************************************************************)
EXTENDS Integers, Sequences, FiniteSets, SequencesExt

CONSTANTS
  Keymap,     \* the command of each key sequence
  Meta,       \* the two keys of a character with its eighth bit set
  Strings,    \* the keys that a command of type "@..." stands for
  Stuffs,     \* the keys that a command gives to buffer_keystring
  Digits,     \* the number of each digit key
  Abort,      \* Jed_Abort_Char, which the terminal turns into SIGINT
  Sessions,   \* what the user does: the keys typed and the number of signals
  MaxAhead,   \* bound on the keys the terminal holds
  MacroSize,  \* JED_KBD_MACRO_SIZE
  InputSize,  \* MAX_INPUT_BUFFER_LEN - 3
  SeqSize,    \* SLANG_MAX_KEYMAP_KEY_SEQ
  MaxDepth,   \* do_macro_string: 10
  None

(* The commands that are not keys for other keys.                          *)
Builtin == {"insert", "begin", "end", "exec", "query", "prompt", "exit", "quit", "digit", "yes", "lock"}

ASSUME KeysAssumption ==
  /\ DOMAIN Meta \subseteq STRING /\ Abort \in STRING \ DOMAIN Meta
  /\ \A k \in DOMAIN Meta : Meta[k] \in Seq(STRING \ DOMAIN Meta) /\ Len(Meta[k]) = 2
  /\ \A c \in DOMAIN Strings : Strings[c] \in Seq(STRING) \ {<<>>}
  /\ \A c \in DOMAIN Stuffs : Stuffs[c] \in Seq(STRING)
  /\ {MaxAhead, MacroSize, InputSize, SeqSize, MaxDepth} \subseteq Nat \ {0}
  /\ InputSize >= 2   \* a character and the rest of it
  /\ DOMAIN Keymap \subseteq Seq(STRING) \ {<<>>}
  /\ \A s \in DOMAIN Keymap : Keymap[s] \in Builtin \cup DOMAIN Strings \cup DOMAIN Stuffs
  /\ DOMAIN Strings \cap DOMAIN Stuffs = {}
  /\ Builtin \cap (DOMAIN Strings \cup DOMAIN Stuffs) = {}
  /\ \A k \in DOMAIN Digits : Digits[k] \in 0..9
  /\ \A s \in Sessions : s.keys \in Seq(STRING) /\ s.signals \in Nat
  /\ <<Abort>> \in DOMAIN Keymap
  /\ None \notin Nat

VARIABLES
  todo,    \* what the user will still type
  kbd,     \* what was typed and not yet read
  signals, \* how many signals there will still be
  ed,      \* the editor
  got,     \* ghost: the last key that came from the keyboard, or Beep
  log,     \* ghost: the commands of the macro being defined or executed
  script   \* ghost: those of the macro that was defined last, or None

vars == <<todo, kbd, signals, ed, got, log, script>>

Beep == "beep"

(* A loop that calls jed_do_key, or do_key's own loop ("repeat").  rf is   *)
(* Repeat_Factor when it began, rest is Read_This_Character then.          *)
Frame(fn) == [fn |-> fn, cmd |-> None, n |-> 0, rf |-> None, rest |-> <<>>]

(* in: Input_Buffer.  str: Read_This_Character, empty when NULL.  mac, ptr *)
(* and max: Macro_Buffer, Macro_Buffer_Ptr and Macro_Ptr_Max.  def, exe:   *)
(* Defining_ and Executing_Keyboard_Macro, saved: Macro_State, illegal:    *)
(* Macro_Illegal_Now.  repeat: Repeat_Factor.  keys: the sequence so far,  *)
(* diff: Key_Bufferp - Key_Buffer, last: Last_Key_Buffer_Len.  err: there  *)
(* is an S-Lang error, msg: Error_Buffer is not empty, quit:               *)
(* SLKeyBoard_Quit.  leave: Exit_From_MiniBuffer.  hup: Jed_Sig_Exit_Fun.  *)
Start ==
  [in |-> <<>>, str |-> <<>>, mac |-> <<>>, ptr |-> 0, max |-> 0,
   def |-> FALSE, exe |-> FALSE, saved |-> [def |-> FALSE, exe |-> FALSE],
   illegal |-> FALSE, repeat |-> None, n |-> 0, keys |-> <<>>, diff |-> 0, last |-> 0,
   err |-> FALSE, msg |-> FALSE, quit |-> FALSE, leave |-> FALSE, depth |-> 0,
   stack |-> <<Frame("jed")>>, at |-> "loop", hup |-> FALSE, exited |-> FALSE]

Top(e) == Last(e.stack)
Within(e, fn) == \E i \in DOMAIN e.stack : e.stack[i].fn = fn
Pushed(e, f) == [e EXCEPT !.stack = Append(@, f)]
Popped(e) == [e EXCEPT !.stack = Front(@)]
-----------------------------------------------------------------------------
(* The input buffer.                                                       *)

Split(c) == IF c \in DOMAIN Meta THEN Meta[c] ELSE <<c>>

(* my_getkey: a character with its eighth bit set is returned as Meta_Char *)
(* and the rest of it stays in the buffer.  While the buffer is not empty  *)
(* nobody looks at SLKeyBoard_Quit.                                        *)
BugMyGetkey(e, k) ==   \* Mutant: the rest of a character is put after what follows.
  IF e.in # <<>>
  THEN [ch |-> Split(Head(e.in))[1], kbd |-> k,
        ed |-> [e EXCEPT !.in = Tail(@) \o Tail(Split(Head(@)))]]
  ELSE IF e.quit
  THEN [ch |-> Abort, kbd |-> k, ed |-> [e EXCEPT !.quit = FALSE]]
  ELSE [ch |-> Split(Head(k))[1], kbd |-> Tail(k),
        ed |-> [e EXCEPT !.in = Tail(Split(Head(k)))]]

MyGetkey(e, k) ==
  IF e.in # <<>>
  THEN [ch |-> Split(Head(e.in))[1], kbd |-> k,
        ed |-> [e EXCEPT !.in = Tail(Split(Head(@))) \o Tail(@)]]
  ELSE IF e.quit
  THEN [ch |-> Abort, kbd |-> k, ed |-> [e EXCEPT !.quit = FALSE]]
  ELSE [ch |-> Split(Head(k))[1], kbd |-> Tail(k),
        ed |-> [e EXCEPT !.in = Tail(Split(Head(k)))]]

Room(e, n) == Len(e.in) + n <= InputSize

(* ungetkey_string, which does nothing while a macro is executed.          *)
Ungetkey(e, ch) ==
  IF e.exe \/ ~Room(e, 1) THEN e ELSE [e EXCEPT !.in = <<ch>> \o @]

BufferKeystring(e, s) == IF Room(e, Len(s)) THEN [e EXCEPT !.in = @ \o s] ELSE e

(* flush_input, which leaves what the terminal holds while a macro runs.   *)
Flushed(e) == [e EXCEPT !.in = <<>>]
Drained(e, k) == IF e.exe THEN k ELSE <<>>
-----------------------------------------------------------------------------
(* Keyboard macros.                                                        *)

Failed(e) == [e EXCEPT !.err = TRUE, !.msg = TRUE]   \* msg_error

SaveState(e) == [e EXCEPT !.saved = [def |-> e.def, exe |-> e.exe]]

Suspended(e) == [SaveState(e) EXCEPT !.def = FALSE, !.exe = FALSE]

Resumed(e) == [e EXCEPT !.def = e.saved.def, !.exe = e.saved.exe]

Aborted(e) == SaveState([e EXCEPT !.def = FALSE, !.exe = FALSE])

(* macro_store_key, after the first key of a sequence was noticed.         *)
Stored(e, ch) ==
  LET f == IF e.diff = 0 THEN [e EXCEPT !.max = e.ptr] ELSE e
      m == SubSeq(e.mac, 1, e.ptr) \o <<ch>> \o SubSeq(e.mac, e.ptr + 2, Len(e.mac))
  IN IF ~e.def THEN e
     ELSE IF e.ptr >= MacroSize THEN Failed(f)
     ELSE [f EXCEPT !.mac = m, !.ptr = @ + 1]

(* The sequence's keys are kept for the echo.                              *)
Echoed(e) == [e EXCEPT !.diff = IF @ < SeqSize THEN @ + 1 ELSE 0]

(* jed_getkey: where the next key comes from.                              *)
FromString(e) == e.str # <<>>
FromMacro(e) == e.str = <<>> /\ e.exe /\ e.ptr < e.max
FromKeyboard(e) == ~FromString(e) /\ ~FromMacro(e)

BeginMacro(e) ==
  IF e.illegal THEN Failed(e)
  ELSE SaveState([e EXCEPT !.ptr = 0, !.def = TRUE])

EndMacro(e) ==
  IF e.def THEN SaveState([e EXCEPT !.def = FALSE])
  ELSE [(IF e.exe THEN e ELSE Failed(e)) EXCEPT !.exe = FALSE]

-----------------------------------------------------------------------------
(* Loops.                                                                  *)

(* do_key starts to read a sequence; after digit_arg the echo goes on.     *)
Ready(e) == [e EXCEPT !.at = "keys", !.keys = <<>>]
Fresh(e) == [Ready(e) EXCEPT !.diff = 0]

(* do_jed                                                                  *)
DoJed(e) == Fresh([e EXCEPT !.repeat = None])

(* A command has returned: to do_key's loop or, out of it, to jed_do_key.  *)
Back(e) == [e EXCEPT !.at = IF Top(e).fn = "repeat" THEN "loop" ELSE "ret"]

(* read_from_minibuffer; in the minibuffer it returns at once.             *)
Read(e) ==
  IF Within(e, "mini") THEN Back(e)
  ELSE DoJed(Pushed(e, [Frame("mini") EXCEPT !.rf = e.repeat]))

(* ... and its end.                                                        *)
BugMiniDone(e) ==   \* Mutant: the repeat count is not restored.
  Back([Popped(Resumed(e)) EXCEPT !.leave = FALSE, !.quit = FALSE])

MiniDone(e) ==
  LET rf == IF Top(e).rf = None THEN e.repeat ELSE Top(e).rf
  IN Back([Popped(Resumed(e)) EXCEPT !.leave = FALSE, !.quit = FALSE, !.repeat = rf])

MacroQuery(e) == Read([e EXCEPT !.def = FALSE, !.exe = FALSE])

BugExecDone(e) ==   \* Mutant: the flags are not saved.
  Back([Popped(e) EXCEPT !.illegal = FALSE, !.exe = FALSE, !.repeat = Top(e).rf])

ExecDone(e) ==
  Back(SaveState([Popped(e) EXCEPT !.illegal = FALSE, !.exe = FALSE, !.repeat = Top(e).rf]))

ExecuteMacro(e) ==
  LET f == SaveState([e EXCEPT !.exe = TRUE])
      g == Pushed([f EXCEPT !.ptr = 0, !.illegal = TRUE], [Frame("exec") EXCEPT !.rf = e.repeat])
  IN IF e.illegal \/ e.def THEN Back(Failed(e))
     ELSE IF e.max = 0 THEN ExecDone(g) ELSE DoJed(g)

(* do_macro_string.  When it stops a runaway it forgets how deep it is.    *)
DoMacroString(e, c) ==
  LET n == IF e.repeat = None THEN 1 ELSE e.repeat
      f == [Frame("string") EXCEPT !.cmd = c, !.n = n, !.rest = e.str]
  IN IF e.depth > MaxDepth THEN Back(Failed([e EXCEPT !.depth = 0, !.repeat = None]))
     ELSE [Pushed(e, f) EXCEPT !.depth = @ + 1, !.repeat = None, !.str = <<>>, !.at = "loop"]

StringDone(e) == Back([Popped(e) EXCEPT !.str = Top(e).rest, !.depth = @ - 1])

(* kbd_quit, with Ignore_User_Abort as it is while keys are read.          *)
KbdQuit(e) == [e EXCEPT !.quit = TRUE, !.msg = TRUE]

(* digit_arg, whose number begins with the last key of the sequence, also  *)
(* if it runs again and that key is no digit: then there is no number.     *)
DigitArg(e) ==
  [Pushed(e, Frame("digit")) EXCEPT !.at = "digits", !.diff = e.last,
     !.n = IF Last(e.keys) \in DOMAIN Digits THEN Digits[Last(e.keys)] ELSE None]

(* The number with one more digit; atoi makes 0 of no number.              *)
OneMore(n, d) == IF n = None THEN None ELSE 10 * n + d
Number(n) == IF n = None THEN 0 ELSE n

(* jed_get_mini_response, with the macro suspended or not.                 *)
Ask(e, suspend) ==
  [Pushed(IF suspend THEN Suspended(e) ELSE e,
          [Frame("ask") EXCEPT !.n = IF suspend THEN 1 ELSE 0]) EXCEPT !.at = "answer"]
-----------------------------------------------------------------------------
(* One command (key_interpret).                                            *)

Interpreted(e, c) ==
  CASE c = "insert" -> Back(e)
    [] c = "begin"  -> Back(BeginMacro(e))
    [] c = "end"    -> Back(EndMacro(e))
    [] c = "exec"   -> ExecuteMacro(e)
    [] c = "query"  -> MacroQuery(e)
    [] c = "prompt" -> Read(e)
    [] c = "exit"   -> Back([e EXCEPT !.leave = Within(e, "mini")])
    [] c = "quit"   -> Back(KbdQuit(e))
    [] c = "digit"  -> DigitArg(e)
    [] c = "yes"    -> Ask(e, FALSE)
    [] c = "lock"   -> Ask(e, TRUE)
    [] c \in DOMAIN Stuffs -> Back(BufferKeystring(e, Stuffs[c]))
    [] c \in DOMAIN Strings -> DoMacroString(e, c)

Begun == UNION {Prefixes(Front(s)) : s \in DOMAIN Keymap} \ {<<>>}

(* The commands that the replay of a macro is compared by.                 *)
Counted == {Keymap[s] : s \in DOMAIN Keymap} \ {"begin", "end", "exec", "digit"}

(* key_interpret in the state e.                                           *)
Interpret(e, c) ==
  /\ ed' = Interpreted(e, c)
  /\ log' = IF c = "begin" /\ ~e.illegal THEN IF Within(e, "mini") THEN None ELSE <<>>
            ELSE IF c = "exec" /\ ~e.illegal /\ ~e.def THEN <<>>
            ELSE IF (e.def \/ e.exe) /\ c \in Counted /\ log # None THEN Append(log, c)
            ELSE log
  /\ script' = IF c = "begin" /\ ~e.illegal THEN None
               ELSE IF c = "end" /\ e.def /\ ~Within(e, "mini") THEN log ELSE script

(* The key ch has come: to a sequence, to digit_arg, to a question.        *)
ToSequence(e, k, ch) ==
  LET ks == Append(e.keys, ch)
      f == [e EXCEPT !.keys = ks, !.last = e.diff, !.diff = 0]
  IN \/ /\ ks \in Begun
        /\ ed' = [e EXCEPT !.keys = ks] /\ kbd' = k
        /\ UNCHANGED <<log, script>>
     \/ /\ ks \in DOMAIN Keymap /\ e.repeat = None
        /\ Interpret(f, Keymap[ks]) /\ kbd' = k
     \/ /\ ks \in DOMAIN Keymap /\ e.repeat # None
        /\ ed' = [Pushed(f, [Frame("repeat") EXCEPT !.cmd = Keymap[ks], !.n = e.repeat])
                    EXCEPT !.at = "loop"]
        /\ kbd' = k /\ UNCHANGED <<log, script>>
     \/ /\ ks \notin Begun \cup DOMAIN Keymap
        /\ LET beep == ~e.exe /\ ~e.quit
               g == IF beep THEN Flushed(f) ELSE f
           IN /\ ed' = [(IF e.quit THEN KbdQuit(g) ELSE g) EXCEPT !.at = "ret"]
              /\ kbd' = IF beep THEN <<>> ELSE k
        /\ UNCHANGED <<log, script>>

(* The key that ends the number is given back to where it came from.       *)
BugToDigits(e, k, ch) ==   \* Mutant: not from the macro that is being defined.
  /\ ed' = IF ch \in DOMAIN Digits THEN [e EXCEPT !.n = OneMore(@, Digits[ch])]
           ELSE LET f == [Ungetkey(e, ch) EXCEPT !.repeat = Number(e.n),
                           !.diff = IF @ > 0 THEN @ - 1 ELSE 0]
                IN Ready(IF e.exe THEN [f EXCEPT !.ptr = @ - 1] ELSE f)
  /\ kbd' = k
  /\ UNCHANGED <<log, script>>

ToDigits(e, k, ch) ==
  /\ ed' = IF ch \in DOMAIN Digits THEN [e EXCEPT !.n = OneMore(@, Digits[ch])]
           ELSE LET f == [Ungetkey(e, ch) EXCEPT !.repeat = Number(e.n),
                           !.diff = IF @ > 0 THEN @ - 1 ELSE 0]
                IN Ready(IF e.exe \/ e.def THEN [f EXCEPT !.ptr = @ - 1] ELSE f)
  /\ kbd' = k
  /\ UNCHANGED <<log, script>>

ToQuestion(e, k) ==
  /\ ed' = Back(Popped(IF Top(e).n = 1 THEN Resumed(e) ELSE e))
  /\ kbd' = k
  /\ UNCHANGED <<log, script>>

Deliver(e, k, ch) ==
  CASE e.at = "keys"   -> ToSequence(e, k, ch)
    [] e.at = "digits" -> ToDigits(e, k, ch)
    [] e.at = "answer" -> ToQuestion(e, k)

Wanted(e) == e.at \in {"keys", "digits", "answer"} /\ ~e.exited
-----------------------------------------------------------------------------
Init ==
  /\ \E s \in Sessions : todo = s.keys /\ signals = s.signals
  /\ kbd = <<>> /\ ed = Start
  /\ got = Beep /\ log = <<>> /\ script = None

(* The user and the terminal.                                              *)
Type ==
  /\ todo # <<>> /\ Len(kbd) < MaxAhead /\ ~ed.exited
  /\ kbd' = Append(kbd, Head(todo)) /\ todo' = Tail(todo)
  /\ UNCHANGED <<signals, ed, got, log, script>>

(* my_interrupt                                                            *)
Sigint ==
  /\ signals > 0 /\ ~ed.exited
  /\ ed' = [ed EXCEPT !.quit = TRUE] /\ signals' = signals - 1
  /\ log' = None   \* what follows is not what the keys are bound to
  /\ UNCHANGED <<todo, kbd, got, script>>

(* sig_hup_exit_jed                                                        *)
Sighup ==
  /\ signals > 0 /\ ~ed.hup
  /\ ed' = [ed EXCEPT !.hup = TRUE] /\ signals' = signals - 1
  /\ UNCHANGED <<todo, kbd, got, log, script>>

(* hup_exit_jed: where a key is waited for, and from input_pending.        *)
Exit ==
  /\ ed.hup /\ ~ed.exited
  /\ ed' = [ed EXCEPT !.exited = TRUE]
  /\ UNCHANGED <<todo, kbd, signals, got, log, script>>

BugExitWaiting ==   \* Mutant: a key must have come.
  Wanted(ed) /\ FromKeyboard(ed) /\ ed.in = <<>> /\ kbd # <<>> /\ Exit

ExitWaiting == Wanted(ed) /\ FromKeyboard(ed) /\ ed.in = <<>> /\ Exit
ExitPending == ~ed.exe /\ Exit

(* input_pending, which the screen's update and many commands call: a key  *)
(* that has come is read and put into the input buffer.                    *)
InputPending ==
  /\ ~ed.exe /\ ~ed.hup /\ ~ed.exited /\ ed.in = <<>>
  /\ (kbd # <<>> \/ ed.quit)
  /\ LET r == MyGetkey(ed, kbd)
     IN ed' = Ungetkey(r.ed, r.ch) /\ kbd' = r.kbd
  /\ UNCHANGED <<todo, signals, got, log, script>>

(* jed_getkey.  A key that is bound to nothing may have cost all the rest. *)
Heard(ch) ==
  got' = IF kbd' = <<>> /\ ed'.in = <<>> /\ ed'.at = "ret" /\ ed'.keys \notin DOMAIN Keymap
         THEN Beep ELSE ch

StringKey ==
  /\ Wanted(ed) /\ FromString(ed)
  /\ Deliver([ed EXCEPT !.str = Tail(@)], kbd, Head(ed.str))
  /\ Heard(got)
  /\ UNCHANGED <<todo, signals>>

MacroKey ==
  /\ Wanted(ed) /\ FromMacro(ed)
  /\ Deliver([ed EXCEPT !.ptr = @ + 1], kbd, ed.mac[ed.ptr + 1])
  /\ UNCHANGED <<todo, signals, got>>

Key ==
  /\ Wanted(ed) /\ FromKeyboard(ed)
  /\ ed.in # <<>> \/ (~ed.hup /\ (kbd # <<>> \/ ed.quit))
  /\ LET r == MyGetkey([ed EXCEPT !.exe = FALSE], kbd)
     IN Deliver(Echoed(Stored(r.ed, r.ch)), r.kbd, r.ch) /\ Heard(r.ch)
  /\ UNCHANGED <<todo, signals>>

(* The end of jed_do_key, with an error or without.                        *)
Return ==
  /\ ed.at = "ret" /\ ~ed.exited
  /\ LET f == IF ed.err THEN [Aborted(ed) EXCEPT !.str = <<>>, !.repeat = None] ELSE ed
         digit == Top(f).fn = "digit"
     IN ed' = IF digit THEN Back(Popped(f)) ELSE [f EXCEPT !.at = "loop"]
  /\ UNCHANGED <<todo, kbd, signals, got, log, script>>

(* The loops.  update shows an error with a beep, which flushes the input. *)
Told(e) == IF e.msg THEN [Flushed(e) EXCEPT !.msg = FALSE, !.err = FALSE]
           ELSE [e EXCEPT !.err = FALSE]

Loop(fn) ==
  /\ ed.at = "loop" /\ Top(ed).fn = fn /\ ~ed.exited
  /\ UNCHANGED <<todo, signals>>

Dialog ==
  /\ kbd' = IF ed.msg /\ ~ed.exe THEN <<>> ELSE kbd
  /\ got' = IF ed.msg THEN Beep ELSE got
  /\ UNCHANGED <<log, script>>

Quiet == UNCHANGED <<kbd, got, log, script>>

MainLoop == Loop("jed") /\ ed' = DoJed([Told(ed) EXCEPT !.quit = FALSE]) /\ Dialog

MiniLoop ==
  /\ Loop("mini")
  /\ \/ ed.quit /\ ed' = MiniDone(ed) /\ Quiet
     \/ ~ed.quit /\ ed' = (IF ed.leave THEN MiniDone(Told(ed)) ELSE DoJed(Told(ed))) /\ Dialog

ExecLoop ==
  /\ Loop("exec") /\ Quiet
  /\ ed' = IF ed.ptr < ed.max /\ ed.exe /\ ~ed.quit /\ ~ed.msg THEN DoJed(ed) ELSE ExecDone(ed)

StringLoop ==
  /\ Loop("string") /\ Quiet
  /\ LET stop == ed.err \/ ed.quit
         i == Len(ed.stack)
     IN \/ ed.str # <<>> /\ ~stop /\ ed' = Fresh(ed)
        \/ /\ ed.str = <<>> /\ Top(ed).n > 0
           /\ ed' = [ed EXCEPT !.stack[i].n = @ - 1, !.str = Strings[Top(ed).cmd]]
        \/ /\ IF ed.str # <<>> THEN stop ELSE Top(ed).n = 0
           /\ ed' = StringDone(ed)

RepeatLoop ==
  /\ Loop("repeat") /\ UNCHANGED <<kbd, got>>
  /\ LET go == Top(ed).n > 0 /\ ~ed.quit /\ ~ed.err /\ ed.repeat # None
         i == Len(ed.stack)
     IN \/ go /\ Interpret([ed EXCEPT !.stack[i].n = @ - 1], Top(ed).cmd)
        \/ /\ ~go /\ ed' = [Popped(ed) EXCEPT !.repeat = None, !.at = "ret"]
           /\ UNCHANGED <<log, script>>

Program ==
  \/ StringKey \/ MacroKey \/ Key \/ ExitWaiting \/ Return
  \/ MainLoop \/ MiniLoop \/ ExecLoop \/ StringLoop \/ RepeatLoop

Next == Type \/ Sigint \/ Sighup \/ ExitPending \/ InputPending \/ Program

(* The program takes its steps; nobody need type.                          *)
Spec == Init /\ [][Next]_vars /\ WF_vars(Program)
-----------------------------------------------------------------------------
(* What is modelled is what the program can be in.  A macro is executed    *)
(* only from within execute_keyboard_macro, wherever the flags were saved  *)
(* and restored meanwhile, it cannot begin then, and it is read within     *)
(* its bounds.                                                             *)
MacroState ==
  /\ ed.illegal <=> Within(ed, "exec")
  /\ ed.exe \/ ed.saved.exe => Within(ed, "exec")
  /\ Within(ed, "exec") => ~ed.def /\ ~ed.saved.def
  /\ ed.ptr \in 0..MacroSize /\ ed.max <= Len(ed.mac)
  /\ Within(ed, "exec") => ed.ptr <= ed.max
  /\ Cardinality({i \in DOMAIN ed.stack : ed.stack[i].fn \in {"exec", "mini"}}) <= 2

(* A macro does again what was done while it was defined: when it has run  *)
(* to its end with no error or interrupt, its commands were those of the   *)
(* definition, with counts, prompts and questions.  (If it was begun,      *)
(* ended and executed outside the minibuffer.)                             *)
ReplaysDefinition ==
  /\ ed.at = "loop" /\ Top(ed).fn = "exec" /\ ed.ptr = ed.max
  /\ ~ed.err /\ ~ed.msg /\ ~ed.quit /\ ~Within(ed, "mini") /\ {log, script} \cap {None} = {}
  => log = script

(* A count is used up by its command, not lost to what the command does:   *)
(* do_key's loop ends early only by an error or an interrupt, or when the  *)
(* command takes the count for itself.                                     *)
CountIsKept ==
  /\ ed.at = "loop" /\ Top(ed).fn = "repeat" /\ Top(ed).n > 0
  /\ ~ed.err /\ ~ed.quit
  => ed.repeat # None \/ Top(ed).cmd \in DOMAIN Strings \cup {"digit"}

(* The input buffer and the terminal are one queue of keys.                *)
AllKeys(s) ==
  LET upto[n \in 0..Len(s)] == IF n = 0 THEN <<>> ELSE upto[n - 1] \o Split(s[n])
  IN upto[Len(s)]
Queue == INSTANCE KeyQueue WITH
  queue <- AllKeys(ed.in) \o AllKeys(kbd), got <- got,
  Typed <- {Split(k) : k \in UNION {Range(s.keys) : s \in Sessions}},
  Given <- {AllKeys(Stuffs[c]) : c \in DOMAIN Stuffs}
KeysAreAQueue == Queue!Spec

(* A hangup ends the editor as soon as it has no more keys to work on,     *)
(* whatever it was doing.                                                  *)
HangupExits == ed.hup ~> ed.exited
=============================================================================
