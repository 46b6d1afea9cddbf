-------------------------------- MODULE Hooks --------------------------------
(***************************************************************************)
(* The lists of hooks of JED (hooks.c): S-Lang functions that are called,  *)
(* one after the other, when the editor starts, exits, reads a file...     *)
(*                                                                         *)
(* A hook is S-Lang code.  While it runs it may add hooks to the list that *)
(* is being walked, remove any of them, itself too, and run the same list  *)
(* again.  A hook that is running is locked: when it is removed it is only *)
(* marked, and the last run that leaves it frees it.                       *)
(*                                                                         *)
(* A node of a list is known by its function, of which the list has one    *)
(* node at most.  A list that does not exist is an empty one.  Running out *)
(* of memory is left out.                                                  *)
(***************************************************************************)
EXTENDS Integers, Sequences, FiniteSets, SequencesExt

CONSTANTS
  Names,    \* the names of the lists
  Funs,     \* S-Lang functions
  MaxDepth  \* bound on the runs inside one another

ASSUME HooksAssumption == MaxDepth \in Nat

VARIABLES
  hooks,  \* the functions of each list, in order
  valid,  \* is_valid: those that have not been removed
  locks,  \* num_locks of each node
  stack,  \* the runs in progress, the innermost one last
  ended   \* ghost: what the last run to end was, and whom it left out

vars == <<hooks, valid, locks, stack, ended>>

Methods == {"all", "until 0", "until non-0"}

(* What a hook's function may do: fail, leave no integer on the stack, or  *)
(* leave one.                                                              *)
Answers == {"error", "nothing", "zero", "one"}

(* due, called and again are ghosts: the functions that have been in the   *)
(* list since the run began, those it has called, and those it has called  *)
(* once more although they had not been removed in between.                *)
Runs == [name : Names, hook : Funs, method : Methods,
         due : SUBSET Funs, called : SUBSET Funs, again : SUBSET Funs]

Init ==
  /\ hooks = [n \in Names |-> <<>>]
  /\ valid = [n \in Names |-> {}]
  /\ locks = [n \in Names |-> [f \in Funs |-> 0]]
  /\ stack = <<>>
  /\ ended = [method |-> "all", result |-> 0, missed |-> {}]

Listed(n) == {hooks[n][i] : i \in DOMAIN hooks[n]}

(* A plausible bug: a node that is locked is freed all the same. *)
BugFreed(s, i, count) == RemoveAt(s, i)

(* free_hook: nothing happens to a node that is locked. *)
Freed(s, i, count) == IF count = 0 THEN RemoveAt(s, i) ELSE s

(* A plausible bug: the function is not looked up in the list. *)
BugInsert(n, f, longer) ==
  /\ hooks' = [hooks EXCEPT ![n] = longer]
  /\ valid' = [valid EXCEPT ![n] = @ \cup {f}]
  /\ UNCHANGED <<locks, stack, ended>>

(* A function that is in the list stays where it is. *)
Insert(n, f, longer) ==
  /\ hooks' = IF f \in Listed(n) THEN hooks ELSE [hooks EXCEPT ![n] = longer]
  /\ valid' = [valid EXCEPT ![n] = @ \cup {f}]
  /\ UNCHANGED <<locks, stack, ended>>

AddToHook(n, f) == Insert(n, f, <<f>> \o hooks[n])
AppendToHook(n, f) == Insert(n, f, Append(hooks[n], f))

Forget(r, n, f) ==
  IF r.name = n
  THEN [r EXCEPT !.due = @ \ {f}, !.called = @ \ {f}, !.again = @ \ {f}]
  ELSE r

RemoveFromHook(n, f) ==
  \E i \in DOMAIN hooks[n] :
    /\ hooks[n][i] = f
    /\ valid' = [valid EXCEPT ![n] = @ \ {f}]
    /\ hooks' = [hooks EXCEPT ![n] = Freed(hooks[n], i, locks[n][f])]
    /\ stack' = [k \in DOMAIN stack |-> Forget(stack[k], n, f)]
    /\ UNCHANGED <<locks, ended>>

(* Plausible bugs: after a hook that has removed itself the next one is    *)
(* left out; a run that has come to the end of the list begins again.      *)
BugAheadOfFreed(n, i) ==
  {j \in i..Len(hooks[n]) :
     /\ hooks[n][j] \in valid[n]
     /\ j = i /\ i > 1 => hooks[n][i - 1] \in valid[n]}
BugAheadAgain(n, i) ==
  {j \in (IF i > Len(hooks[n]) THEN 1 ELSE i)..Len(hooks[n]) : hooks[n][j] \in valid[n]}

(* The places from i on of hooks that are to be called. *)
Ahead(n, i) == {j \in i..Len(hooks[n]) : hooks[n][j] \in valid[n]}

Calling(r, f) ==
  [name |-> r.name, hook |-> f, method |-> r.method, due |-> r.due,
   called |-> r.called \cup {f}, again |-> r.again \cup ({f} \cap r.called)]

(* The run r goes on at place i: it calls the next hook, or it ends.  base *)
(* is the lock counts once the last hook has been released, below the runs *)
(* that r is inside of.                                                    *)
GoOn(r, i, base, below) ==
  \/ \E j \in Ahead(r.name, i) :
       /\ \A k \in Ahead(r.name, i) : j <= k
       /\ locks' = [base EXCEPT ![r.name][hooks[r.name][j]] = @ + 1]
       /\ stack' = Append(below, Calling(r, hooks[r.name][j]))
       /\ UNCHANGED ended
  \/ /\ Ahead(r.name, i) = {}
     /\ locks' = base
     /\ stack' = below
     /\ ended' = [method |-> r.method, missed |-> r.due \ r.called,
                  result |-> IF r.method = "until 0" THEN 1 ELSE 0]

RunHooks(n, m) ==
  /\ Len(stack) < MaxDepth
  /\ GoOn([name |-> n, method |-> m, due |-> valid[n], called |-> {}, again |-> {}], 1, locks, stack)
  /\ UNCHANGED <<hooks, valid>>

Stops(m, a) ==
  \/ a = "error"
  \/ a = "nothing" /\ m # "all"
  \/ a = "zero" /\ m = "until 0"
  \/ a = "one" /\ m = "until non-0"

(* release_hook: num_locks. *)
Released(n, f) == [locks EXCEPT ![n][f] = IF @ >= 1 THEN @ - 1 ELSE @]

(* The function of the innermost run returns.  What comes after its hook   *)
(* is read before the hook is released, which may free it.                 *)
Return(a) ==
  /\ stack # <<>>
  /\ LET r == Last(stack)
         n == r.name
         released == Released(n, r.hook)
     IN /\ \E i \in DOMAIN hooks[n] :
             /\ hooks[n][i] = r.hook
             /\ hooks' = IF r.hook \in valid[n] THEN hooks
                         ELSE [hooks EXCEPT ![n] = Freed(@, i, released[n][r.hook])]
             /\ IF Stops(r.method, a)
                THEN /\ locks' = released
                     /\ stack' = Front(stack)
                     /\ ended' = [method |-> r.method, missed |-> {},
                                  result |-> CASE a = "zero" -> 0 [] a = "one" -> 1 [] OTHER -> -1]
                ELSE GoOn(r, i + 1, released, Front(stack))
        /\ UNCHANGED valid

AnyReturn == \E a \in Answers : Return(a)

Next ==
  \/ \E n \in Names, f \in Funs : AddToHook(n, f) \/ AppendToHook(n, f) \/ RemoveFromHook(n, f)
  \/ \E n \in Names, m \in Methods : RunHooks(n, m)
  \/ AnyReturn

(* Fairness: S-Lang functions return. *)
Spec == Init /\ [][Next]_vars /\ WF_vars(AnyReturn)

-----------------------------------------------------------------------------
TypeOK ==
  /\ hooks \in [Names -> Seq(Funs)]
  /\ valid \in [Names -> SUBSET Funs]
  /\ locks \in [Names -> [Funs -> Nat]]
  /\ stack \in Seq(Runs)
  /\ ended \in [method : Methods, result : {-1, 0, 1}, missed : SUBSET Funs]

(* The runs that are at the node of f in the list n. *)
Holders(n, f) == {k \in DOMAIN stack : stack[k].name = n /\ stack[k].hook = f}

(* The pointer that jed_run_hooks keeps during a call is never that of a   *)
(* freed node, whatever the hook does to the list; the locks of a node are *)
(* the runs that are at it; and a node that was removed stays only as long *)
(* as it is locked (hooks.c:63-99).                                        *)
NodesSound ==
  /\ \A k \in DOMAIN stack : stack[k].hook \in Listed(stack[k].name)
  /\ \A n \in Names, f \in Funs :
       /\ locks[n][f] = Cardinality(Holders(n, f))
       /\ f \in Listed(n) <=> f \in valid[n] \/ locks[n][f] > 0

(* A run calls no function twice that was not removed in between, and when *)
(* it is at a hook, it has called those before it that have been in the    *)
(* list all the time, and none of those after it: also when the list has   *)
(* changed, or has been run, inside the calls (hooks.c:268-309).           *)
CalledOnce ==
  \A k \in DOMAIN stack :
    LET r == stack[k]
    IN /\ r.again = {}
       /\ \A i, j \in DOMAIN hooks[r.name] :
            hooks[r.name][j] = r.hook /\ hooks[r.name][i] \in r.due
              => (hooks[r.name][i] \in r.called <=> i <= j)

(* A run that comes to the end of the list has called every function that  *)
(* was in the list all the time: JED exits, or is suspended, only when all *)
(* the hooks have agreed (cmds.c:1313, hooks.c:306).                       *)
RunCallsAll == ended.missed = {}

(* Once the hooks leave the lists alone and run none, all the runs end.    *)
RunsEnd == <>[][AnyReturn]_vars => []<>(stack = <<>>)

=============================================================================
