------------------------------- MODULE PtyInput --------------------------------
(***************************************************************************)
(* PTYProcess (pty_process.py): the threads that write to the terminal of  *)
(* one Claude Code process, the drain thread that reads its output and     *)
(* answers startup dialogs, and stop.  _input_lock serializes the writes   *)
(* and the close; the terminal holds little, so a write may block, and     *)
(* Claude Code does not read while its own output is blocked.              *)
(***************************************************************************)
EXTENDS Naturals, Sequences

CONSTANTS
    Prompts,       \* calls of send_prompt (prompts and steers)
    Interrupts,    \* calls of send_interrupt
    Drain, Stop,   \* the drain thread and a call of stop
    None,
    InCap,         \* chunks that the terminal holds for Claude Code
    OutCap,        \* chunks that it holds from Claude Code
    MaxDialogs,    \* bound: startup dialogs
    Env            \* what may happen, see Events

Events == {"die",    \* Claude Code dies by itself
           "late"}   \* the window for startup dialogs closes

Threads == Prompts \cup Interrupts \cup {Drain, Stop}

ASSUME InputAssumption ==
    /\ Prompts \cap Interrupts = {} /\ {Drain, Stop} \cap (Prompts \cup Interrupts) = {}
    /\ Drain # Stop /\ None \notin Threads
    /\ InCap \in Nat \ {0} /\ OutCap \in Nat \ {0} /\ MaxDialogs \in Nat
    /\ Env \subseteq Events

VARIABLES
    pc,        \* of each thread
    lock,      \* PTYProcess._input_lock: who holds it
    running,   \* PTYProcess._running
    open,      \* PTYProcess.master_fd is not None
    died,      \* PTYProcess._child_dead
    marked,    \* the drain loop's confirm_buf shows a dialog
    cooling,   \* now < cooldown_until
    window,    \* now < confirm_deadline
    child,     \* Claude Code: "alive", or how it ended
    screen,    \* what it shows
    render,    \* what it is about to write: no input is read before that
    dialogs,   \* startup dialogs it has shown
    input,     \* chunks on their way to it
    output,    \* chunks on their way from it
    last       \* ghost: the chunk that was written last

threads  == <<pc, lock>>
flags    == <<running, open, died>>
watching == <<marked, cooling, window>>
claude   == <<child, screen, render, dialogs>>
vars == <<threads, flags, watching, claude, input, output, last>>

Chunk(t, part) == [by |-> t, part |-> part]
Enters(c) == c.part = "enter"
Goes(t, to) == pc' = [pc EXCEPT ![t] = to]
Screens(n) == {"chat"} \cup (IF n < MaxDialogs THEN {"dialog"} ELSE {})

Init ==
    /\ pc = [t \in Threads |-> IF t = Drain THEN "loop" ELSE "idle"]
    /\ lock = None /\ running = TRUE /\ open = TRUE /\ died = FALSE
    /\ marked = FALSE /\ cooling = FALSE /\ window = TRUE
    /\ child = "alive" /\ screen = "boot" /\ dialogs = 0
    /\ render \in Screens(0)
    /\ input = <<>> /\ output = <<>> /\ last = Chunk(None, "nothing")
--------------------------------------------------------------------------------
(* A chunk is written, the write blocks, or it fails as nobody can read. *)

Writes(t, part, then) ==
    /\ child = "alive" /\ Len(input) < InCap
    /\ input' = Append(input, Chunk(t, part))
    /\ last' = Chunk(t, part)
    /\ Goes(t, then)

Unwritten == UNCHANGED <<input, last>>
Elsewhere == UNCHANGED <<flags, watching, claude, output>>

Acquire(t, then) == lock = None /\ lock' = t /\ Goes(t, then)
Release(t, then) == lock = t /\ lock' = None /\ Goes(t, then)

SendPrompt(p) ==
    /\ pc[p] = "idle" /\ lock = None
    /\ IF running /\ ~died /\ child = "alive" /\ open
       THEN Acquire(p, "paste")
       ELSE Goes(p, "raised") /\ UNCHANGED lock
    /\ Unwritten /\ Elsewhere

Paste(p) ==   \* a long paste takes more than one os.write
    /\ \/ pc[p] = "paste" /\ Writes(p, "paste", "rest")
       \/ pc[p] = "rest"  /\ Writes(p, "rest", "pause")
    /\ UNCHANGED lock /\ Elsewhere

Pause(p) ==   \* a moment, or until images are in the cache or it takes too long
    /\ pc[p] = "pause" /\ Goes(p, "enter")
    /\ UNCHANGED lock /\ Unwritten /\ Elsewhere

Enter(p) ==
    /\ pc[p] = "enter" /\ Writes(p, "enter", "leave")
    /\ UNCHANGED lock /\ Elsewhere

Leave(p) ==
    /\ pc[p] = "leave" /\ Release(p, "done")
    /\ Unwritten /\ Elsewhere

WriteFailsLocked(p) ==   \* mutant: the lock is not given back
    /\ pc[p] \in {"paste", "rest", "enter", "escape"} /\ child # "alive"
    /\ Goes(p, "raised") /\ UNCHANGED lock /\ Unwritten /\ Elsewhere
WriteFails(p) ==   \* EIO
    /\ pc[p] \in {"paste", "rest", "enter", "escape"} /\ child # "alive"
    /\ Release(p, "raised") /\ Unwritten /\ Elsewhere

SendInterruptUnlocked(i) ==   \* mutant
    /\ pc[i] = "idle" /\ running /\ open
    /\ Writes(i, "escape", "done") /\ UNCHANGED lock /\ Elsewhere
SendInterrupt(i) ==
    /\ pc[i] = "idle" /\ lock = None
    /\ IF running /\ open THEN Acquire(i, "escape") ELSE Goes(i, "done") /\ UNCHANGED lock
    /\ Unwritten /\ Elsewhere

Escape(i) ==
    /\ pc[i] = "escape" /\ Writes(i, "escape", "leave")
    /\ UNCHANGED lock /\ Elsewhere
--------------------------------------------------------------------------------
(* stop *)

StopBegins ==
    /\ pc[Stop] = "idle" /\ running' = FALSE /\ Goes(Stop, "lock")
    /\ UNCHANGED <<lock, open, died, watching, claude, output>> /\ Unwritten

StopLocks ==
    /\ pc[Stop] = "lock" /\ Acquire(Stop, "terminate") /\ Unwritten /\ Elsewhere

TerminateUnlocked ==   \* mutant: terminate, then take the lock for the close
    /\ pc[Stop] \in {"lock", "terminate"} /\ child = "alive" /\ child' = "stopped"
    /\ UNCHANGED <<threads, flags, watching, screen, render, dialogs, output>>
    /\ Unwritten
Terminate ==   \* or kill, where terminate does not help
    /\ pc[Stop] = "terminate" /\ child = "alive" /\ child' = "stopped"
    /\ UNCHANGED <<threads, flags, watching, screen, render, dialogs, output>>
    /\ Unwritten

CloseUnlocked ==   \* mutant: the lock is left as it is
    /\ pc[Stop] = "terminate" /\ child # "alive"
    /\ open' = FALSE /\ Goes(Stop, "join")
    /\ UNCHANGED <<lock, running, died, watching, claude, output>> /\ Unwritten
Close ==
    /\ pc[Stop] = "terminate" /\ child # "alive"
    /\ open' = FALSE /\ Release(Stop, "join")
    /\ UNCHANGED <<running, died, watching, claude, output>> /\ Unwritten

StopReturns ==   \* the drain thread has ended, or is not waited for any longer
    /\ pc[Stop] = "join" /\ Goes(Stop, "done")
    /\ UNCHANGED lock /\ Unwritten /\ Elsewhere
--------------------------------------------------------------------------------
(* The drain thread.  It looks at _running and at master_fd without the lock;
   a descriptor that is gone meanwhile ends it. *)

DrainSelects ==
    /\ pc[Drain] = "loop" /\ Goes(Drain, IF running THEN "select" ELSE "done")
    /\ UNCHANGED lock /\ Unwritten /\ Elsewhere

DrainLost ==   \* select or read of None: TypeError
    /\ pc[Drain] = "select" /\ ~open /\ Goes(Drain, "done")
    /\ UNCHANGED lock /\ Unwritten /\ Elsewhere

DrainReads ==
    /\ pc[Drain] = "select" /\ open /\ output # <<>>
    /\ output' = Tail(output)
    /\ marked' = (marked \/ (window /\ Head(output) = "dialog"))
    /\ Goes(Drain, "check")
    /\ UNCHANGED <<lock, flags, cooling, window, claude>> /\ Unwritten

DrainTimesOutUnchecked ==   \* mutant: the dialog is looked for in new output only
    /\ pc[Drain] = "select" /\ open /\ output = <<>> /\ child = "alive"
    /\ Goes(Drain, "loop")
    /\ UNCHANGED lock /\ Unwritten /\ Elsewhere
DrainTimesOut ==
    /\ pc[Drain] = "select" /\ open /\ output = <<>> /\ child = "alive"
    /\ Goes(Drain, "check")
    /\ UNCHANGED lock /\ Unwritten /\ Elsewhere

DrainEnds ==
    /\ pc[Drain] = "select" /\ open /\ output = <<>> /\ child # "alive"
    /\ died' = TRUE /\ Goes(Drain, "done")
    /\ UNCHANGED <<lock, running, open, watching, claude, output>> /\ Unwritten

Due == window /\ marked /\ ~cooling

DrainChecks ==
    /\ pc[Drain] = "check" /\ Goes(Drain, IF Due THEN "lock" ELSE "loop")
    /\ UNCHANGED lock /\ Unwritten /\ Elsewhere

DrainLocks ==
    /\ pc[Drain] = "lock"
    /\ Acquire(Drain, IF running /\ open THEN "confirm" ELSE "cool")
    /\ Unwritten /\ Elsewhere

DrainConfirms ==
    /\ pc[Drain] = "confirm"
    /\ \/ Writes(Drain, "enter", "cool") /\ UNCHANGED <<lock, died>>
       \/ child # "alive" /\ died' = TRUE /\ Release(Drain, "done") /\ Unwritten
    /\ UNCHANGED <<running, open, watching, claude, output>>

DrainCools ==
    /\ pc[Drain] = "cool" /\ Release(Drain, "loop")
    /\ marked' = FALSE /\ cooling' = TRUE
    /\ UNCHANGED <<flags, window, claude, output>> /\ Unwritten

CooldownEnds ==
    /\ cooling /\ cooling' = FALSE
    /\ UNCHANGED <<threads, flags, marked, window, claude, output>> /\ Unwritten

WindowCloses ==
    /\ "late" \in Env /\ window /\ window' = FALSE
    /\ UNCHANGED <<threads, flags, marked, cooling, claude, output>> /\ Unwritten
--------------------------------------------------------------------------------
(* Claude Code: draws a screen, then reads what comes. *)

Draws ==
    /\ child = "alive" /\ render # "nothing" /\ Len(output) < OutCap
    /\ output' = Append(output, render)
    /\ screen' = render /\ render' = "nothing"
    /\ dialogs' = IF render = "dialog" THEN dialogs + 1 ELSE dialogs
    /\ UNCHANGED <<threads, flags, watching, child>> /\ Unwritten

Reads ==
    /\ child = "alive" /\ render = "nothing" /\ input # <<>>
    /\ input' = Tail(input)
    /\ IF Enters(Head(input))
       THEN render' \in IF screen = "dialog" THEN Screens(dialogs) ELSE {"chat"}
       ELSE UNCHANGED render
    /\ UNCHANGED <<threads, flags, watching, child, screen, dialogs, output, last>>

Dies ==
    /\ "die" \in Env /\ child = "alive" /\ child' = "dead"
    /\ UNCHANGED <<threads, flags, watching, screen, render, dialogs, output>>
    /\ Unwritten
--------------------------------------------------------------------------------
Sending(p)    == Paste(p) \/ Pause(p) \/ Enter(p)
Escaping(i)   == Escape(i)
Writing(t)    == Leave(t) \/ WriteFails(t)
Stopping      == StopLocks \/ Terminate \/ Close \/ StopReturns
Draining ==
    \/ DrainSelects \/ DrainLost \/ DrainReads \/ DrainTimesOut \/ DrainEnds
    \/ DrainChecks \/ DrainLocks \/ DrainConfirms \/ DrainCools
Next ==
    \/ \E p \in Prompts : SendPrompt(p) \/ Sending(p) \/ Writing(p)
    \/ \E i \in Interrupts : SendInterrupt(i) \/ Escaping(i) \/ Writing(i)
    \/ StopBegins \/ Stopping \/ Draining \/ CooldownEnds \/ WindowCloses
    \/ Draws \/ Reads \/ Dies
Spec == Init /\ [][Next]_vars

(* Threads run, and Claude Code draws and reads as long as it is alive; nobody
   has to call anything. *)
FairSpec ==
    /\ Spec
    /\ \A p \in Prompts : WF_vars(Sending(p) \/ Writing(p))
    /\ \A i \in Interrupts : WF_vars(Escaping(i) \/ Writing(i))
    /\ WF_vars(Stopping) /\ WF_vars(Draining) /\ WF_vars(CooldownEnds)
    /\ WF_vars(Draws) /\ WF_vars(Reads)
--------------------------------------------------------------------------------
InputTypeOK ==
    /\ pc \in [Threads -> {"idle", "paste", "rest", "pause", "enter", "escape",
                           "leave", "raised", "done", "loop", "select", "check",
                           "lock", "confirm", "cool", "terminate", "join"}]
    /\ lock \in Threads \cup {None} /\ (lock = Stop <=> pc[Stop] = "terminate")
    /\ running \in BOOLEAN /\ open \in BOOLEAN /\ died \in BOOLEAN
    /\ child \in {"alive", "dead", "stopped"} /\ dialogs \in 0 .. MaxDialogs
    /\ Len(input) <= InCap /\ Len(output) <= OutCap

(* A prompt reaches Claude Code as one frame, paste and Enter, with nothing in
   between: "without this lock a live-turn steer or interrupt can split that
   pair" (pty_process.py:135). *)
InFrame == last.by \in Prompts /\ last.part # "enter"
FramesAreWhole ==
    [][InFrame /\ last' # last =>
         last' = Chunk(last.by, IF last.part = "paste" THEN "rest" ELSE "enter")]_vars

(* stop lets a prompt that has begun submit its Enter: it never terminates the
   process in the middle of a frame. *)
StopWaitsForEnter == child = "stopped" => ~InFrame

(* Whoever writes gives the lock back, so that stop returns, as long as Claude
   Code reads and the terminal has room for all its output. *)
EverybodyReturns ==
    /\ []<>(lock \notin Prompts \cup Interrupts)
    /\ pc[Stop] = "lock" ~> pc[Stop] = "done"

(* Every startup dialog that is drawn in the window is answered, also one drawn
   while the loop cools down from the one before and then silent. *)
DialogsAreAnswered ==
    screen = "dialog" /\ window ~>
        (screen # "dialog" \/ ~window \/ ~running \/ child # "alive")
================================================================================
