------------------------------ MODULE SessionTurn ------------------------------
(***************************************************************************)
(* One Session of src/claude_pty/session.py: the foreground consumer       *)
(* (send_prompt), live steering (steer_active_turn), the interrupt, the    *)
(* idle watcher, stop, and crash recovery, around Claude Code as an        *)
(* external writer of the JSONL file.                                      *)
(*                                                                         *)
(* An action is what one coroutine does between two awaits.  The event     *)
(* loop runs such a stretch without interruption; every other coroutine,   *)
(* the executor threads and Claude Code may run between two of them.       *)
(*                                                                         *)
(* A text is named by the call that submits it: a prompt is submitted by   *)
(* one send_prompt, a steer by one steer_active_turn, and Child is the     *)
(* text of every notification that Claude Code feeds itself.               *)
(***************************************************************************)
EXTENDS Naturals, Sequences, FiniteSets

CONSTANTS
    Prompts,      \* texts the host passes to send_prompt, once each
    Steers,       \* texts the host passes to steer_active_turn, once each
    Child,        \* the text of a native sub-agent notification
    None,         \* Python's None where a text is expected
    MaxProcs,     \* bound: native processes a Session spawns in one behaviour
    MaxRecords,   \* bound: JSONL records Claude Code writes in one behaviour
    Env           \* what the environment may do, see EnvEvents

EnvEvents ==
    {"child",      \* sub-agent notifications wake or interrupt Claude Code
     "foreign",    \* the text of a steer was queued before, by somebody else
     "lose",       \* an input is swallowed on its way to Claude Code
     "die",        \* the native process dies
     "error",      \* the provider fails a turn
     "limit",      \* the account hits a hard usage limit during a turn
     "banner",     \* the drain loop matches a limit banner on the screen
     "channel",    \* prompts are delivered by channel injection first
     "cancel",     \* the host cancels or closes a send_prompt generator
     "timeout",    \* response_timeout passes without activity
     "deadline",   \* inject_confirm_timeout passes without acknowledgement
     "resend",     \* it passes before an injected prompt shows any activity
     "partial",    \* a PTY write raises, before or after the bytes went out
     "interrupt",  \* the host calls send_interrupt
     "stop"}       \* the host calls stop

ASSUME TextsAssumption ==
    /\ Prompts \cap Steers = {}
    /\ Child \notin Prompts \cup Steers
    /\ None \notin Prompts \cup Steers \cup {Child}
    /\ "ESC" \notin Prompts \cup Steers \cup {Child, None}
    /\ None \notin {"consumer", "steer", "watcher"}
ASSUME BoundsAssumption ==
    /\ MaxProcs \in Nat \ {0}
    /\ MaxRecords \in Nat
    /\ Env \subseteq EnvEvents

Inputs == Prompts \cup Steers \cup {Child}
Escape == "ESC"                     \* the key send_interrupt writes
NoProc == 0                         \* None where a process is expected
Procs  == 1 .. MaxProcs
ProcOrNone == 0 .. MaxProcs
SteerOrNone == Steers \cup {None}
Stoppers == {"consumer", "interrupt", "stop"}   \* callers of process.stop

(* A JSONL record: its kind, the text it names, the position it was written
   at (the identity of the parsed dict), and, for a record that closes a turn,
   the inputs that turn executed.  The last one is a ghost no reader looks at. *)
Record == [k : {"echo", "enq", "rem", "deq", "dur", "int", "err", "lim"},
           i : Inputs \cup {None}, id : 1 .. MaxRecords, t : SUBSET Inputs]

VARIABLES
    \* --- Session, outside the turn state
    started,      \* _started
    process,      \* _process: the epoch number of the current native process
    alive,        \* PTYProcess.is_alive, per epoch
    restarts,     \* _restart_count
    channelDown,  \* _channel_inject_unavailable
    \* --- Session, under _turn_state_lock
    stateLock,    \* holder of _turn_state_lock across awaits
    owner,        \* _active_turn_owner
    active,       \* _active_turn_process
    interrupted,  \* _interrupted_turn_process
    pending,      \* _pending_steer
    unsettled,    \* _unsettled_steer_process
    prefetched,   \* _prefetched_messages
    \* --- send_prompt
    sending,      \* holder of _send_lock
    pc,           \* where the holder is
    fg,           \* its locals that live for a whole turn
    scan,         \* its locals that live for one batch
    outcome,      \* how the send of each prompt ended
    reaping,      \* stop_process and resolve_after_stop of each _deactivate
    \* --- steer_active_turn
    spc,          \* where each steer is
    receipt,      \* its _PendingSteer
    ack,          \* _PendingSteer.acknowledged: "open" until resolved
    result,       \* what the call returned or raised
    \* --- send_interrupt, stop, _idle_watcher
    irq, stopPc, watchPc,
    \* --- Claude Code and its journal
    cc,           \* inputs and turn of the current process
    unread,       \* records after the reader's offset
    nrec,         \* records written so far
    \* --- ghosts
    journaled,    \* steers whose own enqueue record has been written
    consumed,     \* position of the last record handed to a consumer
    bound         \* inputs of the terminal records counted by the current send

life    == <<started, process, alive, restarts, channelDown>>
turnSt  == <<owner, active, interrupted, pending, unsettled>>
locals  == <<fg, scan, outcome>>
steerSt == <<spc, receipt, ack, result>>
others  == <<irq, stopPc, watchPc>>
claude  == <<cc, unread, nrec, journaled>>
ghosts  == <<consumed, bound>>
hostSide == <<reaping, steerSt, others>>            \* kept by the other coroutines
reader   == <<prefetched, claude, ghosts>>
lockSt   == <<stateLock, turnSt>>
vars == <<life, stateLock, turnSt, prefetched, sending, pc, locals, reaping,
          steerSt, others, claude, ghosts>>
--------------------------------------------------------------------------------
(* Initial values: a started Session, its native process idle at the prompt. *)

FgInit == [proc |-> NoProc, started |-> FALSE, followup |-> None,
           followStarted |-> FALSE, deferred |-> FALSE, confirm |-> FALSE,
           hadMsgs |-> FALSE]
ScanInit == [batch |-> <<>>, started |-> FALSE, done |-> FALSE, err |-> FALSE,
             lim |-> FALSE, enq |-> None, unc |-> None]
NoReap == [proc |-> NoProc, steer |-> None]
NoReceipt == [proc |-> NoProc, expect |-> NoProc, enqueued |-> FALSE,
              uncertain |-> FALSE, prewrite |-> {}]
Quiet == [inbox |-> <<>>, queue |-> <<>>, turn |-> {}, echo |-> None,
          banner |-> FALSE]

Init ==
    /\ started = TRUE /\ process = 1 /\ restarts = 0 /\ channelDown = FALSE
    /\ alive = [p \in Procs |-> p = 1]
    /\ stateLock = None /\ sending = None
    /\ owner = None /\ active = NoProc /\ interrupted = NoProc
    /\ pending = None /\ unsettled = NoProc /\ prefetched = <<>>
    /\ pc = "idle" /\ fg = FgInit /\ scan = ScanInit
    /\ outcome = [p \in Prompts |-> "none"]
    /\ reaping = [a \in Stoppers |-> NoReap]
    /\ spc = [s \in Steers |-> "idle"]
    /\ receipt = [s \in Steers |-> NoReceipt]
    /\ ack = [s \in Steers |-> "open"]
    /\ result = [s \in Steers |-> "none"]
    /\ irq = [pc |-> "ready", owner |-> None, proc |-> NoProc]
    /\ stopPc = "ready" /\ watchPc = "sleep"
    /\ cc = Quiet /\ unread = <<>> /\ nrec = 0
    /\ journaled = {} /\ consumed = 0 /\ bound = {}

(* The native process p is gone, and with it what it had accepted.  The flag of
   the drain loop stays on the PTYProcess object. *)
Kill(p) ==
    /\ alive' = [alive EXCEPT ![p] = FALSE]
    /\ cc' = IF p = process THEN [Quiet EXCEPT !.banner = cc.banner] ELSE cc

LastId(s) == IF s = <<>> THEN consumed ELSE s[Len(s)].id
Ids(s) == {s[n].id : n \in DOMAIN s}
--------------------------------------------------------------------------------
(* send_prompt, up to the delivery of the prompt. *)

Acquire(p) ==  \* async with self._send_lock
    /\ pc = "idle" /\ outcome[p] = "none"
    /\ sending' = p /\ pc' = "own"
    /\ outcome' = [outcome EXCEPT ![p] = "open"]
    /\ UNCHANGED <<life, lockSt, reader, fg, scan, hostSide>>

CancelOwn ==   \* cancelled before the turn is published: no finally clause yet
    /\ pc = "own" /\ "cancel" \in Env
    /\ sending' = None /\ pc' = "idle"
    /\ outcome' = [outcome EXCEPT ![sending] = "cancelled"]
    /\ UNCHANGED <<life, lockSt, reader, fg, scan, hostSide>>

Own ==         \* publish the turn owner under the state lock
    /\ pc = "own" /\ stateLock = None
    /\ owner' = sending /\ active' = NoProc
    /\ pc' = "check" /\ bound' = {}
    /\ UNCHANGED <<life, stateLock, interrupted, pending, unsettled,
                   prefetched, sending, locals, hostSide, claude, consumed>>

(* Every way out of the generator runs the finally clause at "detach". *)
FinishWithoutFinally(o) ==   \* mutant
    /\ outcome' = [outcome EXCEPT ![sending] = o]
    /\ pc' = "reap"
Finish(o) ==
    /\ outcome' = [outcome EXCEPT ![sending] = o]
    /\ pc' = "detach"
Exit(o) ==
    Finish(o) /\ UNCHANGED <<life, lockSt, reader, sending, fg, scan, hostSide>>

CheckAlive ==
    /\ pc = "check" /\ started /\ alive[process]
    /\ fg' = [FgInit EXCEPT !.proc = process]
    /\ pc' = "backlog"
    /\ UNCHANGED <<life, lockSt, reader, sending, scan, outcome, hostSide>>

MayRestartAlways == TRUE   \* mutant
MayRestart == restarts + 1 < MaxProcs   \* max_restart_attempts = MaxProcs - 1

CheckRefused ==   \* not started, or max_restart_attempts exceeded
    /\ pc = "check"
    /\ ~started \/ (~alive[process] /\ ~MayRestart)
    /\ Exit("error")

(* _auto_resume and the head of start: count the attempt, forget prefetched
   records of the previous epoch, create the next process object. *)
ResumeBegin ==
    /\ pc = "check" /\ started /\ ~alive[process] /\ MayRestart
    /\ stateLock = None
    /\ restarts' = restarts + 1 /\ process' = process + 1
    /\ prefetched' = <<>> /\ cc' = Quiet
    /\ pc' = "spawn"
    /\ UNCHANGED <<started, alive, channelDown, lockSt, sending, locals,
                   hostSide, unread, nrec, journaled, ghosts>>

(* The tail of start: spawned, and the new reader discards what it finds. *)
ResumeDone ==
    /\ pc = "spawn"
    /\ alive' = [alive EXCEPT ![process] = TRUE] /\ started' = TRUE
    /\ unread' = <<>> /\ consumed' = nrec
    /\ fg' = [FgInit EXCEPT !.proc = process]
    /\ watchPc' = IF watchPc = "off" THEN "sleep" ELSE watchPc
    /\ pc' = "backlog"
    /\ UNCHANGED <<process, restarts, channelDown, lockSt, prefetched,
                   sending, scan, outcome, reaping, steerSt, irq, stopPc, cc,
                   nrec, journaled, bound>>

ResumeFailed ==   \* the process died while the resume settled: SessionError
    /\ pc = "spawn" /\ "die" \in Env
    /\ unread' = <<>> /\ consumed' = nrec
    /\ Finish("error")
    /\ UNCHANGED <<life, lockSt, prefetched, sending, fg, scan, hostSide, cc,
                   nrec, journaled, bound>>

(* Records of turns that ran without a consumer are yielded as orphans. *)
Backlog ==
    /\ pc = "backlog" /\ stateLock = None
    /\ consumed' = LastId(prefetched \o unread)
    /\ prefetched' = <<>> /\ unread' = <<>>
    /\ pc' = "deliver"
    /\ UNCHANGED <<life, lockSt, sending, locals, hostSide, cc, nrec,
                   journaled, bound>>

DeliverChannel ==   \* inject answered 200: no proof that Claude consumed it
    /\ pc = "deliver" /\ "channel" \in Env /\ ~channelDown
    /\ cc' = IF alive[process] THEN [cc EXCEPT !.inbox = Append(@, sending)]
                               ELSE cc
    /\ fg' = [fg EXCEPT !.confirm = TRUE] /\ pc' = "loop"
    /\ UNCHANGED <<life, lockSt, prefetched, sending, scan, outcome, hostSide,
                   unread, nrec, journaled, ghosts>>

DeliverStdin ==     \* no channel, or every injection attempt failed
    /\ pc = "deliver" /\ alive[process]
    /\ channelDown' = ("channel" \in Env)
    /\ cc' = [cc EXCEPT !.inbox = Append(@, sending)] /\ pc' = "loop"
    /\ UNCHANGED <<started, process, alive, restarts, lockSt, prefetched,
                   sending, locals, hostSide, unread, nrec, journaled, ghosts>>

DeliverFailed ==    \* dead process, or a startup dialog still on the screen
    /\ pc = "deliver"
    /\ ~alive[process] \/ ("channel" \in Env /\ ~channelDown)
    /\ Finish("error")
    /\ \/ UNCHANGED channelDown
       \/ ~alive[process] /\ channelDown' = ("channel" \in Env)
    /\ UNCHANGED <<started, process, alive, restarts, lockSt, reader, sending,
                   fg, scan, hostSide>>
--------------------------------------------------------------------------------
(* send_prompt, one round of the polling loop: read, scan, emit, decide. *)

LoopCrash ==    \* the exact process of this turn died or was replaced
    /\ pc = "loop" /\ (process # fg.proc \/ ~alive[fg.proc])
    /\ Exit("crashed")

LoopPoll ==     \* it lives: wait for the state lock and the reader's
    /\ pc = "loop" /\ process = fg.proc /\ alive[fg.proc]
    /\ pc' = "poll"
    /\ UNCHANGED <<life, lockSt, reader, sending, locals, hostSide>>

LoopTimeout ==  \* the inactivity deadline passed
    /\ pc = "loop" /\ "timeout" \in Env
    /\ Exit("timeout")

Read ==         \* the state lock is held until the whole batch is scanned
    /\ pc = "poll" /\ stateLock = None
    /\ stateLock' = "consumer"
    /\ scan' = [ScanInit EXCEPT !.batch = prefetched \o unread,
                                !.started = fg.started]
    /\ fg' = [fg EXCEPT !.hadMsgs = @ \/ prefetched \o unread # <<>>]
    /\ prefetched' = <<>> /\ unread' = <<>>
    /\ pc' = "scan"
    /\ UNCHANGED <<life, turnSt, sending, outcome, hostSide, cc, nrec,
                   journaled, ghosts>>

(* The record under inspection, and what every case does with it. *)
Rec == Head(scan.batch)
Scanning(kinds) == pc = "scan" /\ scan.batch # <<>> /\ Rec.k \in kinds
NextRecord == [scan EXCEPT !.batch = Tail(@)]
Starts == ~scan.started /\ Rec.k \in {"echo", "rem"} /\ Rec.i = sending
ScanFrame == UNCHANGED <<life, stateLock, prefetched, sending, pc, outcome,
                         reaping, spc, result, others, claude>>

(* A user record: the echo of our prompt starts the turn, the echo of a
   followed steer makes the follow-up turn the active one. *)
ScanEcho ==
    /\ Scanning({"echo"})
    /\ scan' = [NextRecord EXCEPT !.started = @ \/ Starts]
    /\ IF fg.followup # None /\ Rec.i = fg.followup /\ ~fg.followStarted
       THEN /\ fg' = [fg EXCEPT !.followStarted = TRUE, !.deferred = FALSE]
            /\ active' = IF /\ owner = sending /\ process = fg.proc
                            /\ alive[fg.proc]
                         THEN fg.proc ELSE active
       ELSE UNCHANGED <<active, fg>>
    /\ consumed' = Rec.id
    /\ UNCHANGED <<owner, interrupted, pending, unsettled, receipt, ack, bound>>
    /\ ScanFrame

(* An enqueue of the pending steer's text that was not there before the
   write.  fg.confirm belongs to the emit pass but reads the same record. *)
AcknowledgesAnyCopy == pending # None /\ Rec.i = pending   \* mutant
Acknowledges ==
    /\ pending # None /\ Rec.i = pending
    /\ Rec.id \notin receipt[pending].prewrite

ScanEnqueue ==
    /\ Scanning({"enq"})
    /\ scan' = [NextRecord EXCEPT !.enq = IF Acknowledges THEN pending ELSE @]
    /\ receipt' = IF Acknowledges
                  THEN [receipt EXCEPT ![pending].enqueued = TRUE] ELSE receipt
    /\ fg' = [fg EXCEPT !.confirm = @ /\ (scan.started \/ Rec.i # sending)]
    /\ consumed' = Rec.id
    /\ UNCHANGED <<turnSt, ack, bound>>
    /\ ScanFrame

(* A remove or dequeue: routes the acknowledged steer into this turn, or into
   a follow-up turn that this consumer will collect. *)
Routes == pending # None /\ receipt[pending].enqueued

ScanRoute ==
    /\ Scanning({"rem", "deq"})
    /\ scan' = [NextRecord EXCEPT !.started = @ \/ Starts]
    /\ IF Routes
       THEN /\ pending' = None
            /\ IF Rec.k = "deq" \/ fg.deferred
               THEN /\ fg' = [fg EXCEPT !.followup = pending,
                                        !.followStarted = FALSE]
                    /\ active' = NoProc /\ UNCHANGED unsettled
               ELSE /\ unsettled' = IF unsettled = receipt[pending].proc
                                    THEN NoProc ELSE unsettled
                    /\ UNCHANGED <<active, fg>>
       ELSE UNCHANGED <<active, pending, unsettled, fg>>
    /\ consumed' = Rec.id
    /\ UNCHANGED <<owner, interrupted, receipt, ack, bound>>
    /\ ScanFrame

(* turn_duration, or the synthetic record of the interrupt we sent.  It counts
   only once our prompt has started, and is deferred while a steer is open. *)
TerminalOfAnyTurn == Rec.k = "dur" \/ (Rec.k = "int" /\ interrupted = fg.proc) \* mutant
Terminal ==
    /\ scan.started
    /\ Rec.k = "dur" \/ (Rec.k = "int" /\ interrupted = fg.proc)

DefersFollowupOnly == fg.followup # None /\ ~fg.followStarted   \* mutant
Defers ==
    \/ pending # None
    \/ fg.followup # None /\ ~fg.followStarted

ScanTerminal ==
    /\ Scanning({"dur", "int"}) /\ Terminal
    /\ interrupted' = IF interrupted = fg.proc THEN NoProc ELSE interrupted
    /\ active' = NoProc
    /\ IF Defers
       THEN /\ fg' = [fg EXCEPT !.deferred = TRUE]
            /\ scan' = [NextRecord EXCEPT !.unc =
                          IF /\ pending # None /\ receipt[pending].uncertain
                             /\ ~receipt[pending].enqueued
                          THEN pending ELSE @]
            /\ UNCHANGED <<owner, unsettled>>
       ELSE /\ scan' = [NextRecord EXCEPT !.done = TRUE]
            /\ unsettled' = IF unsettled = fg.proc THEN NoProc ELSE unsettled
            /\ owner' = None /\ UNCHANGED fg
    /\ consumed' = Rec.id /\ bound' = bound \cup Rec.t
    /\ UNCHANGED <<pending, receipt, ack>>
    /\ ScanFrame

ScanForeignTerminal ==   \* closes an earlier turn, or nobody interrupted
    /\ Scanning({"dur", "int"}) /\ ~Terminal
    /\ scan' = NextRecord /\ consumed' = Rec.id
    /\ bound' = IF scan.started THEN bound \cup Rec.t ELSE bound
    /\ UNCHANGED <<turnSt, fg, receipt, ack>>
    /\ ScanFrame

ScanFailure ==           \* isApiErrorMessage, or a hard rate limit
    /\ Scanning({"err", "lim"})
    /\ scan' = [NextRecord EXCEPT !.err = @ \/ Rec.k = "err",
                                  !.lim = @ \/ Rec.k = "lim"]
    /\ consumed' = Rec.id /\ bound' = bound \cup Rec.t
    /\ UNCHANGED <<turnSt, fg, receipt, ack>>
    /\ ScanFrame

(* After the batch.  First: a steer that stayed unacknowledged up to the
   terminal of its turn releases the quarantine and lets the turn complete. *)
FailedByLimitOnly == scan.lim   \* mutant
Failed   == scan.err \/ scan.lim
Releases == /\ scan.unc # None /\ pending = scan.unc
            /\ ~receipt[scan.unc].enqueued /\ ~Failed

(* Second: a provider failure takes an open receipt back, so that detaching
   stops the process first; without one, an enqueue is the acknowledgement. *)
FailedSteer == IF pending # None THEN pending ELSE scan.enq
ReattachesAlways == FailedSteer # None /\ ack[FailedSteer] = "open"  \* mutant
Reattaches ==
    FailedSteer # None /\ ack[FailedSteer] = "open" /\ unsettled # NoProc
Resolve(s, b) == IF s # None /\ ack[s] = "open" THEN [ack EXCEPT ![s] = b] ELSE ack

ScanEnd ==
    /\ pc = "scan" /\ scan.batch = <<>>
    /\ \/ /\ Releases
          /\ pending' = None /\ active' = NoProc /\ owner' = None
          /\ unsettled' = IF unsettled = receipt[scan.unc].proc
                          THEN NoProc ELSE unsettled
          /\ ack' = Resolve(scan.unc, "false")
          /\ fg' = [fg EXCEPT !.deferred = FALSE]
          /\ scan' = [scan EXCEPT !.done = TRUE, !.unc = None, !.enq = None]
       \/ /\ Failed
          /\ IF Reattaches
             THEN pending' = FailedSteer /\ UNCHANGED ack
             ELSE ack' = Resolve(FailedSteer, "false") /\ UNCHANGED pending
          /\ active' = NoProc
          /\ scan' = [scan EXCEPT !.unc = None, !.enq = None]
          /\ UNCHANGED <<owner, unsettled, fg>>
       \/ /\ ~Releases /\ ~Failed
          /\ ack' = Resolve(scan.enq, "true")
          /\ scan' = [scan EXCEPT !.unc = None, !.enq = None]
          /\ UNCHANGED <<owner, active, pending, unsettled, fg>>
    /\ stateLock' = None /\ pc' = "emit"
    /\ UNCHANGED <<life, interrupted, reader, sending, outcome, reaping, spc,
                   receipt, result, others>>

(* The batch is normalised and yielded.  The record that started the turn
   publishes steerability, unless this very batch ended the turn. *)
Activates == /\ scan.started /\ ~fg.started
             /\ ~scan.done /\ ~Failed /\ ~fg.deferred

Emit ==
    /\ pc = "emit" /\ (Activates => stateLock = None)
    /\ fg' = [fg EXCEPT !.started = scan.started,
                        !.confirm = @ /\ ~scan.started]
    /\ active' = IF /\ Activates /\ owner = sending /\ process = fg.proc
                    /\ alive[fg.proc]
                 THEN fg.proc ELSE active
    /\ pc' = "decide"
    /\ UNCHANGED <<life, stateLock, owner, interrupted, pending, unsettled,
                   reader, sending, scan, outcome, hostSide>>

(* The end of a round, in the order of the code.  A deferred terminal ends the
   send once no steer of its process is open any more; that test takes the
   state lock. *)
DeferredTest == ~scan.done /\ fg.deferred /\ fg.followup = None
DeferredOver == DeferredTest /\ pending = None /\ unsettled = NoProc
Goes == pc = "decide" /\ (DeferredTest => stateLock = None)
Unfinished == Goes /\ ~scan.done /\ ~DeferredOver
DecideFrame == UNCHANGED <<life, stateLock, interrupted, pending, unsettled,
                           prefetched, sending, hostSide, unread, nrec,
                           journaled, ghosts>>

DecideComplete ==        \* a stale banner flag is cleared on the way out
    /\ Goes /\ (scan.done \/ DeferredOver)
    /\ Finish("complete")
    /\ active' = (IF DeferredOver THEN NoProc ELSE active)
    /\ owner' = (IF DeferredOver THEN None ELSE owner)
    /\ cc' = [cc EXCEPT !.banner = FALSE]
    /\ UNCHANGED <<fg, scan>> /\ DecideFrame

DecideApiError ==
    /\ Unfinished /\ scan.err
    /\ Exit("api_error")

DecideResend ==          \* unconfirmed channel delivery: once more via stdin
    /\ Unfinished /\ ~scan.err /\ fg.confirm /\ "resend" \in Env
    /\ fg' = [fg EXCEPT !.confirm = FALSE]
    /\ channelDown' = TRUE
    /\ IF process = fg.proc /\ alive[fg.proc]
       THEN cc' = [cc EXCEPT !.inbox = Append(@, sending)]
            /\ UNCHANGED <<pc, outcome>>
       ELSE Finish("error") /\ UNCHANGED cc
    /\ UNCHANGED <<started, process, alive, restarts, lockSt, prefetched,
                   sending, scan, hostSide, unread, nrec, journaled, ghosts>>

DecideLimit ==
    /\ Unfinished /\ ~scan.err /\ scan.lim
    /\ Exit("rate_limited")

DecideBanner ==          \* nothing was ever read, and the session kept quiet
    /\ Unfinished /\ ~Failed /\ cc.banner /\ ~fg.hadMsgs
    /\ Exit("rate_limited")

DecideAgain ==           \* sleep, then poll again; a refuted banner is cleared
    /\ Unfinished /\ ~Failed
    /\ pc' = "loop" /\ scan' = ScanInit
    /\ cc' = IF fg.hadMsgs THEN [cc EXCEPT !.banner = FALSE] ELSE cc
    /\ UNCHANGED <<owner, active, fg, outcome>> /\ DecideFrame

(* The host cancels the task at a sleep, at a yield or where it waits for the state
   lock. *)
HostCancel ==
    /\ pc \in {"backlog", "deliver", "loop", "poll", "emit"}
    /\ "cancel" \in Env
    /\ Exit("cancelled")
--------------------------------------------------------------------------------
(* _deactivate_active_turn of the turn owner o, called by a.  Under the lock it
   takes the open steer and the process that has to stop; after it, the process
   is stopped and only then the receipt is resolved. *)

Detach(a, o) ==
    /\ stateLock = None
    /\ IF owner = o
       THEN /\ owner' = None /\ active' = NoProc
            /\ pending' = None /\ unsettled' = NoProc
            /\ reaping' = [reaping EXCEPT ![a] =
                 [proc |-> unsettled,
                  steer |-> IF unsettled # NoProc THEN pending ELSE None]]
            /\ ack' = IF unsettled = NoProc THEN Resolve(pending, "false") ELSE ack
       ELSE UNCHANGED <<owner, active, pending, unsettled, reaping, ack>>

(* What is left of Detach(a, _) once stop has returned. *)
Reap(a) ==
    /\ IF reaping[a].proc # NoProc THEN Kill(reaping[a].proc)
                                   ELSE UNCHANGED <<alive, cc>>
    /\ ack' = Resolve(reaping[a].steer, "false")
    /\ reaping' = [reaping EXCEPT ![a] = NoReap]

FinallyDetach ==
    /\ pc = "detach" /\ Detach("consumer", sending)
    /\ pc' = "reap"
    /\ UNCHANGED <<life, stateLock, interrupted, reader, sending, locals, spc,
                   receipt, result, others>>

FinallyReap ==    \* then post_response_wait, and _send_lock is released
    /\ pc = "reap" /\ Reap("consumer")
    /\ pc' = "idle" /\ sending' = None
    /\ fg' = FgInit /\ scan' = ScanInit
    /\ UNCHANGED <<started, process, restarts, channelDown, lockSt,
                   prefetched, outcome, spc, receipt, result, others, unread,
                   nrec, journaled, ghosts>>
--------------------------------------------------------------------------------
(* steer_active_turn.  Busy(s): s holds the admission lock. *)

Busy(s) == spc[s] \in {"write", "await", "failclosed", "reap"}
AdmissionFree == \A s \in Steers : ~Busy(s)
SteerFrame == UNCHANGED <<started, process, restarts, channelDown,
                          interrupted, sending, pc, locals, reaping, others,
                          ghosts>>

SteerCall(s) ==   \* the host may pass the process it saw as expected_process
    /\ spc[s] = "idle" /\ spc' = [spc EXCEPT ![s] = "called"]
    /\ \E e \in {NoProc, active} :
         receipt' = [receipt EXCEPT ![s].expect = e]
    /\ UNCHANGED <<alive, lockSt, prefetched, ack, result, claude>>
    /\ SteerFrame

Return(s, r) ==
    /\ spc' = [spc EXCEPT ![s] = "done"] /\ result' = [result EXCEPT ![s] = r]

SteerMayEnter(s) == spc[s] = "called" /\ AdmissionFree /\ stateLock = None
Admissible(s) ==
    /\ active # NoProc /\ owner # None
    /\ pending = None /\ unsettled = NoProc
    /\ sending # None /\ active = process /\ alive[active]
    /\ receipt[s].expect \in {NoProc, active}
TerminalUnread == \E n \in DOMAIN unread : unread[n].k \in {"dur", "err", "lim"}

SteerRefused(s) ==
    /\ SteerMayEnter(s) /\ ~Admissible(s)
    /\ Return(s, "false")
    /\ UNCHANGED <<alive, lockSt, prefetched, receipt, ack, claude>>
    /\ SteerFrame

(* Preflight: what is already durable is handed back through _prefetched.  A
   terminal among it closes the turn to steering. *)
HandedBackNothing == prefetched   \* mutant
HandedBack == prefetched \o unread

SteerTooLate(s) ==
    /\ SteerMayEnter(s) /\ Admissible(s) /\ TerminalUnread
    /\ prefetched' = HandedBack /\ unread' = <<>>
    /\ active' = NoProc /\ owner' = None
    /\ Return(s, "false")
    /\ UNCHANGED <<alive, stateLock, interrupted, pending, unsettled, receipt,
                   ack, cc, nrec, journaled>>
    /\ SteerFrame

SteerAdmit(s) ==   \* the state lock is held until the write is over
    /\ SteerMayEnter(s) /\ Admissible(s) /\ ~TerminalUnread
    /\ stateLock' = "steer"
    /\ prefetched' = HandedBack /\ unread' = <<>>
    /\ receipt' = [receipt EXCEPT ![s] = [@ EXCEPT !.proc = process,
                                                   !.prewrite = Ids(unread)]]
    /\ pending' = s /\ unsettled' = process
    /\ spc' = [spc EXCEPT ![s] = "write"]
    /\ UNCHANGED <<alive, owner, active, interrupted, ack, result, cc, nrec,
                   journaled>>
    /\ SteerFrame

SteerWritten(s) ==
    /\ spc[s] = "write" /\ alive[receipt[s].proc]
    /\ cc' = [cc EXCEPT !.inbox = Append(@, s)]
    /\ stateLock' = None /\ spc' = [spc EXCEPT ![s] = "await"]
    /\ UNCHANGED <<alive, turnSt, prefetched, receipt, ack, result, unread,
                   nrec, journaled>>
    /\ SteerFrame

UnlockForgotten == UNCHANGED stateLock   \* mutant
UnlockOnError == stateLock' = None

SteerWriteFailed(s) ==   \* the bytes may or may not have gone out
    /\ spc[s] = "write"
    /\ ~alive[receipt[s].proc] \/ "partial" \in Env
    /\ cc' \in {cc} \cup (IF alive[receipt[s].proc]
                          THEN {[cc EXCEPT !.inbox = Append(@, s)]} ELSE {})
    /\ UnlockOnError /\ spc' = [spc EXCEPT ![s] = "failclosed"]
    /\ UNCHANGED <<alive, turnSt, prefetched, receipt, ack, result, unread,
                   nrec, journaled>>
    /\ SteerFrame

SteerFailClosed(s) ==    \* _fail_closed_steer: revoke, then stop the process
    /\ spc[s] = "failclosed" /\ stateLock = None
    /\ pending' = IF pending = s THEN None ELSE pending
    /\ unsettled' = IF unsettled = receipt[s].proc THEN NoProc ELSE unsettled
    /\ IF active = receipt[s].proc
       THEN active' = NoProc /\ owner' = None
       ELSE UNCHANGED <<owner, active>>
    /\ ack' = Resolve(s, "false")
    /\ spc' = [spc EXCEPT ![s] = "reap"]
    /\ UNCHANGED <<alive, stateLock, interrupted, prefetched, receipt, result,
                   claude>>
    /\ SteerFrame

SteerReapForgets(s) ==   \* mutant: reports failure without stopping the process
    /\ spc[s] = "reap" /\ Return(s, "false")
    /\ UNCHANGED <<alive, lockSt, prefetched, receipt, ack, claude>>
    /\ SteerFrame

SteerReap(s) ==
    /\ spc[s] = "reap" /\ Kill(receipt[s].proc) /\ Return(s, "false")
    /\ UNCHANGED <<lockSt, prefetched, receipt, ack, unread, nrec, journaled>>
    /\ SteerFrame

SteerAcknowledged(s) ==  \* the future was resolved
    /\ spc[s] = "await" /\ ack[s] # "open"
    /\ Return(s, ack[s])
    /\ UNCHANGED <<alive, lockSt, prefetched, receipt, ack, claude>>
    /\ SteerFrame

(* The confirm timeout: somebody else already settled this steer, or it is
   quarantined until its turn reaches a terminal record. *)
SteerDeadline(s) ==
    /\ spc[s] = "await" /\ ack[s] = "open" /\ stateLock = None
    /\ "deadline" \in Env
    /\ IF pending # s \/ unsettled # receipt[s].proc
       THEN Return(s, "false") /\ UNCHANGED receipt
       ELSE /\ Return(s, "uncertain")
            /\ receipt' = [receipt EXCEPT ![s].uncertain = TRUE]
    /\ UNCHANGED <<alive, lockSt, prefetched, ack, claude>>
    /\ SteerFrame
--------------------------------------------------------------------------------
(* send_interrupt and stop, once per behaviour, and the idle watcher. *)

HostFrame == UNCHANGED <<restarts, channelDown, sending, pc, locals, spc,
                         receipt, result, nrec, journaled, bound>>

InterruptMark ==
    /\ irq.pc = "ready" /\ "interrupt" \in Env /\ stateLock = None
    /\ irq' = [pc |-> IF owner = None THEN "esc" ELSE "detach",
               owner |-> owner, proc |-> active]
    /\ interrupted' = IF owner # None /\ active # NoProc THEN active
                                                         ELSE interrupted
    /\ UNCHANGED <<started, process, alive, stateLock, owner, active, pending,
                   unsettled, prefetched, reaping, ack, stopPc, watchPc, cc,
                   unread, consumed>>
    /\ HostFrame

InterruptDetach ==
    /\ irq.pc = "detach" /\ Detach("interrupt", irq.owner)
    /\ irq' = [irq EXCEPT !.pc = "reap"]
    /\ UNCHANGED <<started, process, alive, stateLock, interrupted,
                   prefetched, stopPc, watchPc, cc, unread, consumed>>
    /\ HostFrame

InterruptReap ==
    /\ irq.pc = "reap" /\ Reap("interrupt")
    /\ irq' = [irq EXCEPT !.pc = "esc"]
    /\ UNCHANGED <<started, process, lockSt, prefetched, stopPc, watchPc,
                   unread, consumed>>
    /\ HostFrame

InterruptEscape ==   \* ESC goes to the captured process, else to the current
    /\ irq.pc = "esc" /\ irq' = [irq EXCEPT !.pc = "done"]
    /\ cc' = IF irq.proc \in {NoProc, process} /\ alive[process]
             THEN [cc EXCEPT !.inbox = Append(@, Escape)] ELSE cc
    /\ UNCHANGED <<started, process, alive, lockSt, prefetched, reaping, ack,
                   stopPc, watchPc, unread, consumed>>
    /\ HostFrame

StopWatch ==         \* the watcher is cancelled: what it was reading is lost, and
                     \* its thread may still read
    /\ stopPc = "ready" /\ "stop" \in Env
    /\ watchPc' = "off" /\ stopPc' = "lock"
    /\ IF watchPc = "read"
       THEN stateLock' = None /\ prefetched' = <<>> /\ unread' \in {unread, <<>>}
       ELSE UNCHANGED <<stateLock, prefetched, unread>>
    /\ UNCHANGED <<started, process, alive, turnSt, reaping, ack, irq, cc, consumed>>
    /\ HostFrame

StopLock ==          \* then the turn state is taken
    /\ stopPc = "lock" /\ stateLock = None
    /\ stopPc' = "reap"
    /\ reaping' = [reaping EXCEPT !["stop"] = [proc |-> process, steer |-> pending]]
    /\ owner' = None /\ active' = NoProc
    /\ pending' = None /\ unsettled' = NoProc /\ prefetched' = <<>>
    /\ UNCHANGED <<started, process, alive, stateLock, interrupted, ack, irq,
                   watchPc, cc, unread, consumed>>
    /\ HostFrame

StopReap ==
    /\ stopPc = "reap" /\ Reap("stop")
    /\ stopPc' = "done" /\ started' = FALSE
    /\ UNCHANGED <<process, lockSt, prefetched, irq, watchPc, unread, consumed>>
    /\ HostFrame

WatchWake ==         \* the first look at _send_lock, before the state lock
    /\ watchPc = "sleep" /\ sending = None /\ started
    /\ watchPc' = "lock"
    /\ UNCHANGED <<started, process, alive, lockSt, prefetched, reaping, ack,
                   irq, stopPc, cc, unread, consumed>>
    /\ HostFrame

WatcherReadsAnyway == TRUE   \* mutant
WatcherMayRead == sending = None

WatchLook ==         \* the second look, under the state lock
    /\ watchPc = "lock" /\ stateLock = None
    /\ IF WatcherMayRead THEN watchPc' = "read" /\ stateLock' = "watcher"
                         ELSE watchPc' = "sleep" /\ UNCHANGED stateLock
    /\ UNCHANGED <<started, process, alive, turnSt, prefetched, reaping, ack, irq,
                   stopPc, cc, unread, consumed>>
    /\ HostFrame

(* The read returns from its thread.  Meanwhile a send may have taken _send_lock,
   and waits for the state lock to publish its turn. *)
WatchRead ==
    /\ watchPc = "read"
    /\ watchPc' = "sleep" /\ stateLock' = None
    /\ prefetched' = <<>> /\ unread' = <<>>
    /\ consumed' = LastId(prefetched \o unread)
    /\ UNCHANGED <<started, process, alive, turnSt, reaping, ack, irq, stopPc, cc>>
    /\ HostFrame
--------------------------------------------------------------------------------
(* Claude Code, as session.py and its tests expect it to write the journal:
   an input that arrives during a turn, and every steer, is enqueued first;
   a queued input is removed when the running turn absorbs it and dequeued when
   it opens a turn; a turn opens with the echo of its input and closes with
   turn_duration, unless it fails or is interrupted. *)

CCFrame == UNCHANGED <<started, process, restarts, channelDown, lockSt,
                       prefetched, sending, pc, locals, hostSide, ghosts>>
CCRuns == alive[process] /\ CCFrame
Journal(k, i, t) ==
    /\ nrec < MaxRecords /\ nrec' = nrec + 1
    /\ unread' = Append(unread, [k |-> k, i |-> i, id |-> nrec', t |-> t])
Silent == UNCHANGED <<unread, nrec>>
CloseTurn(k) == Journal(k, None, cc.turn)

CCNotify ==      \* a sub-agent reports: Claude Code queues a prompt for itself
    /\ CCRuns /\ "child" \in Env
    /\ Child \notin cc.turn /\ \A n \in DOMAIN cc.inbox : cc.inbox[n] # Child
    /\ \A n \in DOMAIN cc.queue : cc.queue[n] # Child
    /\ cc' = [cc EXCEPT !.inbox = Append(@, Child)]
    /\ Silent /\ UNCHANGED <<alive, journaled>>

CCStart ==       \* an input arrives at an idle prompt and opens a turn
    /\ CCRuns /\ cc.turn = {} /\ cc.queue = <<>> /\ cc.inbox # <<>>
    /\ Head(cc.inbox) \in Prompts \cup {Child}
    /\ cc' = [cc EXCEPT !.inbox = Tail(@), !.turn = {Head(cc.inbox)},
                        !.echo = Head(cc.inbox)]
    /\ Silent /\ UNCHANGED <<alive, journaled>>

CCEcho ==
    /\ CCRuns /\ cc.echo # None
    /\ Journal("echo", cc.echo, {}) /\ cc' = [cc EXCEPT !.echo = None]
    /\ UNCHANGED <<alive, journaled>>

CCEnqueue ==
    /\ CCRuns /\ cc.echo = None /\ cc.inbox # <<>> /\ Head(cc.inbox) # Escape
    /\ cc.turn # {} \/ cc.queue # <<>> \/ Head(cc.inbox) \in Steers
    /\ Journal("enq", Head(cc.inbox), {})
    /\ cc' = [cc EXCEPT !.inbox = Tail(@), !.queue = Append(@, Head(cc.inbox))]
    /\ journaled' = journaled \cup ({Head(cc.inbox)} \cap Steers)
    /\ UNCHANGED alive

CCRemove ==      \* absorbed at a tool boundary of the running turn
    /\ CCRuns /\ cc.turn # {} /\ cc.echo = None /\ cc.queue # <<>>
    /\ Journal("rem", Head(cc.queue), {})
    /\ cc' = [cc EXCEPT !.queue = Tail(@), !.turn = @ \cup {Head(cc.queue)}]
    /\ UNCHANGED <<alive, journaled>>

CCDequeue ==
    /\ CCRuns /\ cc.turn = {} /\ cc.queue # <<>>
    /\ Journal("deq", Head(cc.queue), {})
    /\ cc' = [cc EXCEPT !.queue = Tail(@), !.turn = {Head(cc.queue)},
                        !.echo = Head(cc.queue)]
    /\ UNCHANGED <<alive, journaled>>

CCEndTurn ==
    /\ CCRuns /\ cc.turn # {} /\ cc.echo = None
    /\ CloseTurn("dur") /\ cc' = [cc EXCEPT !.turn = {}]
    /\ UNCHANGED <<alive, journaled>>

CCFailTurn ==
    /\ CCRuns /\ cc.turn # {} /\ cc.echo = None
    /\ \/ "error" \in Env /\ CloseTurn("err")
       \/ "limit" \in Env /\ CloseTurn("lim")
    /\ cc' = [cc EXCEPT !.turn = {}]
    /\ UNCHANGED <<alive, journaled>>

CCEscape ==      \* ESC stops the running turn, and does nothing at the prompt
    /\ CCRuns /\ cc.echo = None /\ cc.inbox # <<>> /\ Head(cc.inbox) = Escape
    /\ cc' = [cc EXCEPT !.inbox = Tail(@), !.turn = {}]
    /\ IF cc.turn # {} THEN CloseTurn("int") ELSE Silent
    /\ UNCHANGED <<alive, journaled>>

CCBanner ==      \* rendered text, of a real limit or of a quoted one
    /\ CCRuns /\ "banner" \in Env /\ ~cc.banner
    /\ cc' = [cc EXCEPT !.banner = TRUE]
    /\ Silent /\ UNCHANGED <<alive, journaled>>

CCLose ==        \* swallowed by a booting or busy terminal or channel server
    /\ CCRuns /\ "lose" \in Env /\ cc.inbox # <<>>
    /\ cc' = [cc EXCEPT !.inbox = Tail(@)]
    /\ Silent /\ UNCHANGED <<alive, journaled>>

CCDie ==
    /\ CCRuns /\ "die" \in Env /\ Kill(process)
    /\ Silent /\ UNCHANGED journaled

(* The text of a steer had once been queued and absorbed, before any steering. *)
CCForeign(s) ==
    /\ CCRuns /\ "foreign" \in Env /\ spc[s] = "idle"
    /\ \A x \in Steers : spc[x] \in {"idle", "called"}
    /\ nrec + 2 <= MaxRecords /\ nrec' = nrec + 2
    /\ unread' = unread \o <<[k |-> "enq", i |-> s, id |-> nrec + 1, t |-> {}],
                             [k |-> "rem", i |-> s, id |-> nrec + 2, t |-> {}]>>
    /\ UNCHANGED <<alive, cc, journaled>>
--------------------------------------------------------------------------------
Send ==
    \/ Own \/ CheckAlive \/ CheckRefused \/ ResumeBegin \/ ResumeDone
    \/ ResumeFailed \/ Backlog \/ DeliverChannel \/ DeliverStdin \/ DeliverFailed
Scan ==
    \/ ScanEcho \/ ScanEnqueue \/ ScanRoute \/ ScanTerminal
    \/ ScanForeignTerminal \/ ScanFailure \/ ScanEnd
Round == LoopCrash \/ LoopPoll \/ Read \/ Scan \/ Emit
Decide ==
    \/ DecideComplete \/ DecideApiError \/ DecideLimit \/ DecideBanner
    \/ DecideAgain
Finally == FinallyDetach \/ FinallyReap
Consume == Send \/ Round \/ Decide \/ Finally

Steer(s) ==
    \/ SteerRefused(s) \/ SteerTooLate(s) \/ SteerAdmit(s) \/ SteerWritten(s)
    \/ SteerFailClosed(s) \/ SteerReap(s) \/ SteerAcknowledged(s)
Host ==
    \/ InterruptDetach \/ InterruptReap \/ InterruptEscape \/ StopLock \/ StopReap
Watch == WatchWake \/ WatchLook \/ WatchRead
ClaudeStep ==
    \/ CCStart \/ CCEcho \/ CCEnqueue \/ CCRemove \/ CCDequeue \/ CCEndTurn
    \/ CCEscape
Enter == CancelOwn \/ \E p \in Prompts : Acquire(p)
Chance ==   \* what the environment may do but never has to
    \/ Enter
    \/ HostCancel \/ DecideResend \/ LoopTimeout
    \/ \E s \in Steers : SteerCall(s) \/ SteerWriteFailed(s)
                          \/ SteerDeadline(s) \/ CCForeign(s)
    \/ InterruptMark \/ StopWatch
    \/ CCNotify \/ CCFailTurn \/ CCBanner \/ CCLose \/ CCDie

Next ==
    \/ Consume \/ \E s \in Steers : Steer(s)
    \/ Host \/ Watch \/ ClaudeStep \/ Chance

Spec == Init /\ [][Next]_vars

(* What the event loop and the executor give: a coroutine that can run does
   run, and asyncio.Lock wakes its waiters in order, so one that waits for the
   state lock gets it even though the consumer takes it every round.  Claude
   Code is assumed to work on what it has accepted. *)
Fairness ==
    /\ WF_vars(Consume) /\ WF_vars(Host) /\ SF_vars(InterruptDetach)
    /\ SF_vars(StopLock) /\ WF_vars(WatchRead) /\ WF_vars(ClaudeStep)
    /\ \A s \in Steers :
         /\ WF_vars(Steer(s)) /\ WF_vars(SteerWritten(s) \/ SteerWriteFailed(s))
         /\ SF_vars(SteerDeadline(s))
         /\ SF_vars(SteerRefused(s) \/ SteerTooLate(s) \/ SteerAdmit(s))
         /\ SF_vars(SteerFailClosed(s))
FairSpec == Spec /\ Fairness
--------------------------------------------------------------------------------
(* Types, by the coroutine that keeps the state. *)
FgType == [proc : ProcOrNone, started : BOOLEAN, followup : SteerOrNone,
           followStarted : BOOLEAN, deferred : BOOLEAN, confirm : BOOLEAN,
           hadMsgs : BOOLEAN]
ScanType == [batch : Seq(Record), started : BOOLEAN, done : BOOLEAN,
             err : BOOLEAN, lim : BOOLEAN, enq : SteerOrNone, unc : SteerOrNone]
ReceiptType == [proc : ProcOrNone, expect : ProcOrNone, enqueued : BOOLEAN,
                uncertain : BOOLEAN, prewrite : SUBSET (1 .. MaxRecords)]
ReapType == [proc : ProcOrNone, steer : SteerOrNone]
CCType == [inbox : Seq(Inputs \cup {Escape}), queue : Seq(Inputs),
           turn : SUBSET Inputs, echo : Inputs \cup {None}, banner : BOOLEAN]

TypeLife ==
    /\ started \in BOOLEAN /\ process \in Procs /\ alive \in [Procs -> BOOLEAN]
    /\ restarts \in Nat /\ channelDown \in BOOLEAN
TypeLock ==
    /\ stateLock \in {None, "consumer", "steer", "watcher"}
    /\ owner \in Prompts \cup {None} /\ active \in ProcOrNone
    /\ interrupted \in ProcOrNone /\ unsettled \in ProcOrNone
    /\ pending \in SteerOrNone
TypeReader ==
    /\ prefetched \in Seq(Record) /\ unread \in Seq(Record)
    /\ nrec \in 0 .. MaxRecords /\ consumed \in 0 .. MaxRecords
TypeSend ==
    /\ sending \in Prompts \cup {None}
    /\ pc \in {"idle", "own", "check", "spawn", "backlog", "deliver", "loop",
               "poll", "scan", "emit", "decide", "detach", "reap"}
    /\ fg \in FgType /\ scan \in ScanType
    /\ outcome \in [Prompts -> {"none", "open", "complete", "error", "crashed",
                      "timeout", "api_error", "rate_limited", "cancelled"}]
TypeSteer ==
    /\ spc \in [Steers -> {"idle", "called", "write", "await", "failclosed",
                           "reap", "done"}]
    /\ receipt \in [Steers -> ReceiptType]
    /\ ack \in [Steers -> {"open", "true", "false"}]
    /\ result \in [Steers -> {"none", "true", "false", "uncertain"}]
TypeHost ==
    /\ reaping \in [Stoppers -> ReapType]
    /\ irq \in [pc : {"ready", "detach", "reap", "esc", "done"},
                owner : Prompts \cup {None}, proc : ProcOrNone]
    /\ stopPc \in {"ready", "lock", "reap", "done"}
    /\ watchPc \in {"sleep", "lock", "read", "off"}
TypeClaude ==
    /\ cc \in CCType /\ journaled \subseteq Steers /\ bound \subseteq Inputs

TypeOK ==
    /\ TypeLife /\ TypeLock /\ TypeReader /\ TypeSend /\ TypeSteer /\ TypeHost
    /\ TypeClaude
--------------------------------------------------------------------------------
(* True from steer_active_turn is a receipt: Claude Code journalled this very
   input after it was written, not an older copy of the same text.  The scan
   compares contents and the identities of the records seen by the preflight. *)
AckIsGenuine == \A s \in Steers : ack[s] = "true" => s \in journaled

(* Whenever the state lock is free, an open steer has its process fenced, so
   that detaching the turn stops that process before the steer is answered. *)
OpenSteerIsFenced ==
    stateLock = None /\ pending # None => unsettled = receipt[pending].proc

(* No fence and no open steer survives the send_prompt they belong to: neither
   could be settled by anybody afterwards, and both refuse every later steer. *)
FenceEndsWithSend ==
    sending = None => pending = None /\ unsettled = NoProc

StillToRun(s) ==
    \/ cc.echo = s
    \/ \E n \in DOMAIN cc.inbox : cc.inbox[n] = s
    \/ \E n \in DOMAIN cc.queue : cc.queue[n] = s
BeingStopped(p) ==
    \/ \E a \in Stoppers : reaping[a].proc = p
    \/ \E s \in Steers : spc[s] = "reap" /\ receipt[s].proc = p

(* A steer that Claude Code has still to run never outlives its foreground
   consumer: as the docstring of steer_active_turn has it, the same consumer
   follows it to its next terminal record, or the process is being stopped.
   A steer reported as uncertain is given up on purpose. *)
SteerIsFollowed ==
    \A s \in Steers : StillToRun(s) /\ ~receipt[s].uncertain =>
        sending # None \/ BeingStopped(process)

(* After False the host may submit the text again: the old copy is not going to
   run, because it is gone or because its process is already being stopped. *)
FalseNeverRunsLater ==
    \A s \in Steers : result[s] = "false" /\ StillToRun(s) => BeingStopped(process)

(* send_prompt reports completion only after the terminal record of the turn
   that ran its own prompt, and of the turn that ran the steer it follows,
   never on the terminal of an earlier or autonomous turn (the off-by-one of
   session.py:1240).  A stop in progress discards records. *)
CompletionOwnsTurn ==
    [][\A p \in Prompts :
         outcome[p] = "open" /\ outcome'[p] = "complete" /\ stopPc = "ready" =>
            p \in bound /\ fg.followup \in bound \cup {None}]_vars

Stream == scan.batch \o prefetched \o unread

(* Three readers share one file offset: the consumer, the preflight of a steer
   and the idle watcher.  What is left to hand out is always exactly the
   journal after the last record handed out, in order.  stop and a restart
   discard records. *)
NothingSkipped ==
    stopPc = "ready" /\ pc # "spawn" =>
        /\ Len(Stream) = nrec - consumed
        /\ \A n \in DOMAIN Stream : Stream[n].id = consumed + n

(* Once a send_prompt has published its turn, records are consumed in its own steps
   only.  The idle watcher looks at _send_lock before it reads, not after: it may
   still be reading when a send has taken the lock (session.py:1254), but not any
   more when that send has got the state lock, reads the backlog and delivers its
   prompt. *)
ForegroundOwnsReader ==
    [][pc \notin {"idle", "own"} /\ consumed' # consumed => pc = "scan" \/ pc' # pc]_vars

(* A steer that was admitted is answered, whatever is lost or dies: it holds the
   admission lock, and nobody could steer again. *)
SteerReturns == \A s \in Steers : Busy(s) ~> (spc[s] = "done")

(* Without lost inputs, a send_prompt ends by itself, without the two-hour
   response timeout: completed, failed or crashed. *)
SendEnds == \A p \in Prompts : (sending = p) ~> (sending # p)

(* "never leave the poller hung" (session.py:1128): once the terminal record of
   its own turn was consumed, send_prompt ends. *)
TurnEndIsSeen ==
    \A p \in Prompts : (sending = p /\ p \in bound) ~> (sending # p)
================================================================================
