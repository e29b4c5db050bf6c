--------------------------------- MODULE CCMSlot -------------------------------
(***************************************************************************)
(* One instance slot of CCMBackend, src/claude_pty/adapters/ccm.py, with   *)
(* launch and _consume of adapters/base.py.  A turn is one launch_for_ccm: *)
(* it brings a proxy for the dispatcher that waits on it, a consumer task  *)
(* and a Session, new or reused.  A proxy, a consumer and a new Session    *)
(* carry the number of their turn; the dictionaries _proxies, _sessions    *)
(* and _consumers are the three fields of slot.  _im.processes and         *)
(* _im._tasks are kept in step with _proxies and _consumers.               *)
(*                                                                         *)
(* The host (InstanceManager, dispatcher, database) is external: it makes  *)
(* one launch at a time and every await on it is a pause.                  *)
(***************************************************************************)
EXTENDS Naturals

CONSTANTS
    MaxTurns,   \* bound: launches in one behaviour
    Env         \* what the host may do, see SlotEvents

SlotEvents ==
    {"takeover",   \* launch while the previous turn still runs
     "reuse",      \* and resume the very session it runs on
     "rotate",     \* relaunch a failed turn on another account
     "slow",       \* returning from a rotation takes longer than the retry
     "crash",      \* the process dies during a turn
     "kill",       \* the dispatcher times out and kills its proxy
     "fail"}       \* a launch raises

ASSUME SlotAssumption == MaxTurns \in Nat \ {0} /\ Env \subseteq SlotEvents

Turns == 1 .. MaxTurns
Nobody == 0
TurnOrNobody == 0 .. MaxTurns

VARIABLES
    launched,   \* turns launched so far
    lpc,        \* where each launch_for_ccm is
    plan,       \* its resume target, the consumer that rotates, the stale session
    sess,       \* Session of each turn
    live,       \* Sessions whose process is alive
    tag,        \* Session._ccm_proxy
    done,       \* proxies whose _done is set
    chained,    \* proxy._chained
    slot,       \* _proxies, _sessions and _consumers at this instance
    cpc,        \* where each consumer task is
    own,        \* own_proxy of its on_exit
    kpc,        \* the _force_kill task of each proxy
    kobj        \* the session it is going to stop

launchSt == <<launched, lpc, plan>>
sessions == <<sess, live, tag>>
proxies  == <<done, chained>>
consumer == <<cpc, own>>
killSt   == <<kpc, kobj>>
vars == <<launchSt, sessions, proxies, slot, consumer, killSt>>

NoPlan == [resume |-> Nobody, by |-> Nobody, stale |-> Nobody]

Init ==
    /\ launched = 0
    /\ lpc = [t \in Turns |-> "none"] /\ plan = [t \in Turns |-> NoPlan]
    /\ sess = [t \in Turns |-> Nobody] /\ live = {}
    /\ tag = [t \in Turns |-> Nobody]
    /\ done = {} /\ chained = [t \in Turns |-> Nobody]
    /\ slot = [proxy |-> Nobody, session |-> Nobody, consumer |-> Nobody]
    /\ cpc = [t \in Turns |-> "none"] /\ own = [t \in Turns |-> Nobody]
    /\ kpc = [t \in Turns |-> "none"] /\ kobj = [t \in Turns |-> Nobody]

Ended(t) == cpc[t] \in {"none", "over", "lost"}
Launching(t) == lpc[t] \in {"stop", "remove", "create"}
Launch(t, pc) == lpc' = [lpc EXCEPT ![t] = pc]
Move(t, pc) == cpc' = [cpc EXCEPT ![t] = pc]
--------------------------------------------------------------------------------
(* Proxies.  complete: the first result wins and is passed down the chain. *)

Downstream(p) ==
    {q \in Turns : \A S \in SUBSET Turns :
        p \in S \cup {Nobody} /\ (\A x \in S : chained[x] \in S \cup {Nobody}) => q \in S}
Complete(p) == done' = done \cup Downstream(p)

ChainForgotten(p, q) == UNCHANGED proxies   \* mutant
Chain(p, q) ==   \* p.chain(q)
    IF p \in done THEN Complete(q) /\ UNCHANGED chained
                  ELSE chained' = [chained EXCEPT ![p] = q] /\ UNCHANGED done

(* consumer.cancel.  A turn that is cut still runs on_exit, in the finally
   clause of _consume; an on_exit that is cut in one of its awaits is left
   without its last lines, and a relaunch inside it is given up. *)
AfterCancel(c) ==
    CASE c # Nobody /\ cpc[c] \in {"wait", "turn"}   -> "ending"
      [] c # Nobody /\ cpc[c] \in {"exit", "rotate"} -> "lost"
      [] OTHER -> "same"
CancelUnchecked(c) == Move(c, AfterCancel(c))   \* mutant: also a finished task
Cancel(c) ==
    IF AfterCancel(c) = "same" THEN UNCHANGED cpc ELSE Move(c, AfterCancel(c))
Abandoned(c) ==
    {t \in Turns : c # Nobody /\ AfterCancel(c) = "lost" /\ Launching(t)
                   /\ plan[t].by = c}
--------------------------------------------------------------------------------
(* launch_for_ccm, by the host (by = Nobody) or by a rotating consumer.  A task
   that kill has just created runs in the next round of the event loop, before
   anybody gets round to a launch. *)

Register(t) == slot' = [slot EXCEPT !.proxy = t]

LaunchBegin(r, c) ==
    LET t == launched + 1
        stale == IF slot.session # Nobody
                    /\ ~(slot.session \in live /\ r = slot.session)
                 THEN slot.session ELSE Nobody
    IN /\ launched < MaxTurns
       /\ \A u \in Turns : ~Launching(u) /\ kpc[u] # "check"
       /\ launched' = t
       /\ plan' = [plan EXCEPT ![t] = [resume |-> r, by |-> c, stale |-> stale]]
       /\ IF stale # Nobody THEN Launch(t, "stop") /\ UNCHANGED slot
                            ELSE Launch(t, "create") /\ Register(t)
       /\ UNCHANGED <<sessions, proxies, consumer, killSt>>

RunsOn(s) == {t \in Turns : sess[t] = s /\ ~Ended(t)}
HostLaunch ==
    \E r \in TurnOrNobody :
        /\ r # Nobody => tag[r] # Nobody /\ (RunsOn(r) = {} \/ "reuse" \in Env)
        /\ "takeover" \in Env \/ \A u \in Turns : Ended(u)
        /\ LaunchBegin(r, Nobody)

LaunchStopped(t) ==   \* old_session.stop returned
    /\ lpc[t] = "stop"
    /\ live' = live \ {plan[t].stale}
    /\ slot' = [slot EXCEPT !.session = Nobody]
    /\ Launch(t, "remove")
    /\ UNCHANGED <<launched, plan, sess, tag, proxies, consumer, killSt>>

LaunchRemoved(t) ==   \* pool.remove returned: the old consumer is cancelled
    /\ lpc[t] = "remove"
    /\ Cancel(slot.consumer)
    /\ slot' = [slot EXCEPT !.consumer = Nobody, !.proxy = t]
    /\ Launch(t, IF t \in Abandoned(slot.consumer) THEN "failed" ELSE "create")
    /\ UNCHANGED <<launched, plan, sessions, proxies, own, killSt>>

(* get_or_create returned.  A live resume target is reused as it is, except by
   a rotation: it names another account, and the session is replaced. *)
LaunchUp(t) ==
    LET r == plan[t].resume
        s == IF r \in live /\ plan[t].by = Nobody THEN r ELSE t
    IN /\ lpc[t] = "create"
       /\ sess' = [sess EXCEPT ![t] = s]
       /\ live' = (IF s = t THEN live \ {r} ELSE live) \cup {s}
       /\ tag' = [tag EXCEPT ![s] = t]
       /\ slot' = [slot EXCEPT !.session = s, !.consumer = t]
       /\ Launch(t, "up") /\ Move(t, "wait")
       /\ UNCHANGED <<launched, plan, proxies, own, killSt>>

LaunchFails(t) ==
    /\ lpc[t] = "create" /\ "fail" \in Env
    /\ Launch(t, "failed")
    /\ UNCHANGED <<launched, plan, sessions, proxies, slot, consumer, killSt>>
--------------------------------------------------------------------------------
(* _consume: the turn, under the session's _send_lock, and on_exit. *)

TurnStart(t) ==
    /\ cpc[t] = "wait" /\ \A u \in RunsOn(sess[t]) : cpc[u] # "turn"
    /\ Move(t, "turn")
    /\ UNCHANGED <<launchSt, sessions, proxies, slot, own, killSt>>

Rotating(t) == plan[t].by # Nobody /\ cpc[plan[t].by] = "rotate"

TurnEnd(t) ==     \* by its terminal record, an error, or a stopped session
    /\ cpc[t] = "turn" \/ (cpc[t] = "wait" /\ sess[t] \notin live)
    /\ "slow" \in Env \/ ~Rotating(t)
    /\ live' \in {live} \cup (IF "crash" \in Env THEN {live \ {sess[t]}} ELSE {})
    /\ Move(t, "ending")
    /\ UNCHANGED <<launchSt, sess, tag, proxies, slot, own, killSt>>

OwnProxyOfSlot(t) == slot.proxy   \* mutant: look the proxy up by instance
OwnProxy(t) == IF tag[sess[t]] # Nobody THEN tag[sess[t]] ELSE slot.proxy

OnExit(t) ==      \* up to its first await: rotation, or the status update
    /\ cpc[t] = "ending"
    /\ own' = [own EXCEPT ![t] = OwnProxy(t)]
    /\ \/ Move(t, "exit")
       \/ "rotate" \in Env /\ Move(t, "rotate")
    /\ UNCHANGED <<launchSt, sessions, proxies, slot, killSt>>

LaunchOf(c) == {t \in Turns : plan[t].by = c}

Rotate(c) ==      \* _try_chat_pool_rotation relaunches inline
    /\ cpc[c] = "rotate" /\ LaunchOf(c) = {}
    /\ LaunchBegin(sess[c], c)

Rotated(c) ==     \* the proxy found in the slot inherits our dispatcher
    /\ cpc[c] = "rotate" /\ \E t \in LaunchOf(c) : lpc[t] = "up"
    /\ IF slot.proxy \notin {Nobody, own[c]}
       THEN Chain(slot.proxy, own[c])
       ELSE Complete(own[c]) /\ UNCHANGED chained
    /\ Move(c, "over")
    /\ UNCHANGED <<launchSt, sessions, slot, own, killSt>>

NotRotated(c) ==  \* nothing to rotate to, or the relaunch raised
    /\ cpc[c] = "rotate" /\ \A t \in LaunchOf(c) : lpc[t] = "failed"
    /\ Move(c, "exit")
    /\ UNCHANGED <<launchSt, sessions, proxies, slot, own, killSt>>

Unless(x, mine) == IF x \in mine THEN Nobody ELSE x
CleanedBlindly(t) ==   \* mutant: pop whatever the slot holds
    [proxy |-> Nobody, session |-> Nobody, consumer |-> Nobody]
Cleaned(t) ==     \* pop only what is still ours
    [proxy    |-> Unless(slot.proxy, {own[t]}),
     session  |-> Unless(slot.session, {sess[t]}),
     consumer |-> Unless(slot.consumer, {t})]

ExitDone(t) ==
    /\ cpc[t] = "exit"
    /\ slot' = Cleaned(t)
    /\ Complete(own[t])
    /\ Move(t, "over")
    /\ UNCHANGED <<launchSt, sessions, chained, own, killSt>>
--------------------------------------------------------------------------------
(* proxy.kill and the _force_kill task it creates.  A dispatcher holds the proxy
   of the turn it launched, not those of the retries. *)

Kill(t) ==
    /\ "kill" \in Env /\ lpc[t] = "up" /\ plan[t].by = Nobody /\ t \notin done
    /\ Complete(t)
    /\ kpc' = [kpc EXCEPT ![t] = "check"]
    /\ UNCHANGED <<launchSt, sessions, chained, slot, consumer, kobj>>

TakenOver(t) == slot.session \notin {Nobody, sess[t]}

ForceKill(t) ==   \* up to the stop
    /\ kpc[t] = "check" /\ kpc' = [kpc EXCEPT ![t] = "stop"]
    /\ IF TakenOver(t)
       THEN /\ kobj' = [kobj EXCEPT ![t] = sess[t]]
            /\ UNCHANGED <<lpc, cpc, slot>>
       ELSE /\ kobj' = [kobj EXCEPT ![t] = slot.session]
            /\ Cancel(slot.consumer)
            /\ lpc' = [u \in Turns |-> IF u \in Abandoned(slot.consumer)
                                       THEN "failed" ELSE lpc[u]]
            /\ slot' = [slot EXCEPT !.session = Nobody, !.consumer = Nobody]
    /\ UNCHANGED <<launched, plan, sessions, proxies, own>>

ForceKilled(t) ==
    /\ kpc[t] = "stop" /\ kpc' = [kpc EXCEPT ![t] = "done"]
    /\ live' = live \ {kobj[t]}
    /\ UNCHANGED <<launchSt, sess, tag, proxies, slot, consumer, kobj>>
--------------------------------------------------------------------------------
Progress(t) ==
    \/ LaunchStopped(t) \/ LaunchRemoved(t) \/ LaunchUp(t)
    \/ OnExit(t) \/ Rotated(t) \/ NotRotated(t) \/ ExitDone(t)
    \/ ForceKill(t) \/ ForceKilled(t)
TurnStep(t) == TurnStart(t) \/ TurnEnd(t)
HostStep == HostLaunch \/ \E t \in Turns : Rotate(t) \/ Kill(t) \/ LaunchFails(t)

Next == HostStep \/ \E t \in Turns : Progress(t) \/ TurnStep(t)
Spec == Init /\ [][Next]_vars

(* Tasks that can run do, and a send_prompt ends, by its timeout if need be. *)
FairSpec ==
    Spec /\ \A t \in Turns :
        /\ WF_vars(Progress(t)) /\ WF_vars(TurnStep(t))
        /\ WF_vars(ForceKill(t) \/ ForceKilled(t))
--------------------------------------------------------------------------------
(* Types. *)
SlotTypeOK ==
    /\ launched \in TurnOrNobody
    /\ lpc \in [Turns -> {"none", "stop", "remove", "create", "up", "failed"}]
    /\ plan \in [Turns -> [resume : TurnOrNobody, by : TurnOrNobody,
                           stale : TurnOrNobody]]
    /\ sess \in [Turns -> TurnOrNobody] /\ live \subseteq Turns
    /\ tag \in [Turns -> TurnOrNobody] /\ done \subseteq Turns
    /\ chained \in [Turns -> TurnOrNobody]
    /\ slot \in [proxy : TurnOrNobody, session : TurnOrNobody,
                 consumer : TurnOrNobody]
    /\ cpc \in [Turns -> {"none", "wait", "turn", "ending", "exit", "rotate",
                          "over", "lost"}]
    /\ own \in [Turns -> TurnOrNobody]
    /\ kpc \in [Turns -> {"none", "check", "stop", "done"}]
    /\ kobj \in [Turns -> TurnOrNobody]

(* The newest turn keeps its place: as long as it runs, the instance leads to
   its proxy, its session and its consumer, whatever older turns still do in
   their on_exit or their _force_kill ("popping blindly would deregister its
   live session", adapters/ccm.py:343). *)
NewestStaysRegistered ==
    \A t \in Turns :
        t = launched /\ lpc[t] = "up" /\ cpc[t] \in {"wait", "turn"}
                     /\ kpc[t] = "none" =>
            slot = [proxy |-> t, session |-> sess[t], consumer |-> t]

(* A dispatcher is not woken by somebody else's exit: its proxy is completed
   after its own consumer left the turn, or because it was killed. *)
WakesItsDispatcher ==
    [][\A t \in done' \ done :
         kpc'[t] # "none" \/ cpc[t] \in {"exit", "rotate", "over", "lost"}]_vars

(* A dispatcher that waits on a turn that was launched is woken, also when the
   turn was rotated to another account, once or more, or killed; unless the host
   launches over it, an on_exit is cut (by the relaunch of its own rotation, if
   its process is dead, or by a kill), or a retry is over before the rotation
   that launched it returns (it may rotate itself, and of two dispatchers chained
   to one proxy it remembers the second). *)
LaunchedOver(t) == \E u \in Turns :
    u > t /\ lpc[u] # "none" /\ plan[u].by = Nobody
Overtakes(u) == Rotating(u) /\ cpc[u] \notin {"none", "wait", "turn"}
WakesUnlessCut ==
    \A t \in Turns : (cpc[t] = "wait") ~>
        \/ t \in done \/ LaunchedOver(t)
        \/ \E u \in Turns : cpc[u] = "lost" \/ Overtakes(u)
================================================================================
