------------------------------ MODULE SessionPool ------------------------------
(***************************************************************************)
(* SessionPool of src/claude_pty/pool.py, with the re-keying of            *)
(* BasePTYBackend.launch and the teardown of the adapters, which reach     *)
(* into the same dictionary.  A Session is what the pool sees of it: a     *)
(* process that is starting, live or gone, a send lock, a time since its   *)
(* last activity, and reasons to keep it resident.                         *)
(*                                                                         *)
(* Tasks call the pool; one more task is the reaper.  An action is what a  *)
(* task does between two awaits.  _access_order only ranks the candidates  *)
(* of an eviction: here any candidate may be the victim.                   *)
(***************************************************************************)
EXTENDS Naturals, Sequences, FiniteSets

CONSTANTS
    Sids,         \* session ids the hosts know
    Fresh,        \* "": the key under which a session without an id is created
    Accounts,     \* configurations: config_dir, model and effort together
    Callers,      \* tasks, each calls the pool once
    Reaper,       \* the task of _reap_loop
    None,
    MaxObjs,      \* bound: Session objects created in one behaviour
    MaxSessions,  \* config.max_sessions
    Ops,          \* what the callers call, see AllOps
    Env           \* what may happen, see PoolEvents

AllOps == {"get",      \* get_or_create, as called by launch
           "remove", "drain", "stopall",
           "retire",   \* BasePTYBackend.stop: stop the session, then remove its id
           "kill"}     \* CCMBackend._force_kill on a slot that was taken over
PoolEvents ==
    {"reap",       \* idle_reap_after > 0
     "cancel",     \* a caller is cancelled while it waits or starts a session
     "cut",        \* a caller is cancelled while a session is being stopped
     "fail",       \* Session.start raises
     "fresh",      \* hosts launch sessions that have no id yet
     "quiet",      \* a session is silent long enough to pass the two limits
     "work",       \* sub-agents, and hosts that retain a session
     "crash"}      \* a process dies by itself

ASSUME TasksAssumption ==
    /\ Reaper \notin Callers /\ None \notin Callers \cup {Reaper}
ASSUME LimitsAssumption ==
    /\ MaxObjs \in Nat /\ MaxSessions \in Nat \ {0}
    /\ Ops \subseteq AllOps /\ Env \subseteq PoolEvents
ASSUME IdsAssumption == IsFiniteSet(Sids) /\ Fresh \notin Sids

Objs  == 1 .. MaxObjs
NoObj == 0
Ids   == Sids \cup {Fresh} \cup Objs   \* Claude Code names session o itself: o
Tasks == Callers \cup {Reaper}

VARIABLES
    lock,        \* holder of _lock
    waiters,     \* tasks that wait for it: asyncio.Lock serves them in order
    pool,        \* _sessions; NoObj where the id is missing
    born,        \* Session objects created so far
    state,       \* of each: unborn, starting, live, dead, stopped
    ident,       \* its key until launch re-keys it, then its session_id
    account,     \* its config
    busy,        \* its _send_lock is taken
    resuming,    \* sessions whose prompt is in the backoff of _auto_resume
    idle,        \* idle_seconds: fresh < idle_timeout <= idle
                 \*   < idle_reap_after <= expired
    work,        \* none, hold (idle_reap_protected), children (pending)
    handed,      \* sessions some host holds
    call,        \* per task: where it is, in what, with which locals
    unstopped    \* ghost: sessions whose stop was cut short

mutex   == <<lock, waiters>>
session == <<born, state, ident, account>>
usage   == <<busy, resuming, idle, work, handed>>
vars == <<mutex, pool, session, usage, call, unstopped>>

(* The locals of a call: id and config it was given, the session it works on,
   and the ids a sweep has still to stop. *)
NoCall == [pc |-> "idle", op |-> "none", sid |-> None, acc |-> None,
           obj |-> NoObj, todo |-> {}]

Init ==
    /\ lock = None /\ waiters = <<>> /\ born = 0
    /\ pool = [k \in Ids |-> NoObj]
    /\ state = [o \in Objs |-> "unborn"]
    /\ ident = [o \in Objs |-> None] /\ account = [o \in Objs |-> None]
    /\ busy = [o \in Objs |-> FALSE] /\ idle = [o \in Objs |-> "fresh"]
    /\ work = [o \in Objs |-> "none"] /\ handed = {} /\ resuming = {}
    /\ call = [t \in Tasks |-> NoCall]
    /\ unstopped = {}

Pooled(p) == {k \in Ids : p[k] # NoObj}
WithoutNothing(p, k) == p   \* mutant
Without(p, k) == [p EXCEPT ![k] = NoObj]
At(t, pc) == call[t].pc = pc
Goto(t, pc) == call' = [call EXCEPT ![t].pc = pc]
Stopped(o) == [state EXCEPT ![o] = "stopped"]

(* Waiting for the lock, and being served.  A task that finds it free does not
   pause: it is then the only one in the queue. *)
Queue(t) == waiters' = Append(waiters, t)
Leave(t) ==
    LET places == {i \in DOMAIN waiters : waiters[i] = t}
        i == CHOOSE j \in places : TRUE
    IN IF places = {} THEN waiters
       ELSE SubSeq(waiters, 1, i - 1) \o SubSeq(waiters, i + 1, Len(waiters))
Served(t) == lock = None /\ waiters # <<>> /\ Head(waiters) = t
NextWaiter == waiters' = Tail(waiters)
--------------------------------------------------------------------------------
(* get_or_create.  The reaper is started by the first call.  A session that
   was created without an id can be asked for once a launch returned its id. *)

Named == {o \in handed : ident[o] = o /\
                          \E t \in Callers : At(t, "done") /\ call[t].obj = o}
Known == Sids \cup (IF "fresh" \in Env THEN {Fresh} \cup Named ELSE {})

StartsReaper(op) == op = "get" /\ "reap" \in Env /\ At(Reaper, "idle")

Call(t, op, k, a) ==
    /\ t \in Callers /\ At(t, "idle") /\ op \in Ops \cap {"get", "remove", "drain"}
    /\ k \in Known
    /\ LET c == [NoCall EXCEPT !.pc = "lock", !.op = op, !.sid = k, !.acc = a]
           woken == [NoCall EXCEPT !.pc = "sleep", !.op = "reap"]
       IN call' = [x \in Tasks |-> IF x = t THEN c
                                   ELSE IF x = Reaper /\ StartsReaper(op)
                                   THEN woken ELSE call[x]]
    /\ Queue(t)
    /\ UNCHANGED <<lock, pool, session, usage, unstopped>>

Enters(t, op) ==
    At(t, "lock") /\ call[t].op = op /\ Served(t)

Found(t) == pool[call[t].sid]
Alive(o) == o # NoObj /\ state[o] = "live"
SameConfig(t, o) == account[o] = call[t].acc

Reuse(t) ==
    /\ Enters(t, "get") /\ Alive(Found(t)) /\ SameConfig(t, Found(t))
    /\ call' = [call EXCEPT ![t].obj = Found(t),
                            ![t].pc = IF call[t].sid = Fresh THEN "rekey" ELSE "done"]
    /\ waiters' = IF call[t].sid = Fresh THEN Append(Tail(waiters), t)
                                        ELSE Tail(waiters)
    /\ handed' = handed \cup {Found(t)}
    /\ UNCHANGED <<lock, pool, session, busy, resuming, idle, work, unstopped>>

(* What happens once the id is free: create, evict first, or give up. *)
HasRoomForOneMore(p) == Cardinality(Pooled(p)) <= MaxSessions   \* mutant
HasRoom(p) == Cardinality(Pooled(p)) < MaxSessions

Resident(o) == work[o] # "none"
PastTimeout(p) == {k \in Pooled(p) : idle[p[k]] # "fresh" /\ ~Resident(p[k])}
Unlocked(p) == {k \in Pooled(p) : ~busy[p[k]] /\ ~Resident(p[k])}
Candidates(p) == IF PastTimeout(p) # {} THEN PastTimeout(p) ELSE Unlocked(p)

Create(t, p, st) ==
    /\ HasRoom(p) /\ born < MaxObjs
    /\ born' = born + 1
    /\ pool' = p
    /\ state' = [st EXCEPT ![born'] = "starting"]
    /\ ident' = [ident EXCEPT ![born'] = IF call[t].sid = Fresh THEN born'
                                                               ELSE call[t].sid]
    /\ account' = [account EXCEPT ![born'] = call[t].acc]
    /\ call' = [call EXCEPT ![t].pc = "start", ![t].obj = born']
    /\ lock' = t

Evict(t, p, st) ==
    /\ ~HasRoom(p)
    /\ \E k \in Candidates(p) :
         /\ pool' = Without(p, k)
         /\ call' = [call EXCEPT ![t].pc = "evict", ![t].obj = p[k]]
    /\ state' = st /\ lock' = t
    /\ UNCHANGED <<born, ident, account>>

Exhausted(t, p, st) ==
    /\ ~HasRoom(p) /\ Candidates(p) = {}
    /\ pool' = p /\ state' = st /\ lock' = None
    /\ Goto(t, "done")
    /\ UNCHANGED <<born, ident, account>>

MakeRoom(t, p, st) ==
    /\ Create(t, p, st) \/ Evict(t, p, st) \/ Exhausted(t, p, st)
    /\ UNCHANGED <<usage, unstopped>>

Claim(t) ==       \* no session under this id, or a dead one
    /\ Enters(t, "get") /\ ~Alive(Found(t))
    /\ MakeRoom(t, Without(pool, call[t].sid), state) /\ NextWaiter

Replace(t) ==     \* another account, model or effort: stop the old one first
    /\ Enters(t, "get") /\ Alive(Found(t)) /\ ~SameConfig(t, Found(t))
    /\ lock' = t /\ NextWaiter
    /\ call' = [call EXCEPT ![t].pc = "replace", ![t].obj = Found(t)]
    /\ UNCHANGED <<pool, session, usage, unstopped>>

AfterReplaceForgotten(o) == state   \* mutant
AfterReplace(o) == Stopped(o)

Replaced(t) ==
    /\ At(t, "replace")
    /\ MakeRoom(t, Without(pool, call[t].sid), AfterReplace(call[t].obj))
    /\ UNCHANGED waiters

Evicted(t) ==
    /\ At(t, "evict") /\ MakeRoom(t, pool, Stopped(call[t].obj))
    /\ UNCHANGED waiters

Started(t) ==
    /\ At(t, "start")
    /\ state' = [state EXCEPT ![call[t].obj] = "live"]
    /\ pool' = [pool EXCEPT ![call[t].sid] = call[t].obj]
    /\ handed' = handed \cup {call[t].obj}
    /\ lock' = None
    /\ Goto(t, IF call[t].sid = Fresh THEN "rekey" ELSE "done")
    /\ IF call[t].sid = Fresh THEN Queue(t) ELSE UNCHANGED waiters
    /\ UNCHANGED <<born, ident, account, busy, resuming, idle, work, unstopped>>

(* A start that raises or is cancelled: it settles in its own task, then the
   unpublished session is stopped, and only then the error is raised. *)
StartFails(t) ==
    /\ At(t, "start") /\ "fail" \in Env
    /\ Goto(t, "cleanup")
    /\ UNCHANGED <<mutex, pool, session, usage, unstopped>>

CancelStartAtOnce(t) ==   \* mutant: the error is raised while start still runs
    /\ At(t, "start") /\ "cancel" \in Env
    /\ Goto(t, "done") /\ lock' = None
    /\ UNCHANGED <<waiters, pool, session, usage, unstopped>>

CancelStart(t) ==
    /\ At(t, "start") /\ "cancel" \in Env
    /\ Goto(t, "settle")
    /\ UNCHANGED <<mutex, pool, session, usage, unstopped>>

Settled(t) ==
    /\ At(t, "settle")
    /\ state' \in {state, [state EXCEPT ![call[t].obj] = "live"]}
    /\ Goto(t, "cleanup")
    /\ UNCHANGED <<mutex, pool, born, ident, account, usage, unstopped>>

CleanedUp(t) ==
    /\ At(t, "cleanup")
    /\ state' = Stopped(call[t].obj)
    /\ Goto(t, "done") /\ lock' = None
    /\ UNCHANGED <<waiters, pool, born, ident, account, usage, unstopped>>

CancelWait(t) ==
    /\ t \in Callers /\ call[t].pc \in {"lock", "rekey"} /\ "cancel" \in Env
    /\ Goto(t, "done") /\ waiters' = Leave(t)
    /\ UNCHANGED <<lock, pool, session, usage, unstopped>>

Rekey(t) ==       \* launch moves the new session from "" to its real id
    /\ At(t, "rekey") /\ Served(t) /\ NextWaiter
    /\ pool' = [Without(pool, Fresh) EXCEPT ![ident[call[t].obj]] = call[t].obj]
    /\ Goto(t, "done")
    /\ UNCHANGED <<lock, session, usage, unstopped>>
--------------------------------------------------------------------------------
(* remove, and the two teardowns that end in it. *)

Retire(t, op, o) ==   \* the host stops a session it holds, without the lock
    /\ t \in Callers /\ At(t, "idle") /\ op \in Ops \cap {"retire", "kill"}
    /\ o \in handed
    /\ call' = [call EXCEPT ![t] = [NoCall EXCEPT !.pc = "retire", !.op = op,
                                      !.obj = o, !.sid = ident[o]]]
    /\ UNCHANGED <<mutex, pool, session, usage, unstopped>>

(* _force_kill looks first whether the id still leads to its own session. *)
Retired(t) ==
    /\ At(t, "retire")
    /\ state' = Stopped(call[t].obj)
    /\ IF call[t].op = "kill" /\ Found(t) # call[t].obj
       THEN Goto(t, "done") /\ UNCHANGED waiters
       ELSE Goto(t, "lock") /\ Queue(t)
    /\ UNCHANGED <<lock, pool, born, ident, account, usage, unstopped>>

Remove(t) ==
    /\ \E op \in {"remove", "retire", "kill"} : Enters(t, op)
    /\ pool' = Without(pool, call[t].sid) /\ NextWaiter
    /\ IF Found(t) = NoObj
       THEN Goto(t, "done") /\ UNCHANGED lock
       ELSE /\ call' = [call EXCEPT ![t].pc = "stop", ![t].obj = Found(t)]
            /\ lock' = t
    /\ UNCHANGED <<session, usage, unstopped>>

Removed(t) ==
    /\ At(t, "stop") /\ call[t].op \in {"remove", "retire", "kill"}
    /\ state' = Stopped(call[t].obj)
    /\ Goto(t, "done") /\ lock' = None
    /\ UNCHANGED <<waiters, pool, born, ident, account, usage, unstopped>>
--------------------------------------------------------------------------------
(* The sweeps: drain_idle, reap_idle, stop_all.  The list of ids is made once;
   each session is then stopped in turn.  stop_all clears the dict at the end. *)

Sweeps == {"drain", "reap", "stopall"}
Listed(op) ==
    CASE op = "drain"   -> {k \in Pooled(pool) : ~busy[pool[k]]
                                              /\ work[pool[k]] # "children"}
      [] op = "reap"    -> {k \in Pooled(pool) : idle[pool[k]] = "expired"
                                              /\ ~busy[pool[k]]
                                              /\ ~Resident(pool[k])}
      [] op = "stopall" -> Pooled(pool)
Rest0(todo, k) == todo   \* mutant
Rest(todo, k) == todo \ {k}

(* The next session of a sweep, or its end. *)
SweepOn(t, todo) ==
    \/ \E k \in todo :
         /\ call' = [call EXCEPT ![t].pc = "stop", ![t].obj = pool[k],
                                 ![t].todo = Rest(todo, k)]
         /\ pool' = IF call[t].op = "stopall" THEN pool ELSE Without(pool, k)
         /\ lock' = t
    \/ /\ todo = {}
       /\ call' = [call EXCEPT ![t].pc = IF t = Reaper THEN "sleep" ELSE "done",
                               ![t].obj = NoObj]
       /\ pool' = IF call[t].op = "stopall" THEN [k \in Ids |-> NoObj] ELSE pool
       /\ lock' = None

Sweep(t) ==
    /\ \E op \in Sweeps : Enters(t, op) /\ SweepOn(t, Listed(op))
    /\ NextWaiter
    /\ UNCHANGED <<session, usage, unstopped>>

SweepNext(t) ==
    /\ At(t, "stop") /\ call[t].op \in Sweeps
    /\ state' = Stopped(call[t].obj)
    /\ SweepOn(t, call[t].todo)
    /\ UNCHANGED <<waiters, born, ident, account, usage, unstopped>>

ReaperWakes ==
    /\ At(Reaper, "sleep") /\ Goto(Reaper, "lock") /\ Queue(Reaper)
    /\ UNCHANGED <<lock, pool, session, usage, unstopped>>

(* stop_all first cancels the reaper, wherever it is. *)
CallStopAll(t) ==
    /\ t \in Callers /\ At(t, "idle") /\ "stopall" \in Ops
    /\ call' = [call EXCEPT ![t] = [NoCall EXCEPT !.pc = "lock", !.op = "stopall"],
                            ![Reaper] = NoCall]
    /\ waiters' = Append(Leave(Reaper), t)
    /\ IF At(Reaper, "stop")
       THEN /\ lock' = None
            /\ \/ state' = Stopped(call[Reaper].obj) /\ UNCHANGED unstopped
               \/ unstopped' = unstopped \cup {call[Reaper].obj} /\ UNCHANGED state
       ELSE UNCHANGED <<lock, state, unstopped>>
    /\ UNCHANGED <<pool, born, ident, account, usage>>

(* Any other task that is cancelled inside session.stop: the process may have
   been stopped already or not, and the lock is released. *)
CutStop(t) ==
    /\ t \in Callers /\ "cut" \in Env
    /\ \E pc \in {"replace", "evict", "stop"} : At(t, pc)
    /\ Goto(t, "done") /\ lock' = None
    /\ \/ state' = Stopped(call[t].obj) /\ UNCHANGED unstopped
       \/ unstopped' = unstopped \cup {call[t].obj} /\ UNCHANGED state
    /\ UNCHANGED <<waiters, pool, born, ident, account, usage>>
--------------------------------------------------------------------------------
(* What the sessions and their hosts do meanwhile, without the pool. *)

Use == UNCHANGED <<mutex, pool, born, ident, account, handed, call, unstopped>>

PromptStart(o) ==   \* on a dead process it first resumes, after a backoff
    /\ o \in handed /\ state[o] \in {"live", "dead"} /\ ~busy[o]
    /\ busy' = [busy EXCEPT ![o] = TRUE]
    /\ resuming' = IF state[o] = "dead" THEN resuming \cup {o} ELSE resuming
    /\ UNCHANGED <<idle, work, state>> /\ Use
PromptEnd(o) ==
    /\ busy[o] /\ o \notin resuming
    /\ busy' = [busy EXCEPT ![o] = FALSE]
    /\ UNCHANGED <<idle, work, resuming, state>> /\ Use
Crash(o) ==
    /\ "crash" \in Env /\ state[o] = "live"
    /\ state' = [state EXCEPT ![o] = "dead"]
    /\ UNCHANGED <<busy, resuming, idle, work>> /\ Use
Resume(o) ==        \* _auto_resume does not look again whether it was stopped
    /\ o \in resuming
    /\ state' = [state EXCEPT ![o] = "live"]
    /\ resuming' = resuming \ {o}
    /\ idle' = [idle EXCEPT ![o] = "fresh"]
    /\ UNCHANGED <<busy, work>> /\ Use
Silence(o) ==       \* also in the middle of a turn, during a long tool call
    /\ "quiet" \in Env /\ state[o] = "live" /\ idle[o] # "expired"
    /\ idle' = [idle EXCEPT ![o] = IF @ = "fresh" THEN "idle" ELSE "expired"]
    /\ UNCHANGED <<busy, resuming, work, state>> /\ Use
Activity(o) ==
    /\ state[o] = "live" /\ idle[o] # "fresh"
    /\ idle' = [idle EXCEPT ![o] = "fresh"]
    /\ UNCHANGED <<busy, resuming, work, state>> /\ Use
WorkChanges(o) ==
    /\ "work" \in Env /\ state[o] = "live"
    /\ IF work[o] = "none" THEN \E w \in {"hold", "children"} :
                                  work' = [work EXCEPT ![o] = w]
                           ELSE work' = [work EXCEPT ![o] = "none"]
    /\ UNCHANGED <<busy, resuming, idle, state>> /\ Use
--------------------------------------------------------------------------------
GetOrCreate(t) ==
    \/ Reuse(t) \/ Claim(t) \/ Replace(t) \/ Replaced(t) \/ Evicted(t)
    \/ Started(t) \/ Settled(t) \/ CleanedUp(t) \/ Rekey(t)
Teardown(t) ==
    Retired(t) \/ Remove(t) \/ Removed(t) \/ Sweep(t) \/ SweepNext(t)
Step(t) == GetOrCreate(t) \/ Teardown(t)
Disturb(t) ==
    \/ \E op \in AllOps, k \in Ids, a \in Accounts : Call(t, op, k, a)
    \/ \E op \in AllOps, o \in Objs : Retire(t, op, o)
    \/ CallStopAll(t)
    \/ StartFails(t) \/ CancelStart(t) \/ CancelWait(t) \/ CutStop(t)
SessionStep(o) ==
    \/ PromptStart(o) \/ PromptEnd(o) \/ Silence(o) \/ Activity(o)
    \/ WorkChanges(o) \/ Crash(o) \/ Resume(o)

Next ==
    \/ \E t \in Tasks : Step(t) \/ Disturb(t)
    \/ ReaperWakes
    \/ \E o \in Objs : SessionStep(o)

Spec == Init /\ [][Next]_vars

(* A task that can run does. *)
FairSpec == Spec /\ \A t \in Tasks : WF_vars(Step(t))
--------------------------------------------------------------------------------
Held(t) == call[t].pc \in {"start", "settle", "cleanup", "replace", "evict", "stop"}
CallType ==
    [pc : {"idle", "sleep", "lock", "start", "settle", "cleanup", "replace",
           "evict", "stop", "rekey", "retire", "done"},
     op : AllOps \cup {"none", "reap"}, sid : Ids \cup {None},
     acc : Accounts \cup {None}, obj : Objs \cup {NoObj}, todo : SUBSET Ids]

(* Types; and the dictionary is never asked for an id that is not in it. *)
PoolTypeOK ==
    /\ lock \in Tasks \cup {None} /\ waiters \in Seq(Tasks)
    /\ pool \in [Ids -> Objs \cup {NoObj}]
    /\ born \in 0 .. MaxObjs
    /\ state \in [Objs -> {"unborn", "starting", "live", "dead", "stopped"}]
    /\ ident \in [Objs -> Ids \cup {None}]
    /\ account \in [Objs -> Accounts \cup {None}]
    /\ busy \in [Objs -> BOOLEAN] /\ idle \in [Objs -> {"fresh", "idle", "expired"}]
    /\ work \in [Objs -> {"none", "hold", "children"}]
    /\ handed \cup resuming \subseteq Objs
    /\ call \in [Tasks -> CallType] /\ unstopped \subseteq Objs
    /\ \A t \in Tasks : Held(t) => call[t].obj \in Objs

Running(o) == state[o] \in {"starting", "live"}
Tracked(o) ==
    \/ \E k \in Ids : pool[k] = o
    \/ \E t \in Tasks : call[t].obj = o /\ (Held(t) \/ At(t, "rekey"))

(* No live process is lost: a session that runs is in the pool, or a task is
   still starting or stopping it, whatever was cancelled or failed meanwhile
   (the transaction of get_or_create).  The exception is a session whose stop
   was itself cancelled, see unstopped. *)
NoUntracked == \A o \in Objs : Running(o) => Tracked(o) \/ o \in unstopped

(* Two processes never run the same conversation: both would append to one
   JSONL file.  A replaced or evicted session is stopped before its id is
   started again. *)
OneProcessPerId ==
    \A o, q \in Objs \ unstopped :
        Running(o) /\ Running(q) /\ ident[o] = ident[q] => o = q

(* config.max_sessions bounds the sessions in the pool and the one starting. *)
WithinCapacity ==
    Cardinality(Pooled(pool)) + Cardinality({t \in Tasks : At(t, "start")})
        <= MaxSessions

(* Every call returns, also while others evict, start and sweep. *)
CallsReturn == \A t \in Callers : (call[t].pc # "idle") ~> (call[t].pc = "done")

(* "mid-turn (send_lock) is never evicted" (docs/pty-solution.md:182). *)
EvictionSparesTurns ==
    [][\A t \in Tasks : ~At(t, "evict") /\ At(t, "evict")' =>
         ~busy[call'[t].obj]]_vars
================================================================================
