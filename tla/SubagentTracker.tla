---------------------------- MODULE SubagentTracker ----------------------------
(***************************************************************************)
(* src/claude_pty/subagents.py fed by JsonlReader: the sub-agents that a   *)
(* Session believes to be at work.  A Session with such an agent is never  *)
(* reaped or evicted (pool.py), so one that is forgotten too early is      *)
(* killed in its work, and one that is remembered for ever keeps a process *)
(* and a place in the pool.                                                *)
(*                                                                         *)
(* Records reach the tracker through JsonlReader.normalize, from two       *)
(* consumers: send_prompt, which passes notifications on only until its    *)
(* own turn has started, and the idle watcher, which awaits its host's     *)
(* callback between two records.                                           *)
(***************************************************************************)
EXTENDS JournalFeed, Sequences

CONSTANTS
    Send, Watch,   \* the two consumers
    Agents,        \* sub-agents that Claude may launch
    MaxRecords,    \* bound: records in the journal
    HostEnv        \* what may happen to a consumer, see HostEvents

HostEvents == {"close",       \* the host closes the generator of send_prompt
               "raise",       \* a read ends in a character and raises
               "cancel",      \* a read is cancelled
               "reconcile"}   \* the host names agents it knows to be finished

ASSUME TrackerAssumption ==
    Send # Watch /\ MaxRecords \in Nat /\ HostEnv \subseteq HostEvents

Consumers == {Send, Watch}

VARIABLES
    content,   \* the records of the journal
    claude,    \* Claude Code's own turn, for the prompt of send_prompt
    agent,     \* what each sub-agent really does
    fg,        \* send_prompt: "off", "waiting" for its echo, "started", "ending"
    watching,  \* the watcher awaits a read that it called before a send began
    todo,      \* records that each consumer has still to normalize
    pending,   \* SubagentTracker.pending: how the agent was launched
    tasks,     \* SubagentTracker._monitor_tasks: agents whose task id is known
    told,      \* the last SUBAGENT event that the host got
    unheard    \* ghost: agents of which a record was dropped or came too late

world   == <<content, claude, agent>>
session == <<fg, watching, todo>>
tracker == <<pending, tasks, told>>
trackVars == <<vars, world, session, tracker, unheard>>

Launches == {"agent", "background", "monitor"}
Own(k)   == [k |-> k]                                      \* our turn
Use(a, how) == [k |-> "use", a |-> a, how |-> how]
Result(a, async, id) == [k |-> "result", a |-> a, async |-> async, id |-> id]
Notice(a, final) == [k |-> "notice", a |-> a, final |-> final]
Silent(a) == [k |-> "queue", a |-> a]                      \* queue journal only

About(a) == {n \in DOMAIN content : "a" \in DOMAIN content[n] /\ content[n].a = a}
Said(a)  == {content[n] : n \in About(a)}

TrackInit ==
    /\ Init
    /\ content = <<>> /\ claude = "none"
    /\ fg = "off" /\ watching = FALSE
    /\ agent = [a \in Agents |-> "none"]
    /\ todo = [r \in Consumers |-> {}]
    /\ pending = [a \in Agents |-> "no"] /\ tasks = {}
    /\ told = [a \in Agents |-> "nothing"] /\ unheard = {}
--------------------------------------------------------------------------------
(* Claude Code completes a record. *)

Begin(rec) ==
    /\ journal < MaxRecords /\ Complete
    /\ content' = Append(content, rec)
    /\ UNCHANGED <<session, tracker, unheard>>

BeginTurn ==
    /\ \/ claude = "asked" /\ Begin(Own("echo")) /\ claude' = "ours"
       \/ claude = "ours" /\ Begin(Own("end")) /\ claude' = "none"
    /\ UNCHANGED agent

Does(a, what) == agent' = [agent EXCEPT ![a] = what] /\ UNCHANGED claude

Launch(a) ==
    /\ agent[a] = "none"
    /\ \E how \in Launches : Begin(Use(a, how)) /\ Does(a, how)

(* An agent answers with its result, or is launched asynchronously, also where
   the call did not say so; a launch in the background may fail. *)
Answer(a) ==
    \/ agent[a] = "agent" /\ Begin(Result(a, FALSE, FALSE)) /\ Does(a, "ended")
    \/ agent[a] = "agent" /\ \E id \in BOOLEAN :
          Begin(Result(a, TRUE, id)) /\ Does(a, "running")
    \/ agent[a] = "background" /\ \E async, id \in BOOLEAN :
          Begin(Result(a, async, id)) /\ Does(a, "running")
    \/ agent[a] = "monitor" /\ Begin(Result(a, FALSE, TRUE)) /\ Does(a, "running")
    \/ agent[a] \in {"background", "monitor"}
          /\ Begin(Result(a, FALSE, FALSE)) /\ Does(a, "ended")

(* A notification is final to the tracker with the status completed or killed
   and as a Monitor's timeout: an agent that ends with another status is taken to
   make progress. *)
Notify(a) ==
    /\ agent[a] = "running"
    /\ \/ \E to \in {"running", "ended"} : Begin(Notice(a, FALSE)) /\ Does(a, to)
       \/ (Begin(Notice(a, TRUE)) \/ Begin(Silent(a))) /\ Does(a, "ended")
--------------------------------------------------------------------------------
(* Reading, as JsonlReader promises it (JsonlReader!FeedsInOrder).  The watcher
   reads while there is no send_prompt; a send that begins meanwhile waits for
   the reader's lock, and the watcher still handles what it has got. *)

WatcherCalls ==
    /\ fg = "off" /\ todo[Watch] = {} /\ ~watching
    /\ watching' = TRUE
    /\ UNCHANGED <<vars, world, fg, todo, tracker, unheard>>

Reads(r) == IF r = Watch THEN watching ELSE fg # "off" /\ ~watching

HandTo(r) ==
    /\ Reads(r) /\ todo[r] = {} /\ HandOut
    /\ todo' = [todo EXCEPT ![r] = batch']
    /\ watching' = (watching /\ r # Watch)
    /\ UNCHANGED <<world, fg, tracker, unheard>>

(* A read that fails or is cancelled ends send_prompt; the watcher goes on. *)
ReadFails(r) ==
    /\ Reads(r) /\ todo[r] = {}
    /\ \/ "raise" \in HostEnv /\ UNCHANGED vars
       \/ "cancel" \in HostEnv /\ Cut
    /\ fg' = IF r = Send THEN "off" ELSE fg
    /\ watching' = (watching /\ r # Watch)
    /\ UNCHANGED <<world, todo, tracker, unheard>>
--------------------------------------------------------------------------------
(* SubagentTracker *)

Pending(a)  == pending[a] # "no"
Forget(a)   == pending' = [pending EXCEPT ![a] = "no"]
Tell(a, ev) == told' = [told EXCEPT ![a] = ev]
Nothing     == UNCHANGED <<pending, tasks, told>>

NoteToolUse(rec) ==
    /\ pending' = [pending EXCEPT ![rec.a] = rec.how]
    /\ Tell(rec.a, "spawn") /\ UNCHANGED tasks

Arm(rec) == tasks' = IF rec.id THEN tasks \cup {rec.a} ELSE tasks

IsLaunchOnlyByInput(rec) == pending[rec.a] = "background"   \* mutant
IsLaunch(rec) == pending[rec.a] = "background" \/ rec.async

NoteToolResult(rec) ==
    CASE ~Pending(rec.a) -> Nothing
      [] pending[rec.a] = "monitor" -> Arm(rec) /\ UNCHANGED <<pending, told>>
      [] pending[rec.a] \in {"agent", "background"} /\ IsLaunch(rec) ->
            /\ pending' = [pending EXCEPT ![rec.a] = "background"]
            /\ Arm(rec) /\ UNCHANGED told
      [] OTHER -> Forget(rec.a) /\ Tell(rec.a, "done") /\ UNCHANGED tasks

NoteUserTextKeeps(rec) ==   \* mutant: a completion is reported as progress
    IF Pending(rec.a) /\ rec.a \in tasks
    THEN Tell(rec.a, "progress") /\ UNCHANGED <<pending, tasks>>
    ELSE Nothing
NoteUserText(rec) ==
    CASE ~Pending(rec.a) \/ rec.a \notin tasks -> Nothing
      [] Pending(rec.a) /\ rec.a \in tasks /\ ~rec.final ->
            Tell(rec.a, "progress") /\ UNCHANGED <<pending, tasks>>
      [] OTHER ->
            Forget(rec.a) /\ tasks' = tasks \ {rec.a} /\ Tell(rec.a, "done")

(* The host names a finished agent to reconcile_terminal_tool_uses. *)
ReconcileKeepsTask(a) ==   \* mutant: its task id stays known
    /\ "reconcile" \in HostEnv /\ agent[a] = "ended" /\ Pending(a)
    /\ Forget(a) /\ UNCHANGED tasks /\ Tell(a, "done")
    /\ UNCHANGED <<vars, world, session, unheard>>
Reconcile(a) ==
    /\ "reconcile" \in HostEnv /\ agent[a] = "ended" /\ Pending(a)
    /\ Forget(a) /\ tasks' = tasks \ {a} /\ Tell(a, "done")
    /\ UNCHANGED <<vars, world, session, unheard>>
--------------------------------------------------------------------------------
(* JsonlReader.normalize on the next record of a consumer. *)

Includes(r) == r = Watch \/ fg = "waiting"   \* include_user_text

FgAfter(rec) ==
    CASE rec.k = "echo" /\ fg = "waiting" -> "started"
      [] rec.k = "end"  /\ fg = "started" -> "ending"
      [] OTHER -> fg

Overtakes(a, n) == \E r \in Consumers, m \in About(a) : m < n /\ m \in todo[r]

Normalize(r) ==
    \E n \in todo[r] :
        LET rec == content[n] IN
        /\ \A m \in todo[r] : n <= m
        /\ todo' = [todo EXCEPT ![r] = @ \ {n}]
        /\ fg' = IF r = Send THEN FgAfter(rec) ELSE fg
        /\ CASE rec.k = "use"    -> NoteToolUse(rec)
             [] rec.k = "result" -> NoteToolResult(rec)
             [] rec.k = "notice" /\ Includes(r) -> NoteUserText(rec)
             [] OTHER -> Nothing
        /\ unheard' = unheard \cup {a \in Agents : n \in About(a) /\
             (Overtakes(a, n) \/ (rec.k = "notice" /\ ~Includes(r)))}
        /\ UNCHANGED <<vars, world, watching>>
--------------------------------------------------------------------------------
(* send_prompt *)

SendBegins ==
    /\ fg = "off" /\ todo[Send] = {} /\ claude = "none"
    /\ fg' = "waiting" /\ claude' = "asked"
    /\ UNCHANGED <<vars, content, agent, watching, todo, tracker, unheard>>

SendEnds ==
    /\ fg = "ending" /\ todo[Send] = {} /\ fg' = "off"
    /\ UNCHANGED <<vars, world, watching, todo, tracker, unheard>>

SendCloses ==   \* closed at a yield: the rest of the batch is dropped
    /\ "close" \in HostEnv /\ fg # "off"
    /\ fg' = "off" /\ todo' = [todo EXCEPT ![Send] = {}]
    /\ unheard' = unheard \cup {a \in Agents : About(a) \cap todo[Send] # {}}
    /\ UNCHANGED <<vars, world, watching, tracker>>
--------------------------------------------------------------------------------
Claude == BeginTurn \/ \E a \in Agents : Launch(a) \/ Answer(a) \/ Notify(a)
Host == SendBegins \/ SendCloses \/ \E a \in Agents : Reconcile(a)

TrackNext ==
    \/ Claude \/ Host \/ SendEnds \/ WatcherCalls
    \/ \E r \in Consumers : HandTo(r) \/ ReadFails(r) \/ Normalize(r)
TrackSpec == TrackInit /\ [][TrackNext]_trackVars

(* Coroutines that can run do, and a consumer that polls again and again gets
   the whole journal (JsonlReader!CatchesUp).  Claude Code and the host do what
   they like. *)
TrackFairSpec ==
    /\ TrackSpec
    /\ WF_trackVars(SendEnds) /\ WF_trackVars(WatcherCalls)
    /\ \A r \in Consumers : WF_trackVars(Normalize(r))
    /\ SF_trackVars(\E r \in Consumers : HandTo(r) /\ handed' = journal)
--------------------------------------------------------------------------------
TrackerTypeOK ==
    /\ journal = Len(content) /\ handed <= journal /\ watching \in BOOLEAN
    /\ fg \in {"off", "waiting", "started", "ending"}
    /\ claude \in {"none", "asked", "ours"}
    /\ agent \in [Agents -> Launches \cup {"none", "running", "ended"}]
    /\ \A r \in Consumers : todo[r] \subseteq DOMAIN content
    /\ pending \in [Agents -> Launches \cup {"no"}]
    /\ tasks \subseteq {a \in Agents : Pending(a)} /\ unheard \subseteq Agents
    /\ told \in [Agents -> {"nothing", "spawn", "progress", "done"}]

(* An agent that was launched and still works is pending, so that its Session is
   neither reaped nor evicted: "the main JSONL is silent, but a sub-agent is
   still working and will wake it" (session.py:172). *)
RunningIsProtected ==
    \A a \in Agents : told[a] # "nothing" /\ agent[a] # "ended" => Pending(a)

(* Why a finished agent may stay pending: its end is in the queue journal only,
   its last word is a notification that reads as progress, its task id was not
   in the answer, its launch failed, a record was dropped or normalized by a
   consumer that had overtaken another or that does not pass notifications on. *)
LastWord(a) == content[CHOOSE n \in About(a) : \A m \in About(a) : m <= n]
Excused(a) ==
    \/ cut \/ a \in unheard
    \/ Silent(a) \in Said(a) \/ LastWord(a) = Notice(a, FALSE)
    \/ Result(a, TRUE, FALSE) \in Said(a)
    \/ Result(a, FALSE, FALSE) \in Said(a) /\ Use(a, "agent") \notin Said(a)

(* A finished agent stops holding its Session, or one of those is the reason. *)
EndedIsReleased ==
    \A a \in Agents : agent[a] = "ended" ~> ~Pending(a) \/ Excused(a)
================================================================================
