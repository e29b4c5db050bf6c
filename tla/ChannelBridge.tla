----------------------------- MODULE ChannelBridge -----------------------------
(***************************************************************************)
(* BridgeHub (bridge.py) in the host, and one channel_server.py beside     *)
(* each Claude Code process: prompts are injected through HTTP ports, and  *)
(* permission requests are relayed to the host and back.                   *)
(*                                                                         *)
(* A Session has one port for all its processes.  It is picked while it is *)
(* free and bound much later, by a server that may outlive the process     *)
(* that started it.  A server learns its port and its session from the     *)
(* .mcp.json of the working directory, which all Sessions here share:      *)
(* pty_process.py writes it before each spawn.                             *)
(***************************************************************************)
EXTENDS Naturals, FiniteSets

CONSTANTS
    Sessions,      \* Session objects, each with a session id of its own
    Users,         \* bound: those that prompt, ask, crash and may be forced to
                   \* the terminal; the others only start and stop
    Ports,         \* ports that the operating system may hand out
    Requests,      \* permission requests of Claude Code
    None,
    MaxRestarts,   \* config.max_restart_attempts
    MaxPrompts,    \* bound: prompts per Session
    MaxLosses,     \* bound: injections of one prompt whose answer is lost or late
    MaxDecisions,  \* bound: calls of resolve_permission per request
    Env            \* what may go wrong, see Events

Events == {"die",        \* a process dies by itself
           "orphan",     \* a process that ends leaves its server behind
           "lose",       \* the answer to an injection is lost, or comes after 5 s
           "busy",       \* the hub does not serve a request within 5 s
           "slow"}       \* Claude Code reads .mcp.json after more than 0.5 s

ASSUME BridgeAssumption ==
    /\ None \notin Sessions \cup Ports \cup Requests \cup {"allow", "deny"}
    /\ Users \subseteq Sessions
    /\ {MaxRestarts, MaxPrompts, MaxLosses, MaxDecisions} \subseteq Nat
    /\ Env \subseteq Events

VARIABLES
    life,      \* what the Session's methods have made of it
    proc,      \* its process: "spawned", "dialog" on the screen, "chat", "ready"
               \* once its server has started, "dead", "wedged": dead with a dialog
    cwdLock,   \* PTYProcess._cwd_spawn_locks of the directory: who holds it
    mcp,       \* the Session that .mcp.json names
    named,     \* the Session that it named when the process read it
    restarts,  \* Session._restart_count
    port,      \* Session._channel_inject_port
    server,    \* who listens on each port
    reg,       \* BridgeHub._session_ports
    delivery,  \* _deliver_prompt of each Session
    force,     \* Session._force_stdin_next
    unavail,   \* Session._channel_inject_unavailable
    req,       \* permission requests, with the thread that relays each
    post,      \* resolve_permission of the host: the decision on its way
    topic      \* bound: a behaviour delivers prompts or relays requests; the
               \* two read the rest of the state and change none of it

sessions == <<life, restarts, port>>
config   == <<cwdLock, mcp, named>>
process  == <<proc, server, config>>
choice   == <<force, unavail>>
relay    == <<req, post, topic>>
vars == <<sessions, process, reg, delivery, choice, relay>>

Behaviors == {"allow", "deny"}
NoServer  == [of |-> None, by |-> None, orphan |-> FALSE]  \* --session-id, process
Alive(s)  == proc[s] \in {"spawned", "dialog", "chat", "ready"}
NoDelivery == [pc |-> "idle", n |-> 0, aim |-> None, copies |-> 0, lost |-> 0,
               late |-> 0, tried |-> FALSE, blind |-> FALSE, leaked |-> FALSE]
NoRequest  == [pc |-> "none", by |-> None, of |-> None, told |-> FALSE,
               result |-> None, heard |-> None, said |-> {}, n |-> 0,
               excuse |-> "none"]
NoPost == [b |-> None, port |-> None]

Init ==
    /\ life = [s \in Sessions |-> "new"] /\ restarts = [s \in Sessions |-> 0]
    /\ proc = [s \in Sessions |-> "none"] /\ port = [s \in Sessions |-> None]
    /\ cwdLock = None /\ mcp = None /\ named = [s \in Sessions |-> None]
    /\ server = [p \in Ports |-> NoServer] /\ reg = [s \in Sessions |-> None]
    /\ delivery = [s \in Sessions |-> NoDelivery]
    /\ force \in {f \in [Sessions -> BOOLEAN] : \A s \in Sessions : f[s] => s \in Users}
    /\ unavail = [s \in Sessions |-> FALSE]
    /\ req = [q \in Requests |-> NoRequest] /\ post = [q \in Requests |-> NoPost]
    /\ topic \in {"prompts", "requests"}
--------------------------------------------------------------------------------
(* The life of a Session and its processes. *)

Create(s) ==   \* SessionPool picks a port that nobody listens on now
    /\ life[s] = "new"
    /\ \E p \in Ports : server[p] = NoServer /\ port' = [port EXCEPT ![s] = p]
    /\ life' = [life EXCEPT ![s] = "created"]
    /\ UNCHANGED <<restarts, process, reg, delivery, choice, relay>>

MaySpawn(s) ==   \* start, or _auto_resume and start
    \/ life[s] = "created" /\ UNCHANGED restarts
    \/ /\ life[s] = "up" /\ ~Alive(s) /\ restarts[s] < MaxRestarts
       /\ delivery[s].pc \in {"idle", "over"}
       /\ restarts' = [restarts EXCEPT ![s] = @ + 1]

WritesConfig(s) == mcp' = s   \* its port and its id, _setup_mcp_config

(* Under the lock of the directory .mcp.json is written and the process begun. *)
SpawnUnlocked(s) ==   \* mutant
    /\ MaySpawn(s)
    /\ cwdLock' = s /\ WritesConfig(s)
    /\ proc' = [proc EXCEPT ![s] = "spawned"]
    /\ life' = [life EXCEPT ![s] = "starting"]
    /\ UNCHANGED <<port, server, named, reg, delivery, choice, relay>>
Spawn(s) ==
    /\ cwdLock = None /\ MaySpawn(s)
    /\ cwdLock' = s /\ WritesConfig(s)
    /\ proc' = [proc EXCEPT ![s] = "spawned"]
    /\ life' = [life EXCEPT ![s] = "starting"]
    /\ UNCHANGED <<port, server, named, reg, delivery, choice, relay>>

ReadsConfig(s) ==
    /\ proc[s] = "spawned" /\ proc' = [proc EXCEPT ![s] = "dialog"]
    /\ named' = [named EXCEPT ![s] = mcp]
    /\ UNCHANGED <<sessions, server, cwdLock, mcp, reg, delivery, choice, relay>>

Spawned(s) ==   \* after 0.5 s
    /\ cwdLock = s /\ cwdLock' = None
    /\ "slow" \notin Env => proc[s] # "spawned"
    /\ UNCHANGED <<sessions, proc, server, mcp, named, reg, delivery, choice, relay>>

DialogCloses(s) ==   \* confirmed by the drain loop
    /\ proc[s] = "dialog" /\ proc' = [proc EXCEPT ![s] = "chat"]
    /\ UNCHANGED <<sessions, server, config, reg, delivery, choice, relay>>

(* _run_inject_server, once: where the port is taken the process has none. *)
ServerStarts(s) ==
    LET of == named[s] IN
    /\ proc[s] = "chat" /\ proc' = [proc EXCEPT ![s] = "ready"]
    /\ server' = IF server[port[of]] # NoServer THEN server
                 ELSE [server EXCEPT ![port[of]] =
                         [of |-> of, by |-> s, orphan |-> FALSE]]
    /\ UNCHANGED <<sessions, config, reg, delivery, choice, relay>>

Started(s) ==
    /\ life[s] = "starting" /\ cwdLock # s
    /\ life' = [life EXCEPT ![s] = "up"]
    /\ reg' = [reg EXCEPT ![s] = port[s]]
    /\ UNCHANGED <<restarts, port, process, delivery, choice, relay>>

StartFails(s) ==   \* a resumed process died while it settled
    /\ life[s] = "starting" /\ cwdLock # s /\ ~Alive(s) /\ restarts[s] > 0
    /\ life' = [life EXCEPT ![s] = "up"]
    /\ UNCHANGED <<restarts, port, process, reg, delivery, choice, relay>>

(* With the process go its server, or not, what that had still to take, and the
   requests it waits for. *)
Dies(s, orphaned) ==
    /\ proc' = [proc EXCEPT ![s] = IF @ \in {"dialog", "wedged"} THEN "wedged" ELSE "dead"]
    /\ server' = [p \in Ports |->
         IF server[p].by # s \/ server[p].orphan THEN server[p]
         ELSE IF orphaned THEN [server[p] EXCEPT !.orphan = TRUE] ELSE NoServer]
    /\ req' = [q \in Requests |->
         IF req[q].by = s /\ req[q].pc # "answered"
         THEN [req[q] EXCEPT !.pc = "void"] ELSE req[q]]
    /\ delivery' = [x \in Sessions |->
         IF delivery[x].late > 0 /\ server[port[x]].by = s
         THEN [delivery[x] EXCEPT !.late = 0] ELSE delivery[x]]
    /\ UNCHANGED <<config, post, topic>>

Die(s) ==
    /\ s \in Users /\ Alive(s) /\ "die" \in Env
    /\ \E orphaned \in {FALSE, "orphan" \in Env} : Dies(s, orphaned)
    /\ UNCHANGED <<sessions, reg, choice>>

StopBeginsRegistered(s) ==   \* mutant: the port stays registered
    /\ life[s] = "up"
    /\ life' = [life EXCEPT ![s] = "stopping"]
    /\ UNCHANGED <<restarts, port, process, reg, delivery, choice, relay>>
StopBegins(s) ==   \* unregister_session
    /\ life[s] = "up"
    /\ life' = [life EXCEPT ![s] = "stopping"]
    /\ reg' = [reg EXCEPT ![s] = None]
    /\ UNCHANGED <<restarts, port, process, delivery, choice, relay>>

StopEnds(s) ==
    /\ life[s] = "stopping"
    /\ life' = [life EXCEPT ![s] = "stopped"]
    /\ \E orphaned \in {FALSE, "orphan" \in Env} : Dies(s, orphaned)
    /\ UNCHANGED <<restarts, port, reg, choice>>
--------------------------------------------------------------------------------
(* _deliver_prompt: through the channel, or else through the PTY. *)

Goes(s, pc) == delivery' = [delivery EXCEPT ![s].pc = pc]
OnlyDelivers == UNCHANGED <<sessions, process, reg, relay>>

Deliver(s) ==   \* late copies of an earlier prompt are not followed further
    /\ topic = "prompts" /\ s \in Users /\ life[s] = "up" /\ Alive(s)
    /\ delivery[s].pc \in {"idle", "over"} /\ delivery[s].n < MaxPrompts
    /\ delivery' = [delivery EXCEPT ![s] =
         [NoDelivery EXCEPT !.n = delivery[s].n + 1,
            !.pc = IF force[s] \/ unavail[s] THEN "stdin" ELSE "try"]]
    /\ force' = [force EXCEPT ![s] = FALSE]
    /\ UNCHANGED unavail /\ OnlyDelivers

LookUp(s) ==   \* BridgeHub.inject
    /\ delivery[s].pc = "try"
    /\ delivery' = [delivery EXCEPT ![s].pc = "post", ![s].aim = reg[s],
                                    ![s].tried = TRUE]
    /\ UNCHANGED choice /\ OnlyDelivers

AcceptsAnyone(s, srv) == srv.by # None /\ ~srv.orphan   \* mutant
Accepts(s, srv) ==   \* a server refuses what is meant for another session,
    srv.of = s /\ ~srv.orphan   \* an orphan cannot write

(* A server that hangs takes the injection later, if it lives so long; the host
   hears nothing of it and tries again. *)
Inject(s) ==
    LET to == IF delivery[s].aim = None THEN NoServer ELSE server[delivery[s].aim]
    IN /\ delivery[s].pc = "post"
       /\ \/ /\ Accepts(s, to)
             /\ delivery' = [delivery EXCEPT ![s].pc = "channel",
                  ![s].copies = @ + 1, ![s].leaked = @ \/ to.by # s]
          \/ /\ "lose" \in Env /\ Accepts(s, to) /\ delivery[s].lost < MaxLosses
             /\ delivery' = [delivery EXCEPT ![s].pc = "wait",
                  ![s].lost = @ + 1, ![s].late = @ + 1]
          \/ ~Accepts(s, to) /\ Goes(s, "wait")
       /\ UNCHANGED choice /\ OnlyDelivers

TakesLate(s) ==
    LET to == server[port[s]]
    IN /\ delivery[s].late > 0
       /\ delivery' = [delivery EXCEPT ![s].late = @ - 1,
            ![s].copies = @ + 1, ![s].leaked = @ \/ to.by # s]
       /\ UNCHANGED choice /\ OnlyDelivers

Retry(s) ==
    /\ delivery[s].pc = "wait" /\ Goes(s, "try")
    /\ UNCHANGED choice /\ OnlyDelivers

(* inject_connect_timeout has passed *)
FallBackUnseen(s) ==   \* mutant: the screen is not looked at
    /\ delivery[s].pc = "wait" /\ Goes(s, "stdin")
    /\ unavail' = [unavail EXCEPT ![s] = TRUE]
    /\ UNCHANGED force /\ OnlyDelivers
FallBack(s) ==
    /\ delivery[s].pc = "wait"
    /\ IF proc[s] \in {"dialog", "wedged"}
       THEN Goes(s, "refused") /\ UNCHANGED unavail
       ELSE Goes(s, "stdin") /\ unavail' = [unavail EXCEPT ![s] = TRUE]
    /\ UNCHANGED force /\ OnlyDelivers

Paste(s) ==   \* PTYProcess.send_prompt, which raises where the process is dead
    /\ delivery[s].pc = "stdin"
    /\ delivery' = [delivery EXCEPT ![s].pc = IF Alive(s) THEN "pasted" ELSE "raised",
         ![s].copies = IF Alive(s) THEN @ + 1 ELSE @,
         ![s].blind  = proc[s] = "dialog"]
    /\ UNCHANGED choice /\ OnlyDelivers

Outcomes == {"channel", "pasted", "refused", "raised"}
TurnOver(s) ==   \* the send_prompt ends
    /\ delivery[s].pc \in Outcomes /\ Goes(s, "over")
    /\ UNCHANGED choice /\ OnlyDelivers
--------------------------------------------------------------------------------
(* A permission request: its thread in the channel server, the hub's thread,
   and the host. *)

OnlyRelays == UNCHANGED <<sessions, process, reg, delivery, choice, topic>>
With(q, r) == req' = [req EXCEPT ![q] = r] /\ OnlyRelays

Ask(q, s) ==
    /\ topic = "requests" /\ s \in Users /\ req[q].pc = "none" /\ proc[s] = "ready"
    /\ With(q, [NoRequest EXCEPT !.pc = "posting", !.by = s, !.of = named[s]])
    /\ UNCHANGED post

Tell(q) ==   \* the hub calls the host's handler
    /\ req[q].pc \in {"posting", "answered", "void"} /\ ~req[q].told
    /\ req[q].by # None
    /\ With(q, [req[q] EXCEPT !.told = TRUE]) /\ UNCHANGED post

Unforwarded(q) ==   \* the POST fails: allowed as without a hub
    /\ "busy" \in Env /\ req[q].pc = "posting"
    /\ With(q, [req[q] EXCEPT !.pc = "answered", !.heard = "allow",
                              !.excuse = "unforwarded"])
    /\ UNCHANGED post

Registers(q) ==   \* the POST has returned: from now on an answer is expected
    /\ req[q].pc = "posting" /\ req[q].told
    /\ With(q, [req[q] EXCEPT !.pc = "waiting"]) /\ UNCHANGED post

(* The host calls resolve_permission: inside its handler or later, again, or
   not at all. *)
Decide(q, b) ==
    /\ req[q].told /\ req[q].n < MaxDecisions /\ post[q] = NoPost
    /\ post' = [post EXCEPT ![q] = [b |-> b, port |-> reg[req[q].of]]]
    /\ With(q, [req[q] EXCEPT !.n = @ + 1])

(* Only the server that has the request pending takes the decision; what an
   orphan still has pending is void. *)
Arrives(q) ==
    LET to == IF post[q].port = None THEN NoServer ELSE server[post[q].port]
    IN /\ post[q] # NoPost /\ post' = [post EXCEPT ![q] = NoPost]
       /\ IF to.by = req[q].by /\ ~to.orphan /\ req[q].pc \in {"waiting", "expired"}
          THEN With(q, [req[q] EXCEPT !.result = post[q].b,
                                      !.said = @ \cup {post[q].b}])
          ELSE With(q, req[q])

Wakes(q) ==
    /\ req[q].pc = "waiting" /\ req[q].result # None
    /\ With(q, [req[q] EXCEPT !.pc = "answered", !.heard = req[q].result])
    /\ UNCHANGED post

ExpireNever(q) == FALSE /\ req[q].pc = "waiting"   \* mutant: no timeout
Expire(q) ==   \* after 120 s
    /\ req[q].pc = "waiting" /\ req[q].result = None
    /\ With(q, [req[q] EXCEPT !.pc = "expired", !.excuse = "expired"])
    /\ UNCHANGED post

GiveUpAllowing(q) ==   \* mutant: an unanswered request is allowed
    /\ req[q].pc = "expired"
    /\ With(q, [req[q] EXCEPT !.pc = "answered", !.heard = "allow"])
    /\ UNCHANGED post
GiveUp(q) ==   \* also where a decision came after the wait had ended
    /\ req[q].pc = "expired"
    /\ With(q, [req[q] EXCEPT !.pc = "answered", !.heard = "deny"])
    /\ UNCHANGED post
--------------------------------------------------------------------------------
Living(s) ==
    \/ Create(s) \/ Spawn(s) \/ ReadsConfig(s) \/ Spawned(s)
    \/ DialogCloses(s) \/ ServerStarts(s) \/ Started(s) \/ StartFails(s)
    \/ Die(s) \/ StopBegins(s) \/ StopEnds(s)
Delivering(s) ==
    LookUp(s) \/ Inject(s) \/ Retry(s) \/ FallBack(s) \/ Paste(s)
Relaying(q) ==
    Unforwarded(q) \/ Registers(q) \/ Wakes(q) \/ Expire(q) \/ GiveUp(q)

Next ==
    \/ \E s \in Sessions : Living(s) \/ Deliver(s) \/ Delivering(s) \/ TakesLate(s) \/ TurnOver(s)
    \/ \E q \in Requests, s \in Sessions : Ask(q, s)
    \/ \E q \in Requests : Tell(q) \/ Relaying(q) \/ Arrives(q)
    \/ \E q \in Requests, b \in Behaviors : Decide(q, b)
Spec == Init /\ [][Next]_vars

(* Threads run, the hub serves, and timeouts pass. *)
FairSpec ==
    /\ Spec
    /\ \A s \in Sessions : WF_vars(Delivering(s)) /\ SF_vars(FallBack(s))
    /\ \A q \in Requests : WF_vars(Tell(q)) /\ WF_vars(Relaying(q))
--------------------------------------------------------------------------------
BridgeTypeOK ==
    /\ life \in [Sessions -> {"new", "created", "starting", "up", "stopping", "stopped"}]
    /\ proc \in [Sessions -> {"none", "spawned", "dialog", "chat", "ready", "dead", "wedged"}]
    /\ restarts \in [Sessions -> 0 .. MaxRestarts]
    /\ port \in [Sessions -> Ports \cup {None}]
    /\ cwdLock \in Sessions \cup {None} /\ mcp \in Sessions \cup {None}
    /\ named \in [Sessions -> Sessions \cup {None}]
    /\ \A p \in Ports : server[p] # NoServer => port[server[p].of] = p
    /\ \A s \in Sessions : reg[s] \in {None, port[s]} /\
         (life[s] \in {"stopping", "stopped"} => reg[s] = None)
    /\ \A s \in Sessions : delivery[s].n <= MaxPrompts /\ delivery[s].lost <= MaxLosses
    /\ \A q \in Requests : req[q].said \subseteq Behaviors

(* A prompt never gets into the conversation of another Session, although two
   may have the same port, or a dead one's port may have been given away
   ("a colliding or reused inject port must not leak messages into this
   conversation", channel_server.py:252), and all write the same .mcp.json
   before a spawn ("so a concurrent session on the same cwd doesn't overwrite
   between our write and CC's read", pty_process.py:205). *)
NoCrossTalk == \A s \in Sessions : ~delivery[s].leaked

(* What _deliver_prompt reports is what happened.  Where it returns, Claude Code has
   got the prompt, and no more often than once and once for each injection that was
   not answered; where it raises, only by those; and where it refuses, not at all,
   nor later ("prompt was NOT delivered (safe to retry ...)", session.py:777).  A
   prompt for which the channel was tried is never typed into a startup dialog. *)
ReportedAsDelivered ==
    \A s \in Sessions : LET d == delivery[s] IN
        /\ d.pc \in {"channel", "pasted"} => d.copies \in 1 .. d.lost + 1
        /\ d.pc = "raised"  => d.copies <= d.lost
        /\ d.pc = "refused" => d.copies + d.late = 0
        /\ d.tried => ~d.blind

(* Claude Code is only allowed what the host has allowed, or what could not be
   forwarded to it, and denied what the host has denied, or what was not
   decided in time; a decision that was refused has no effect. *)
HeardAsDecided ==
    \A q \in Requests : LET r == req[q] IN
        /\ r.heard = "allow" => "allow" \in r.said \/ r.excuse = "unforwarded"
        /\ r.heard = "deny"  => "deny" \in r.said \/ r.excuse = "expired"

(* Every request is answered, whatever the host does or fails to do, and every
   delivery comes to an end, whoever listens on the port. *)
AnswersAndDelivers ==
    /\ \A q \in Requests : req[q].pc = "posting" ~> req[q].pc \in {"answered", "void"}
    /\ \A s \in Sessions : delivery[s].pc = "try" ~> delivery[s].pc \in Outcomes
================================================================================
