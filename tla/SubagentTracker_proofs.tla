------------------------- MODULE SubagentTracker_proofs ------------------------
(***************************************************************************)
(* What is proved of SubagentTracker, for any number of sub-agents and     *)
(* records.  An agent stays pending as long as it works because the record *)
(* that makes the tracker forget it is written when it has ended; and that *)
(* is so because the tracker knows it as what it was launched as, or as an *)
(* agent in the background since: no launch is normalized twice (LaunchInv)*)
(* and each comes first in the journal (JournalInv), whichever consumer    *)
(* overtakes the other.                                                    *)
(***************************************************************************)
EXTENDS SubagentTracker, TLAPS

Records ==
    [k : {"echo", "end"}] \cup [k : {"use"}, a : Agents, how : Launches]
    \cup [k : {"result"}, a : Agents, async : BOOLEAN, id : BOOLEAN]
    \cup [k : {"notice"}, a : Agents, final : BOOLEAN] \cup [k : {"queue"}, a : Agents]
Tells(rec, a) == rec.k \in {"use", "result", "notice", "queue"} /\ rec.a = a
IsUse(rec, a) == rec.k = "use" /\ rec.a = a

TypeInv ==
    /\ content \in Seq(Records) /\ journal = Len(content)
    /\ handed \in 0 .. journal /\ watching \in BOOLEAN
    /\ fg \in {"off", "waiting", "started", "ending"}
    /\ claude \in {"none", "asked", "ours"}
    /\ agent \in [Agents -> Launches \cup {"none", "running", "ended"}]
    /\ todo \in [Consumers -> SUBSET (1 .. handed)]
    /\ pending \in [Agents -> Launches \cup {"no"}]
    /\ tasks \subseteq Agents /\ unheard \subseteq Agents
    /\ told \in [Agents -> {"nothing", "spawn", "progress", "done"}]

(* What the journal says of an agent: it was launched once, before anything else
   was said of it, as the kind that it is until it answers; an agent that was
   called in the foreground has ended with a result that is no launch, and every
   agent with its last notification. *)
JournalInv ==
    \A n \in 1 .. Len(content), a \in Agents :
        /\ Tells(content[n], a) => agent[a] # "none"
        /\ IsUse(content[n], a) =>
             /\ agent[a] \in Launches => agent[a] = content[n].how
             /\ \A m \in 1 .. Len(content) : IsUse(content[m], a) => m = n
             /\ content[n].how = "agent" =>
                  \A m \in 1 .. Len(content) :
                      Tells(content[m], a) /\ content[m].k = "result" /\ ~content[m].async
                        => agent[a] = "ended"
        /\ Tells(content[n], a) /\ content[n].k = "notice" /\ content[n].final
             => agent[a] = "ended"

(* A launch that the tracker knows of is not normalized again. *)
Seen(n, a, how) ==
    /\ IsUse(content[n], a) /\ n \notin todo[Send] /\ n \notin todo[Watch]
    /\ how = "agent" => content[n].how = "agent"
LaunchInv ==
    /\ todo[Send] \cap todo[Watch] = {}
    /\ \A a \in Agents : pending[a] # "no" \/ told[a] # "nothing" =>
         \E n \in 1 .. handed : Seen(n, a, pending[a])

(* A task id is known of agents that run in the background only. *)
TaskInv == \A a \in tasks : pending[a] \in {"background", "monitor"}

Inv == TypeInv /\ JournalInv /\ LaunchInv /\ TaskInv /\ RunningIsProtected
--------------------------------------------------------------------------------
(* Records *)
LEMMA RecordKinds ==
  ASSUME NEW rec \in Records
  PROVE  /\ rec.k = "use"    => rec.a \in Agents /\ rec.how \in Launches
         /\ rec.k = "result" => rec.a \in Agents /\ rec.async \in BOOLEAN /\ rec.id \in BOOLEAN
         /\ rec.k = "notice" => rec.a \in Agents /\ rec.final \in BOOLEAN
         /\ rec.k \in {"echo", "end", "use", "result", "notice", "queue"}
BY DEF Records

LEMMA Read ==
  ASSUME TypeInv
  PROVE  /\ Len(content) \in Nat /\ handed \in Nat /\ handed <= Len(content)
         /\ \A n \in 1 .. Len(content) : content[n] \in Records
         /\ \A n \in 1 .. handed : n \in 1 .. Len(content)
         /\ todo[Send] \subseteq 1 .. handed /\ todo[Watch] \subseteq 1 .. handed
         /\ \A r \in Consumers : r = Send \/ r = Watch
BY DEF TypeInv, Consumers

LEMMA Appended ==
  ASSUME TypeInv, NEW rec \in Records, content' = Append(content, rec)
  PROVE  /\ content' \in Seq(Records) /\ Len(content') = Len(content) + 1
         /\ \A n \in 1 .. Len(content) : content'[n] = content[n]
         /\ content'[Len(content')] = rec
         /\ \A n \in 1 .. Len(content') : n \in 1 .. Len(content) \/ n = Len(content')
<1>1. content \in Seq(Records) /\ Len(content) \in Nat
  BY DEF TypeInv
<1> QED BY <1>1
--------------------------------------------------------------------------------
(* Claude Code completes a record and may change what it says of an agent. *)
LEMMA BeginKeeps ==
  ASSUME Inv, NEW rec \in Records, Begin(rec),
         claude' \in {"none", "asked", "ours"},
         agent' \in [Agents -> Launches \cup {"none", "running", "ended"}],
         \A b \in Agents :
            /\ agent[b] # "none" => agent'[b] # "none"
            /\ agent[b] = "ended" => agent'[b] = "ended"
            /\ agent'[b] \in Launches => agent'[b] = agent[b] \/ IsUse(rec, b)
            /\ Tells(rec, b) => agent'[b] # "none"
            /\ IsUse(rec, b) => agent[b] = "none" /\ agent'[b] = rec.how
            /\ Tells(rec, b) /\ rec.k = "result" /\ ~rec.async =>
                 agent'[b] = "ended" \/ agent[b] \in {"background", "monitor"}
            /\ Tells(rec, b) /\ rec.k = "notice" /\ rec.final => agent'[b] = "ended"
  PROVE  Inv'
<1>1. /\ content' = Append(content, rec) /\ journal' = journal + 1
      /\ UNCHANGED <<handed, fg, watching, todo, pending, tasks, told, unheard>>
  BY DEF Begin, Complete, session, tracker
<1>2. TypeInv
  BY DEF Inv
<1>3. /\ content' \in Seq(Records) /\ Len(content') = Len(content) + 1
      /\ \A n \in 1 .. Len(content) : content'[n] = content[n]
      /\ content'[Len(content')] = rec
      /\ \A n \in 1 .. Len(content') : n \in 1 .. Len(content) \/ n = Len(content')
  BY <1>1, <1>2, Appended
<1>4. TypeInv'
  BY <1>1, <1>2, <1>3 DEF TypeInv
<1>5. JournalInv'
  <2> SUFFICES ASSUME NEW n \in 1 .. Len(content'), NEW a \in Agents
               PROVE  /\ Tells(content'[n], a) => agent'[a] # "none"
                      /\ IsUse(content'[n], a) =>
                           /\ agent'[a] \in Launches => agent'[a] = content'[n].how
                           /\ \A m \in 1 .. Len(content') : IsUse(content'[m], a) => m = n
                           /\ content'[n].how = "agent" =>
                                \A m \in 1 .. Len(content') :
                                    Tells(content'[m], a) /\ content'[m].k = "result" /\ ~content'[m].async
                                      => agent'[a] = "ended"
                      /\ Tells(content'[n], a) /\ content'[n].k = "notice" /\ content'[n].final
                           => agent'[a] = "ended"
    BY DEF JournalInv, Tells, IsUse
  <2>1. JournalInv
    BY DEF Inv
  <2>2. Tells(content'[n], a) => agent'[a] # "none"
    BY <1>3, <2>1 DEF JournalInv
  <2>3. Tells(content'[n], a) /\ content'[n].k = "notice" /\ content'[n].final => agent'[a] = "ended"
    BY <1>3, <2>1 DEF JournalInv
  <2>4. ASSUME NEW m \in 1 .. Len(content), IsUse(content[m], a) PROVE agent[a] # "none" /\ ~IsUse(rec, a)
    BY <2>1, <2>4 DEF JournalInv, IsUse, Tells
  <2>5. ASSUME IsUse(content'[n], a), NEW m \in 1 .. Len(content'), IsUse(content'[m], a) PROVE m = n
    BY <1>3, <2>1, <2>4, <2>5 DEF JournalInv
  <2>6. ASSUME IsUse(content'[n], a), agent'[a] \in Launches PROVE agent'[a] = content'[n].how
    <3>1. CASE n \in 1 .. Len(content)
      BY <1>3, <2>1, <2>4, <2>6, <3>1 DEF JournalInv
    <3>2. CASE n = Len(content')
      BY <1>3, <2>6, <3>2
    <3> QED BY <1>3, <3>1, <3>2
  <2>7. ASSUME IsUse(content'[n], a), content'[n].how = "agent", NEW m \in 1 .. Len(content'),
               Tells(content'[m], a), content'[m].k = "result", ~content'[m].async
        PROVE  agent'[a] = "ended"
    <3>1. CASE m \in 1 .. Len(content)
      <4>1. agent[a] # "none"
        BY <1>3, <2>1, <2>7, <3>1 DEF JournalInv
      <4>2. n \in 1 .. Len(content)
        BY <1>3, <2>7, <4>1
      <4> QED BY <1>3, <2>1, <2>7, <3>1, <4>2 DEF JournalInv
    <3>2. CASE m = Len(content')
      <4>1. n # m
        BY <2>7 DEF IsUse
      <4>2. n \in 1 .. Len(content)
        BY <1>3, <3>2, <4>1
      <4>3. agent[a] \in Launches => agent[a] = "agent"
        BY <1>3, <2>1, <2>7, <4>2 DEF JournalInv
      <4> QED BY <1>3, <2>7, <3>2, <4>3 DEF Launches
    <3> QED BY <1>3, <3>1, <3>2
  <2> QED BY <2>2, <2>3, <2>5, <2>6, <2>7
<1>6. LaunchInv'
  BY <1>1, <1>2, <1>3, Read DEF Inv, LaunchInv, Seen
<1>7. TaskInv' /\ RunningIsProtected'
  BY <1>1 DEF Inv, TaskInv, RunningIsProtected, Pending
<1> QED BY <1>4, <1>5, <1>6, <1>7 DEF Inv

LEMMA ClaudeKeeps ==
  ASSUME Inv, Claude
  PROVE  Inv'
<1>1. agent \in [Agents -> Launches \cup {"none", "running", "ended"}]
      /\ claude \in {"none", "asked", "ours"}
  BY DEF Inv, TypeInv
<1> USE DEF Tells, IsUse
<1>2. CASE BeginTurn
  <2>1. PICK x \in {"echo", "end"} : Begin(Own(x)) /\ claude' \in {"none", "asked", "ours"} /\ UNCHANGED agent
    BY <1>2 DEF BeginTurn
  <2>2. Own(x) \in Records /\ Own(x).k = x
    BY DEF Own, Records
  <2> HIDE DEF Own
  <2> QED BY <1>1, <2>1, <2>2, BeginKeeps
<1>3. ASSUME NEW a \in Agents, Launch(a) PROVE Inv'
  <2>1. PICK how \in Launches : Begin(Use(a, how)) /\ Does(a, how) /\ agent[a] = "none"
    BY <1>3 DEF Launch
  <2>2. Use(a, how) \in Records /\ Use(a, how).k = "use" /\ Use(a, how).a = a /\ Use(a, how).how = how
    BY DEF Use, Records
  <2> HIDE DEF Use
  <2>3. how # "none"
    BY DEF Launches
  <2> QED BY <1>1, <2>1, <2>2, <2>3, BeginKeeps DEF Does
<1>4. ASSUME NEW a \in Agents, Answer(a) PROVE Inv'
  <2>1. PICK async \in BOOLEAN, id \in BOOLEAN, to \in {"running", "ended"} :
          /\ Begin(Result(a, async, id)) /\ Does(a, to) /\ agent[a] \in Launches
          /\ ~async => to = "ended" \/ agent[a] \in {"background", "monitor"}
    BY <1>4 DEF Answer, Launches
  <2>2. /\ Result(a, async, id) \in Records /\ Result(a, async, id).k = "result"
        /\ Result(a, async, id).a = a /\ Result(a, async, id).async = async
    BY DEF Result, Records
  <2> HIDE DEF Result
  <2> QED BY <1>1, <2>1, <2>2, BeginKeeps DEF Does, Launches
<1>5. ASSUME NEW a \in Agents, Notify(a) PROVE Inv'
  <2>1. CASE Begin(Silent(a)) /\ Does(a, "ended") /\ agent[a] = "running"
    <3>1. Silent(a) \in Records /\ Silent(a).k = "queue" /\ Silent(a).a = a
      BY DEF Silent, Records
    <3> HIDE DEF Silent
    <3> QED BY <1>1, <2>1, <3>1, BeginKeeps DEF Does, Launches
  <2>2. ASSUME NEW final \in BOOLEAN, NEW to \in {"running", "ended"}, final => to = "ended",
               Begin(Notice(a, final)), Does(a, to), agent[a] = "running"
        PROVE  Inv'
    <3>1. /\ Notice(a, final) \in Records /\ Notice(a, final).k = "notice"
          /\ Notice(a, final).a = a /\ Notice(a, final).final = final
      BY DEF Notice, Records
    <3> HIDE DEF Notice
    <3> QED BY <1>1, <2>2, <3>1, BeginKeeps DEF Does, Launches
  <2> QED BY <1>5, <2>1, <2>2 DEF Notify
<1> QED BY <1>2, <1>3, <1>4, <1>5 DEF Claude
--------------------------------------------------------------------------------
(* What the consumers do *)
LEMMA JournalKept ==
  ASSUME Inv, UNCHANGED <<content, agent>>
  PROVE  JournalInv'
BY DEF Inv, JournalInv, Tells, IsUse

(* A consumer is handed records that nobody had before. *)
LEMMA HandKeeps ==
  ASSUME Inv, NEW r \in Consumers, HandTo(r)
  PROVE  Inv'
<1>1. PICK n \in handed .. journal : handed' = n /\ batch' \in SUBSET ((handed + 1) .. n)
  BY DEF HandTo, HandOut
<1>2. /\ todo[r] = {} /\ todo' = [todo EXCEPT ![r] = batch'] /\ watching' = (watching /\ r # Watch)
      /\ UNCHANGED <<content, claude, agent, fg, pending, tasks, told, unheard, journal>>
  BY DEF HandTo, HandOut, world, tracker
<1>3. TypeInv
  BY DEF Inv
<1>4. /\ handed \in Nat /\ journal \in Nat /\ handed <= n /\ n <= journal /\ n \in Nat
      /\ batch' \subseteq 1 .. n /\ \A m \in batch' : m \notin 1 .. handed
      /\ \A m \in 1 .. handed : m \in 1 .. n
  BY <1>1, <1>3 DEF TypeInv
<1>5. TypeInv'
  <2>1. todo' \in [Consumers -> SUBSET (1 .. n)]
    BY <1>2, <1>3, <1>4 DEF TypeInv
  <2> QED BY <1>1, <1>2, <1>3, <1>4, <2>1 DEF TypeInv
<1>6. LaunchInv'
  <2>1. Send \in Consumers /\ Watch \in Consumers /\ Send # Watch
    BY TrackerAssumption DEF Consumers
  <2>2. /\ todo'[Send] = (IF r = Send THEN batch' ELSE todo[Send])
        /\ todo'[Watch] = (IF r = Watch THEN batch' ELSE todo[Watch])
        /\ todo[Send] \subseteq 1 .. handed /\ todo[Watch] \subseteq 1 .. handed
    BY <1>2, <1>3, <2>1 DEF TypeInv
  <2>3. todo'[Send] \cap todo'[Watch] = {}
    BY <1>4, <2>1, <2>2 DEF Inv, LaunchInv
  <2>4. ASSUME NEW a \in Agents, pending[a] # "no" \/ told[a] # "nothing"
        PROVE  \E m \in 1 .. n : Seen(m, a, pending[a])'
    <3>1. PICK m \in 1 .. handed : Seen(m, a, pending[a])
      BY <2>4 DEF Inv, LaunchInv
    <3> QED BY <1>2, <1>4, <2>2, <3>1 DEF Seen
  <2> QED BY <1>1, <1>2, <2>3, <2>4 DEF LaunchInv
<1>7. JournalInv' /\ TaskInv' /\ RunningIsProtected'
  BY <1>2, JournalKept DEF Inv, TaskInv, RunningIsProtected, Pending
<1> QED BY <1>5, <1>6, <1>7 DEF Inv

(* Steps that leave the tracker alone and at most forget records *)
LEMMA Idle ==
  ASSUME Inv, UNCHANGED <<content, agent, journal, handed, tracker>>,
         fg' \in {"off", "waiting", "started", "ending"}, claude' \in {"none", "asked", "ours"},
         watching' \in BOOLEAN, unheard' \subseteq Agents,
         todo' \in [Consumers -> SUBSET (1 .. handed)],
         \A r \in Consumers : todo'[r] \subseteq todo[r]
  PROVE  Inv'
<1>1. TypeInv'
  BY DEF Inv, TypeInv, tracker
<1>2. todo'[Send] \subseteq todo[Send] /\ todo'[Watch] \subseteq todo[Watch]
  BY DEF Consumers
<1>3. LaunchInv'
  BY <1>2 DEF Inv, LaunchInv, Seen, tracker
<1>4. JournalInv' /\ TaskInv' /\ RunningIsProtected'
  BY JournalKept DEF Inv, TaskInv, RunningIsProtected, Pending, tracker
<1> QED BY <1>1, <1>3, <1>4 DEF Inv

(* The tracker only forgets an agent that has ended, and knows no task of it. *)
LEMMA Tracked ==
  ASSUME Inv, UNCHANGED <<content, agent, journal, handed, claude>>,
         fg' \in {"off", "waiting", "started", "ending"},
         UNCHANGED watching, unheard' \subseteq Agents,
         todo' \in [Consumers -> SUBSET (1 .. handed)],
         \A r \in Consumers : todo'[r] \subseteq todo[r],
         NEW a \in Agents, NEW how \in Launches \cup {"no"},
         NEW what \in {"nothing", "spawn", "progress", "done"},
         pending' = [pending EXCEPT ![a] = how], told' = [told EXCEPT ![a] = what],
         tasks' \subseteq Agents, \A b \in tasks' : b \in tasks \/ b = a,
         a \in tasks' => how \in {"background", "monitor"},
         how = "no" => what = "nothing" \/ agent[a] = "ended",
         how # "no" \/ what # "nothing" =>
           \E n \in 1 .. handed : Seen(n, a, how)'
  PROVE  Inv'
<1>0. /\ pending \in [Agents -> Launches \cup {"no"}]
      /\ told \in [Agents -> {"nothing", "spawn", "progress", "done"}]
  BY DEF Inv, TypeInv
<1>1. TypeInv'
  BY <1>0 DEF Inv, TypeInv
<1>2. todo'[Send] \subseteq todo[Send] /\ todo'[Watch] \subseteq todo[Watch]
  BY DEF Consumers
<1>3. /\ pending'[a] = how /\ told'[a] = what
      /\ \A b \in Agents : b # a => pending'[b] = pending[b] /\ told'[b] = told[b]
  BY <1>0
<1>4. LaunchInv'
  <2>1. todo'[Send] \cap todo'[Watch] = {}
    BY <1>2 DEF Inv, LaunchInv
  <2>2. ASSUME NEW b \in Agents, pending'[b] # "no" \/ told'[b] # "nothing"
        PROVE  \E n \in 1 .. handed : Seen(n, b, pending[b])'
    <3>1. CASE b = a
      BY <1>3, <2>2, <3>1 DEF Seen
    <3>2. CASE b # a
      <4>1. PICK n \in 1 .. handed : Seen(n, b, pending[b])
        BY <1>3, <2>2, <3>2 DEF Inv, LaunchInv
      <4> QED BY <1>2, <1>3, <3>2, <4>1 DEF Seen
    <3> QED BY <3>1, <3>2
  <2> QED BY <2>1, <2>2 DEF LaunchInv
<1>5. TaskInv'
  BY <1>3 DEF Inv, TypeInv, TaskInv
<1>6. RunningIsProtected'
  BY <1>3 DEF Inv, RunningIsProtected, Pending, Launches
<1> QED BY <1>1, <1>4, <1>5, <1>6, JournalKept DEF Inv

LEMMA ReconcileKeeps ==
  ASSUME Inv, NEW a \in Agents, Reconcile(a)
  PROVE  Inv'
<1>1. PICK n \in 1 .. handed : Seen(n, a, pending[a])
  BY DEF Reconcile, Pending, Inv, LaunchInv
<1>2. /\ UNCHANGED <<content, agent, journal, handed, claude, fg, watching, unheard, todo>>
      /\ pending' = [pending EXCEPT ![a] = "no"] /\ told' = [told EXCEPT ![a] = "done"]
      /\ tasks' = tasks \ {a} /\ agent[a] = "ended"
  BY DEF Reconcile, Forget, Tell, vars, world, session
<1>3. /\ todo \in [Consumers -> SUBSET (1 .. handed)] /\ tasks \subseteq Agents /\ unheard \subseteq Agents
      /\ fg \in {"off", "waiting", "started", "ending"}
  BY DEF Inv, TypeInv
<1>4. Seen(n, a, "no")'
  BY <1>1, <1>2 DEF Seen
<1> QED BY <1>2, <1>3, <1>4, Tracked

LEMMA NormalizeKeeps ==
  ASSUME Inv, NEW r \in Consumers, Normalize(r)
  PROVE  Inv'
<1>1. PICK n \in todo[r] :
        /\ todo' = [todo EXCEPT ![r] = @ \ {n}]
        /\ fg' = IF r = Send THEN FgAfter(content[n]) ELSE fg
        /\ \/ content[n].k = "use" /\ NoteToolUse(content[n])
           \/ content[n].k = "result" /\ NoteToolResult(content[n])
           \/ content[n].k = "notice" /\ NoteUserText(content[n])
           \/ Nothing
        /\ unheard' \subseteq unheard \cup Agents
        /\ UNCHANGED <<vars, world, watching>>
  BY DEF Normalize
<1> DEFINE rec == content[n]
<1>2. TypeInv /\ JournalInv /\ LaunchInv /\ TaskInv /\ RunningIsProtected
  BY DEF Inv
<1>3. /\ n \in 1 .. handed /\ n \in 1 .. Len(content) /\ rec \in Records /\ (r = Send \/ r = Watch)
      /\ \A m \in 1 .. handed : m \in 1 .. Len(content)
  BY <1>1, <1>2, Read
<1>4. /\ rec.k = "use"    => rec.a \in Agents /\ rec.how \in Launches
      /\ rec.k = "result" => rec.a \in Agents /\ rec.async \in BOOLEAN /\ rec.id \in BOOLEAN
      /\ rec.k = "notice" => rec.a \in Agents /\ rec.final \in BOOLEAN
  BY <1>3, RecordKinds
<1>5. /\ UNCHANGED <<content, agent, journal, handed, claude, watching>>
      /\ fg' \in {"off", "waiting", "started", "ending"} /\ unheard' \subseteq Agents
      /\ todo' \in [Consumers -> SUBSET (1 .. handed)]
      /\ \A c \in Consumers : todo'[c] \subseteq todo[c]
      /\ n \notin todo'[r]
      /\ pending \in [Agents -> Launches \cup {"no"}] /\ tasks \subseteq Agents
      /\ told \in [Agents -> {"nothing", "spawn", "progress", "done"}]
      /\ claude' \in {"none", "asked", "ours"} /\ watching' \in BOOLEAN
  BY <1>1, <1>2 DEF FgAfter, TypeInv, vars, world
<1>6. n \notin todo'[Send] /\ n \notin todo'[Watch]
  BY <1>1, <1>2, <1>3, <1>5 DEF LaunchInv, Consumers
<1>7. ASSUME NEW a \in Agents, pending[a] # "no" \/ told[a] # "nothing"
      PROVE  \E m \in 1 .. handed :
               Seen(m, a, pending[a]) /\ m \notin todo'[Send] /\ m \notin todo'[Watch]
  BY <1>2, <1>5, <1>7 DEF LaunchInv, Seen, Consumers
<1> HIDE <1>1
<1>8. CASE rec.k = "use" /\ NoteToolUse(rec)
  <2>1. /\ pending' = [pending EXCEPT ![rec.a] = rec.how] /\ told' = [told EXCEPT ![rec.a] = "spawn"]
        /\ UNCHANGED tasks
    BY <1>8 DEF NoteToolUse, Tell
  <2>2. IsUse(rec, rec.a) /\ rec.a \in Agents /\ rec.how \in Launches
    BY <1>4, <1>8 DEF IsUse
  <2>3. pending[rec.a] = "no"
    <3> SUFFICES ASSUME pending[rec.a] # "no" PROVE FALSE
      OBVIOUS
    <3>1. PICK m \in 1 .. handed : IsUse(content[m], rec.a) /\ m \notin todo[Send] /\ m \notin todo[Watch]
      BY <1>7, <2>2 DEF Seen
    <3>2. m = n
      BY <1>2, <1>3, <2>2, <3>1 DEF JournalInv
    <3> QED BY <1>1, <1>3, <3>1, <3>2
  <2>4. rec.a \notin tasks /\ rec.how # "no"
    BY <1>2, <2>2, <2>3 DEF TaskInv, Launches
  <2>5. Seen(n, rec.a, rec.how)'
    BY <1>5, <1>6, <2>2 DEF Seen
  <2> DEFINE a == rec.a
             how == rec.how
  <2>6. /\ a \in Agents /\ how \in Launches /\ how # "no" /\ a \notin tasks /\ UNCHANGED tasks
        /\ pending' = [pending EXCEPT ![a] = how] /\ told' = [told EXCEPT ![a] = "spawn"]
    BY <2>1, <2>2, <2>4
  <2>7. PICK b \in Agents, h \in Launches : a = b /\ how = h /\ Seen(n, b, h)'
    BY <1>5, <2>2, <2>5 DEF Seen
  <2> HIDE DEF a, how
  <2> QED BY <1>3, <1>5, <2>6, <2>7, Tracked
<1>9. CASE rec.k = "result" /\ NoteToolResult(rec)
  <2>1. rec.async \in BOOLEAN
    BY <1>4, <1>9
  <2>0. PICK a \in Agents : a = rec.a
    BY <1>4, <1>9
  <2>2. CASE pending[a] = "no" /\ Nothing
    BY <1>5, <2>2, Idle DEF Nothing, tracker
  <2>3. ASSUME pending[a] \in Launches,
               \/ pending[a] = "monitor" /\ UNCHANGED pending
               \/ pending[a] # "monitor" /\ pending' = [pending EXCEPT ![a] = "background"],
               tasks' = tasks \/ tasks' = tasks \cup {a}, UNCHANGED told
        PROVE  Inv'
    <3>1. PICK how \in {"background", "monitor"} : pending' = [pending EXCEPT ![a] = how]
      BY <1>5, <2>1, <2>3
    <3>2. told' = [told EXCEPT ![a] = told[a]] /\ told[a] \in {"nothing", "spawn", "progress", "done"}
      BY <1>5, <2>1, <2>3
    <3>3. pending[a] # "no"
      BY <2>3 DEF Launches
    <3>4. \E m \in 1 .. handed : Seen(m, a, how)'
      BY <1>5, <1>7, <3>3 DEF Seen
    <3>5. how \in Launches /\ how # "no" /\ how # "agent"
      BY DEF Launches
    <3> QED BY <1>5, <2>1, <2>3, <3>1, <3>2, <3>4, <3>5, Tracked
  <2>4. CASE pending[a] = "agent" /\ ~rec.async /\ Forget(a) /\ Tell(a, "done") /\ UNCHANGED tasks
    <3>1. PICK m \in 1 .. handed : Seen(m, a, "agent") /\ Seen(m, a, "no")'
      BY <1>5, <1>7, <2>4 DEF Seen
    <3>2. agent[a] = "ended"
      BY <1>2, <1>3, <1>9, <2>0, <2>4, <3>1 DEF JournalInv, Tells, Seen
    <3>3. a \notin tasks
      BY <1>2, <2>4 DEF TaskInv
    <3>4. pending' = [pending EXCEPT ![a] = "no"] /\ told' = [told EXCEPT ![a] = "done"]
      BY <2>4 DEF Forget, Tell
    <3> QED BY <1>5, <2>1, <2>4, <3>1, <3>2, <3>3, <3>4, Tracked
  <2>5. CASE ~Pending(a)
    BY <1>9, <2>0, <2>2, <2>5 DEF NoteToolResult, Pending
  <2>6. CASE pending[a] = "monitor"
    <3>1. Arm(rec) /\ UNCHANGED <<pending, told>>
      BY <1>9, <2>0, <2>6 DEF NoteToolResult, Pending
    <3> QED BY <2>0, <2>3, <2>6, <3>1 DEF Arm, Launches
  <2>7. CASE Pending(a) /\ pending[a] # "monitor" /\ IsLaunch(rec)
    <3>1. Arm(rec) /\ pending' = [pending EXCEPT ![a] = "background"] /\ UNCHANGED told
      BY <1>5, <1>9, <2>0, <2>7 DEF NoteToolResult, Pending, Launches
    <3>2. pending[a] \in Launches
      BY <1>5, <2>7 DEF Pending
    <3> QED BY <2>0, <2>3, <2>7, <3>1, <3>2 DEF Arm
  <2>8. CASE Pending(a) /\ pending[a] # "monitor" /\ ~IsLaunch(rec)
    <3>1. Forget(a) /\ Tell(a, "done") /\ UNCHANGED tasks
      BY <1>9, <2>0, <2>8 DEF NoteToolResult, Pending
    <3>2. pending[a] = "agent" /\ ~rec.async
      BY <1>5, <2>0, <2>8 DEF Pending, IsLaunch, Launches
    <3> QED BY <2>4, <3>1, <3>2
  <2> QED BY <2>5, <2>6, <2>7, <2>8
<1>10. CASE rec.k = "notice" /\ NoteUserText(rec)
  <2>1. rec.final \in BOOLEAN
    BY <1>4, <1>10
  <2>0. PICK a \in Agents : a = rec.a
    BY <1>4, <1>10
  <2>2. CASE Nothing
    BY <1>5, <2>2, Idle DEF Nothing, tracker
  <2>3. ASSUME Pending(a), a \in tasks, Tell(a, "progress"), UNCHANGED <<pending, tasks>> PROVE Inv'
    <3>1. pending[a] \in {"background", "monitor"}
      BY <1>2, <2>3 DEF TaskInv
    <3>2. pending' = [pending EXCEPT ![a] = pending[a]] /\ told' = [told EXCEPT ![a] = "progress"]
      BY <1>5, <2>1, <2>3 DEF Tell
    <3>3. \E m \in 1 .. handed : Seen(m, a, pending[a])'
      BY <1>5, <1>7, <2>3, <3>1 DEF Seen
    <3>5. PICK how \in {"background", "monitor"} : how = pending[a] /\ \E m \in 1 .. handed : Seen(m, a, how)'
      BY <2>3, <3>1, <3>3
    <3>4. how \in Launches /\ how # "no"
      BY DEF Launches
    <3> QED BY <1>5, <2>3, <3>2, <3>4, <3>5, Tracked
  <2>4. ASSUME Pending(a), rec.final, Forget(a), tasks' = tasks \ {a}, Tell(a, "done") PROVE Inv'
    <3>1. agent[a] = "ended"
      BY <1>2, <1>3, <1>10, <2>0, <2>1, <2>4 DEF JournalInv, Tells
    <3>2. \E m \in 1 .. handed : Seen(m, a, "no")'
      BY <1>5, <1>7, <2>4 DEF Pending, Seen
    <3>3. pending' = [pending EXCEPT ![a] = "no"] /\ told' = [told EXCEPT ![a] = "done"]
      BY <2>4 DEF Forget, Tell
    <3> QED BY <1>5, <2>1, <2>4, <3>1, <3>2, <3>3, Tracked
  <2> QED BY <1>10, <2>0, <2>1, <2>2, <2>3, <2>4 DEF NoteUserText
<1>11. CASE Nothing
  BY <1>5, <1>11, Idle DEF Nothing, tracker
<1> QED BY <1>1, <1>8, <1>9, <1>10, <1>11

LEMMA TrackStep == Inv /\ [TrackNext]_trackVars => Inv'
<1> SUFFICES ASSUME Inv, [TrackNext]_trackVars PROVE Inv'
  OBVIOUS
<1>0. /\ fg \in {"off", "waiting", "started", "ending"} /\ claude \in {"none", "asked", "ours"}
      /\ watching \in BOOLEAN /\ unheard \subseteq Agents
      /\ todo \in [Consumers -> SUBSET (1 .. handed)]
  BY DEF Inv, TypeInv
<1>1. CASE SendCloses
  BY <1>0, <1>1, Idle DEF SendCloses, vars, world, tracker
<1>2. CASE SendBegins \/ SendEnds \/ WatcherCalls
  BY <1>0, <1>2, Idle DEF SendBegins, SendEnds, WatcherCalls, vars, world, tracker
<1>3. ASSUME NEW r \in Consumers, ReadFails(r) PROVE Inv'
  BY <1>0, <1>3, Idle DEF ReadFails, Cut, vars, world, tracker
<1>4. CASE UNCHANGED trackVars
  BY <1>0, <1>4, Idle DEF trackVars, vars, world, session, tracker
<1> QED BY <1>1, <1>2, <1>3, <1>4, ClaudeKeeps, ReconcileKeeps, HandKeeps, NormalizeKeeps
        DEF TrackNext, Host

LEMMA TrackInitial == TrackInit => Inv
<1> SUFFICES ASSUME TrackInit PROVE Inv
  OBVIOUS
<1>1. content = <<>> /\ journal = 0 /\ handed = 0 /\ todo = [r \in Consumers |-> {}]
  BY DEF TrackInit, Init
<1>2. content \in Seq(Records) /\ Len(content) = 0
  BY <1>1
<1>3. TypeInv
  <2>1. todo \in [Consumers -> SUBSET (1 .. handed)]
    BY <1>1
  <2>2. /\ agent \in [Agents -> Launches \cup {"none", "running", "ended"}]
        /\ pending \in [Agents -> Launches \cup {"no"}]
        /\ told \in [Agents -> {"nothing", "spawn", "progress", "done"}]
    BY DEF TrackInit
  <2>3. handed \in 0 .. journal /\ journal = Len(content)
    BY <1>1, <1>2
  <2> QED BY <1>2, <2>1, <2>2, <2>3 DEF TrackInit, TypeInv
<1>4. JournalInv
  BY <1>2 DEF JournalInv
<1>5. LaunchInv /\ TaskInv /\ RunningIsProtected
  BY <1>1 DEF TrackInit, LaunchInv, TaskInv, RunningIsProtected, Consumers
<1> QED BY <1>3, <1>4, <1>5 DEF Inv

LEMMA TrackInvariant == TrackSpec => []Inv
BY TrackInitial, TrackStep, PTL DEF TrackSpec

(* Types, and the tracker knows a task id of pending agents only. *)
THEOREM TrackerTypesHold == TrackSpec => []TrackerTypeOK
<1>1. Inv => TrackerTypeOK
  <2> SUFFICES ASSUME Inv PROVE TrackerTypeOK
    OBVIOUS
  <2>1. TypeInv /\ TaskInv
    BY DEF Inv
  <2>2. \A r \in Consumers : todo[r] \subseteq DOMAIN content
    BY <2>1 DEF TypeInv
  <2>3. handed <= journal
    BY <2>1 DEF TypeInv
  <2>4. tasks \subseteq {a \in Agents : Pending(a)}
    BY <2>1 DEF TypeInv, TaskInv, Pending
  <2> QED BY <2>1, <2>2, <2>3, <2>4 DEF TypeInv, TrackerTypeOK
<1> QED BY <1>1, TrackInvariant, PTL

(* An agent that was launched and has not ended keeps its Session from being
   reaped or evicted (session.py:172), whatever reads fail, generators are closed
   and consumers overtake each other. *)
THEOREM RunningProtected == TrackSpec => []RunningIsProtected
<1>1. Inv => RunningIsProtected
  BY DEF Inv
<1> QED BY <1>1, TrackInvariant, PTL
================================================================================
