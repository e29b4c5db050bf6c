---------------------------- MODULE PtyInput_proofs ----------------------------
(***************************************************************************)
(* What holds of PtyInput for every number of prompts and interrupts, for  *)
(* a terminal of any size, and whenever Claude Code dies:                  *)
(*   InputTypesHold   Spec => []InputTypeOK                                *)
(*   FramesHold       Spec => FramesAreWhole                               *)
(*   StopWaits        Spec => []StopWaitsForEnter                          *)
(* The argument is the one of the comment on _input_lock: whoever is in    *)
(* the middle of a frame holds the lock, and all others write under it.    *)
(***************************************************************************)
EXTENDS PtyInput, SequenceTheorems, TLAPS

PromptPlaces    == {"idle", "paste", "rest", "pause", "enter", "leave", "raised", "done"}
InterruptPlaces == {"idle", "escape", "leave", "raised", "done"}
DrainPlaces     == {"loop", "select", "check", "lock", "confirm", "cool", "done"}
StopPlaces      == {"idle", "lock", "terminate", "join", "done"}

(* Where each thread can be. *)
Places ==
    /\ pc \in [Threads -> PromptPlaces \cup InterruptPlaces \cup DrainPlaces \cup StopPlaces]
    /\ \A p \in Prompts : pc[p] \in PromptPlaces
    /\ \A i \in Interrupts : pc[i] \in InterruptPlaces
    /\ pc[Drain] \in DrainPlaces /\ pc[Stop] \in StopPlaces

(* The places inside "with self._input_lock". *)
Inside == {"paste", "rest", "pause", "enter", "escape", "leave", "terminate",
           "confirm", "cool"}
LockInv ==
    /\ lock \in Threads \cup {None}
    /\ \A t \in Threads : lock = t <=> pc[t] \in Inside

(* As long as the frame can go on, its prompt is right behind its last write. *)
FrameInv ==
    InFrame /\ child = "alive" =>
        \/ last.part = "paste" /\ pc[last.by] = "rest"
        \/ last.part = "rest"  /\ pc[last.by] \in {"pause", "enter"}

(* What the threads share. *)
Parts   == {"paste", "rest", "enter", "escape"}
Drawn   == {"chat", "dialog"}
DataInv ==
    /\ running \in BOOLEAN /\ open \in BOOLEAN /\ died \in BOOLEAN
    /\ child \in {"alive", "dead", "stopped"}
    /\ dialogs \in 0 .. MaxDialogs
    /\ render \in {"nothing", "chat", "dialog"}
    /\ render = "dialog" => dialogs < MaxDialogs
    /\ input \in Seq([by : Threads, part : Parts]) /\ Len(input) <= InCap
    /\ output \in Seq(Drawn) /\ Len(output) <= OutCap

Control  == Places /\ LockInv /\ FrameInv /\ StopWaitsForEnter
InputInv == Control /\ DataInv

(* What FramesAreWhole says of a step. *)
FrameGoesOn == InFrame /\ last' # last =>
    last' = Chunk(last.by, IF last.part = "paste" THEN "rest" ELSE "enter")

(* The places that t may go to. *)
Fits(t, to) ==
    /\ t \in Prompts => to \in PromptPlaces
    /\ t \in Interrupts => to \in InterruptPlaces
    /\ t = Drain => to \in DrainPlaces
    /\ t = Stop => to \in StopPlaces
--------------------------------------------------------------------------------
(* One thread moves, the others stay where they are. *)
LEMMA GoesTo ==
  ASSUME Places, NEW t \in Threads, NEW to, Goes(t, to)
  PROVE  \A u \in Threads : pc'[u] = IF u = t THEN to ELSE pc[u]
  BY DEF Places, Goes

(* The ways in which the place of a thread and the lock change together. *)
Moves(t, to) ==
    \/ UNCHANGED lock /\ Goes(t, to) /\ (pc[t] \in Inside <=> to \in Inside)
    \/ Acquire(t, to) /\ to \in Inside
    \/ Release(t, to) /\ to \notin Inside

LEMMA LockMoves ==
  ASSUME Places, LockInv, NEW t \in Threads, NEW to, Moves(t, to)
  PROVE  LockInv'
<1>1. \A u \in Threads : pc'[u] = IF u = t THEN to ELSE pc[u]
  BY GoesTo DEF Moves, Acquire, Release
<1>2. lock' \in Threads \cup {None}
  BY DEF Moves, Acquire, Release, LockInv
<1>3. ASSUME NEW u \in Threads PROVE lock' = u <=> pc'[u] \in Inside
  <2>1. CASE UNCHANGED lock /\ (pc[t] \in Inside <=> to \in Inside)
    BY <1>1, <2>1 DEF LockInv
  <2>2. CASE Acquire(t, to) /\ to \in Inside
    BY <1>1, <2>2, InputAssumption DEF Acquire, LockInv
  <2>3. CASE Release(t, to) /\ to \notin Inside
    BY <1>1, <2>3, InputAssumption DEF Release, LockInv
  <2> QED BY <2>1, <2>2, <2>3 DEF Moves
<1> QED BY <1>2, <1>3 DEF LockInv

(* A prompt stays a prompt, and so on. *)
LEMMA PlacesMove ==
  ASSUME Places, NEW t \in Threads, NEW to, Goes(t, to), Fits(t, to)
  PROVE  Places'
<1>1. \A u \in Threads : pc'[u] = IF u = t THEN to ELSE pc[u]
  BY GoesTo
<1>2. to \in PromptPlaces \cup InterruptPlaces \cup DrainPlaces \cup StopPlaces
  BY DEF Threads, Fits
<1>3. pc' \in [Threads -> PromptPlaces \cup InterruptPlaces \cup DrainPlaces \cup StopPlaces]
  BY <1>2 DEF Places, Goes
<1> QED BY <1>1, <1>3 DEF Places, Threads, Fits

(* Without a write a frame stays as it is, if no prompt in a frame moves but
   from its pause to its Enter. *)
LEMMA FrameStays ==
  ASSUME Places, FrameInv, StopWaitsForEnter, NEW t \in Threads, NEW to,
         Goes(t, to), UNCHANGED <<last, child>>,
         \/ child # "alive" \/ pc[t] \notin {"rest", "pause", "enter"}
         \/ pc[t] = "pause" /\ to = "enter"
  PROVE  FrameInv' /\ StopWaitsForEnter'
<1>1. \A u \in Threads : pc'[u] = IF u = t THEN to ELSE pc[u]
  BY GoesTo
<1>2. InFrame' <=> InFrame
  BY DEF InFrame
<1>3. InFrame => last.by \in Threads
  BY DEF InFrame, Threads
<1>4. FrameInv'
  BY <1>1, <1>2, <1>3 DEF FrameInv
<1> QED BY <1>2, <1>4 DEF StopWaitsForEnter

(* A step of one thread that writes nothing. *)
LEMMA MoveKeeps ==
  ASSUME Control, NEW t \in Threads, NEW to, Moves(t, to), Fits(t, to),
         UNCHANGED <<last, child>>,
         \/ child # "alive" \/ pc[t] \notin {"rest", "pause", "enter"}
         \/ pc[t] = "pause" /\ to = "enter"
  PROVE  Control' /\ FrameGoesOn
<1>1. Goes(t, to)
  BY DEF Moves, Acquire, Release
<1>2. Places' /\ LockInv'
  BY <1>1, PlacesMove, LockMoves DEF Control
<1>3. FrameInv' /\ StopWaitsForEnter'
  BY <1>1, FrameStays DEF Control
<1> QED BY <1>2, <1>3 DEF Control, FrameGoesOn

(* A step of one thread that writes: it holds the lock, so that a frame that is
   not complete is its own. *)
LEMMA WriteKeeps ==
  ASSUME Control, NEW t \in Threads, NEW part, NEW to,
         Writes(t, part, to), Moves(t, to), Fits(t, to), UNCHANGED child,
         pc[t] \in Inside,
         pc[t] = "rest" => part = "rest",
         pc[t] \in {"pause", "enter"} => part = "enter",
         t \in Prompts => \/ part = "paste" /\ to = "rest"
                          \/ part = "rest" /\ to = "pause"
                          \/ part = "enter"
  PROVE  Control' /\ FrameGoesOn
<1>1. Goes(t, to) /\ last' = [by |-> t, part |-> part] /\ child = "alive" /\ child' = "alive"
  BY DEF Writes, Chunk
<1>2. Places' /\ LockInv'
  BY <1>1, PlacesMove, LockMoves DEF Control
<1>3. pc'[t] = to
  BY <1>1, GoesTo DEF Control
<1>4. FrameInv'
  BY <1>1, <1>3 DEF FrameInv, InFrame
<1>5. StopWaitsForEnter'
  BY <1>1 DEF StopWaitsForEnter
<1>6. FrameGoesOn
  <2>1. SUFFICES ASSUME InFrame
                 PROVE  last' = Chunk(last.by, IF last.part = "paste" THEN "rest" ELSE "enter")
    BY DEF FrameGoesOn
  <2>2. last.by \in Threads /\ last.by \in Prompts
    BY <2>1 DEF InFrame, Threads
  <2>3. \/ last.part = "paste" /\ pc[last.by] = "rest"
        \/ last.part = "rest"  /\ pc[last.by] \in {"pause", "enter"}
    BY <1>1, <2>1 DEF Control, FrameInv
  <2>4. last.by = t
    BY <2>2, <2>3 DEF Control, LockInv, Inside
  <2>5. part = IF last.part = "paste" THEN "rest" ELSE "enter"
    BY <2>3, <2>4
  <2> QED BY <1>1, <2>4, <2>5 DEF Chunk
<1> QED BY <1>2, <1>4, <1>5, <1>6 DEF Control

(* A step of no thread. *)
LEMMA OthersKeep ==
  ASSUME Control, UNCHANGED <<threads, last>>,
         UNCHANGED child \/ child' = "dead" \/ (child' = "stopped" /\ ~InFrame)
  PROVE  Control' /\ FrameGoesOn
<1>1. UNCHANGED <<pc, lock>>
  BY DEF threads
<1>2. Places' /\ LockInv'
  BY <1>1 DEF Control, Places, LockInv
<1>3. InFrame' <=> InFrame
  BY DEF InFrame
<1>4. FrameInv'
  BY <1>1, <1>3 DEF Control, FrameInv
<1>5. StopWaitsForEnter'
  BY <1>3 DEF Control, StopWaitsForEnter
<1> QED BY <1>2, <1>4, <1>5 DEF Control, FrameGoesOn
--------------------------------------------------------------------------------
(* The writers: send_prompt and send_interrupt. *)
LEMMA PromptKeeps ==
  ASSUME Control, NEW p \in Prompts,
         SendPrompt(p) \/ Sending(p) \/ Writing(p)
  PROVE  Control' /\ FrameGoesOn
<1>1. p \in Threads /\ p \notin Interrupts /\ p # Drain /\ p # Stop
  BY InputAssumption DEF Threads
<1>2. ASSUME NEW to \in PromptPlaces PROVE Fits(p, to)
  BY <1>1, <1>2 DEF Fits
<1>3. CASE SendPrompt(p)
  <2>1. PICK to \in {"paste", "raised"} : Moves(p, to) /\ UNCHANGED <<last, child>>
    BY <1>3 DEF SendPrompt, Moves, Inside, Unwritten, Elsewhere, claude, Acquire
  <2>2. Fits(p, to)
    BY <1>2 DEF PromptPlaces
  <2> QED BY <1>1, <1>3, <2>1, <2>2, MoveKeeps DEF SendPrompt
<1>4. CASE Paste(p)
  <2>1. UNCHANGED <<lock, child>>
    BY <1>4 DEF Paste, Elsewhere, claude
  <2>2. CASE pc[p] = "paste" /\ Writes(p, "paste", "rest")
    <3>1. Moves(p, "rest") /\ Fits(p, "rest")
      BY <1>2, <2>1, <2>2 DEF Moves, Writes, Inside, PromptPlaces
    <3> QED BY <1>1, <2>1, <2>2, <3>1, WriteKeeps DEF Inside
  <2>3. CASE pc[p] = "rest" /\ Writes(p, "rest", "pause")
    <3>1. Moves(p, "pause") /\ Fits(p, "pause")
      BY <1>2, <2>1, <2>3 DEF Moves, Writes, Inside, PromptPlaces
    <3> QED BY <1>1, <2>1, <2>3, <3>1, WriteKeeps DEF Inside
  <2> QED BY <1>4, <2>2, <2>3 DEF Paste
<1>5. CASE Pause(p)
  <2>1. pc[p] = "pause" /\ Moves(p, "enter") /\ UNCHANGED <<last, child>>
    BY <1>5 DEF Pause, Moves, Inside, Unwritten, Elsewhere, claude
  <2> QED BY <1>1, <1>2, <2>1, MoveKeeps DEF PromptPlaces
<1>6. CASE Enter(p)
  <2>1. /\ pc[p] = "enter" /\ Writes(p, "enter", "leave") /\ Moves(p, "leave")
        /\ UNCHANGED child
    BY <1>6 DEF Enter, Moves, Writes, Inside, Elsewhere, claude
  <2> QED BY <1>1, <1>2, <2>1, WriteKeeps DEF PromptPlaces, Inside
<1>7. CASE Leave(p)
  <2>1. pc[p] = "leave" /\ Moves(p, "done") /\ UNCHANGED <<last, child>>
    BY <1>7 DEF Leave, Moves, Inside, Unwritten, Elsewhere, claude
  <2> QED BY <1>1, <1>2, <2>1, MoveKeeps DEF PromptPlaces
<1>8. CASE WriteFails(p)
  <2>1. child # "alive" /\ Moves(p, "raised") /\ UNCHANGED <<last, child>>
    BY <1>8 DEF WriteFails, Moves, Inside, Unwritten, Elsewhere, claude
  <2> QED BY <1>1, <1>2, <2>1, MoveKeeps DEF PromptPlaces
<1> QED BY <1>3, <1>4, <1>5, <1>6, <1>7, <1>8 DEF Sending, Writing

(* send_interrupt takes the lock for its one chunk. *)
LEMMA InterruptKeeps ==
  ASSUME Control, NEW i \in Interrupts,
         SendInterrupt(i) \/ Escaping(i) \/ Writing(i)
  PROVE  Control' /\ FrameGoesOn
<1>1. i \in Threads /\ i \notin Prompts /\ i # Drain /\ i # Stop
  BY InputAssumption DEF Threads
<1>2. ASSUME NEW to \in InterruptPlaces PROVE Fits(i, to)
  BY <1>1, <1>2 DEF Fits
<1>3. pc[i] \notin {"rest", "pause", "enter"}
  BY DEF Control, Places, InterruptPlaces
<1>4. CASE SendInterrupt(i)
  <2>1. PICK to \in {"escape", "done"} : Moves(i, to) /\ UNCHANGED <<last, child>>
    BY <1>4 DEF SendInterrupt, Moves, Inside, Unwritten, Elsewhere, claude, Acquire
  <2>2. Fits(i, to)
    BY <1>2 DEF InterruptPlaces
  <2> QED BY <1>1, <1>3, <2>1, <2>2, MoveKeeps
<1>5. CASE Escape(i)
  <2>1. /\ pc[i] = "escape" /\ Writes(i, "escape", "leave") /\ Moves(i, "leave")
        /\ UNCHANGED child
    BY <1>5 DEF Escape, Moves, Writes, Inside, Elsewhere, claude
  <2> QED BY <1>1, <1>2, <2>1, WriteKeeps DEF InterruptPlaces, Inside
<1>6. CASE Leave(i)
  <2>1. Moves(i, "done") /\ UNCHANGED <<last, child>>
    BY <1>6 DEF Leave, Moves, Inside, Unwritten, Elsewhere, claude
  <2> QED BY <1>1, <1>2, <1>3, <2>1, MoveKeeps DEF InterruptPlaces
<1>7. CASE WriteFails(i)
  <2>1. Moves(i, "raised") /\ UNCHANGED <<last, child>>
    BY <1>7 DEF WriteFails, Moves, Inside, Unwritten, Elsewhere, claude
  <2> QED BY <1>1, <1>2, <1>3, <2>1, MoveKeeps DEF InterruptPlaces
<1> QED BY <1>4, <1>5, <1>6, <1>7 DEF Escaping, Writing

(* stop terminates under the lock, so that no frame is open. *)
LEMMA StopKeeps ==
  ASSUME Control, StopBegins \/ Stopping
  PROVE  Control' /\ FrameGoesOn
<1>1. Stop \in Threads /\ Stop \notin Prompts /\ Stop \notin Interrupts /\ Stop # Drain
  BY InputAssumption DEF Threads
<1>2. ASSUME NEW to \in StopPlaces PROVE Fits(Stop, to)
  BY <1>1, <1>2 DEF Fits
<1>3. pc[Stop] \notin {"rest", "pause", "enter"}
  BY DEF Control, Places, StopPlaces
<1>4. CASE StopBegins
  <2>1. Moves(Stop, "lock") /\ UNCHANGED <<last, child>>
    BY <1>4 DEF StopBegins, Moves, Inside, Unwritten, claude
  <2> QED BY <1>1, <1>2, <1>3, <2>1, MoveKeeps DEF StopPlaces
<1>5. CASE StopLocks
  <2>1. Moves(Stop, "terminate") /\ UNCHANGED <<last, child>>
    BY <1>5 DEF StopLocks, Moves, Inside, Unwritten, Elsewhere, claude
  <2> QED BY <1>1, <1>2, <1>3, <2>1, MoveKeeps DEF StopPlaces
<1>6. CASE Terminate
  <2>1. /\ UNCHANGED <<threads, last>> /\ child' = "stopped" /\ child = "alive"
        /\ pc[Stop] = "terminate"
    BY <1>6 DEF Terminate, Unwritten
  <2>2. ~InFrame
    <3>1. SUFFICES ASSUME InFrame PROVE FALSE
      OBVIOUS
    <3>2. last.by \in Prompts /\ last.by \in Threads
      BY <3>1 DEF InFrame, Threads
    <3>3. pc[last.by] \in {"rest", "pause", "enter"}
      BY <2>1, <3>1 DEF Control, FrameInv
    <3>4. lock = last.by /\ lock = Stop
      BY <1>1, <2>1, <3>2, <3>3 DEF Control, LockInv, Inside
    <3> QED BY <1>1, <3>2, <3>4
  <2> QED BY <2>1, <2>2, OthersKeep
<1>7. CASE Close
  <2>1. Moves(Stop, "join") /\ UNCHANGED <<last, child>>
    BY <1>7 DEF Close, Moves, Inside, Unwritten, claude
  <2> QED BY <1>1, <1>2, <1>3, <2>1, MoveKeeps DEF StopPlaces
<1>8. CASE StopReturns
  <2>1. Moves(Stop, "done") /\ UNCHANGED <<last, child>>
    BY <1>8 DEF StopReturns, Moves, Inside, Unwritten, Elsewhere, claude
  <2> QED BY <1>1, <1>2, <1>3, <2>1, MoveKeeps DEF StopPlaces
<1> QED BY <1>4, <1>5, <1>6, <1>7, <1>8 DEF Stopping

(* The drain thread writes its Enter under the lock as well. *)
LEMMA DrainKeeps ==
  ASSUME Control, Draining
  PROVE  Control' /\ FrameGoesOn
<1>1. Drain \in Threads /\ Drain \notin Prompts /\ Drain \notin Interrupts /\ Drain # Stop
  BY InputAssumption DEF Threads
<1>2. ASSUME NEW to \in DrainPlaces PROVE Fits(Drain, to)
  BY <1>1, <1>2 DEF Fits
<1>3. pc[Drain] \notin {"rest", "pause", "enter"}
  BY DEF Control, Places, DrainPlaces
<1>4. CASE \E to \in DrainPlaces : Moves(Drain, to) /\ UNCHANGED <<last, child>>
  BY <1>1, <1>2, <1>3, <1>4, MoveKeeps
<1>5. CASE pc[Drain] = "confirm" /\ Writes(Drain, "enter", "cool") /\ UNCHANGED <<lock, child>>
  <2>1. Moves(Drain, "cool") /\ Fits(Drain, "cool")
    BY <1>2, <1>5 DEF Moves, Writes, Inside, DrainPlaces
  <2> QED BY <1>1, <1>5, <2>1, WriteKeeps DEF Inside
<1>6. CASE DrainSelects \/ DrainChecks
  <2>1. PICK to \in {"select", "done", "lock", "loop"} :
           Moves(Drain, to) /\ UNCHANGED <<last, child>>
    BY <1>6 DEF DrainSelects, DrainChecks, Moves, Inside, Unwritten, Elsewhere, claude
  <2> QED BY <1>4, <2>1 DEF DrainPlaces
<1>7. CASE DrainLost \/ DrainReads \/ DrainTimesOut \/ DrainEnds
  <2>1. PICK to \in {"done", "check"} :
           Moves(Drain, to) /\ UNCHANGED <<last, child>>
    BY <1>7 DEF DrainLost, DrainReads, DrainTimesOut, DrainEnds, Moves, Inside,
                Unwritten, Elsewhere, claude
  <2> QED BY <1>4, <2>1 DEF DrainPlaces
<1>8. CASE DrainLocks
  <2>1. PICK to \in {"confirm", "cool"} :
           Moves(Drain, to) /\ UNCHANGED <<last, child>>
    BY <1>8 DEF DrainLocks, Moves, Inside, Unwritten, Elsewhere, claude
  <2> QED BY <1>4, <2>1 DEF DrainPlaces
<1>9. CASE DrainConfirms
  <2>1. \/ pc[Drain] = "confirm" /\ Writes(Drain, "enter", "cool") /\ UNCHANGED <<lock, child>>
        \/ Moves(Drain, "done") /\ UNCHANGED <<last, child>>
    BY <1>9 DEF DrainConfirms, Moves, Inside, Unwritten, claude
  <2> QED BY <1>4, <1>5, <2>1 DEF DrainPlaces
<1>10. CASE DrainCools
  <2>1. Moves(Drain, "loop") /\ UNCHANGED <<last, child>>
    BY <1>10 DEF DrainCools, Moves, Inside, Unwritten, claude
  <2> QED BY <1>4, <2>1 DEF DrainPlaces
<1> QED BY <1>6, <1>7, <1>8, <1>9, <1>10 DEF Draining

(* Time and Claude Code. *)
LEMMA RestKeeps ==
  ASSUME Control, CooldownEnds \/ WindowCloses \/ Draws \/ Reads \/ Dies
  PROVE  Control' /\ FrameGoesOn
<1>1. UNCHANGED <<threads, last>> /\ (UNCHANGED child \/ child' = "dead")
  BY DEF CooldownEnds, WindowCloses, Draws, Reads, Dies, claude, Unwritten
<1> QED BY <1>1, OthersKeep

(* Control is inductive, and no step leaves a frame but by its next part. *)
LEMMA ControlStep ==
  ASSUME Control, [Next]_vars
  PROVE  Control' /\ FrameGoesOn
<1>1. CASE UNCHANGED vars
  <2>1. UNCHANGED <<threads, last, child>>
    BY <1>1 DEF vars, claude
  <2> QED BY <2>1, OthersKeep
<1>2. CASE \E p \in Prompts : SendPrompt(p) \/ Sending(p) \/ Writing(p)
  BY <1>2, PromptKeeps
<1>3. CASE \E i \in Interrupts : SendInterrupt(i) \/ Escaping(i) \/ Writing(i)
  BY <1>3, InterruptKeeps
<1>4. CASE StopBegins \/ Stopping
  BY <1>4, StopKeeps
<1>5. CASE Draining
  BY <1>5, DrainKeeps
<1>6. CASE CooldownEnds \/ WindowCloses \/ Draws \/ Reads \/ Dies
  BY <1>6, RestKeeps
<1> QED BY <1>1, <1>2, <1>3, <1>4, <1>5, <1>6 DEF Next

(* Control holds of a terminal that has just been opened. *)
LEMMA ControlInit == Init => Control
<1> SUFFICES ASSUME Init PROVE Control
  OBVIOUS
<1>1. Places
  BY InputAssumption DEF Init, Places, Threads, PromptPlaces, InterruptPlaces,
     DrainPlaces, StopPlaces
<1>2. LockInv
  BY InputAssumption DEF Init, LockInv, Inside
<1>3. ~InFrame
  BY InputAssumption DEF Init, InFrame, Chunk, Threads
<1>4. FrameInv /\ StopWaitsForEnter
  BY <1>3 DEF Init, FrameInv, StopWaitsForEnter
<1> QED BY <1>1, <1>2, <1>4 DEF Control
--------------------------------------------------------------------------------
(* What the threads share.  A chunk is only written where there is room. *)
Data == <<running, open, died, claude, input, output>>

(* What is shared stays typed as long as nobody touches it. *)
LEMMA DataKept == DataInv /\ UNCHANGED Data => DataInv'
  BY DEF Data, DataInv, claude

(* A chunk that is written fits the terminal. *)
LEMMA WriteTyped ==
  ASSUME DataInv, NEW t \in Threads, NEW part \in Parts, NEW to,
         Writes(t, part, to), UNCHANGED <<running, open, died, claude, output>>
  PROVE  DataInv'
<1>1. Chunk(t, part) \in [by : Threads, part : Parts]
  BY DEF Chunk
<1>2. input' = Append(input, Chunk(t, part)) /\ Len(input) < InCap
  BY DEF Writes
<1>3. /\ input' \in Seq([by : Threads, part : Parts])
      /\ Len(input') = Len(input) + 1 /\ Len(input) \in Nat
  BY <1>1, <1>2, AppendProperties, LenProperties DEF DataInv
<1>4. Len(input') <= InCap
  BY <1>2, <1>3, InputAssumption
<1> QED BY <1>3, <1>4 DEF DataInv, claude

(* A shorter queue is still a queue. *)
LEMMA TailTyped ==
  ASSUME NEW S, NEW q \in Seq(S), q # <<>>, NEW n \in Nat, Len(q) <= n
  PROVE  Tail(q) \in Seq(S) /\ Len(Tail(q)) <= n
<1>1. Tail(q) \in Seq(S) /\ Len(Tail(q)) = Len(q) - 1 /\ Len(q) \in Nat
  BY HeadTailProperties, LenProperties
<1> QED BY <1>1

(* The writers and stop keep the shared data typed. *)
LEMMA ThreadsTyped ==
  ASSUME DataInv,
         \/ \E p \in Prompts : SendPrompt(p) \/ Sending(p) \/ Writing(p)
         \/ \E i \in Interrupts : SendInterrupt(i) \/ Escaping(i) \/ Writing(i)
         \/ StopBegins \/ Stopping
  PROVE  DataInv'
<1>1. ASSUME NEW t \in Prompts \cup Interrupts, Leave(t) \/ WriteFails(t) PROVE DataInv'
  <2>1. UNCHANGED Data
    BY <1>1 DEF Leave, WriteFails, Unwritten, Elsewhere, flags, Data
  <2> QED BY <2>1, DataKept
<1>2. ASSUME NEW p \in Prompts, SendPrompt(p) \/ Pause(p) PROVE DataInv'
  <2>1. UNCHANGED Data
    BY <1>2 DEF SendPrompt, Pause, Unwritten, Elsewhere, flags, Data
  <2> QED BY <2>1, DataKept
<1>3. ASSUME NEW p \in Prompts, Paste(p) \/ Enter(p) PROVE DataInv'
  <2>1. PICK part \in Parts, to \in PromptPlaces : Writes(p, part, to)
    BY <1>3 DEF Paste, Enter, Parts, PromptPlaces
  <2>2. UNCHANGED <<running, open, died, claude, output>>
    BY <1>3 DEF Paste, Enter, Elsewhere, flags
  <2> QED BY <2>1, <2>2, WriteTyped DEF Threads
<1>4. ASSUME NEW i \in Interrupts, SendInterrupt(i) PROVE DataInv'
  <2>1. UNCHANGED Data
    BY <1>4 DEF SendInterrupt, Unwritten, Elsewhere, flags, Data
  <2> QED BY <2>1, DataKept
<1>5. ASSUME NEW i \in Interrupts, Escape(i) PROVE DataInv'
  <2>1. Writes(i, "escape", "leave") /\ UNCHANGED <<running, open, died, claude, output>>
    BY <1>5 DEF Escape, Elsewhere, flags
  <2> QED BY <2>1, WriteTyped DEF Threads, Parts
<1>6. CASE StopLocks \/ StopReturns
  <2>1. UNCHANGED Data
    BY <1>6 DEF StopLocks, StopReturns, Unwritten, Elsewhere, flags, Data
  <2> QED BY <2>1, DataKept
<1>7. CASE StopBegins \/ Close \/ Terminate
  BY <1>7 DEF StopBegins, Close, Terminate, Unwritten, DataInv, claude, flags
<1> QED BY <1>1, <1>2, <1>3, <1>4, <1>5, <1>6, <1>7
        DEF Sending, Escaping, Writing, Stopping

(* So does the drain thread, *)
LEMMA DrainTyped ==
  ASSUME DataInv, Draining
  PROVE  DataInv'
<1>1. CASE DrainSelects \/ DrainLost \/ DrainTimesOut \/ DrainChecks \/ DrainLocks
           \/ DrainCools
  <2>1. UNCHANGED Data
    BY <1>1 DEF DrainSelects, DrainLost, DrainTimesOut, DrainChecks, DrainLocks,
                DrainCools, Unwritten, Elsewhere, flags, Data
  <2> QED BY <2>1, DataKept
<1>2. CASE DrainReads
  <2>1. output' \in Seq(Drawn) /\ Len(output') <= OutCap
    BY <1>2, TailTyped, InputAssumption DEF DrainReads, DataInv
  <2> QED BY <1>2, <2>1 DEF DrainReads, DataInv, flags, claude, Unwritten
<1>3. CASE DrainEnds
  BY <1>3 DEF DrainEnds, DataInv, claude, Unwritten
<1>4. CASE DrainConfirms
  <2>1. CASE Writes(Drain, "enter", "cool") /\ UNCHANGED <<lock, died>>
    <3>1. UNCHANGED <<running, open, died, claude, output>>
      BY <1>4, <2>1 DEF DrainConfirms
    <3> QED BY <2>1, <3>1, WriteTyped DEF Threads, Parts
  <2>2. CASE died' = TRUE /\ Unwritten
    BY <1>4, <2>2 DEF DrainConfirms, DataInv, claude, Unwritten
  <2> QED BY <1>4, <2>1, <2>2 DEF DrainConfirms
<1> QED BY <1>1, <1>2, <1>3, <1>4 DEF Draining

(* and so do time and Claude Code. *)
LEMMA ClaudeTyped ==
  ASSUME DataInv, CooldownEnds \/ WindowCloses \/ Draws \/ Reads \/ Dies
  PROVE  DataInv'
<1>1. CASE CooldownEnds \/ WindowCloses
  <2>1. UNCHANGED Data
    BY <1>1 DEF CooldownEnds, WindowCloses, Unwritten, flags, Data
  <2> QED BY <2>1, DataKept
<1>2. CASE Draws
  <2>1. /\ output' = Append(output, render) /\ Len(output) < OutCap
        /\ render \in Drawn
    BY <1>2 DEF Draws, DataInv, Drawn
  <2>2. /\ output' \in Seq(Drawn) /\ Len(output') = Len(output) + 1
        /\ Len(output) \in Nat
    BY <2>1, AppendProperties, LenProperties DEF DataInv
  <2>3. Len(output') <= OutCap
    BY <2>1, <2>2, InputAssumption
  <2>4. dialogs' \in 0 .. MaxDialogs
    BY <1>2, InputAssumption DEF Draws, DataInv
  <2> QED BY <1>2, <2>2, <2>3, <2>4 DEF Draws, DataInv, flags, Unwritten
<1>3. CASE Reads
  <2>1. input' \in Seq([by : Threads, part : Parts]) /\ Len(input') <= InCap
    BY <1>3, TailTyped, InputAssumption DEF Reads, DataInv
  <2>2. /\ render' \in {"nothing", "chat", "dialog"}
        /\ render' = "dialog" => dialogs < MaxDialogs
    BY <1>3 DEF Reads, Screens, DataInv
  <2> QED BY <1>3, <2>1, <2>2 DEF Reads, DataInv, flags
<1>4. CASE Dies
  BY <1>4 DEF Dies, DataInv, flags, Unwritten
<1> QED BY <1>1, <1>2, <1>3, <1>4

(* DataInv is inductive. *)
LEMMA DataStep == DataInv /\ [Next]_vars => DataInv'
<1> SUFFICES ASSUME DataInv, [Next]_vars PROVE DataInv'
  OBVIOUS
<1>1. CASE UNCHANGED vars
  <2>1. UNCHANGED Data
    BY <1>1 DEF vars, flags, Data
  <2> QED BY <2>1, DataKept
<1>2. CASE Next
  BY <1>2, ThreadsTyped, DrainTyped, ClaudeTyped DEF Next
<1> QED BY <1>1, <1>2

(* DataInv holds of a terminal that has just been opened. *)
LEMMA DataInit == Init => DataInv
<1> SUFFICES ASSUME Init PROVE DataInv
  OBVIOUS
<1>1. Len(<<>>) = 0 /\ \A S : <<>> \in Seq(S)
  BY EmptySeq
<1>2. 0 <= InCap /\ 0 <= OutCap /\ 0 \in 0 .. MaxDialogs
  BY InputAssumption
<1>3. render \in {"nothing", "chat", "dialog"} /\ (render = "dialog" => dialogs < MaxDialogs)
  BY DEF Init, Screens
<1> QED BY <1>1, <1>2, <1>3 DEF Init, DataInv
--------------------------------------------------------------------------------
(* InputTypeOK is what Control and DataInv say together. *)
LEMMA InvTypes == InputInv => InputTypeOK
<1> SUFFICES ASSUME InputInv PROVE InputTypeOK
  OBVIOUS
<1>1. pc \in [Threads -> {"idle", "paste", "rest", "pause", "enter", "escape",
                         "leave", "raised", "done", "loop", "select", "check",
                         "lock", "confirm", "cool", "terminate", "join"}]
  BY DEF InputInv, Control, Places, PromptPlaces, InterruptPlaces, DrainPlaces,
         StopPlaces
<1>2. lock = Stop <=> pc[Stop] = "terminate"
  BY DEF InputInv, Control, Places, LockInv, StopPlaces, Inside, Threads
<1> QED BY <1>1, <1>2 DEF InputInv, Control, LockInv, DataInv, InputTypeOK

(* InputInv holds in every state that the threads of PTYProcess can reach. *)
THEOREM InputInvariant == Spec => []InputInv
<1>1. Init => InputInv
  BY ControlInit, DataInit DEF InputInv
<1>2. InputInv /\ [Next]_vars => InputInv'
  BY ControlStep, DataStep DEF InputInv
<1> QED BY <1>1, <1>2, PTL DEF Spec

(* Types hold, the terminal never holds more than it can, and _input_lock is
   held by stop exactly while stop terminates the process. *)
THEOREM InputTypesHold == Spec => []InputTypeOK
  BY InputInvariant, InvTypes, PTL

(* No write of another prompt, of an interrupt or of the auto-confirmation falls
   between the parts of a prompt (PTYProcess.send_prompt under _input_lock). *)
THEOREM FramesHold == Spec => FramesAreWhole
<1>1. InputInv /\ [Next]_vars =>
        [InFrame /\ last' # last =>
           last' = Chunk(last.by, IF last.part = "paste" THEN "rest" ELSE "enter")]_vars
  BY ControlStep DEF InputInv, FrameGoesOn
<1> QED BY <1>1, InputInvariant, PTL DEF Spec, FramesAreWhole

(* PTYProcess.stop never terminates Claude Code in the middle of a prompt that
   was admitted. *)
THEOREM StopWaits == Spec => []StopWaitsForEnter
<1>1. InputInv => StopWaitsForEnter
  BY DEF InputInv, Control
<1> QED BY <1>1, InputInvariant, PTL
================================================================================
