------------------------ MODULE SessionTurn_proofs ------------------------
(***************************************************************************)
(* What holds of SessionTurn for every number of prompts, steers, processes *)
(* and records, and for every environment:                                  *)
(*   TypesHold    Spec => []TypeOK                                          *)
(*   FenceHolds   Spec => []OpenSteerIsFenced                               *)
(* Types come first: what the helpers return, then one lemma per coroutine, *)
(* each with one step per action.  The fence follows.                       *)
(***************************************************************************)
EXTENDS SessionTurn, TLAPS

(* TypeOK is not inductive by itself: a delivery puts the prompt of the holder
   of _send_lock into the inbox, and a restart names the next process, which
   the limit on restarts keeps in range. *)
TypeInv ==
    /\ TypeOK
    /\ pc # "idle" => sending \in Prompts
    /\ process = restarts + 1
--------------------------------------------------------------------------------

(* A receipt is resolved to a Boolean. *)
LEMMA ResolveTyped ==
  ASSUME TypeSteer, NEW s \in SteerOrNone, NEW b \in {"true", "false"}
  PROVE  Resolve(s, b) \in [Steers -> {"open", "true", "false"}]
  BY DEF Resolve, TypeSteer, SteerOrNone

(* A process without work, and one that only kept its banner flag. *)
LEMMA QuietTyped ==
  /\ Quiet \in CCType
  /\ TypeClaude => [Quiet EXCEPT !.banner = cc.banner] \in CCType
<1>1. Quiet \in CCType
  BY DEF Quiet, CCType
<1>2. TypeClaude => cc.banner \in BOOLEAN
  BY DEF TypeClaude, CCType
<1>3. TypeClaude => [Quiet EXCEPT !.banner = cc.banner] \in CCType
  BY <1>1, <1>2 DEF CCType
<1> QED BY <1>1, <1>3

(* process.stop on some process. *)
LEMMA KillTyped ==
  ASSUME TypeLife, TypeClaude, NEW p \in ProcOrNone, Kill(p)
  PROVE  alive' \in [Procs -> BOOLEAN] /\ cc' \in CCType
<1>1. alive' \in [Procs -> BOOLEAN]
  BY DEF Kill, TypeLife
<1>2. cc' \in CCType
  BY QuietTyped DEF Kill, TypeClaude
<1> QED BY <1>1, <1>2

(* The half of _deactivate_active_turn after the lock. *)
LEMMA ReapTyped ==
  ASSUME TypeLife, TypeClaude, TypeSteer, TypeHost, NEW a \in Stoppers, Reap(a)
  PROVE  /\ alive' \in [Procs -> BOOLEAN] /\ cc' \in CCType
         /\ ack' \in [Steers -> {"open", "true", "false"}]
         /\ reaping' \in [Stoppers -> ReapType]
<1>1. reaping[a].proc \in ProcOrNone /\ reaping[a].steer \in SteerOrNone
  BY DEF TypeHost, ReapType
<1>2. alive' \in [Procs -> BOOLEAN] /\ cc' \in CCType
  <2>1. CASE reaping[a].proc = NoProc
    BY <2>1 DEF Reap, TypeLife, TypeClaude
  <2>2. CASE reaping[a].proc # NoProc
    BY <1>1, <2>2, KillTyped DEF Reap
  <2> QED BY <2>1, <2>2
<1>3. ack' \in [Steers -> {"open", "true", "false"}]
  BY <1>1, ResolveTyped DEF Reap
<1>4. reaping' \in [Stoppers -> ReapType]
  <2>1. NoReap \in ReapType
    BY BoundsAssumption DEF NoReap, ReapType, NoProc, ProcOrNone, SteerOrNone
  <2> QED BY <2>1 DEF Reap, TypeHost
<1> QED BY <1>2, <1>3, <1>4

(* The half of _deactivate_active_turn under the lock. *)
LEMMA DetachTyped ==
  ASSUME TypeLock, TypeSteer, TypeHost, NEW a \in Stoppers, NEW o, Detach(a, o)
  PROVE  /\ owner' \in Prompts \cup {None} /\ active' \in ProcOrNone
         /\ unsettled' \in ProcOrNone /\ pending' \in SteerOrNone
         /\ ack' \in [Steers -> {"open", "true", "false"}]
         /\ reaping' \in [Stoppers -> ReapType]
<1>1. CASE owner # o
  BY <1>1 DEF Detach, TypeLock, TypeSteer, TypeHost
<1>2. CASE owner = o
  <2>1. /\ owner' \in Prompts \cup {None} /\ active' \in ProcOrNone
        /\ unsettled' \in ProcOrNone /\ pending' \in SteerOrNone
    BY <1>2, BoundsAssumption DEF Detach, NoProc, ProcOrNone, SteerOrNone
  <2>2. ack' \in [Steers -> {"open", "true", "false"}]
    BY <1>2, ResolveTyped DEF Detach, TypeLock, TypeSteer
  <2>3. [proc |-> unsettled,
         steer |-> IF unsettled # NoProc THEN pending ELSE None] \in ReapType
    BY DEF TypeLock, ReapType, SteerOrNone
  <2>4. reaping' \in [Stoppers -> ReapType]
    BY <1>2, <2>3 DEF Detach, TypeHost
  <2> QED BY <2>1, <2>2, <2>4
<1> QED BY <1>1, <1>2

(* The record under inspection and the rest of its batch. *)
LEMMA RecTyped ==
  ASSUME TypeSend, NEW K, Scanning(K)
  PROVE  /\ Rec \in Record /\ Rec.k \in K
         /\ Rec.id \in 0 .. MaxRecords /\ Rec.t \subseteq Inputs
         /\ NextRecord \in ScanType
<1>1. scan \in ScanType /\ scan.batch \in Seq(Record) /\ scan.batch # <<>>
  BY DEF TypeSend, ScanType, Scanning
<1>2. Rec \in Record /\ Tail(scan.batch) \in Seq(Record)
  BY <1>1 DEF Rec
<1>3. Rec.id \in 0 .. MaxRecords /\ Rec.t \subseteq Inputs
  BY <1>2 DEF Record
<1>4. NextRecord \in ScanType
  BY <1>1, <1>2 DEF NextRecord, ScanType
<1> QED BY <1>2, <1>3, <1>4 DEF Scanning

(* One more record in the journal. *)
LEMMA JournalTyped ==
  ASSUME TypeReader, NEW i \in Inputs \cup {None}, NEW t \in SUBSET Inputs,
         NEW k \in {"echo", "enq", "rem", "deq", "dur", "int", "err", "lim"},
         Journal(k, i, t)
  PROVE  unread' \in Seq(Record) /\ nrec' \in 0 .. MaxRecords
<1>1. nrec' \in 1 .. MaxRecords
  BY BoundsAssumption DEF Journal, TypeReader
<1>2. [k |-> k, i |-> i, id |-> nrec', t |-> t] \in Record
  BY <1>1 DEF Record
<1>3. unread' \in Seq(Record)
  BY <1>2 DEF Journal, TypeReader
<1> QED BY <1>1, <1>3

(* The position of the last record of a batch. *)
LEMMA LastIdTyped ==
  ASSUME NEW q \in Seq(Record), TypeReader
  PROVE  LastId(q) \in 0 .. MaxRecords
<1>1. CASE q = <<>>
  BY <1>1 DEF LastId, TypeReader
<1>2. CASE q # <<>>
  <2>1. Len(q) \in 1 .. Len(q)
    BY <1>2
  <2>2. q[Len(q)] \in Record
    BY <2>1
  <2>3. q[Len(q)].id \in 1 .. MaxRecords
    BY <2>2 DEF Record
  <2>4. LastId(q) = q[Len(q)].id
    BY <1>2 DEF LastId
  <2> QED BY <2>3, <2>4, BoundsAssumption
<1> QED BY <1>1, <1>2

(* The fields of Claude Code. *)
LEMMA CCTyped ==
  ASSUME TypeClaude
  PROVE  /\ cc.inbox \in Seq(Inputs \cup {Escape}) /\ cc.queue \in Seq(Inputs)
         /\ cc.turn \subseteq Inputs /\ cc.echo \in Inputs \cup {None}
  BY DEF TypeClaude, CCType

(* One more input on its way to Claude Code. *)
LEMMA InboxTyped ==
  ASSUME TypeClaude, NEW i \in Inputs \cup {Escape}
  PROVE  [cc EXCEPT !.inbox = Append(@, i)] \in CCType
<1>1. Append(cc.inbox, i) \in Seq(Inputs \cup {Escape})
  BY CCTyped
<1> QED BY <1>1 DEF TypeClaude, CCType

(* The updates that the steps of Claude Code make. *)
LEMMA CCUpdateTyped ==
  ASSUME TypeClaude, NEW a \in Seq(Inputs \cup {Escape}), NEW q \in Seq(Inputs),
         NEW t \in SUBSET Inputs, NEW e \in Inputs \cup {None}
  PROVE  /\ [cc EXCEPT !.inbox = a] \in CCType
         /\ [cc EXCEPT !.inbox = a, !.turn = t] \in CCType
         /\ [cc EXCEPT !.inbox = a, !.turn = t, !.echo = e] \in CCType
         /\ [cc EXCEPT !.inbox = a, !.queue = q] \in CCType
         /\ [cc EXCEPT !.queue = q, !.turn = t] \in CCType
         /\ [cc EXCEPT !.queue = q, !.turn = t, !.echo = e] \in CCType
  BY DEF TypeClaude, CCType

(* The updates of the locals of send_prompt that live for a turn. *)
LEMMA FgTyped ==
  ASSUME NEW f \in FgType, NEW p \in ProcOrNone, NEW s \in SteerOrNone,
         NEW b \in BOOLEAN, NEW c \in BOOLEAN
  PROVE  /\ [f EXCEPT !.proc = p] \in FgType
         /\ [f EXCEPT !.hadMsgs = b] \in FgType
         /\ [f EXCEPT !.confirm = b] \in FgType
         /\ [f EXCEPT !.deferred = b] \in FgType
         /\ [f EXCEPT !.started = b, !.confirm = c] \in FgType
         /\ [f EXCEPT !.followup = s, !.followStarted = b] \in FgType
         /\ [f EXCEPT !.followStarted = b, !.deferred = c] \in FgType
  BY DEF FgType

(* Their initial values. *)
LEMMA FgInitTyped == FgInit \in FgType
  BY BoundsAssumption DEF FgInit, FgType, NoProc, ProcOrNone, SteerOrNone

(* A batch is read. *)
LEMMA ScanTyped ==
  ASSUME NEW r \in ScanType, NEW q \in Seq(Record), NEW b \in BOOLEAN
  PROVE  [r EXCEPT !.batch = q, !.started = b] \in ScanType
  BY DEF ScanType

(* The initial values of the locals that live for a batch. *)
LEMMA ScanInitTyped == ScanInit \in ScanType
  BY DEF ScanInit, ScanType, SteerOrNone

(* The updates of a _PendingSteer. *)
LEMMA ReceiptTyped ==
  ASSUME NEW r \in ReceiptType, NEW p \in ProcOrNone, NEW b \in BOOLEAN,
         NEW w \in SUBSET (1 .. MaxRecords)
  PROVE  /\ [r EXCEPT !.expect = p] \in ReceiptType
         /\ [r EXCEPT !.enqueued = b] \in ReceiptType
         /\ [r EXCEPT !.uncertain = b] \in ReceiptType
         /\ [r EXCEPT !.proc = p, !.prewrite = w] \in ReceiptType
  BY DEF ReceiptType

(* Nobody is being stopped. *)
LEMMA NoReapTyped == NoReap \in ReapType
  BY BoundsAssumption DEF NoReap, ReapType, NoProc, ProcOrNone, SteerOrNone

(* None is a process and a steer where one is optional. *)
LEMMA NoneTyped ==
  NoProc \in ProcOrNone /\ None \in SteerOrNone /\ Procs \subseteq ProcOrNone
  BY BoundsAssumption DEF NoProc, ProcOrNone, SteerOrNone, Procs

(* The identities that the preflight of a steer remembers. *)
LEMMA IdsTyped ==
  ASSUME NEW q \in Seq(Record)
  PROVE  Ids(q) \subseteq 1 .. MaxRecords
<1>1. ASSUME NEW n \in DOMAIN q PROVE q[n].id \in 1 .. MaxRecords
  <2>1. q[n] \in Record
    OBVIOUS
  <2> QED BY <2>1 DEF Record
<1> QED BY <1>1 DEF Ids
--------------------------------------------------------------------------------
(* The way from _send_lock to the delivered prompt keeps the types. *)
LEMMA SendTyped ==
  ASSUME TypeInv, Send
  PROVE  TypeInv'
<1>1. CASE Own
  <2>1. TypeLock'
    BY <1>1, NoneTyped DEF TypeInv, TypeOK, TypeLock, Own
  <2>2. TypeSend'
    BY <1>1 DEF TypeInv, TypeOK, TypeSend, Own, locals
  <2>3. TypeClaude'
    BY <1>1 DEF TypeInv, TypeOK, TypeClaude, Own, claude
  <2> QED BY <1>1, <2>1, <2>2, <2>3 DEF TypeInv, TypeOK, TypeLife, TypeReader,
      TypeSteer, TypeHost, Own, life, locals, hostSide, steerSt, others, claude
<1>2. CASE CheckAlive
  <2>1. TypeSend'
    <3>1. fg' \in FgType
      BY <1>2, FgInitTyped, FgTyped, NoneTyped DEF TypeInv, TypeOK, TypeLife,
         CheckAlive
    <3> QED BY <1>2, <3>1 DEF TypeInv, TypeOK, TypeSend, CheckAlive
  <2> QED BY <1>2, <2>1 DEF TypeInv, TypeOK, TypeLife, TypeLock, TypeReader,
      TypeSteer, TypeHost, TypeClaude, CheckAlive, life, lockSt, turnSt,
      reader, claude, ghosts, hostSide, steerSt, others
<1>3. CASE CheckRefused
  BY <1>3 DEF TypeInv, TypeOK, TypeLife, TypeLock, TypeReader, TypeSend,
     TypeSteer, TypeHost, TypeClaude, CheckRefused, Exit, Finish, life, lockSt,
     turnSt, reader, claude, ghosts, hostSide, steerSt, others
<1>4. CASE ResumeBegin
  <2>1. TypeLife'
    BY <1>4, BoundsAssumption DEF TypeInv, TypeOK, TypeLife, Procs,
       ResumeBegin, MayRestart
  <2>2. TypeReader'
    BY <1>4 DEF TypeInv, TypeOK, TypeReader, ResumeBegin, MayRestart, Quiet,
       ghosts
  <2>3. TypeSend'
    BY <1>4 DEF TypeInv, TypeOK, TypeSend, ResumeBegin, MayRestart, Quiet,
       locals, FgType, ScanType
  <2>4. TypeClaude'
    BY <1>4 DEF TypeInv, TypeOK, TypeClaude, ResumeBegin, MayRestart, Quiet,
       ghosts, CCType
  <2> QED BY <1>4, <2>1, <2>2, <2>3, <2>4 DEF TypeInv, TypeOK, TypeLock,
      TypeSteer, TypeHost, ResumeBegin, MayRestart, Quiet, lockSt, turnSt,
      locals, hostSide, steerSt, others, ghosts
<1>5. CASE ResumeDone
  <2>1. TypeSend'
    <3>1. fg' \in FgType
      BY <1>5, FgInitTyped, FgTyped, NoneTyped DEF TypeInv, TypeOK, TypeLife,
         ResumeDone
    <3> QED BY <1>5, <3>1 DEF TypeInv, TypeOK, TypeSend, ResumeDone
  <2> QED BY <1>5, <2>1 DEF TypeInv, TypeOK, TypeLife, TypeLock, TypeReader,
      TypeSteer, TypeHost, TypeClaude, ResumeDone, lockSt, turnSt, steerSt
<1>6. CASE ResumeFailed
  BY <1>6 DEF TypeInv, TypeOK, TypeLife, TypeLock, TypeReader, TypeSend,
     TypeSteer, TypeHost, TypeClaude, ResumeFailed, Finish, life, lockSt,
     turnSt, hostSide, steerSt, others
<1>7. CASE Backlog
  <2>1. TypeReader'
    <3>1. prefetched \o unread \in Seq(Record) /\ TypeReader
      BY DEF TypeInv, TypeOK, TypeReader
    <3>2. LastId(prefetched \o unread) \in 0 .. MaxRecords
      BY <3>1, LastIdTyped
    <3> QED BY <1>7, <3>1, <3>2 DEF TypeReader, Backlog
  <2> QED BY <1>7, <2>1 DEF TypeInv, TypeOK, TypeLife, TypeLock, TypeSend,
      TypeSteer, TypeHost, TypeClaude, Backlog, life, lockSt, turnSt, locals,
      hostSide, steerSt, others
<1>8. CASE DeliverChannel
  <2>1. TypeSend'
    BY <1>8 DEF TypeInv, TypeOK, TypeSend, DeliverChannel, FgType, ScanType
  <2>2. TypeClaude'
    <3>1. sending \in Inputs \cup {Escape}
      BY <1>8 DEF TypeInv, DeliverChannel, Inputs
    <3> QED BY <1>8, <3>1, InboxTyped DEF TypeInv, TypeOK, TypeClaude,
        DeliverChannel, ghosts
  <2> QED BY <1>8, <2>1, <2>2 DEF TypeInv, TypeOK, TypeLife, TypeLock,
      TypeReader, TypeSteer, TypeHost, DeliverChannel, life, lockSt, turnSt,
      hostSide, steerSt, others, ghosts
<1>9. CASE DeliverStdin
  <2>1. TypeClaude'
    <3>1. sending \in Inputs \cup {Escape}
      BY <1>9 DEF TypeInv, DeliverStdin, Inputs
    <3> QED BY <1>9, <3>1, InboxTyped DEF TypeInv, TypeOK, TypeClaude,
        DeliverStdin, ghosts
  <2> QED BY <1>9, <2>1 DEF TypeInv, TypeOK, TypeLife, TypeLock, TypeReader,
      TypeSend, TypeSteer, TypeHost, Procs, FgType, ScanType, DeliverStdin,
      lockSt, turnSt, locals, hostSide, steerSt, others, ghosts
<1>10. CASE DeliverFailed
  <2>1. TypeLife'
    <3>1. CASE channelDown' = channelDown
      BY <1>10, <3>1 DEF TypeInv, TypeOK, TypeLife, DeliverFailed
    <3>2. CASE channelDown' = ("channel" \in Env)
      BY <1>10, <3>2 DEF TypeInv, TypeOK, TypeLife, DeliverFailed
    <3> QED BY <1>10, <3>1, <3>2 DEF DeliverFailed
  <2> QED BY <1>10, <2>1 DEF TypeInv, TypeOK, TypeLock, TypeReader, TypeSend,
      TypeSteer, TypeHost, TypeClaude, DeliverFailed, Finish, lockSt, turnSt,
      reader, claude, ghosts, hostSide, steerSt, others
<1> QED BY <1>1, <1>2, <1>3, <1>4, <1>5, <1>6, <1>7, <1>8, <1>9, <1>10 DEF Send

(* The scan of a batch keeps the types. *)
LEMMA ScanTypedStep ==
  ASSUME TypeInv, Scan
  PROVE  TypeInv'
<1>1. CASE ScanEcho
  <2>1. TypeLock'
    BY <1>1 DEF TypeInv, TypeOK, TypeLife, TypeLock, TypeReader, TypeSend,
       ScanEcho, Scanning, Rec, NextRecord, Starts, ScanFrame, FgType,
       ScanType, ProcOrNone, SteerOrNone, Procs
  <2>2. TypeReader'
    BY <1>1, RecTyped DEF TypeInv, TypeOK, TypeReader, ScanEcho, ScanFrame,
       claude
  <2>3. TypeSend'
    <3>1. NextRecord \in ScanType /\ NextRecord.started \in BOOLEAN
       /\ Starts \in BOOLEAN
      BY <1>1, RecTyped DEF TypeInv, TypeOK, ScanEcho, ScanType, Starts
    <3>2. scan' \in ScanType
      <4>1. \A u \in BOOLEAN : [NextRecord EXCEPT !.started = u] \in ScanType
        BY <3>1 DEF ScanType
      <4> QED BY <1>1, <3>1, <4>1 DEF ScanEcho
    <3>3. fg' \in FgType
      BY <1>1, FgTyped, NoneTyped DEF TypeInv, TypeOK, TypeSend, ScanEcho
    <3> QED BY <1>1, <3>2, <3>3 DEF TypeInv, TypeOK, TypeSend, ScanEcho,
        ScanFrame
  <2> QED BY <1>1, <2>1, <2>2, <2>3 DEF TypeInv, TypeOK, TypeLife, TypeSteer,
      TypeHost, TypeClaude, ScanEcho, Scanning, Rec, NextRecord, Starts,
      ScanFrame, life, others, claude
<1>2. CASE ScanEnqueue
  <2>1. TypeReader'
    BY <1>2, RecTyped DEF TypeInv, TypeOK, TypeReader, ScanEnqueue, ScanFrame,
       claude
  <2>2. TypeSend'
    <3>1. NextRecord \in ScanType /\ NextRecord.enq \in SteerOrNone
       /\ pending \in SteerOrNone
      BY <1>2, RecTyped DEF TypeInv, TypeOK, TypeLock, ScanEnqueue, ScanType
    <3>2. scan' \in ScanType
      <4>1. \A u \in SteerOrNone : [NextRecord EXCEPT !.enq = u] \in ScanType
        BY <3>1 DEF ScanType
      <4> QED BY <1>2, <3>1, <4>1 DEF ScanEnqueue
    <3>3. fg' \in FgType
      <4>1. fg \in FgType /\ (fg.confirm
         /\ (scan.started \/ Rec.i # sending)) \in BOOLEAN
        BY DEF TypeInv, TypeOK, TypeSend, FgType
      <4>2. \A u \in BOOLEAN : [fg EXCEPT !.confirm = u] \in FgType
        BY <4>1 DEF FgType
      <4> QED BY <1>2, <4>1, <4>2 DEF ScanEnqueue
    <3> QED BY <1>2, <3>2, <3>3 DEF TypeInv, TypeOK, TypeSend, ScanEnqueue,
        ScanFrame
  <2>3. TypeSteer'
    <3>1. TypeSteer /\ \A r \in ReceiptType :
            [r EXCEPT !.enqueued = TRUE] \in ReceiptType
      BY DEF TypeInv, TypeOK, ReceiptType
    <3>2. \A s \in Steers : receipt[s] \in ReceiptType
      BY <3>1 DEF TypeSteer
    <3>3. \A s : [receipt EXCEPT ![s].enqueued = TRUE]
                     \in [Steers -> ReceiptType]
      BY <3>1, <3>2 DEF TypeSteer
    <3>4. receipt' \in [Steers -> ReceiptType]
      BY <1>2, <3>1, <3>3 DEF ScanEnqueue, TypeSteer
    <3> QED BY <1>2, <3>1, <3>4 DEF TypeSteer, ScanEnqueue, ScanFrame
  <2> QED BY <1>2, <2>1, <2>2, <2>3 DEF TypeInv, TypeOK, TypeLife, TypeLock,
      TypeHost, TypeClaude, ScanEnqueue, turnSt, ScanFrame, life, others,
      claude
<1>3. CASE ScanRoute
  <2>1. TypeLock'
    BY <1>3, NoneTyped DEF TypeInv, TypeOK, TypeLock, ScanRoute, ScanFrame
  <2>2. TypeReader'
    BY <1>3, RecTyped DEF TypeInv, TypeOK, TypeReader, ScanRoute, ScanFrame,
       claude
  <2>3. TypeSend'
    <3>1. NextRecord \in ScanType /\ NextRecord.started \in BOOLEAN
       /\ Starts \in BOOLEAN
      BY <1>3, RecTyped DEF TypeInv, TypeOK, ScanRoute, ScanType, Starts
    <3>2. scan' \in ScanType
      <4>1. \A u \in BOOLEAN : [NextRecord EXCEPT !.started = u] \in ScanType
        BY <3>1 DEF ScanType
      <4> QED BY <1>3, <3>1, <4>1 DEF ScanRoute
    <3>3. fg' \in FgType
      <4>1. fg \in FgType /\ pending \in SteerOrNone
        BY DEF TypeInv, TypeOK, TypeSend, TypeLock
      <4>2. [fg EXCEPT !.followup = pending,
         !.followStarted = FALSE] \in FgType
        BY <4>1 DEF FgType
      <4> QED BY <1>3, <4>1, <4>2 DEF ScanRoute
    <3> QED BY <1>3, <3>2, <3>3 DEF TypeInv, TypeOK, TypeSend, ScanRoute,
        ScanFrame
  <2> QED BY <1>3, <2>1, <2>2, <2>3 DEF TypeInv, TypeOK, TypeLife, TypeSteer,
      TypeHost, TypeClaude, ScanRoute, Scanning, Rec, NextRecord, Starts,
      Routes, ScanFrame, life, others, claude
<1>4. CASE ScanTerminal
  <2>1. TypeLock'
    BY <1>4, NoneTyped DEF TypeInv, TypeOK, TypeLock, ScanTerminal, ScanFrame
  <2>2. TypeReader'
    BY <1>4, RecTyped DEF TypeInv, TypeOK, TypeReader, ScanTerminal, ScanFrame,
       claude
  <2>3. TypeSend'
    <3>1. NextRecord \in ScanType /\ NextRecord.unc \in SteerOrNone
       /\ pending \in SteerOrNone
      BY <1>4, RecTyped DEF TypeInv, TypeOK, TypeLock, ScanTerminal, ScanType
    <3>2. scan' \in ScanType
      <4>1. \A u \in SteerOrNone : [NextRecord EXCEPT !.unc = u] \in ScanType
        BY <3>1 DEF ScanType
      <4>2. [NextRecord EXCEPT !.done = TRUE] \in ScanType
        BY <3>1 DEF ScanType
      <4> QED BY <1>4, <3>1, <4>1, <4>2 DEF ScanTerminal
    <3>3. fg' \in FgType
      BY <1>4, FgTyped, NoneTyped DEF TypeInv, TypeOK, TypeSend, ScanTerminal
    <3> QED BY <1>4, <3>2, <3>3 DEF TypeInv, TypeOK, TypeSend, ScanTerminal,
        ScanFrame
  <2>4. TypeClaude'
    BY <1>4, RecTyped DEF TypeInv, TypeOK, TypeClaude, ScanTerminal, ScanFrame,
       claude
  <2> QED BY <1>4, <2>1, <2>2, <2>3, <2>4 DEF TypeInv, TypeOK, TypeLife,
      TypeSteer, TypeHost, ScanTerminal, ScanFrame, life, others, claude
<1>5. CASE ScanForeignTerminal
  <2>1. TypeReader'
    BY <1>5, RecTyped DEF TypeInv, TypeOK, TypeReader, ScanForeignTerminal,
       ScanFrame, claude
  <2>2. TypeSend'
    <3>1. scan' \in ScanType
      BY <1>5, RecTyped DEF TypeInv, TypeOK, ScanForeignTerminal
    <3> QED BY <1>5, <3>1 DEF TypeInv, TypeOK, TypeSend, ScanForeignTerminal,
        ScanFrame
  <2>3. TypeClaude'
    BY <1>5, RecTyped DEF TypeInv, TypeOK, TypeClaude, ScanForeignTerminal,
       ScanFrame, claude
  <2> QED BY <1>5, <2>1, <2>2, <2>3 DEF TypeInv, TypeOK, TypeLife, TypeLock,
      TypeSteer, TypeHost, ScanForeignTerminal, turnSt, ScanFrame, life,
      others, claude
<1>6. CASE ScanFailure
  <2>1. TypeReader'
    BY <1>6, RecTyped DEF TypeInv, TypeOK, TypeReader, ScanFailure, ScanFrame,
       claude
  <2>2. TypeSend'
    <3>1. NextRecord \in ScanType /\ NextRecord.err \in BOOLEAN
       /\ NextRecord.lim \in BOOLEAN
      BY <1>6, RecTyped DEF TypeInv, TypeOK, ScanFailure, ScanType
    <3>2. scan' \in ScanType
      <4>1. \A u, v \in BOOLEAN : [NextRecord EXCEPT !.err = u,
         !.lim = v] \in ScanType
        BY <3>1 DEF ScanType
      <4> QED BY <1>6, <3>1, <4>1 DEF ScanFailure
    <3> QED BY <1>6, <3>2 DEF TypeInv, TypeOK, TypeSend, ScanFailure, ScanFrame
  <2>3. TypeClaude'
    BY <1>6, RecTyped DEF TypeInv, TypeOK, TypeClaude, ScanFailure, ScanFrame,
       claude
  <2> QED BY <1>6, <2>1, <2>2, <2>3 DEF TypeInv, TypeOK, TypeLife, TypeLock,
      TypeSteer, TypeHost, ScanFailure, turnSt, ScanFrame, life, others, claude
<1>7. CASE ScanEnd
  <2>1. TypeLock'
    <3>1. scan.enq \in SteerOrNone /\ NoProc \in ProcOrNone
      BY NoneTyped DEF TypeInv, TypeOK, TypeSend, ScanType
    <3> QED BY <1>7, <3>1 DEF TypeInv, TypeOK, TypeLock, ScanEnd, Reattaches,
        FailedSteer, SteerOrNone
  <2>2. TypeSend'
    <3>1. scan' \in ScanType
      <4>1. scan \in ScanType /\ None \in SteerOrNone
        BY NoneTyped DEF TypeInv, TypeOK, TypeSend
      <4>2. /\ [scan EXCEPT !.unc = None, !.enq = None] \in ScanType
            /\ [scan EXCEPT !.done = TRUE, !.unc = None,
               !.enq = None] \in ScanType
        BY <4>1 DEF ScanType
      <4> QED BY <1>7, <4>1, <4>2 DEF ScanEnd
    <3>2. fg' \in FgType
      BY <1>7, FgTyped, NoneTyped DEF TypeInv, TypeOK, TypeSend, ScanEnd
    <3> QED BY <1>7, <3>1, <3>2 DEF TypeInv, TypeOK, TypeSend, ScanEnd
  <2>3. TypeSteer'
    BY <1>7 DEF TypeInv, TypeOK, TypeSteer, ScanEnd, Releases, Failed, Resolve,
       Reattaches, FailedSteer, ReceiptType
  <2> QED BY <1>7, <2>1, <2>2, <2>3 DEF TypeInv, TypeOK, TypeLife, TypeReader,
      TypeHost, TypeClaude, ScanEnd, Releases, Failed, Resolve, Reattaches,
      FailedSteer, life, reader, claude, ghosts, others
<1> QED BY <1>1, <1>2, <1>3, <1>4, <1>5, <1>6, <1>7 DEF Scan

(* So does the rest of a round of the polling loop, and what cuts it short. *)
LEMMA RoundTyped ==
  ASSUME TypeInv, LoopCrash \/ LoopPoll \/ Read \/ Emit \/ LoopTimeout \/ HostCancel
  PROVE  TypeInv'
<1>1. CASE LoopCrash
  BY <1>1 DEF TypeInv, TypeOK, TypeLife, TypeLock, TypeReader, TypeSend,
     TypeSteer, TypeHost, TypeClaude, LoopCrash, Exit, Finish, life, lockSt,
     turnSt, reader, claude, ghosts, hostSide, steerSt, others
<1>2. CASE Read
  <2>1. TypeSend'
    <3>1. prefetched \o unread \in Seq(Record) /\ fg.started \in BOOLEAN
       /\ fg.hadMsgs \in BOOLEAN
      BY DEF TypeInv, TypeOK, TypeReader, TypeSend, FgType
    <3>2. fg' \in FgType
      BY <1>2, <3>1, FgTyped, NoneTyped DEF TypeInv, TypeOK, TypeSend, Read
    <3>3. scan' \in ScanType
      BY <1>2, <3>1, ScanInitTyped, ScanTyped, NoneTyped DEF Read
    <3> QED BY <1>2, <3>2, <3>3 DEF TypeInv, TypeOK, TypeSend, Read
  <2> QED BY <1>2, <2>1 DEF TypeInv, TypeOK, TypeLife, TypeLock, TypeReader,
      TypeSteer, TypeHost, TypeClaude, Read, life, turnSt, hostSide, steerSt,
      others, ghosts
<1>3. CASE Emit
  <2>1. TypeLock'
    BY <1>3 DEF TypeInv, TypeOK, TypeLife, TypeLock, TypeSend, Emit, FgType,
       ScanType, ProcOrNone, SteerOrNone, Procs
  <2>2. TypeSend'
    BY <1>3 DEF TypeInv, TypeOK, TypeSend, Emit, FgType, ScanType
  <2> QED BY <1>3, <2>1, <2>2 DEF TypeInv, TypeOK, TypeLife, TypeReader,
      TypeSteer, TypeHost, TypeClaude, Emit, life, reader, claude, ghosts,
      hostSide, steerSt, others
<1>4. CASE LoopTimeout
  BY <1>4 DEF TypeInv, TypeOK, TypeLife, TypeLock, TypeReader, TypeSend,
     TypeSteer, TypeHost, TypeClaude, LoopTimeout, Exit, Finish, life, lockSt,
     turnSt, reader, claude, ghosts, hostSide, steerSt, others
<1>5. CASE HostCancel
  BY <1>5 DEF TypeInv, TypeOK, TypeLife, TypeLock, TypeReader, TypeSend,
     TypeSteer, TypeHost, TypeClaude, HostCancel, Exit, Finish, life, lockSt,
     turnSt, reader, claude, ghosts, hostSide, steerSt, others
<1>6. CASE LoopPoll
  BY <1>6 DEF TypeInv, TypeOK, TypeLife, TypeLock, TypeReader, TypeSend,
     TypeSteer, TypeHost, TypeClaude, LoopPoll, life, lockSt, turnSt, reader,
     claude, ghosts, locals, hostSide, steerSt, others
<1> QED BY <1>1, <1>2, <1>3, <1>4, <1>5, <1>6

(* The decision at the end of a round keeps the types. *)
LEMMA DecideTyped ==
  ASSUME TypeInv, Decide \/ DecideResend
  PROVE  TypeInv'
<1>1. CASE DecideComplete
  <2>1. TypeLock'
    BY <1>1 DEF TypeInv, TypeOK, TypeLock, DecideComplete, Goes, DeferredTest,
       DeferredOver, Finish, DecideFrame, ProcOrNone, SteerOrNone
  <2>2. TypeSend'
    BY <1>1 DEF TypeInv, TypeOK, TypeSend, DecideComplete, Goes, DeferredTest,
       DeferredOver, Finish, DecideFrame, FgType, ScanType
  <2>3. TypeClaude'
    BY <1>1 DEF TypeInv, TypeOK, TypeClaude, DecideComplete, Goes,
       DeferredTest, DeferredOver, Finish, DecideFrame, ghosts, CCType
  <2> QED BY <1>1, <2>1, <2>2, <2>3 DEF TypeInv, TypeOK, TypeLife, TypeReader,
      TypeSteer, TypeHost, DecideComplete, Goes, DeferredTest, DeferredOver,
      Finish, DecideFrame, life, hostSide, steerSt, others, ghosts
<1>2. CASE DecideApiError
  BY <1>2 DEF TypeInv, TypeOK, TypeLife, TypeLock, TypeReader, TypeSend,
     TypeSteer, TypeHost, TypeClaude, FgType, ScanType, DecideApiError,
     Unfinished, Goes, DeferredTest, DeferredOver, Exit, Finish, life, lockSt,
     turnSt, reader, claude, ghosts, hostSide, steerSt, others
<1>3. CASE DecideLimit
  BY <1>3 DEF TypeInv, TypeOK, TypeLife, TypeLock, TypeReader, TypeSend,
     TypeSteer, TypeHost, TypeClaude, FgType, ScanType, DecideLimit,
     Unfinished, Goes, DeferredTest, DeferredOver, Exit, Finish, life, lockSt,
     turnSt, reader, claude, ghosts, hostSide, steerSt, others
<1>4. CASE DecideBanner
  BY <1>4 DEF TypeInv, TypeOK, TypeLife, TypeLock, TypeReader, TypeSend,
     TypeSteer, TypeHost, TypeClaude, FgType, ScanType, DecideBanner,
     Unfinished, Goes, DeferredTest, DeferredOver, Failed, Exit, Finish, life,
     lockSt, turnSt, reader, claude, ghosts, hostSide, steerSt, others
<1>5. CASE DecideAgain
  <2>1. TypeSend'
    BY <1>5 DEF TypeInv, TypeOK, TypeLife, TypeLock, TypeSend, TypeClaude,
       DecideAgain, Unfinished, Goes, DeferredTest, DeferredOver, Failed,
       ScanInit, DecideFrame, FgType, ScanType, ProcOrNone, SteerOrNone, Procs,
       CCType
  <2>2. TypeClaude'
    BY <1>5 DEF TypeInv, TypeOK, TypeClaude, DecideAgain, Unfinished, Goes,
       DeferredTest, DeferredOver, Failed, ScanInit, DecideFrame, ghosts,
       CCType
  <2> QED BY <1>5, <2>1, <2>2 DEF TypeInv, TypeOK, TypeLife, TypeLock,
      TypeReader, TypeSteer, TypeHost, DecideAgain, Unfinished, Goes,
      DeferredTest, DeferredOver, Failed, ScanInit, DecideFrame, life,
      hostSide, steerSt, others, ghosts
<1>6. CASE DecideResend
  <2>1. TypeLife'
    BY <1>6 DEF TypeInv, TypeOK, TypeLife, DecideResend, Unfinished, Goes,
       DeferredTest, DeferredOver, Finish, Procs
  <2>2. TypeSend'
    BY <1>6 DEF TypeInv, TypeOK, TypeSend, DecideResend, Unfinished, Goes,
       DeferredTest, DeferredOver, Finish, FgType, ScanType
  <2>3. TypeClaude'
    <3>1. sending \in Inputs \cup {Escape}
      BY <1>6 DEF TypeInv, DecideResend, Unfinished, Goes, Inputs
    <3> QED BY <1>6, <3>1, InboxTyped DEF TypeInv, TypeOK, TypeClaude,
        DecideResend, ghosts
  <2> QED BY <1>6, <2>1, <2>2, <2>3 DEF TypeInv, TypeOK, TypeLock, TypeReader,
      TypeSteer, TypeHost, DecideResend, Unfinished, Goes, DeferredTest,
      DeferredOver, Finish, lockSt, turnSt, hostSide, steerSt, others, ghosts
<1> QED BY <1>1, <1>2, <1>3, <1>4, <1>5, <1>6 DEF Decide

(* The finally clause of send_prompt keeps the types. *)
LEMMA FinallyTyped ==
  ASSUME TypeInv, Finally
  PROVE  TypeInv'
<1>1. CASE FinallyDetach
  <2>1. TypeLock'
    <3>1. TypeLock /\ TypeSteer /\ TypeHost /\ "consumer" \in Stoppers
      BY DEF TypeInv, TypeOK, Stoppers
    <3> QED BY <1>1, <3>1, DetachTyped DEF TypeLock, FinallyDetach
  <2>2. TypeSend'
    BY <1>1 DEF TypeInv, TypeOK, TypeSend, FinallyDetach, Detach, Resolve,
       locals, FgType, ScanType
  <2>3. TypeSteer'
    BY <1>1 DEF TypeInv, TypeOK, TypeSteer, FinallyDetach, Detach, Resolve,
       ReceiptType
  <2>4. TypeHost'
    <3>1. TypeLock /\ TypeSteer /\ TypeHost /\ "consumer" \in Stoppers
      BY DEF TypeInv, TypeOK, Stoppers
    <3>2. reaping' \in [Stoppers -> ReapType]
      BY <1>1, <3>1, DetachTyped DEF FinallyDetach
    <3> QED BY <1>1, <3>1, <3>2 DEF TypeHost, FinallyDetach, others
  <2> QED BY <1>1, <2>1, <2>2, <2>3, <2>4 DEF TypeInv, TypeOK, TypeLife,
      TypeReader, TypeClaude, FinallyDetach, Detach, Resolve, life, reader,
      claude, ghosts, locals, others
<1>2. CASE FinallyReap
  <2>1. TypeLife'
    BY <1>2 DEF TypeInv, TypeOK, TypeLife, FinallyReap, Reap, Kill, Quiet,
       Resolve, NoReap, FgInit, ScanInit, Procs
  <2>2. TypeSend'
    <3>1. fg' \in FgType /\ scan' \in ScanType
      BY <1>2, FgInitTyped, ScanInitTyped DEF FinallyReap
    <3> QED BY <1>2, <3>1 DEF TypeInv, TypeOK, TypeSend, FinallyReap
  <2>3. TypeSteer'
    BY <1>2 DEF TypeInv, TypeOK, TypeSteer, FinallyReap, Reap, Kill, Quiet,
       Resolve, NoReap, FgInit, ScanInit, ReceiptType
  <2>4. TypeHost'
    <3>1. TypeLife /\ TypeClaude /\ TypeSteer /\ TypeHost
       /\ "consumer" \in Stoppers
      BY DEF TypeInv, TypeOK, Stoppers
    <3>2. reaping' \in [Stoppers -> ReapType]
      BY <1>2, <3>1, ReapTyped DEF FinallyReap
    <3> QED BY <1>2, <3>1, <3>2 DEF TypeHost, FinallyReap, others, ghosts
  <2>5. TypeClaude'
    <3>1. TypeLife /\ TypeClaude /\ TypeSteer /\ TypeHost
       /\ "consumer" \in Stoppers
      BY DEF TypeInv, TypeOK, Stoppers
    <3>2. cc' \in CCType
      BY <1>2, <3>1, ReapTyped DEF FinallyReap
    <3> QED BY <1>2, <3>1, <3>2 DEF TypeClaude, FinallyReap, others, ghosts
  <2> QED BY <1>2, <2>1, <2>2, <2>3, <2>4, <2>5 DEF TypeInv, TypeOK, TypeLock,
      TypeReader, FinallyReap, Reap, Kill, Quiet, Resolve, NoReap, FgInit,
      ScanInit, lockSt, turnSt, others, ghosts
<1> QED BY <1>1, <1>2 DEF Finally

(* steer_active_turn keeps the types. *)
LEMMA SteerTyped ==
  ASSUME TypeInv, NEW s \in Steers,
         \/ Steer(s) \/ SteerCall(s) \/ SteerWriteFailed(s) \/ SteerDeadline(s)
         \/ CCForeign(s)
  PROVE  TypeInv'
<1>1. CASE SteerRefused(s)
  BY <1>1 DEF TypeInv, TypeOK, TypeLife, TypeLock, TypeReader, TypeSend,
     TypeSteer, TypeHost, TypeClaude, SteerRefused, Return, lockSt, turnSt,
     claude, SteerFrame, locals, others, ghosts
<1>2. CASE SteerTooLate(s)
  BY <1>2 DEF TypeInv, TypeOK, TypeLife, TypeLock, TypeReader, TypeSend,
     TypeSteer, TypeHost, TypeClaude, ProcOrNone, SteerOrNone, ReceiptType,
     SteerTooLate, SteerMayEnter, AdmissionFree, Busy, Admissible,
     TerminalUnread, HandedBack, Return, SteerFrame, locals, others, ghosts
<1>3. CASE SteerAdmit(s)
  <2>1. TypeSteer'
    <3>1. Ids(unread) \subseteq 1 .. MaxRecords /\ process \in ProcOrNone
      BY IdsTyped, NoneTyped DEF TypeInv, TypeOK, TypeReader, TypeLife
    <3>2. receipt[s] \in ReceiptType
      BY DEF TypeInv, TypeOK, TypeSteer
    <3>3. [receipt[s] EXCEPT !.proc = process,
       !.prewrite = Ids(unread)] \in ReceiptType
      BY <3>1, <3>2, ReceiptTyped DEF TypeInv, TypeOK
    <3> QED BY <1>3, <3>3 DEF TypeInv, TypeOK, TypeSteer, SteerAdmit
  <2> QED BY <1>3, <2>1 DEF TypeInv, TypeOK, TypeLife, TypeLock, TypeReader,
      TypeSend, TypeHost, TypeClaude, ProcOrNone, SteerOrNone, SteerAdmit,
      SteerMayEnter, AdmissionFree, Busy, Admissible, TerminalUnread,
      HandedBack, Ids, SteerFrame, locals, others, ghosts
<1>4. CASE SteerWritten(s)
  <2>1. TypeClaude'
    <3>1. s \in Inputs \cup {Escape}
      BY DEF Inputs
    <3> QED BY <1>4, <3>1, InboxTyped DEF TypeInv, TypeOK, TypeClaude,
        SteerWritten, SteerFrame, ghosts
  <2> QED BY <1>4, <2>1 DEF TypeInv, TypeOK, TypeLife, TypeLock, TypeReader,
      TypeSend, TypeSteer, TypeHost, SteerWritten, turnSt, SteerFrame, locals,
      others, ghosts
<1>5. CASE SteerFailClosed(s)
  <2>1. TypeLock'
    BY <1>5, NoneTyped DEF TypeInv, TypeOK, TypeLock, SteerFailClosed,
       SteerFrame
  <2> QED BY <1>5, <2>1 DEF TypeInv, TypeOK, TypeLife, TypeReader, TypeSend,
      TypeSteer, TypeHost, TypeClaude, ReceiptType, SteerFailClosed, Resolve,
      claude, SteerFrame, locals, others, ghosts
<1>6. CASE SteerReap(s)
  <2>1. TypeLife'
    BY <1>6 DEF TypeInv, TypeOK, TypeLife, SteerReap, Kill, Return, SteerFrame,
       Procs
  <2>2. TypeSteer'
    BY <1>6 DEF TypeInv, TypeOK, TypeSteer, SteerReap, Kill, Return,
       SteerFrame, ReceiptType
  <2>3. TypeClaude'
    <3>1. cc' \in CCType
      BY <1>6, KillTyped DEF TypeInv, TypeOK, TypeSteer, ReceiptType, SteerReap
    <3> QED BY <1>6, <3>1 DEF TypeInv, TypeOK, TypeClaude, SteerReap,
        SteerFrame, ghosts
  <2> QED BY <1>6, <2>1, <2>2, <2>3 DEF TypeInv, TypeOK, TypeLock, TypeReader,
      TypeSend, TypeHost, SteerReap, Kill, Return, lockSt, turnSt, SteerFrame,
      locals, others, ghosts
<1>7. CASE SteerAcknowledged(s)
  BY <1>7 DEF TypeInv, TypeOK, TypeLife, TypeLock, TypeReader, TypeSend,
     TypeSteer, TypeHost, TypeClaude, SteerAcknowledged, Return, lockSt,
     turnSt, claude, SteerFrame, locals, others, ghosts
<1>8. CASE SteerCall(s)
  <2>1. TypeSteer'
    <3>1. \A e \in {NoProc,
       active} : [receipt[s] EXCEPT !.expect = e] \in ReceiptType
      BY ReceiptTyped, NoneTyped DEF TypeInv, TypeOK, TypeSteer, TypeLock
    <3> QED BY <1>8, <3>1 DEF TypeInv, TypeOK, TypeSteer, SteerCall
  <2> QED BY <1>8, <2>1 DEF TypeInv, TypeOK, TypeLife, TypeLock, TypeReader,
      TypeSend, TypeHost, TypeClaude, SteerCall, lockSt, turnSt, claude,
      SteerFrame, locals, others, ghosts
<1>9. CASE SteerWriteFailed(s)
  <2>1. TypeClaude'
    <3>1. s \in Inputs \cup {Escape}
      BY DEF Inputs
    <3> QED BY <1>9, <3>1, InboxTyped DEF TypeInv, TypeOK, TypeClaude,
        SteerWriteFailed, SteerFrame, ghosts
  <2> QED BY <1>9, <2>1 DEF TypeInv, TypeOK, TypeLife, TypeLock, TypeReader,
      TypeSend, TypeSteer, TypeHost, ProcOrNone, SteerOrNone, ReceiptType,
      SteerWriteFailed, UnlockOnError, turnSt, SteerFrame, locals, others,
      ghosts
<1>10. CASE SteerDeadline(s)
  <2>1. TypeSteer'
    <3>1. [receipt[s] EXCEPT !.uncertain = TRUE] \in ReceiptType
      BY ReceiptTyped, NoneTyped DEF TypeInv, TypeOK, TypeSteer
    <3> QED BY <1>10, <3>1 DEF TypeInv, TypeOK, TypeSteer, SteerDeadline,
        Return
  <2> QED BY <1>10, <2>1 DEF TypeInv, TypeOK, TypeLife, TypeLock, TypeReader,
      TypeSend, TypeHost, TypeClaude, SteerDeadline, Return, lockSt, turnSt,
      claude, SteerFrame, locals, others, ghosts
<1>11. CASE CCForeign(s)
  <2>1. TypeReader'
    <3>1. nrec + 1 \in 1 .. MaxRecords /\ nrec + 2 \in 1 .. MaxRecords
      BY <1>11, BoundsAssumption DEF TypeInv, TypeOK, TypeReader, CCForeign
    <3>2. /\ [k |-> "enq", i |-> s, id |-> nrec + 1, t |-> {}] \in Record
          /\ [k |-> "rem", i |-> s, id |-> nrec + 2, t |-> {}] \in Record
      BY <3>1 DEF Record, Inputs
    <3>3. unread' \in Seq(Record)
      BY <1>11, <3>2 DEF TypeInv, TypeOK, TypeReader, CCForeign
    <3> QED BY <1>11, <3>1, <3>3 DEF TypeInv, TypeOK, TypeReader, CCForeign,
        CCRuns, CCFrame, ghosts
  <2> QED BY <1>11, <2>1 DEF TypeInv, TypeOK, TypeLife, TypeLock, TypeSend,
      TypeSteer, TypeHost, TypeClaude, CCForeign, CCRuns, CCFrame, lockSt,
      turnSt, locals, hostSide, steerSt, others, ghosts
<1> QED BY <1>1, <1>2, <1>3, <1>4, <1>5, <1>6, <1>7, <1>8, <1>9, <1>10, <1>11
    DEF Steer

(* send_interrupt, stop and the idle watcher keep the types. *)
LEMMA HostTyped ==
  ASSUME TypeInv,
         \/ Host \/ Watch \/ InterruptMark \/ StopWatch
         \/ Enter
  PROVE  TypeInv'
<1>1. CASE InterruptDetach
  <2>1. TypeLock'
    <3>1. TypeLock /\ TypeSteer /\ TypeHost /\ "interrupt" \in Stoppers
      BY DEF TypeInv, TypeOK, Stoppers
    <3> QED BY <1>1, <3>1, DetachTyped DEF TypeLock, InterruptDetach
  <2>2. TypeHost'
    <3>1. TypeLock /\ TypeSteer /\ TypeHost /\ "interrupt" \in Stoppers
      BY DEF TypeInv, TypeOK, Stoppers
    <3>2. reaping' \in [Stoppers -> ReapType]
      BY <1>1, <3>1, DetachTyped DEF InterruptDetach
    <3> QED BY <1>1, <3>1, <3>2 DEF TypeHost, InterruptDetach, HostFrame
  <2> QED BY <1>1, <2>1, <2>2 DEF TypeInv, TypeOK, TypeLife, TypeReader,
      TypeSend, TypeSteer, TypeClaude, ReceiptType, InterruptDetach, Detach,
      Resolve, HostFrame, locals
<1>2. CASE InterruptReap
  <2>1. TypeHost'
    <3>1. TypeLife /\ TypeClaude /\ TypeSteer /\ TypeHost
       /\ "interrupt" \in Stoppers
      BY DEF TypeInv, TypeOK, Stoppers
    <3>2. reaping' \in [Stoppers -> ReapType]
      BY <1>2, <3>1, ReapTyped DEF InterruptReap
    <3> QED BY <1>2, <3>1, <3>2 DEF TypeHost, InterruptReap, HostFrame
  <2>2. TypeClaude'
    <3>1. TypeLife /\ TypeClaude /\ TypeSteer /\ TypeHost
       /\ "interrupt" \in Stoppers
      BY DEF TypeInv, TypeOK, Stoppers
    <3>2. cc' \in CCType
      BY <1>2, <3>1, ReapTyped DEF InterruptReap
    <3> QED BY <1>2, <3>1, <3>2 DEF TypeClaude, InterruptReap, HostFrame
  <2>3. TypeLife' /\ TypeSteer'
    <3>1. TypeLife /\ TypeClaude /\ TypeSteer /\ TypeHost
       /\ "interrupt" \in Stoppers
      BY DEF TypeInv, TypeOK, Stoppers
    <3>2. /\ alive' \in [Procs -> BOOLEAN]
          /\ ack' \in [Steers -> {"open", "true", "false"}]
      BY <1>2, <3>1, ReapTyped DEF InterruptReap
    <3> QED BY <1>2, <3>1, <3>2 DEF TypeLife, TypeSteer, InterruptReap, HostFrame
  <2>4. TypeLock' /\ TypeReader' /\ TypeSend'
    BY <1>2 DEF TypeInv, TypeOK, TypeLock, TypeReader, TypeSend, InterruptReap,
       lockSt, turnSt, HostFrame, locals
  <2>5. UNCHANGED <<pc, sending, process, restarts>>
    BY <1>2 DEF InterruptReap, HostFrame
  <2> QED BY <2>1, <2>2, <2>3, <2>4, <2>5 DEF TypeInv, TypeOK
<1>3. CASE InterruptEscape
  <2>1. TypeHost'
    BY <1>3 DEF TypeInv, TypeOK, TypeHost, InterruptEscape, HostFrame, ReapType
  <2>2. TypeClaude'
    BY <1>3, InboxTyped DEF TypeInv, TypeOK, TypeClaude, InterruptEscape,
       HostFrame
  <2> QED BY <1>3, <2>1, <2>2 DEF TypeInv, TypeOK, TypeLife, TypeLock,
      TypeReader, TypeSend, TypeSteer, InterruptEscape, lockSt, turnSt,
      HostFrame, locals
<1>4. CASE StopReap
  <2>1. TypeHost'
    <3>1. TypeLife /\ TypeClaude /\ TypeSteer /\ TypeHost
       /\ "stop" \in Stoppers
      BY DEF TypeInv, TypeOK, Stoppers
    <3>2. reaping' \in [Stoppers -> ReapType]
      BY <1>4, <3>1, ReapTyped DEF StopReap
    <3> QED BY <1>4, <3>1, <3>2 DEF TypeHost, StopReap, HostFrame
  <2>2. TypeClaude'
    <3>1. TypeLife /\ TypeClaude /\ TypeSteer /\ TypeHost
       /\ "stop" \in Stoppers
      BY DEF TypeInv, TypeOK, Stoppers
    <3>2. cc' \in CCType
      BY <1>4, <3>1, ReapTyped DEF StopReap
    <3> QED BY <1>4, <3>1, <3>2 DEF TypeClaude, StopReap, HostFrame
  <2>3. TypeLife' /\ TypeSteer'
    <3>1. TypeLife /\ TypeClaude /\ TypeSteer /\ TypeHost
       /\ "stop" \in Stoppers
      BY DEF TypeInv, TypeOK, Stoppers
    <3>2. /\ alive' \in [Procs -> BOOLEAN]
          /\ ack' \in [Steers -> {"open", "true", "false"}]
      BY <1>4, <3>1, ReapTyped DEF StopReap
    <3> QED BY <1>4, <3>1, <3>2 DEF TypeLife, TypeSteer, StopReap, HostFrame
  <2>4. TypeLock' /\ TypeReader' /\ TypeSend'
    BY <1>4 DEF TypeInv, TypeOK, TypeLock, TypeReader, TypeSend, StopReap,
       lockSt, turnSt, HostFrame, locals
  <2>5. UNCHANGED <<pc, sending, process, restarts>>
    BY <1>4 DEF StopReap, HostFrame
  <2> QED BY <2>1, <2>2, <2>3, <2>4, <2>5 DEF TypeInv, TypeOK
<1>5. CASE InterruptMark
  <2>1. TypeLock'
    BY <1>5 DEF TypeInv, TypeOK, TypeLock, InterruptMark, HostFrame
  <2>2. TypeHost'
    BY <1>5 DEF TypeInv, TypeOK, TypeLock, TypeSend, TypeHost, InterruptMark,
       HostFrame
  <2> QED BY <1>5, <2>1, <2>2 DEF TypeInv, TypeOK, TypeLife, TypeReader,
      TypeSend, TypeSteer, TypeClaude, InterruptMark, HostFrame, locals
<1>6. CASE StopLock
  <2>1. TypeLock'
    BY <1>6, NoneTyped DEF TypeInv, TypeOK, TypeLock, StopLock
  <2>2. TypeReader'
    BY <1>6 DEF TypeInv, TypeOK, TypeReader, StopLock, HostFrame
  <2>3. TypeHost'
    <3>1. [proc |-> process, steer |-> pending] \in ReapType
      BY NoneTyped DEF TypeInv, TypeOK, TypeLife, TypeLock, ReapType
    <3> QED BY <1>6, <3>1 DEF TypeInv, TypeOK, TypeHost, StopLock
  <2> QED BY <1>6, <2>1, <2>2, <2>3 DEF TypeInv, TypeOK, TypeLife, TypeSend,
      TypeSteer, TypeClaude, StopLock, HostFrame, locals
<1>7. CASE WatchWake
  BY <1>7 DEF TypeInv, TypeOK, TypeLife, TypeLock, TypeReader, TypeSend,
     TypeSteer, TypeHost, TypeClaude, WatchWake, lockSt, turnSt, HostFrame,
     locals
<1>8. CASE WatchRead
  <2>1. TypeReader'
    <3>1. prefetched \o unread \in Seq(Record) /\ TypeReader
      BY DEF TypeInv, TypeOK, TypeReader
    <3>2. LastId(prefetched \o unread) \in 0 .. MaxRecords
      BY <3>1, LastIdTyped
    <3> QED BY <1>8, <3>1, <3>2 DEF TypeReader, WatchRead, HostFrame
  <2> QED BY <1>8, <2>1 DEF TypeInv, TypeOK, TypeLife, TypeLock, TypeSend,
      TypeSteer, TypeHost, TypeClaude, WatchRead, turnSt, HostFrame, locals
<1>9. ASSUME NEW p \in Prompts, Acquire(p) PROVE TypeInv'
  BY <1>9 DEF TypeInv, TypeOK, TypeLife, TypeLock, TypeReader, TypeSend,
     TypeSteer, TypeHost, TypeClaude, Acquire, life, lockSt, turnSt, reader,
     claude, ghosts, hostSide, steerSt, others
<1>12. CASE CancelOwn
  BY <1>12 DEF TypeInv, TypeOK, TypeLife, TypeLock, TypeReader, TypeSend,
     TypeSteer, TypeHost, TypeClaude, CancelOwn, life, lockSt, turnSt, reader,
     claude, ghosts, hostSide, steerSt, others
<1>10. CASE WatchLook
  BY <1>10 DEF TypeInv, TypeOK, TypeLife, TypeLock, TypeReader, TypeSend,
     TypeSteer, TypeHost, TypeClaude, WatchLook, turnSt, HostFrame, locals
<1>11. CASE StopWatch
  <2>1. TypeReader'
    <3>1. <<>> \in Seq(Record) /\ TypeReader
      BY DEF TypeInv, TypeOK
    <3>2. prefetched' \in {prefetched, <<>>} /\ unread' \in {unread, <<>>}
      BY <1>11 DEF StopWatch
    <3>3. UNCHANGED <<nrec, consumed>>
      BY <1>11 DEF StopWatch, HostFrame
    <3> QED BY <3>1, <3>2, <3>3 DEF TypeReader
  <2> QED BY <1>11, <2>1 DEF TypeInv, TypeOK, TypeLife, TypeLock, TypeSend,
      TypeSteer, TypeHost, TypeClaude, StopWatch, turnSt, HostFrame, locals
<1> QED BY <1>1, <1>2, <1>3, <1>4, <1>5, <1>6, <1>7, <1>8, <1>9, <1>10, <1>11,
        <1>12 DEF Host, Watch, Enter

(* What Claude Code writes keeps the types. *)
LEMMA ClaudeTyped ==
  ASSUME TypeInv,
         \/ ClaudeStep
         \/ CCNotify \/ CCFailTurn \/ CCBanner \/ CCLose \/ CCDie
  PROVE  TypeInv'
<1>1. CASE CCStart
  <2>1. TypeClaude'
    <3>1. Tail(cc.inbox) \in Seq(Inputs \cup {Escape})
       /\ Head(cc.inbox) \in Inputs
      BY <1>1, CCTyped DEF TypeInv, TypeOK, CCStart, Inputs
    <3>2. \A q \in Seq(Inputs \cup {Escape}), h \in Inputs :
             [cc EXCEPT !.inbox = q, !.turn = {h}, !.echo = h] \in CCType
      BY DEF TypeInv, TypeOK, TypeClaude, CCType
    <3> QED BY <1>1, <3>1, <3>2 DEF TypeInv, TypeOK, TypeClaude, CCStart,
        CCRuns, CCFrame, ghosts
  <2> QED BY <1>1, <2>1 DEF TypeInv, TypeOK, TypeLife, TypeLock, TypeReader,
      TypeSend, TypeSteer, TypeHost, CCStart, CCRuns, CCFrame, lockSt, turnSt,
      locals, hostSide, steerSt, others, ghosts, Silent
<1>2. CASE CCEcho
  <2>1. TypeReader'
    <3>1. cc.echo \in Inputs \cup {None} /\ {} \subseteq Inputs
      BY CCTyped DEF TypeInv, TypeOK
    <3> QED BY <1>2, <3>1, JournalTyped DEF TypeInv, TypeOK, TypeReader,
        CCEcho, CCRuns, CCFrame, ghosts
  <2>2. TypeClaude'
    BY <1>2 DEF TypeInv, TypeOK, TypeClaude, CCEcho, CCRuns, CCFrame, ghosts,
       Journal, CCType
  <2> QED BY <1>2, <2>1, <2>2 DEF TypeInv, TypeOK, TypeLife, TypeLock,
      TypeSend, TypeSteer, TypeHost, CCEcho, CCRuns, CCFrame, lockSt, turnSt,
      locals, hostSide, steerSt, others, ghosts, Journal
<1>3. CASE CCEnqueue
  <2>1. TypeReader'
    <3>1. Head(cc.inbox) \in Inputs
      BY <1>3, CCTyped DEF TypeInv, TypeOK, CCEnqueue
    <3> QED BY <1>3, <3>1, JournalTyped DEF TypeInv, TypeOK, TypeReader,
        CCEnqueue, CCRuns, CCFrame, ghosts
  <2>2. TypeClaude'
    <3>1. Tail(cc.inbox) \in Seq(Inputs \cup {Escape})
       /\ Head(cc.inbox) \in Inputs
      BY <1>3, CCTyped DEF TypeInv, TypeOK, CCEnqueue
    <3>2. Append(cc.queue, Head(cc.inbox)) \in Seq(Inputs)
      BY <3>1, CCTyped DEF TypeInv, TypeOK
    <3> QED BY <1>3, <3>1, <3>2, CCTyped, CCUpdateTyped DEF TypeInv, TypeOK,
        TypeClaude, CCEnqueue, CCRuns, CCFrame, ghosts
  <2> QED BY <1>3, <2>1, <2>2 DEF TypeInv, TypeOK, TypeLife, TypeLock,
      TypeSend, TypeSteer, TypeHost, CCEnqueue, CCRuns, CCFrame, lockSt,
      turnSt, locals, hostSide, steerSt, others, ghosts, Journal
<1>4. CASE CCRemove
  <2>1. TypeReader'
    <3>1. Head(cc.queue) \in Inputs
      BY <1>4, CCTyped DEF TypeInv, TypeOK, CCRemove
    <3> QED BY <1>4, <3>1, JournalTyped DEF TypeInv, TypeOK, TypeReader,
        CCRemove, CCRuns, CCFrame, ghosts
  <2>2. TypeClaude'
    <3>1. Tail(cc.queue) \in Seq(Inputs) /\ Head(cc.queue) \in Inputs
       /\ cc.inbox \in Seq(Inputs \cup {Escape}) /\ cc.turn \subseteq Inputs
      BY <1>4, CCTyped DEF TypeInv, TypeOK, CCRemove
    <3> QED BY <1>4, <3>1, CCUpdateTyped DEF TypeInv, TypeOK, TypeClaude,
        CCRemove, CCRuns, CCFrame, ghosts
  <2>3. TypeLife' /\ TypeLock' /\ TypeSend'
    BY <1>4 DEF TypeInv, TypeOK, TypeLife, TypeLock, TypeSend, CCRemove, CCRuns,
       CCFrame, lockSt, turnSt, locals
  <2>4. TypeSteer' /\ TypeHost'
    BY <1>4 DEF TypeInv, TypeOK, TypeSteer, TypeHost, CCRemove, CCRuns, CCFrame,
       hostSide, steerSt, others
  <2>5. UNCHANGED <<pc, sending, process, restarts>>
    BY <1>4 DEF CCRemove, CCRuns, CCFrame
  <2> QED BY <2>1, <2>2, <2>3, <2>4, <2>5 DEF TypeInv, TypeOK
<1>5. CASE CCDequeue
  <2>1. TypeReader'
    <3>1. Head(cc.queue) \in Inputs
      BY <1>5, CCTyped DEF TypeInv, TypeOK, CCDequeue
    <3> QED BY <1>5, <3>1, JournalTyped DEF TypeInv, TypeOK, TypeReader,
        CCDequeue, CCRuns, CCFrame, ghosts
  <2>2. TypeClaude'
    <3>1. TypeClaude /\ Tail(cc.queue) \in Seq(Inputs)
       /\ Head(cc.queue) \in Inputs
       /\ cc.inbox \in Seq(Inputs \cup {Escape})
      BY <1>5, CCTyped DEF TypeInv, TypeOK, CCDequeue
    <3>2. [cc EXCEPT !.queue = Tail(cc.queue), !.turn = {Head(cc.queue)},
                     !.echo = Head(cc.queue)] \in CCType
      <4>1. \A q \in Seq(Inputs), h \in Inputs :
              [cc EXCEPT !.queue = q, !.turn = {h}, !.echo = h] \in CCType
        BY <3>1 DEF TypeClaude, CCType
      <4> QED BY <3>1, <4>1
    <3>3. cc' \in CCType
      BY <1>5, <3>2 DEF CCDequeue
    <3> QED BY <1>5, <3>1, <3>3 DEF TypeClaude, CCDequeue, CCRuns, CCFrame,
        ghosts
  <2>3. TypeLife' /\ TypeLock' /\ TypeSend'
    BY <1>5 DEF TypeInv, TypeOK, TypeLife, TypeLock, TypeSend, CCDequeue, CCRuns,
       CCFrame, lockSt, turnSt, locals
  <2>4. TypeSteer' /\ TypeHost'
    BY <1>5 DEF TypeInv, TypeOK, TypeSteer, TypeHost, CCDequeue, CCRuns, CCFrame,
       hostSide, steerSt, others
  <2>5. UNCHANGED <<pc, sending, process, restarts>>
    BY <1>5 DEF CCDequeue, CCRuns, CCFrame
  <2> QED BY <2>1, <2>2, <2>3, <2>4, <2>5 DEF TypeInv, TypeOK
<1>6. CASE CCEndTurn
  <2>1. TypeReader'
    BY <1>6, CCTyped, JournalTyped DEF TypeInv, TypeOK, TypeReader, CCEndTurn,
       CloseTurn, CCRuns, CCFrame, ghosts
  <2>2. TypeClaude'
    BY <1>6 DEF TypeInv, TypeOK, TypeClaude, CCEndTurn, CCRuns, CCFrame,
       ghosts, CloseTurn, Journal, CCType
  <2> QED BY <1>6, <2>1, <2>2 DEF TypeInv, TypeOK, TypeLife, TypeLock,
      TypeSend, TypeSteer, TypeHost, CCEndTurn, CCRuns, CCFrame, lockSt,
      turnSt, locals, hostSide, steerSt, others, ghosts, CloseTurn, Journal
<1>7. CASE CCEscape
  <2>1. TypeReader'
    BY <1>7, CCTyped, JournalTyped DEF TypeInv, TypeOK, TypeReader, CCEscape,
       CloseTurn, CCRuns, CCFrame, ghosts, Silent
  <2>2. TypeClaude'
    <3>1. Tail(cc.inbox) \in Seq(Inputs \cup {Escape})
      BY <1>7, CCTyped DEF TypeInv, TypeOK, CCEscape
    <3> QED BY <1>7, <3>1, CCTyped, CCUpdateTyped DEF TypeInv, TypeOK,
        TypeClaude, CCEscape, CCRuns, CCFrame, ghosts
  <2> QED BY <1>7, <2>1, <2>2 DEF TypeInv, TypeOK, TypeLife, TypeLock,
      TypeSend, TypeSteer, TypeHost, CCEscape, CCRuns, CCFrame, lockSt, turnSt,
      locals, hostSide, steerSt, others, ghosts, CloseTurn, Journal, Silent
<1>8. CASE CCNotify
  <2>1. TypeClaude'
    <3>1. Child \in Inputs \cup {Escape}
      BY DEF Inputs
    <3> QED BY <1>8, <3>1, InboxTyped DEF TypeInv, TypeOK, TypeClaude,
        CCNotify, CCRuns, CCFrame, ghosts
  <2> QED BY <1>8, <2>1 DEF TypeInv, TypeOK, TypeLife, TypeLock, TypeReader,
      TypeSend, TypeSteer, TypeHost, CCNotify, CCRuns, CCFrame, lockSt, turnSt,
      locals, hostSide, steerSt, others, ghosts, Silent
<1>9. CASE CCFailTurn
  <2>1. TypeReader'
    BY <1>9, CCTyped, JournalTyped DEF TypeInv, TypeOK, TypeReader, CCFailTurn,
       CloseTurn, CCRuns, CCFrame, ghosts
  <2>2. TypeClaude'
    BY <1>9 DEF TypeInv, TypeOK, TypeClaude, CCFailTurn, CCRuns, CCFrame,
       ghosts, CloseTurn, Journal, CCType
  <2> QED BY <1>9, <2>1, <2>2 DEF TypeInv, TypeOK, TypeLife, TypeLock,
      TypeSend, TypeSteer, TypeHost, CCFailTurn, CCRuns, CCFrame, lockSt,
      turnSt, locals, hostSide, steerSt, others, ghosts, CloseTurn, Journal
<1>10. CASE CCBanner
  <2>1. TypeClaude'
    BY <1>10 DEF TypeInv, TypeOK, TypeClaude, CCBanner, CCRuns, CCFrame,
       ghosts, Silent, CCType
  <2> QED BY <1>10, <2>1 DEF TypeInv, TypeOK, TypeLife, TypeLock, TypeReader,
      TypeSend, TypeSteer, TypeHost, CCBanner, CCRuns, CCFrame, lockSt, turnSt,
      locals, hostSide, steerSt, others, ghosts, Silent
<1>11. CASE CCLose
  <2>1. TypeClaude'
    <3>1. Tail(cc.inbox) \in Seq(Inputs \cup {Escape})
      BY <1>11, CCTyped DEF TypeInv, TypeOK, CCLose
    <3> QED BY <1>11, <3>1, CCTyped, CCUpdateTyped DEF TypeInv, TypeOK,
        TypeClaude, CCLose, CCRuns, CCFrame, ghosts
  <2> QED BY <1>11, <2>1 DEF TypeInv, TypeOK, TypeLife, TypeLock, TypeReader,
      TypeSend, TypeSteer, TypeHost, CCLose, CCRuns, CCFrame, lockSt, turnSt,
      locals, hostSide, steerSt, others, ghosts, Silent
<1>12. CASE CCDie
  <2>1. TypeClaude'
    <3>1. cc' \in CCType
      BY <1>12, KillTyped, NoneTyped DEF TypeInv, TypeOK, TypeLife, CCDie
    <3> QED BY <1>12, <3>1 DEF TypeInv, TypeOK, TypeClaude, CCDie, CCRuns,
        CCFrame, ghosts
  <2> QED BY <1>12, <2>1 DEF TypeInv, TypeOK, TypeLife, TypeLock, TypeReader,
      TypeSend, TypeSteer, TypeHost, CCDie, CCRuns, CCFrame, lockSt, turnSt,
      locals, hostSide, steerSt, others, ghosts, Kill, Silent
<1> QED BY <1>1, <1>2, <1>3, <1>4, <1>5, <1>6, <1>7, <1>8, <1>9, <1>10, <1>11,
    <1>12 DEF ClaudeStep

(* A started session is well typed, and every step keeps it so. *)
LEMMA TypeInvInit == Init => TypeInv
<1> SUFFICES ASSUME Init PROVE TypeInv
  OBVIOUS
<1>1. /\ FgInit \in FgType /\ ScanInit \in ScanType
      /\ Quiet \in CCType /\ NoReap \in ReapType
  BY FgInitTyped, ScanInitTyped, QuietTyped, NoReapTyped
<1>2. NoReceipt \in ReceiptType
  BY BoundsAssumption DEF NoReceipt, ReceiptType, NoProc, ProcOrNone
<1>3. TypeLife
  <2>1. alive \in [Procs -> BOOLEAN]
    BY DEF Init
  <2>2. process \in Procs /\ restarts \in Nat
    BY BoundsAssumption DEF Init, Procs
  <2>3. started \in BOOLEAN /\ channelDown \in BOOLEAN
    BY DEF Init
  <2> QED BY <2>1, <2>2, <2>3 DEF TypeLife
<1>4. TypeLock /\ TypeHost
  BY <1>1, NoneTyped DEF Init, TypeLock, TypeHost
<1>5. TypeReader /\ TypeClaude
  BY <1>1, BoundsAssumption DEF Init, TypeReader, TypeClaude
<1>6. TypeSend /\ TypeSteer
  BY <1>1, <1>2 DEF Init, TypeSend, TypeSteer
<1> QED BY <1>3, <1>4, <1>5, <1>6 DEF TypeInv, TypeOK, Init

(* One lemma per coroutine covers Next. *)
LEMMA TypeInvStep == TypeInv /\ [Next]_vars => TypeInv'
<1> SUFFICES ASSUME TypeInv, [Next]_vars PROVE TypeInv'
  OBVIOUS
<1>1. CASE Consume \/ LoopTimeout \/ HostCancel \/ DecideResend
  BY <1>1, SendTyped, ScanTypedStep, RoundTyped, DecideTyped, FinallyTyped
     DEF Consume, Round
<1>2. CASE \E s \in Steers : \/ Steer(s) \/ SteerCall(s) \/ SteerWriteFailed(s)
                             \/ SteerDeadline(s) \/ CCForeign(s)
  BY <1>2, SteerTyped
<1>3. CASE \/ Host \/ Watch \/ InterruptMark \/ StopWatch
           \/ Enter
  BY <1>3, HostTyped
<1>4. CASE \/ ClaudeStep \/ CCNotify \/ CCFailTurn \/ CCBanner \/ CCLose
           \/ CCDie
  BY <1>4, ClaudeTyped
<1>5. CASE UNCHANGED vars
  BY <1>5 DEF vars, life, locals, steerSt, others, turnSt, claude, ghosts,
     TypeInv, TypeOK, TypeLife, TypeLock, TypeReader, TypeSend, TypeSteer,
     TypeHost, TypeClaude
<1> QED BY <1>1, <1>2, <1>3, <1>4, <1>5 DEF Next, Chance

(* In every reachable state each variable has the type of the Python object it
   stands for, a turn in progress has a prompt, and the number of the current
   process counts the restarts. *)
THEOREM TypesHold == Spec => []TypeOK
<1>1. TypeInv => TypeOK
  BY DEF TypeInv
<1> QED BY <1>1, TypeInvInit, TypeInvStep, PTL DEF Spec
--------------------------------------------------------------------------------
(* The fence of an open steer.  OpenSteerIsFenced alone is not inductive: when a
   provider failure gives a receipt back, the fence has to belong to the steer
   that the very batch acknowledged, and when one steer is revoked, it must not
   be another one that is open.  Hence the four conjuncts. *)

OpenIsFenced == pending # None => unsettled = receipt[pending].proc
EnqueuedIsFenced ==
    scan.enq # None /\ unsettled # NoProc => unsettled = receipt[scan.enq].proc
LockHolders ==
    /\ stateLock = "consumer" <=> pc = "scan"
    /\ \A s \in Steers : spc[s] = "write" => stateLock = "steer"
    /\ pc # "scan" => scan.enq = None
OneAdmitted ==
    /\ \A s, t \in Steers : Busy(s) /\ Busy(t) => s = t
    /\ \A s \in Steers :
         Busy(s) => pending \in {None, s} /\ scan.enq \in {None, s}
SteerFence == OpenIsFenced /\ EnqueuedIsFenced /\ LockHolders /\ OneAdmitted

(* No steer is open in a session that has just started. *)
LEMMA SteerFenceInit == Init => SteerFence
<1> SUFFICES ASSUME Init PROVE SteerFence
  OBVIOUS
<1>1. scan.enq = None /\ pending = None
  BY DEF Init, ScanInit
<1>2. \A s \in Steers : ~Busy(s) /\ spc[s] # "write"
  BY DEF Init, Busy
<1>3. stateLock # "consumer" /\ pc # "scan"
  BY TextsAssumption DEF Init
<1> QED
  BY <1>1, <1>2, <1>3
  DEF SteerFence, OpenIsFenced, EnqueuedIsFenced, LockHolders, OneAdmitted

(* A step that leaves the locks, the fence and the steers alone, and does not
   enter or leave the scan of a batch. *)
FenceVars == <<stateLock, pending, unsettled, receipt, spc>>
OutsideScan == pc # "scan" /\ pc' # "scan" /\ scan'.enq = None
SameScan    == pc' = pc /\ scan'.enq = scan.enq

LEMMA FenceKept ==
  ASSUME SteerFence, UNCHANGED FenceVars, OutsideScan \/ SameScan
  PROVE  SteerFence'
<1>1. OpenIsFenced'
  BY DEF SteerFence, FenceVars, OpenIsFenced
<1>2. EnqueuedIsFenced'
  BY DEF SteerFence, FenceVars, EnqueuedIsFenced, OutsideScan, SameScan
<1>3. LockHolders'
  BY DEF SteerFence, FenceVars, LockHolders, OutsideScan, SameScan
<1>4. OneAdmitted'
  BY DEF SteerFence, FenceVars, OneAdmitted, Busy, OutsideScan, SameScan
<1> QED BY <1>1, <1>2, <1>3, <1>4 DEF SteerFence

(* Outside the scan nobody has an enqueue to acknowledge. *)
LEMMA NoEnqueue == SteerFence /\ pc # "scan" => scan.enq = None
  BY DEF SteerFence, LockHolders

(* Up to the delivery of the prompt the fence is not touched ... *)
LEMMA FenceSend ==
  ASSUME SteerFence, Send
  PROVE  SteerFence'
<1>1. UNCHANGED FenceVars
  BY DEF FenceVars, Send, Own, CheckAlive, CheckRefused, ResumeBegin,
     ResumeDone, ResumeFailed, Backlog, DeliverChannel, DeliverStdin,
     DeliverFailed, Exit, lockSt, turnSt, hostSide, steerSt
<1>2. UNCHANGED scan
  BY DEF Send, Own, CheckAlive, CheckRefused, ResumeBegin, ResumeDone,
     ResumeFailed, Backlog, DeliverChannel, DeliverStdin, DeliverFailed, Exit,
     locals
<1>3. pc # "scan" /\ pc' # "scan"
  BY DEF Send, Own, CheckAlive, CheckRefused, ResumeBegin, ResumeDone,
     ResumeFailed, Backlog, DeliverChannel, DeliverStdin, DeliverFailed, Exit,
     Finish
<1> QED BY <1>1, <1>2, <1>3, NoEnqueue, FenceKept DEF OutsideScan

(* ... nor by the decisions of a round ... *)
LEMMA FenceDecide ==
  ASSUME SteerFence,
         \/ LoopCrash \/ LoopPoll \/ LoopTimeout \/ HostCancel \/ Emit
         \/ Decide \/ DecideResend
  PROVE  SteerFence'
<1>1. UNCHANGED FenceVars
  BY DEF FenceVars, LoopCrash, LoopPoll, LoopTimeout, HostCancel, Emit, Decide,
     DecideResend, DecideComplete, DecideApiError, DecideLimit, DecideBanner,
     DecideAgain, DecideFrame, Exit, lockSt, turnSt, hostSide, steerSt
<1>2. pc # "scan" /\ pc' # "scan"
  BY DEF LoopCrash, LoopPoll, LoopTimeout, HostCancel, Emit, Decide, DecideResend,
     DecideComplete, DecideApiError, DecideLimit, DecideBanner, DecideAgain,
     Unfinished, Goes, Exit, Finish
<1>3. scan' = scan \/ scan' = ScanInit
  BY DEF LoopCrash, LoopPoll, LoopTimeout, HostCancel, Emit, Decide, DecideResend,
     DecideComplete, DecideApiError, DecideLimit, DecideBanner, DecideAgain,
     Exit, locals
<1>4. scan'.enq = None
  BY <1>2, <1>3, NoEnqueue DEF ScanInit
<1> QED BY <1>1, <1>2, <1>4, FenceKept DEF OutsideScan

(* ... nor by Claude Code, the watcher's waking, or a process being stopped. *)
LEMMA FenceClaude ==
  ASSUME SteerFence,
         \/ ClaudeStep \/ CCNotify \/ CCFailTurn \/ CCBanner \/ CCLose \/ CCDie
         \/ WatchWake \/ InterruptMark \/ InterruptReap \/ InterruptEscape
         \/ StopReap
         \/ \E s \in Steers : CCForeign(s)
  PROVE  SteerFence'
<1>1. UNCHANGED FenceVars
  BY DEF FenceVars, ClaudeStep, CCStart, CCEcho, CCEnqueue, CCRemove,
     CCDequeue, CCEndTurn, CCEscape, CCNotify, CCFailTurn, CCBanner, CCLose,
     CCDie, CCForeign, CCRuns, CCFrame, WatchWake,
     InterruptMark, InterruptReap, InterruptEscape, StopReap, HostFrame,
     lockSt, turnSt, hostSide, steerSt
<1>2. UNCHANGED <<pc, scan>>
  BY DEF ClaudeStep, CCStart, CCEcho, CCEnqueue, CCRemove, CCDequeue,
     CCEndTurn, CCEscape, CCNotify, CCFailTurn, CCBanner, CCLose, CCDie,
     CCForeign, CCRuns, CCFrame, WatchWake, InterruptMark,
     InterruptReap, InterruptEscape, StopReap, HostFrame, locals
<1> QED BY <1>1, <1>2, FenceKept DEF SameScan

(* While the idle watcher reads it holds the state lock, and no send_prompt has
   published its turn: one that has taken _send_lock meanwhile waits. *)
WatchInv ==
    /\ stateLock = "watcher" <=> watchPc = "read"
    /\ watchPc = "read" => pc \in {"idle", "own"}

(* The watcher takes the state lock for its read, and gives it back, also where
   stop cancels it. *)
LEMMA FenceWatch ==
  ASSUME SteerFence, WatchInv, WatchLook \/ WatchRead \/ StopWatch
  PROVE  SteerFence'
<1>1. UNCHANGED <<pending, unsettled, receipt, spc, pc, scan>>
  BY DEF WatchLook, WatchRead, StopWatch, HostFrame, turnSt, locals
<1>2. \/ UNCHANGED stateLock
      \/ stateLock = None /\ stateLock' = "watcher"
      \/ stateLock = "watcher" /\ stateLock' = None
  BY DEF WatchInv, WatchLook, WatchRead, StopWatch
<1>3. LockHolders'
  BY <1>1, <1>2, TextsAssumption DEF SteerFence, LockHolders
<1>4. OpenIsFenced' /\ EnqueuedIsFenced' /\ OneAdmitted'
  BY <1>1 DEF SteerFence, OpenIsFenced, EnqueuedIsFenced, OneAdmitted, Busy
<1> QED BY <1>3, <1>4 DEF SteerFence

(* What each case of the scan does to the steer acknowledged in this batch. *)
LEMMA NextRecordKeeps ==
  ASSUME TypeSend
  PROVE  /\ NextRecord.enq = scan.enq
         /\ \A b : [NextRecord EXCEPT !.started = b].enq = scan.enq
         /\ \A b : [NextRecord EXCEPT !.done = b].enq = scan.enq
         /\ \A u : [NextRecord EXCEPT !.unc = u].enq = scan.enq
         /\ \A b, c : [NextRecord EXCEPT !.err = b, !.lim = c].enq = scan.enq
         /\ \A u : [NextRecord EXCEPT !.enq = u].enq = u
<1>1. NextRecord \in [batch : {NextRecord.batch}, started : {scan.started},
                      done : {scan.done}, err : {scan.err}, lim : {scan.lim},
                      enq : {scan.enq}, unc : {scan.unc}]
  BY DEF TypeSend, ScanType, NextRecord
<1> QED BY <1>1

(* The scan of a batch acknowledges, routes, defers, releases and gives back. *)
LEMMA FenceScan ==
  ASSUME TypeInv, SteerFence, Scan
  PROVE  SteerFence'
<1>1. TypeSend /\ TypeSteer /\ TypeLock
  BY DEF TypeInv, TypeOK
<1>2. CASE ScanEcho \/ ScanForeignTerminal \/ ScanFailure
  <2>1. UNCHANGED FenceVars /\ pc' = pc
    BY <1>2 DEF ScanEcho, ScanForeignTerminal, ScanFailure, ScanFrame, turnSt,
       FenceVars
  <2>2. scan'.enq = scan.enq
    <3>1. CASE ScanEcho
      BY <1>1, <3>1, NextRecordKeeps DEF ScanEcho
    <3>2. CASE ScanForeignTerminal
      BY <1>1, <3>2, NextRecordKeeps DEF ScanForeignTerminal
    <3>3. CASE ScanFailure
      BY <1>1, <3>3, NextRecordKeeps DEF ScanFailure
    <3> QED BY <1>2, <3>1, <3>2, <3>3
  <2> QED BY <2>1, <2>2, FenceKept DEF SameScan
<1>3. CASE ScanEnqueue
  <2>1. UNCHANGED <<stateLock, pending, unsettled, spc, pc>>
    BY <1>3 DEF ScanEnqueue, ScanFrame, turnSt
  <2>2. scan'.enq = scan.enq \/ (scan'.enq = pending /\ pending # None)
    BY <1>1, <1>3, NextRecordKeeps DEF ScanEnqueue, Acknowledges
  <2>3. \A s \in Steers : receipt'[s].proc = receipt[s].proc
    BY <1>1, <1>3 DEF ScanEnqueue, TypeSteer, ReceiptType
  <2>4. pending \in SteerOrNone /\ scan.enq \in SteerOrNone /\ pc = "scan"
    BY <1>1, <1>3 DEF TypeLock, TypeSend, ScanType, ScanEnqueue, Scanning
  <2>5. OpenIsFenced'
    BY <2>1, <2>3, <2>4 DEF SteerFence, OpenIsFenced, SteerOrNone
  <2>6. EnqueuedIsFenced'
    BY <2>1, <2>2, <2>3, <2>4
    DEF SteerFence, OpenIsFenced, EnqueuedIsFenced, SteerOrNone
  <2>7. LockHolders' /\ OneAdmitted'
    BY <2>1, <2>2, <2>4 DEF SteerFence, LockHolders, OneAdmitted, Busy
  <2> QED BY <2>5, <2>6, <2>7 DEF SteerFence
<1>4. CASE ScanRoute
  <2>1. UNCHANGED <<stateLock, receipt, spc, pc>>
    BY <1>4 DEF ScanRoute, ScanFrame
  <2>2. scan'.enq = scan.enq /\ pc = "scan"
    <3>1. PICK b : scan' = [NextRecord EXCEPT !.started = b]
      BY <1>4 DEF ScanRoute
    <3>2. [NextRecord EXCEPT !.started = b].enq = scan.enq
      BY <1>1, NextRecordKeeps
    <3>3. pc = "scan"
      BY <1>4 DEF ScanRoute, Scanning
    <3> QED BY <3>1, <3>2, <3>3
  <2>3. \/ pending' = None /\ unsettled' \in {unsettled, NoProc}
        \/ pending' = pending /\ unsettled' = unsettled
    BY <1>4 DEF ScanRoute
  <2> QED
    BY <2>1, <2>2, <2>3 DEF SteerFence, OpenIsFenced, EnqueuedIsFenced,
       LockHolders, OneAdmitted, Busy
<1>5. CASE ScanTerminal
  <2>1. UNCHANGED <<stateLock, pending, receipt, spc, pc>>
    BY <1>5 DEF ScanTerminal, ScanFrame
  <2>2. scan'.enq = scan.enq
    <3>1. CASE Defers
      <4>1. PICK u : scan' = [NextRecord EXCEPT !.unc = u]
        BY <1>5, <3>1 DEF ScanTerminal
      <4>2. [NextRecord EXCEPT !.unc = u].enq = scan.enq
        BY <1>1, NextRecordKeeps
      <4> QED BY <4>1, <4>2
    <3>2. CASE ~Defers
      <4>1. scan' = [NextRecord EXCEPT !.done = TRUE]
        BY <1>5, <3>2 DEF ScanTerminal
      <4>2. [NextRecord EXCEPT !.done = TRUE].enq = scan.enq
        BY <1>1, NextRecordKeeps
      <4> QED BY <4>1, <4>2
    <3> QED BY <3>1, <3>2
  <2>4. pc = "scan"
    BY <1>5 DEF ScanTerminal, Scanning
  <2>3. \/ unsettled' = unsettled
        \/ pending = None /\ unsettled' \in {unsettled, NoProc}
    BY <1>5 DEF ScanTerminal, Defers
  <2> QED
    BY <2>1, <2>2, <2>3, <2>4 DEF SteerFence, OpenIsFenced, EnqueuedIsFenced,
       LockHolders, OneAdmitted, Busy
<1>6. CASE ScanEnd
  <2>1. /\ UNCHANGED <<receipt, spc>>
        /\ pc = "scan" /\ pc' = "emit" /\ stateLock' = None
    BY <1>6 DEF ScanEnd
  <2>2. scan'.enq = None
    BY <1>1, <1>6 DEF ScanEnd, TypeSend, ScanType
  <2>3. \/ pending' = None
        \/ /\ pending' \in {pending, scan.enq}
           /\ unsettled' = unsettled /\ unsettled # NoProc
        \/ pending' = pending /\ unsettled' = unsettled
    BY <1>6 DEF ScanEnd, Reattaches, FailedSteer
  <2>4. OpenIsFenced' /\ EnqueuedIsFenced'
    BY <2>1, <2>2, <2>3 DEF SteerFence, OpenIsFenced, EnqueuedIsFenced
  <2>5. \A s \in Steers : spc[s] # "write"
    BY <2>1 DEF SteerFence, LockHolders
  <2>6. LockHolders'
    BY <2>1, <2>2, <2>5, TextsAssumption DEF LockHolders
  <2>7. OneAdmitted'
    BY <2>1, <2>2, <2>3 DEF SteerFence, OneAdmitted, Busy
  <2> QED BY <2>4, <2>6, <2>7 DEF SteerFence
<1> QED BY <1>2, <1>3, <1>4, <1>5, <1>6 DEF Scan

(* Under the lock the open steer is taken away from the turn. *)
LEMMA FenceTaken ==
  ASSUME SteerFence, UNCHANGED <<stateLock, receipt, scan, spc>>,
         stateLock = None, pc' # "scan", pending' = None
  PROVE  SteerFence'
<1>1. pc # "scan" /\ scan.enq = None
  BY TextsAssumption DEF SteerFence, LockHolders
<1> QED BY <1>1 DEF SteerFence, OpenIsFenced, EnqueuedIsFenced, LockHolders,
    OneAdmitted, Busy

(* Everything else that takes _turn_state_lock, apart from steers. *)
LEMMA FenceHost ==
  ASSUME SteerFence,
         \/ Read \/ Finally \/ InterruptDetach \/ StopLock
         \/ Enter
  PROVE  SteerFence'
<1>1. CASE Read
  <2>1. /\ UNCHANGED <<pending, unsettled, receipt, spc>>
        /\ stateLock = None /\ pc # "scan"
    BY <1>1 DEF Read, turnSt, hostSide, steerSt
  <2>2. scan'.enq = None /\ pc' = "scan" /\ stateLock' = "consumer"
    BY <1>1 DEF Read, ScanInit
  <2>3. \A s \in Steers : spc[s] # "write"
    BY <2>1, TextsAssumption DEF SteerFence, LockHolders
  <2> QED BY <2>1, <2>2, <2>3 DEF SteerFence, OpenIsFenced, EnqueuedIsFenced,
      LockHolders, OneAdmitted, Busy
<1>2. CASE FinallyDetach \/ InterruptDetach
  <2>1. UNCHANGED <<stateLock, receipt, scan, spc>> /\ stateLock = None
    BY <1>2 DEF FinallyDetach, InterruptDetach, Detach, locals, HostFrame
  <2>2. pc # "scan" /\ pc' # "scan"
    BY <1>2, <2>1, TextsAssumption DEF FinallyDetach, InterruptDetach,
       HostFrame, SteerFence, LockHolders
  <2>3. CASE pending' = None
    BY <2>1, <2>2, <2>3, FenceTaken
  <2>4. CASE UNCHANGED <<pending, unsettled>>
    BY <2>1, <2>2, <2>4, NoEnqueue, FenceKept DEF FenceVars, OutsideScan
  <2> QED BY <1>2, <2>3, <2>4 DEF FinallyDetach, InterruptDetach, Detach
<1>3. CASE FinallyReap
  <2>1. UNCHANGED FenceVars /\ pc # "scan" /\ pc' # "scan" /\ scan'.enq = None
    BY <1>3 DEF FinallyReap, ScanInit, FenceVars, lockSt, turnSt
  <2> QED BY <2>1, FenceKept DEF OutsideScan
<1>4. CASE StopLock
  <2>1. UNCHANGED <<stateLock, receipt, scan, spc, pc>> /\ stateLock = None
    BY <1>4 DEF StopLock, locals, HostFrame
  <2> QED BY <1>4, <2>1, TextsAssumption, FenceTaken DEF StopLock, SteerFence,
      LockHolders
<1>5. CASE Enter
  <2>1. UNCHANGED FenceVars /\ UNCHANGED scan /\ pc # "scan" /\ pc' # "scan"
    BY <1>5 DEF Enter, CancelOwn, Acquire, FenceVars, lockSt, turnSt, hostSide, steerSt
  <2> QED BY <2>1, NoEnqueue, FenceKept DEF OutsideScan
<1> QED BY <1>1, <1>2, <1>3, <1>4, <1>5 DEF Finally

(* A steer that neither holds nor takes the state lock changes nothing. *)
LEMMA FenceQuiet ==
  ASSUME TypeInv, SteerFence, NEW s \in Steers,
         UNCHANGED <<stateLock, pending, unsettled, pc, scan>>,
         NEW v \in {"called", "done", "reap"}, spc' = [spc EXCEPT ![s] = v],
         v = "reap" => Busy(s),
         \A t \in Steers : receipt'[t].proc = receipt[t].proc
  PROVE  SteerFence'
<1>1. TypeSend /\ TypeSteer /\ TypeLock
  BY DEF TypeInv, TypeOK
<1>2. pending \in SteerOrNone /\ scan.enq \in SteerOrNone
  BY <1>1 DEF TypeLock, TypeSend, ScanType
<1>3. \A t \in Steers : spc'[t] = (IF t = s THEN v ELSE spc[t])
  BY <1>1 DEF TypeSteer
<1>4. OpenIsFenced' /\ EnqueuedIsFenced'
  BY <1>2 DEF SteerFence, OpenIsFenced, EnqueuedIsFenced, SteerOrNone
<1>5. LockHolders'
  BY <1>3 DEF SteerFence, LockHolders
<1>6. OneAdmitted'
  BY <1>3 DEF SteerFence, OneAdmitted, Busy
<1> QED BY <1>4, <1>5, <1>6 DEF SteerFence

(* Each stretch of steer_active_turn. *)
LEMMA FenceSteer ==
  ASSUME TypeInv, SteerFence, NEW s \in Steers,
         Steer(s) \/ SteerCall(s) \/ SteerWriteFailed(s) \/ SteerDeadline(s)
  PROVE  SteerFence'
<1>1. TypeSend /\ TypeSteer /\ TypeLock /\ TypeLife
  BY DEF TypeInv, TypeOK
<1>2. UNCHANGED <<pc, scan>>
  BY DEF Steer, SteerCall, SteerWriteFailed, SteerDeadline, SteerRefused,
     SteerTooLate, SteerAdmit, SteerWritten, SteerFailClosed, SteerReap,
     SteerAcknowledged, SteerFrame, locals
<1>3. CASE \/ SteerRefused(s) \/ SteerTooLate(s) \/ SteerAcknowledged(s)
           \/ SteerDeadline(s) \/ SteerCall(s) \/ SteerReap(s)
  <2>1. UNCHANGED <<stateLock, pending, unsettled>>
    BY <1>3 DEF SteerRefused, SteerTooLate, SteerAcknowledged, SteerDeadline,
       SteerCall, SteerReap, SteerFrame, lockSt, turnSt
  <2>2. \E v \in {"called", "done"} : spc' = [spc EXCEPT ![s] = v]
    BY <1>3 DEF SteerRefused, SteerTooLate, SteerAcknowledged, SteerDeadline,
       SteerCall, SteerReap, Return
  <2>3. \A t \in Steers : receipt'[t].proc = receipt[t].proc
    <3>1. CASE UNCHANGED receipt
      BY <3>1
    <3>2. CASE receipt' = [receipt EXCEPT ![s].uncertain = TRUE]
      BY <1>1, <3>2 DEF TypeSteer, ReceiptType
    <3>3. CASE \E e \in {NoProc, active} :
                 receipt' = [receipt EXCEPT ![s].expect = e]
      BY <1>1, <3>3 DEF TypeSteer, ReceiptType
    <3> QED BY <1>3, <3>1, <3>2, <3>3 DEF SteerRefused, SteerTooLate,
        SteerAcknowledged, SteerDeadline, SteerCall, SteerReap
  <2>4. PICK v \in {"called", "done"} : spc' = [spc EXCEPT ![s] = v]
    BY <2>2
  <2> QED BY <1>2, <2>1, <2>3, <2>4, FenceQuiet
<1>4. CASE SteerAdmit(s)
  <2>1. /\ stateLock = None /\ stateLock' = "steer"
        /\ pending = None /\ pending' = s
        /\ \A t \in Steers : ~Busy(t)
    BY <1>4 DEF SteerAdmit, SteerMayEnter, AdmissionFree, Admissible
  <2>2. pc # "scan" /\ scan'.enq = None
    BY <1>2, <2>1, TextsAssumption DEF SteerFence, LockHolders
  <2>3. \A t \in Steers : spc'[t] = (IF t = s THEN "write" ELSE spc[t])
    BY <1>1, <1>4 DEF SteerAdmit, TypeSteer
  <2>4. receipt'[s].proc = process /\ unsettled' = process
    BY <1>1, <1>4 DEF SteerAdmit, TypeSteer, ReceiptType
  <2>5. OpenIsFenced' /\ EnqueuedIsFenced'
    BY <2>1, <2>2, <2>4 DEF OpenIsFenced, EnqueuedIsFenced
  <2>6. LockHolders'
    BY <1>2, <2>1, <2>2, <2>3, TextsAssumption DEF LockHolders
  <2>7. OneAdmitted'
    BY <2>1, <2>2, <2>3 DEF OneAdmitted, Busy
  <2> QED BY <2>5, <2>6, <2>7 DEF SteerFence
<1>5. CASE SteerWritten(s) \/ SteerWriteFailed(s)
  <2>1. /\ UNCHANGED <<pending, unsettled, receipt>> /\ stateLock' = None
        /\ spc[s] = "write"
    BY <1>5 DEF SteerWritten, SteerWriteFailed, UnlockOnError, turnSt
  <2>2. PICK v \in {"await", "failclosed"} : spc' = [spc EXCEPT ![s] = v]
    BY <1>5 DEF SteerWritten, SteerWriteFailed
  <2>3. \A t \in Steers : spc'[t] = (IF t = s THEN v ELSE spc[t])
    BY <1>1, <2>2 DEF TypeSteer
  <2>4. pc # "scan" /\ scan'.enq = None /\ Busy(s)
    BY <1>2, <2>1 DEF SteerFence, LockHolders, Busy
  <2>5. \A t \in Steers : Busy(t)' => Busy(t)
    BY <2>2, <2>3, <2>4 DEF Busy
  <2>6. OpenIsFenced' /\ EnqueuedIsFenced'
    BY <2>1, <2>4 DEF SteerFence, OpenIsFenced, EnqueuedIsFenced
  <2>7. OneAdmitted'
    BY <2>1, <2>4, <2>5 DEF SteerFence, OneAdmitted
  <2>8. LockHolders'
    <3>1. \A t \in Steers : spc'[t] # "write"
      BY <2>1, <2>3, <2>4 DEF SteerFence, OneAdmitted, Busy
    <3> QED BY <1>2, <2>1, <2>4, <3>1, TextsAssumption DEF LockHolders
  <2> QED BY <2>6, <2>7, <2>8 DEF SteerFence
<1>6. CASE SteerFailClosed(s)
  <2>1. /\ stateLock = None /\ UNCHANGED <<stateLock, receipt>>
        /\ spc' = [spc EXCEPT ![s] = "reap"] /\ Busy(s)
    BY <1>6 DEF SteerFailClosed, Busy
  <2>2. pending' = None
    BY <1>6, <2>1 DEF SteerFailClosed, SteerFence, OneAdmitted
  <2>3. pc # "scan" /\ scan.enq = None
    BY <2>1, TextsAssumption DEF SteerFence, LockHolders
  <2>4. \A t \in Steers : spc'[t] = (IF t = s THEN "reap" ELSE spc[t])
    BY <1>1, <2>1 DEF TypeSteer
  <2>5. \A t \in Steers : Busy(t)' => Busy(t)
    BY <2>1, <2>4 DEF Busy
  <2>6. OpenIsFenced' /\ EnqueuedIsFenced'
    BY <1>2, <2>2, <2>3 DEF OpenIsFenced, EnqueuedIsFenced
  <2>7. LockHolders'
    BY <1>2, <2>1, <2>3, <2>4 DEF SteerFence, LockHolders
  <2>8. OneAdmitted'
    BY <1>2, <2>2, <2>3, <2>5 DEF SteerFence, OneAdmitted
  <2> QED BY <2>6, <2>7, <2>8 DEF SteerFence
<1> QED BY <1>3, <1>4, <1>5, <1>6 DEF Steer

(* Together these are all the steps. *)
LEMMA SteerFenceStep == TypeInv /\ SteerFence /\ WatchInv /\ [Next]_vars => SteerFence'
<1> SUFFICES ASSUME TypeInv, SteerFence, WatchInv, [Next]_vars PROVE SteerFence'
  OBVIOUS
<1>1. CASE UNCHANGED vars
  <2>1. UNCHANGED FenceVars /\ UNCHANGED <<pc, scan>>
    BY <1>1 DEF vars, turnSt, locals, steerSt, FenceVars
  <2> QED BY <2>1, FenceKept DEF SameScan
<1>2. CASE Consume \/ HostCancel \/ DecideResend \/ LoopTimeout
  BY <1>2, FenceSend, FenceScan, FenceDecide, FenceHost DEF Consume, Round
<1>3. CASE \E s \in Steers : \/ Steer(s) \/ SteerCall(s) \/ SteerWriteFailed(s)
                             \/ SteerDeadline(s)
  BY <1>3, FenceSteer
<1>4. CASE \/ Host \/ InterruptMark \/ StopWatch \/ Watch
           \/ Enter
  BY <1>4, FenceHost, FenceClaude, FenceWatch DEF Host, Watch
<1>5. CASE \/ ClaudeStep \/ CCNotify \/ CCFailTurn \/ CCBanner \/ CCLose
           \/ CCDie \/ \E s \in Steers : CCForeign(s)
  BY <1>5, FenceClaude
<1> QED BY <1>1, <1>2, <1>3, <1>4, <1>5 DEF Next, Chance

(* Who takes the state lock, and who releases it, is not the watcher; and a turn
   is published under it. *)
LEMMA WatchKept ==
  ASSUME WatchInv, watchPc' = "read" <=> watchPc = "read",
         pc \in {"idle", "own"} => pc' \in {"idle", "own"} \/ stateLock = None,
         \/ UNCHANGED stateLock
         \/ stateLock \in {None, "consumer", "steer"} /\ stateLock' \in {None, "consumer", "steer"}
  PROVE  WatchInv'
BY TextsAssumption DEF WatchInv

LEMMA WatchStep == TypeInv /\ SteerFence /\ WatchInv /\ [Next]_vars => WatchInv'
<1> SUFFICES ASSUME TypeInv, SteerFence, WatchInv, [Next]_vars PROVE WatchInv'
  OBVIOUS
<1>1. CASE UNCHANGED vars
  BY <1>1 DEF WatchInv, vars, others
<1>2. CASE Send
  <2>1. UNCHANGED stateLock
    BY <1>2 DEF Send, Own, CheckAlive, CheckRefused, ResumeBegin, ResumeDone,
       ResumeFailed, Backlog, DeliverChannel, DeliverStdin, DeliverFailed, Exit, lockSt
  <2>2. watchPc' = "read" <=> watchPc = "read"
    <3>1. CASE ResumeDone
      BY <3>1 DEF ResumeDone
    <3>2. CASE UNCHANGED hostSide
      BY <3>2 DEF hostSide, others
    <3> QED BY <1>2, <3>1, <3>2 DEF Send, Own, CheckAlive, CheckRefused, ResumeBegin,
            ResumeFailed, Backlog, DeliverChannel, DeliverStdin, DeliverFailed, Exit
  <2>3. pc \in {"idle", "own"} => stateLock = None
    BY <1>2 DEF Send, Own, CheckAlive, CheckRefused, ResumeBegin, ResumeDone,
       ResumeFailed, Backlog, DeliverChannel, DeliverStdin, DeliverFailed
  <2> QED BY <2>1, <2>2, <2>3, WatchKept
<1>3. CASE LoopCrash \/ LoopPoll \/ LoopTimeout \/ HostCancel \/ Emit \/ Decide \/ DecideResend
  <2>1. UNCHANGED stateLock
    BY <1>3 DEF LoopCrash, LoopPoll, LoopTimeout, HostCancel, Emit, Decide,
       DecideResend, DecideComplete, DecideApiError, DecideLimit, DecideBanner,
       DecideAgain, DecideFrame, Exit, lockSt
  <2>2. UNCHANGED watchPc
    BY <1>3 DEF LoopCrash, LoopPoll, LoopTimeout, HostCancel, Emit, Decide,
       DecideResend, DecideComplete, DecideApiError, DecideLimit, DecideBanner,
       DecideAgain, DecideFrame, Exit, hostSide, others
  <2>3. pc \notin {"idle", "own"}
    BY <1>3 DEF LoopCrash, LoopPoll, LoopTimeout, HostCancel, Emit, Decide,
       DecideResend, DecideComplete, DecideApiError, DecideLimit, DecideBanner,
       DecideAgain, Unfinished, Goes
  <2> QED BY <2>1, <2>2, <2>3, WatchKept
<1>4. CASE Scan
  <2>1. pc = "scan" /\ stateLock = "consumer"
    BY <1>4 DEF Scan, ScanEcho, ScanEnqueue, ScanRoute, ScanTerminal,
       ScanForeignTerminal, ScanFailure, ScanEnd, Scanning, SteerFence, LockHolders
  <2>2. UNCHANGED watchPc
    BY <1>4 DEF Scan, ScanEcho, ScanEnqueue, ScanRoute, ScanTerminal,
       ScanForeignTerminal, ScanFailure, ScanEnd, ScanFrame, others
  <2>3. UNCHANGED stateLock \/ stateLock' = None
    BY <1>4 DEF Scan, ScanEcho, ScanEnqueue, ScanRoute, ScanTerminal,
       ScanForeignTerminal, ScanFailure, ScanEnd, ScanFrame
  <2> QED BY <2>1, <2>2, <2>3, WatchKept
<1>5. CASE Read \/ Finally
  <2>1. /\ UNCHANGED watchPc /\ pc \notin {"idle", "own"}
        /\ UNCHANGED stateLock \/ (stateLock = None /\ stateLock' = "consumer")
    BY <1>5 DEF Read, Finally, FinallyDetach, FinallyReap, lockSt, hostSide, others
  <2> QED BY <2>1, WatchKept
<1>6. ASSUME NEW s \in Steers, Steer(s) \/ SteerCall(s) \/ SteerWriteFailed(s) \/ SteerDeadline(s)
      PROVE  WatchInv'
  <2>1. UNCHANGED <<watchPc, pc>>
    BY <1>6 DEF Steer, SteerCall, SteerWriteFailed, SteerDeadline, SteerRefused,
       SteerTooLate, SteerAdmit, SteerWritten, SteerFailClosed, SteerReap,
       SteerAcknowledged, SteerFrame, others
  <2>2. \/ UNCHANGED stateLock
        \/ stateLock = None /\ stateLock' = "steer"
        \/ stateLock = "steer" /\ stateLock' = None
    BY <1>6 DEF SteerFence, LockHolders, Steer, SteerCall, SteerWriteFailed, SteerDeadline,
       SteerRefused, SteerTooLate, SteerAdmit, SteerWritten, SteerFailClosed, SteerReap,
       SteerAcknowledged, SteerMayEnter, UnlockOnError, lockSt
  <2> QED BY <2>1, <2>2, WatchKept
<1>7. CASE \/ Host \/ InterruptMark \/ WatchWake \/ Enter
           \/ ClaudeStep \/ CCNotify \/ CCFailTurn \/ CCBanner \/ CCLose
           \/ CCDie \/ \E s \in Steers : CCForeign(s)
  <2>1. UNCHANGED stateLock
    BY <1>7 DEF Host, InterruptMark, InterruptDetach, InterruptReap, InterruptEscape,
       StopLock, StopReap, WatchWake, Enter, CancelOwn, Acquire, lockSt,
       ClaudeStep, CCStart, CCEcho, CCEnqueue, CCRemove, CCDequeue, CCEndTurn,
       CCEscape, CCNotify, CCFailTurn, CCBanner, CCLose, CCDie, CCForeign, CCRuns, CCFrame
  <2>2. (watchPc' = "read") <=> (watchPc = "read")
    BY <1>7 DEF Host, InterruptMark, InterruptDetach, InterruptReap, InterruptEscape,
       StopLock, StopReap, WatchWake, Enter, CancelOwn, Acquire, hostSide, others,
       ClaudeStep, CCStart, CCEcho, CCEnqueue, CCRemove, CCDequeue, CCEndTurn,
       CCEscape, CCNotify, CCFailTurn, CCBanner, CCLose, CCDie, CCForeign, CCRuns, CCFrame
  <2>3. UNCHANGED pc \/ pc' \in {"own", "idle"}
    BY <1>7 DEF Host, InterruptMark, InterruptDetach, InterruptReap, InterruptEscape,
       StopLock, StopReap, WatchWake, Enter, CancelOwn, Acquire, HostFrame,
       ClaudeStep, CCStart, CCEcho, CCEnqueue, CCRemove, CCDequeue, CCEndTurn,
       CCEscape, CCNotify, CCFailTurn, CCBanner, CCLose, CCDie, CCForeign, CCRuns, CCFrame
  <2> QED BY <2>1, <2>2, <2>3 DEF WatchInv
<1>8. CASE WatchLook \/ WatchRead \/ StopWatch
  <2>1. UNCHANGED pc
    BY <1>8 DEF WatchLook, WatchRead, StopWatch, HostFrame
  <2>2. watchPc' = "read" => pc = "idle"
    BY <1>8, TextsAssumption DEF WatchLook, WatchRead, StopWatch, WatcherMayRead,
       TypeInv, TypeOK, TypeSend
  <2>3. stateLock' = "watcher" <=> watchPc' = "read"
    BY <1>8, TextsAssumption DEF WatchInv, WatchLook, WatchRead, StopWatch
  <2> QED BY <2>1, <2>2, <2>3 DEF WatchInv
<1> QED BY <1>1, <1>2, <1>3, <1>4, <1>5, <1>6, <1>7, <1>8 DEF Next, Chance, Consume, Round, Watch

LEMMA WatchInit == Init => WatchInv
BY TextsAssumption DEF Init, WatchInv

(* Both are inductive together. *)
FenceInv == SteerFence /\ WatchInv

LEMMA FenceInit == Init => FenceInv
BY SteerFenceInit, WatchInit DEF FenceInv

LEMMA FenceStep == TypeInv /\ FenceInv /\ [Next]_vars => FenceInv'
BY SteerFenceStep, WatchStep DEF FenceInv

(* Whenever _turn_state_lock is free and a steer is open, the process it was
   written to is the one that detaching the turn will stop first: no path of
   session.py leaves an open receipt without its quarantine. *)
THEOREM FenceHolds == Spec => []OpenSteerIsFenced
<1>1. FenceInv => OpenSteerIsFenced
  BY DEF FenceInv, SteerFence, OpenIsFenced, OpenSteerIsFenced
<1> QED
  BY <1>1, TypeInvInit, TypeInvStep, FenceInit, FenceStep, PTL DEF Spec
================================================================================
