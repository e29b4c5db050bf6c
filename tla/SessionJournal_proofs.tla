------------------------- MODULE SessionJournal_proofs -------------------------
(***************************************************************************)
(* What else holds of SessionTurn for every number of prompts, steers,     *)
(* processes and records, and for every environment (but see the end):     *)
(*   JournalRead      no record of the journal is skipped or read twice    *)
(*   FenceEnds        no fence outlives the send that it belongs to        *)
(*   ReaderOwned      while a send runs, only it moves the file offset     *)
(*   AckGenuine       True from a steer is a receipt for that very input   *)
(*   CompletionOwns   completion is reported on the terminal of the turn   *)
(*                    that executed the prompt                             *)
(*   SteerFollowed    a steer still to be run never outlives its consumer  *)
(*   FalseNeverRuns   after False from a steer its text does not run later *)
(* The last two are without the notifications of sub-agents and the second *)
(* delivery of a prompt, with which they do not hold.                      *)
(***************************************************************************)
EXTENDS SessionTurn_proofs, SequenceTheorems

(* The rounds of the polling loop, in which a turn can be steered. *)
InRounds == pc \in {"loop", "poll", "scan", "emit", "decide", "detach"}

(* The turn belongs to the holder of _send_lock, and only while it is owned is it
   steerable or fenced, by the process that the prompt was delivered to. *)
OwnerInv == owner # None => owner = sending /\ pc \notin {"idle", "own", "reap"}
ActiveInv == active # NoProc => owner # None /\ active = fg.proc /\ InRounds
UnsettledInv == unsettled # NoProc => owner # None /\ unsettled = fg.proc /\ InRounds
PendingInv == pending # None => unsettled # NoProc
AdmittedInv == \A s \in Steers : Busy(s) => unsettled \in {NoProc, receipt[s].proc}
TurnInv == OwnerInv /\ ActiveInv /\ UnsettledInv /\ PendingInv /\ AdmittedInv
--------------------------------------------------------------------------------
LEMMA TurnInit == Init => TurnInv
BY DEF Init, TurnInv, OwnerInv, ActiveInv, UnsettledInv, PendingInv, AdmittedInv, Busy

(* A step that sets nothing of it, and clears it together. *)
LEMMA TurnLoses ==
  ASSUME TurnInv,
         owner' \in {owner, None}, active' \in {active, NoProc},
         unsettled' \in {unsettled, NoProc},
         owner' = None => active' = NoProc /\ unsettled' = NoProc,
         pending' # None => unsettled' # NoProc,
         owner' # None => sending' = sending /\ pc' \notin {"idle", "own", "reap"},
         active' # NoProc \/ unsettled' # NoProc => InRounds' /\ fg'.proc = fg.proc,
         \A s \in Steers : Busy(s)' => Busy(s) /\ receipt'[s].proc = receipt[s].proc
  PROVE  TurnInv'
<1>1. OwnerInv' /\ ActiveInv' /\ UnsettledInv' /\ PendingInv'
  BY DEF TurnInv, OwnerInv, ActiveInv, UnsettledInv, PendingInv
<1>2. AdmittedInv'
  BY DEF TurnInv, AdmittedInv
<1> QED BY <1>1, <1>2 DEF TurnInv

(* A step that only moves the consumer, *)
LEMMA TurnKept ==
  ASSUME TurnInv, UNCHANGED <<turnSt, spc>>,
         \A s \in Steers : receipt'[s].proc = receipt[s].proc,
         \/ sending' = sending /\ pc' \notin {"idle", "own", "reap"}
         \/ pc \in {"idle", "own", "reap"}
         \/ UNCHANGED <<sending, pc>>,
         InRounds => InRounds' /\ fg'.proc = fg.proc
  PROVE  TurnInv'
<1>1. \A s \in Steers : Busy(s)' => Busy(s) /\ receipt'[s].proc = receipt[s].proc
  BY DEF Busy
<1>2. owner' = None => active' = NoProc /\ unsettled' = NoProc
  BY DEF turnSt, TurnInv, ActiveInv, UnsettledInv
<1>3. owner' # None => sending' = sending /\ pc' \notin {"idle", "own", "reap"}
  BY DEF turnSt, TurnInv, OwnerInv
<1>4. active' # NoProc \/ unsettled' # NoProc => InRounds' /\ fg'.proc = fg.proc
  BY DEF turnSt, TurnInv, ActiveInv, UnsettledInv
<1>5. pending' # None => unsettled' # NoProc
  BY DEF turnSt, TurnInv, PendingInv
<1> QED BY <1>1, <1>2, <1>3, <1>4, <1>5, TurnLoses DEF turnSt

(* up to the delivery of the prompt, *)
LEMMA TurnSend ==
  ASSUME TypeInv, TurnInv, Send \/ Enter
  PROVE  TurnInv'
<1>1. CASE Own
  <2>1. owner = None /\ active' = NoProc /\ unsettled = NoProc /\ pending = None
    BY <1>1 DEF Own, TurnInv, OwnerInv, UnsettledInv, PendingInv
  <2>2. /\ UNCHANGED <<pending, unsettled, sending, spc, receipt>>
        /\ owner' = sending /\ pc' = "check"
    BY <1>1 DEF Own, hostSide, steerSt
  <2> QED BY <1>1, <2>1, <2>2 DEF TurnInv, OwnerInv, ActiveInv, UnsettledInv,
        PendingInv, AdmittedInv, Busy
<1>2. CASE (Send /\ ~Own) \/ Enter
  <2>1. UNCHANGED <<turnSt, spc, receipt>>
    BY <1>2 DEF Send, Enter, CancelOwn, Acquire, CheckAlive, CheckRefused, ResumeBegin,
       ResumeDone,
       ResumeFailed, Backlog, DeliverChannel, DeliverStdin, DeliverFailed, Exit,
       lockSt, hostSide, steerSt
  <2>2. ~InRounds
    BY <1>2 DEF InRounds, Send, Enter, CancelOwn, Acquire, CheckAlive, CheckRefused, ResumeBegin,
       ResumeDone, ResumeFailed, Backlog, DeliverChannel, DeliverStdin, DeliverFailed
  <2>3. \/ sending' = sending /\ pc' \notin {"idle", "own", "reap"}
        \/ pc \in {"idle", "own", "reap"}
    BY <1>2 DEF Send, Enter, CancelOwn, Acquire, CheckAlive, CheckRefused, ResumeBegin,
       ResumeDone, ResumeFailed, Backlog, DeliverChannel, DeliverStdin,
       DeliverFailed, Exit, Finish
  <2> QED BY <2>1, <2>2, <2>3, TurnKept
<1> QED BY <1>1, <1>2

(* the rounds, *)
LEMMA TurnRounds ==
  ASSUME TypeInv, TurnInv,
         \/ LoopCrash \/ LoopPoll \/ LoopTimeout \/ HostCancel \/ Read \/ Emit
         \/ Decide \/ DecideResend
  PROVE  TurnInv'
<1>1. CASE LoopCrash \/ LoopPoll \/ LoopTimeout \/ HostCancel \/ Read \/ DecideResend
           \/ (Decide /\ ~DecideComplete)
  <2>1. UNCHANGED <<turnSt, spc, receipt, sending>>
    BY <1>1 DEF LoopCrash, LoopPoll, LoopTimeout, HostCancel, Read, Decide,
       DecideResend, DecideApiError, DecideLimit, DecideBanner,
       DecideAgain, DecideFrame, Exit, lockSt, turnSt, hostSide, steerSt
  <2>2. pc' \in {"loop", "poll", "scan", "decide", "detach"}
    BY <1>1 DEF LoopCrash, LoopPoll, LoopTimeout, HostCancel, Read, Decide,
       DecideResend, DecideApiError, DecideLimit, DecideBanner,
       DecideAgain, Unfinished, Goes, Exit, Finish
  <2>3. fg'.proc = fg.proc
    BY <1>1 DEF LoopCrash, LoopPoll, LoopTimeout, HostCancel, Read, Decide,
       DecideResend, DecideApiError, DecideLimit, DecideBanner,
       DecideAgain, Exit, locals, TypeInv, TypeOK, TypeSend, FgType
  <2> QED BY <2>1, <2>2, <2>3, TurnKept DEF InRounds
<1>2. CASE Emit
  <2>1. /\ UNCHANGED <<owner, pending, unsettled, spc, receipt, sending>>
        /\ pc = "emit" /\ pc' = "decide"
    BY <1>2 DEF Emit, hostSide, steerSt
  <2>2. fg'.proc = fg.proc
    BY <1>2 DEF Emit, TypeInv, TypeOK, TypeSend, FgType
  <2>3. active' = active \/ (active' = fg.proc /\ owner = sending /\ Activates)
    BY <1>2 DEF Emit
  <2>4. sending # None
    BY <2>1, TextsAssumption DEF TypeInv
  <2> QED BY <2>1, <2>2, <2>3, <2>4 DEF TurnInv, OwnerInv, ActiveInv, UnsettledInv,
        PendingInv, AdmittedInv, Busy, InRounds
<1>3. CASE DecideComplete
  <2>1. /\ UNCHANGED <<pending, unsettled, spc, receipt, sending, fg>>
        /\ pc = "decide" /\ pc' = "detach"
    BY <1>3 DEF DecideComplete, DecideFrame, Goes, Finish, hostSide, steerSt
  <2>2. \/ UNCHANGED <<owner, active>>
        \/ owner' = None /\ active' = NoProc /\ pending = None /\ unsettled = NoProc
    BY <1>3 DEF DecideComplete, DeferredOver
  <2> QED BY <2>1, <2>2 DEF TurnInv, OwnerInv, ActiveInv, UnsettledInv,
        PendingInv, AdmittedInv, Busy, InRounds
<1> QED BY <1>1, <1>2, <1>3

(* the scan of a batch, *)
LEMMA TurnScan ==
  ASSUME TypeInv, FenceInv, TurnInv, Scan
  PROVE  TurnInv'
<1>0. TypeSend /\ TypeSteer /\ TypeLock /\ pc = "scan"
  BY DEF TypeInv, TypeOK, Scan, ScanEcho, ScanEnqueue, ScanRoute, ScanTerminal,
     ScanForeignTerminal, ScanFailure, ScanEnd, Scanning
<1>a. sending # None
  BY <1>0, TextsAssumption DEF TypeInv
<1>1. CASE ScanEnqueue \/ ScanForeignTerminal \/ ScanFailure
  <2>1. UNCHANGED <<turnSt, spc, sending, pc>>
    BY <1>1 DEF ScanEnqueue, ScanForeignTerminal, ScanFailure, ScanFrame
  <2>2. \A s \in Steers : receipt'[s].proc = receipt[s].proc
    BY <1>0, <1>1 DEF ScanEnqueue, ScanForeignTerminal, ScanFailure, TypeSteer,
       ReceiptType
  <2>3. fg'.proc = fg.proc
    BY <1>0, <1>1 DEF ScanEnqueue, ScanForeignTerminal, ScanFailure, TypeSend, FgType
  <2> QED BY <2>1, <2>2, <2>3, TurnKept DEF InRounds
<1>2. CASE ScanEcho
  <2>1. UNCHANGED <<owner, pending, unsettled, spc, receipt, sending, pc>>
    BY <1>2 DEF ScanEcho, ScanFrame
  <2>2. fg'.proc = fg.proc
    BY <1>0, <1>2 DEF ScanEcho, TypeSend, FgType
  <2>3. active' = active \/ (active' = fg.proc /\ owner = sending)
    BY <1>2 DEF ScanEcho
  <2> QED BY <1>0, <1>a, <2>1, <2>2, <2>3 DEF TurnInv, OwnerInv, ActiveInv,
        UnsettledInv, PendingInv, AdmittedInv, Busy, InRounds
<1>3. CASE ScanRoute
  <2>1. UNCHANGED <<owner, spc, receipt, sending, pc>>
    BY <1>3 DEF ScanRoute, ScanFrame
  <2>2. fg'.proc = fg.proc
    BY <1>0, <1>3 DEF ScanRoute, TypeSend, FgType
  <2>3. \/ UNCHANGED <<active, pending, unsettled>>
        \/ pending' = None /\ active' \in {active, NoProc} /\ unsettled' \in {unsettled, NoProc}
    BY <1>3 DEF ScanRoute
  <2> QED BY <1>0, <2>1, <2>2, <2>3 DEF TurnInv, OwnerInv, ActiveInv,
        UnsettledInv, PendingInv, AdmittedInv, Busy, InRounds
<1>4. CASE ScanTerminal
  <2>1. UNCHANGED <<pending, spc, receipt, sending, pc>> /\ active' = NoProc
    BY <1>4 DEF ScanTerminal, ScanFrame
  <2>2. fg'.proc = fg.proc
    BY <1>0, <1>4 DEF ScanTerminal, TypeSend, FgType
  <2>3. \/ UNCHANGED <<owner, unsettled>>
        \/ /\ pending = None /\ owner' = None
           /\ unsettled' = IF unsettled = fg.proc THEN NoProc ELSE unsettled
    BY <1>4 DEF ScanTerminal, Defers
  <2> QED BY <1>0, <2>1, <2>2, <2>3 DEF TurnInv, OwnerInv, ActiveInv,
        UnsettledInv, PendingInv, AdmittedInv, Busy, InRounds
<1>5. CASE ScanEnd
  <2>1. UNCHANGED <<spc, receipt, sending>> /\ pc' = "emit"
    BY <1>5 DEF ScanEnd
  <2>2. fg'.proc = fg.proc
    BY <1>0, <1>5 DEF ScanEnd, TypeSend, FgType
  <2>3. active' \in {active, NoProc}
    BY <1>5 DEF ScanEnd
  <2>4. \/ owner' = None /\ active' = NoProc /\ pending' = None /\ unsettled' = NoProc
        \/ /\ UNCHANGED <<owner, unsettled>>
           /\ pending' = pending \/ unsettled # NoProc
    <3>1. Releases => unsettled = receipt[scan.unc].proc
      BY DEF Releases, FenceInv, SteerFence, OpenIsFenced
    <3> QED BY <1>5, <3>1 DEF ScanEnd, Reattaches
  <2> QED BY <1>0, <2>1, <2>2, <2>3, <2>4 DEF TurnInv, OwnerInv, ActiveInv,
        UnsettledInv, PendingInv, AdmittedInv, Busy, InRounds
<1> QED BY <1>1, <1>2, <1>3, <1>4, <1>5 DEF Scan

(* the ends of a turn, *)
LEMMA TurnEnds ==
  ASSUME TypeInv, TurnInv,
         \/ Finally \/ InterruptDetach \/ StopLock
  PROVE  TurnInv'
<1>1. CASE FinallyReap
  <2>1. UNCHANGED <<turnSt, spc, receipt>> /\ pc = "reap" /\ pc' = "idle"
    BY <1>1 DEF FinallyReap, lockSt
  <2> QED BY <2>1, TurnKept DEF InRounds
<1>2. CASE FinallyDetach
  <2>1. /\ UNCHANGED <<spc, receipt, sending>> /\ pc' = "reap"
    BY <1>2 DEF FinallyDetach
  <2>2. owner' = None /\ active' = NoProc /\ pending' = None /\ unsettled' = NoProc
    <3>1. CASE owner = sending
      BY <1>2, <3>1 DEF FinallyDetach, Detach
    <3>2. CASE owner # sending
      BY <1>2, <3>2 DEF FinallyDetach, Detach, TurnInv, OwnerInv, ActiveInv,
         UnsettledInv, PendingInv
    <3> QED BY <3>1, <3>2
  <2> QED BY <2>1, <2>2 DEF TurnInv, OwnerInv, ActiveInv,
        UnsettledInv, PendingInv, AdmittedInv, Busy
<1>3. CASE InterruptDetach \/ StopLock
  <2>1. UNCHANGED <<spc, receipt, sending, pc, fg>>
    BY <1>3 DEF InterruptDetach, StopLock, HostFrame, locals
  <2>2. \/ UNCHANGED <<owner, active, pending, unsettled>>
        \/ owner' = None /\ active' = NoProc /\ pending' = None /\ unsettled' = NoProc
    BY <1>3 DEF InterruptDetach, StopLock, Detach
  <2> QED BY <2>1, <2>2 DEF TurnInv, OwnerInv, ActiveInv,
        UnsettledInv, PendingInv, AdmittedInv, Busy, InRounds
<1> QED BY <1>1, <1>2, <1>3 DEF Finally

(* steering, *)
LEMMA TurnSteer ==
  ASSUME TypeInv, FenceInv, TurnInv, NEW s \in Steers,
         \/ Steer(s) \/ SteerCall(s) \/ SteerWriteFailed(s) \/ SteerDeadline(s)
  PROVE  TurnInv'
<1>0. TypeSteer /\ TypeLock
  BY DEF TypeInv, TypeOK
<1>1. UNCHANGED <<sending, pc, fg>>
  BY DEF Steer, SteerCall, SteerWriteFailed, SteerDeadline, SteerRefused, SteerTooLate,
     SteerAdmit, SteerWritten, SteerFailClosed, SteerReap, SteerAcknowledged,
     SteerFrame, locals
<1>2. CASE \/ SteerRefused(s) \/ SteerWritten(s) \/ SteerWriteFailed(s) \/ SteerReap(s)
           \/ SteerAcknowledged(s) \/ SteerDeadline(s) \/ SteerCall(s)
  <2>1. UNCHANGED turnSt
    BY <1>2 DEF SteerCall, SteerWriteFailed, SteerDeadline, SteerRefused,
       SteerWritten, SteerReap, SteerAcknowledged, SteerFrame, lockSt, turnSt
  <2>2. \A u \in Steers : receipt'[u].proc = receipt[u].proc
    BY <1>0, <1>2 DEF SteerCall, SteerWriteFailed, SteerDeadline, SteerRefused,
       SteerWritten, SteerReap, SteerAcknowledged, TypeSteer, ReceiptType
  <2>3. \A u \in Steers : Busy(u)' => Busy(u)
    BY <1>0, <1>2 DEF SteerCall, SteerWriteFailed, SteerDeadline, SteerRefused,
       SteerWritten, SteerReap, SteerAcknowledged, TypeSteer, Busy, Return
  <2> QED BY <1>1, <2>1, <2>2, <2>3 DEF turnSt, TurnInv, OwnerInv, ActiveInv,
        UnsettledInv, PendingInv, AdmittedInv, InRounds
<1>3. CASE SteerTooLate(s)
  <2>1. /\ UNCHANGED <<pending, unsettled, receipt>>
        /\ unsettled = NoProc /\ pending = None /\ owner' = None /\ active' = NoProc
    BY <1>3 DEF SteerTooLate, Admissible
  <2> QED BY <1>1, <2>1 DEF TurnInv, OwnerInv, ActiveInv,
        UnsettledInv, PendingInv, AdmittedInv, InRounds
<1>4. CASE SteerAdmit(s)
  <2>1. /\ UNCHANGED <<owner, active>>
        /\ active = process /\ active # NoProc
        /\ pending' = s /\ unsettled' = process
        /\ \A t \in Steers : ~Busy(t)
    BY <1>4 DEF SteerAdmit, Admissible, SteerMayEnter, AdmissionFree
  <2>2. receipt'[s].proc = process
    BY <1>0, <1>4 DEF SteerAdmit, TypeSteer, ReceiptType
  <2>3. \A t \in Steers : Busy(t)' => t = s
    BY <1>0, <1>4, <2>1 DEF SteerAdmit, TypeSteer, Busy
  <2> QED BY <1>1, <2>1, <2>2, <2>3 DEF TurnInv, OwnerInv, ActiveInv,
        UnsettledInv, PendingInv, AdmittedInv, InRounds
<1>5. CASE SteerFailClosed(s)
  <2>1. Busy(s) /\ UNCHANGED receipt
    BY <1>5 DEF SteerFailClosed, Busy
  <2>2. pending' = None /\ unsettled' = NoProc
    BY <1>5, <2>1 DEF SteerFailClosed, FenceInv, SteerFence, OneAdmitted, TurnInv, AdmittedInv
  <2>3. \/ UNCHANGED <<owner, active>>
        \/ owner' = None /\ active' = NoProc
    BY <1>5 DEF SteerFailClosed
  <2> QED BY <1>1, <2>1, <2>2, <2>3 DEF TurnInv, OwnerInv, ActiveInv,
        UnsettledInv, PendingInv, AdmittedInv, InRounds
<1> QED BY <1>2, <1>3, <1>4, <1>5 DEF Steer

(* and Claude Code, the watcher and processes that are stopped. *)
OtherSteps ==
    \/ ClaudeStep \/ CCNotify \/ CCFailTurn \/ CCBanner \/ CCLose \/ CCDie
    \/ Watch \/ InterruptMark \/ StopWatch \/ InterruptReap \/ InterruptEscape \/ StopReap
    \/ \E s \in Steers : CCForeign(s)

LEMMA OthersKeep ==
  ASSUME OtherSteps
  PROVE  UNCHANGED <<owner, active, pending, unsettled, sending, pc, fg, scan, outcome,
                     spc, receipt, bound, restarts, process>>
BY DEF OtherSteps, ClaudeStep, CCStart, CCEcho, CCEnqueue, CCRemove, CCDequeue,
   CCEndTurn, CCEscape, CCNotify, CCFailTurn, CCBanner, CCLose, CCDie, CCForeign,
   CCRuns, CCFrame, Watch, WatchWake, WatchLook, WatchRead, StopWatch, InterruptMark,
   InterruptReap,
   InterruptEscape, StopReap, HostFrame, lockSt, turnSt, locals, hostSide, steerSt,
   ghosts

LEMMA TurnStep == TypeInv /\ FenceInv /\ TurnInv /\ [Next]_vars => TurnInv'
<1> SUFFICES ASSUME TypeInv, FenceInv, TurnInv, [Next]_vars PROVE TurnInv'
  OBVIOUS
<1>1. CASE UNCHANGED vars \/ OtherSteps
  <2>1. UNCHANGED <<owner, active, pending, unsettled, sending, pc, fg, spc, receipt>>
    BY <1>1, OthersKeep DEF vars, turnSt, locals, steerSt
  <2> QED BY <2>1 DEF TurnInv, OwnerInv, ActiveInv,
        UnsettledInv, PendingInv, AdmittedInv, InRounds, Busy
<1>2. CASE Consume \/ HostCancel \/ DecideResend \/ LoopPoll \/ LoopTimeout
           \/ Enter
  BY <1>2, TurnSend, TurnRounds, TurnScan, TurnEnds DEF Consume, Round
<1>3. CASE \E s \in Steers : \/ Steer(s) \/ SteerCall(s) \/ SteerWriteFailed(s)
                             \/ SteerDeadline(s)
  BY <1>3, TurnSteer
<1>4. CASE InterruptDetach \/ StopLock
  BY <1>4, TurnEnds
<1> QED BY <1>1, <1>2, <1>3, <1>4 DEF Next, Chance, Host, OtherSteps
--------------------------------------------------------------------------------
(* Sequences of records *)
LEMMA Joined ==
  ASSUME NEW a \in Seq(Record), NEW b \in Seq(Record)
  PROVE  /\ a \o b \in Seq(Record) /\ a \o <<>> = a /\ <<>> \o b = b
         /\ Len(a \o b) = Len(a) + Len(b) /\ Len(a) \in Nat /\ Len(b) \in Nat
         /\ \A i \in 1 .. Len(a) + Len(b) :
              (a \o b)[i] = IF i <= Len(a) THEN a[i] ELSE b[i - Len(a)]
BY ConcatProperties, ConcatEmptySeq, LenProperties

LEMMA JoinedAgain ==
  ASSUME NEW a \in Seq(Record), NEW b \in Seq(Record), NEW c \in Seq(Record)
  PROVE  (a \o b) \o c = a \o (b \o c)
BY ConcatAssociative

LEMMA Shorter ==
  ASSUME NEW a \in Seq(Record), a # <<>>
  PROVE  /\ Head(a) = a[1] /\ Head(a) \in Record /\ Tail(a) \in Seq(Record)
         /\ Len(a) \in Nat \ {0} /\ Len(Tail(a)) = Len(a) - 1
         /\ \A i \in 1 .. Len(a) - 1 : Tail(a)[i] = a[i + 1]
<1>1. Head(a) = a[1] /\ Len(a) \in Nat \ {0}
  BY EmptySeq
<1> QED BY <1>1, HeadTailProperties

LEMMA JoinedTail ==
  ASSUME NEW a \in Seq(Record), NEW b \in Seq(Record), a # <<>>
  PROVE  a \o b # <<>> /\ Head(a \o b) = Head(a) /\ Tail(a \o b) = Tail(a) \o b
<1> DEFINE ab == a \o b
           tb == Tail(a) \o b
<1>1. /\ ab \in Seq(Record) /\ Len(ab) = Len(a) + Len(b) /\ Len(b) \in Nat
      /\ \A i \in 1 .. Len(a) + Len(b) :
              ab[i] = IF i <= Len(a) THEN a[i] ELSE b[i - Len(a)]
  BY Joined
<1>2. /\ Head(a) = a[1] /\ Tail(a) \in Seq(Record)
      /\ Len(a) \in Nat \ {0} /\ Len(Tail(a)) = Len(a) - 1
      /\ \A i \in 1 .. Len(a) - 1 : Tail(a)[i] = a[i + 1]
  BY Shorter
<1>3. /\ tb \in Seq(Record) /\ Len(tb) = Len(a) - 1 + Len(b)
      /\ \A i \in 1 .. Len(a) - 1 + Len(b) :
              tb[i] = IF i <= Len(a) - 1 THEN Tail(a)[i] ELSE b[i - (Len(a) - 1)]
  BY <1>2, Joined
<1> HIDE DEF ab, tb
<1>4. ab # <<>>
  BY <1>1, <1>2, EmptySeq
<1>5. /\ Head(ab) = ab[1] /\ Tail(ab) \in Seq(Record)
      /\ Len(Tail(ab)) = Len(ab) - 1
      /\ \A i \in 1 .. Len(ab) - 1 : Tail(ab)[i] = ab[i + 1]
  BY <1>1, <1>4, Shorter
<1>6. Head(ab) = Head(a)
  BY <1>1, <1>2, <1>5
<1>7. \A i \in 1 .. Len(tb) : tb[i] = Tail(ab)[i]
  <2> SUFFICES ASSUME NEW i \in 1 .. Len(tb) PROVE tb[i] = Tail(ab)[i]
    OBVIOUS
  <2>1. i \in 1 .. Len(a) - 1 + Len(b) /\ i \in 1 .. Len(ab) - 1 /\ i + 1 \in 1 .. Len(a) + Len(b)
    BY <1>1, <1>2, <1>3
  <2>2. Tail(ab)[i] = IF i + 1 <= Len(a) THEN a[i + 1] ELSE b[i + 1 - Len(a)]
    BY <1>1, <1>5, <2>1
  <2>3. CASE i <= Len(a) - 1
    <3>1. i \in 1 .. Len(a) - 1 /\ i + 1 <= Len(a)
      BY <1>1, <1>2, <2>1, <2>3
    <3> QED BY <1>2, <1>3, <2>1, <2>2, <2>3, <3>1
  <2>4. CASE ~(i <= Len(a) - 1)
    <3>1. ~(i + 1 <= Len(a)) /\ i + 1 - Len(a) = i - (Len(a) - 1)
      BY <1>1, <1>2, <2>1, <2>4
    <3> QED BY <1>3, <2>1, <2>2, <2>4, <3>1
  <2> QED BY <2>3, <2>4
<1>8. tb = Tail(ab)
  BY <1>1, <1>2, <1>3, <1>5, <1>7, SeqEqual
<1> QED BY <1>4, <1>6, <1>8 DEF ab, tb

LEMMA JoinedAppend ==
  ASSUME NEW a \in Seq(Record), NEW b \in Seq(Record), NEW r \in Record
  PROVE  a \o Append(b, r) = Append(a \o b, r)
<1>1. <<r>> \in Seq(Record) /\ a \o b \in Seq(Record)
  BY Joined
<1>2. Append(b, r) = b \o <<r>> /\ Append(a \o b, r) = (a \o b) \o <<r>>
  BY <1>1, AppendIsConcat
<1> QED BY <1>1, <1>2, JoinedAgain
--------------------------------------------------------------------------------
(* The records between the consumer and the end of the file. *)
Batch == scan.batch
PlaceInv == /\ Batch # <<>> => pc = "scan"
            /\ pc = "spawn" => prefetched = <<>>

(* The positions c + 1 .. n, in order *)
Numbered(q, c, n) ==
    Len(q) = n - c /\ \A i \in DOMAIN q : q[i].id = c + i
StreamInv ==
    PlaceInv /\ (stopPc = "ready" /\ pc # "spawn" => Numbered(Stream, consumed, nrec))

LEMMA StreamTyped ==
  ASSUME TypeInv
  PROVE  /\ Batch \in Seq(Record) /\ prefetched \in Seq(Record) /\ unread \in Seq(Record)
         /\ prefetched \o unread \in Seq(Record)
         /\ Stream \in Seq(Record) /\ consumed \in Nat /\ nrec \in Nat
         /\ Stream = Batch \o (prefetched \o unread)
         /\ PlaceInv /\ pc # "scan" => Batch = <<>> /\ Stream = prefetched \o unread
<1>1. /\ Batch \in Seq(Record) /\ prefetched \in Seq(Record) /\ unread \in Seq(Record)
      /\ consumed \in Nat /\ nrec \in Nat
  BY BoundsAssumption DEF TypeInv, TypeOK, TypeSend, ScanType, TypeReader, Batch
<1>2. /\ Stream = (Batch \o prefetched) \o unread
      /\ Batch \o prefetched \in Seq(Record) /\ prefetched \o unread \in Seq(Record)
  BY <1>1, Joined DEF Stream, Batch
<1>3. Stream \in Seq(Record)
  BY <1>1, <1>2, Joined
<1>4. Stream = Batch \o (prefetched \o unread)
  BY <1>1, <1>2, JoinedAgain
<1>5. PlaceInv /\ pc # "scan" => Batch = <<>> /\ Stream = prefetched \o unread
  BY <1>2, <1>4, Joined DEF PlaceInv
<1> QED BY <1>1, <1>2, <1>3, <1>4, <1>5

(* Who moves records from one place to the next moves no record in the stream, *)
LEMMA StreamMoved ==
  ASSUME TypeInv, PlaceInv,
         \/ /\ prefetched' = prefetched /\ unread' = unread
            /\ \/ scan'.batch = Batch
               \/ pc # "scan" /\ scan'.batch = <<>>
         \/ prefetched' = HandedBack /\ unread' = <<>> /\ scan'.batch = Batch
         \/ /\ pc # "scan" /\ prefetched' = <<>> /\ unread' = <<>>
            /\ scan'.batch = prefetched \o unread
  PROVE  Stream' = Stream
<1>1. CASE prefetched' = prefetched /\ unread' = unread
  BY <1>1, StreamTyped DEF Stream, Batch
<1>2. CASE prefetched' = HandedBack /\ unread' = <<>> /\ scan'.batch = Batch
  <2>1. Stream' = (Batch \o HandedBack) \o <<>>
    BY <1>2 DEF Stream
  <2>2. Batch \in Seq(Record) /\ HandedBack \in Seq(Record)
    BY StreamTyped DEF HandedBack
  <2>3. Batch \o HandedBack \in Seq(Record)
    BY <2>2, Joined
  <2>4. Stream' = Batch \o HandedBack
    BY <2>1, <2>3, Joined
  <2> QED BY <2>4, StreamTyped DEF HandedBack
<1>3. CASE /\ pc # "scan" /\ prefetched' = <<>> /\ unread' = <<>>
           /\ scan'.batch = prefetched \o unread
  <2>1. Stream' = ((prefetched \o unread) \o <<>>) \o <<>>
    BY <1>3 DEF Stream
  <2>2. prefetched \o unread \in Seq(Record)
    BY StreamTyped
  <2>3. Stream' = prefetched \o unread
    BY <2>1, <2>2, Joined
  <2> QED BY <1>3, <2>3, StreamTyped
<1> QED BY <1>1, <1>2, <1>3

(* a case of the scan takes the first one, *)
LEMMA StreamTaken ==
  ASSUME TypeInv, NEW K, Scanning(K), scan'.batch = Tail(Batch),
         UNCHANGED <<prefetched, unread>>
  PROVE  Stream # <<>> /\ Head(Stream) = Rec /\ Stream' = Tail(Stream)
<1>1. Batch # <<>> /\ Batch \in Seq(Record) /\ prefetched \o unread \in Seq(Record)
      /\ prefetched \in Seq(Record) /\ unread \in Seq(Record)
  BY StreamTyped DEF Scanning, Batch
<1>2. Tail(Batch) \in Seq(Record)
  BY <1>1, Shorter
<1>3. Stream' = (Tail(Batch) \o prefetched) \o unread
  BY DEF Stream
<1>4. Stream' = Tail(Batch) \o (prefetched \o unread)
  BY <1>1, <1>2, <1>3, JoinedAgain
<1>5. /\ Batch \o (prefetched \o unread) # <<>>
      /\ Head(Batch \o (prefetched \o unread)) = Head(Batch)
      /\ Tail(Batch \o (prefetched \o unread)) = Tail(Batch) \o (prefetched \o unread)
  BY <1>1, JoinedTail
<1> QED BY <1>4, <1>5, StreamTyped DEF Rec, Batch

(* and Claude Code appends. *)
LEMMA StreamAppended ==
  ASSUME TypeInv, NEW r \in Record, unread' = Append(unread, r),
         UNCHANGED <<prefetched, scan>>
  PROVE  Stream' = Append(Stream, r)
<1>1. /\ Batch \in Seq(Record) /\ prefetched \in Seq(Record) /\ unread \in Seq(Record)
  BY StreamTyped
<1>2. Batch \o prefetched \in Seq(Record)
  BY <1>1, Joined
<1>3. Stream' = (Batch \o prefetched) \o Append(unread, r)
  BY DEF Stream, Batch
<1> QED BY <1>1, <1>2, <1>3, JoinedAppend DEF Stream, Batch

LEMMA StreamEmptied ==
  ASSUME PlaceInv, pc # "scan", scan' = scan, prefetched' = <<>>, unread' = <<>>
  PROVE  Stream' = <<>>
BY DEF PlaceInv, Stream, Batch

LEMMA LastIsLast ==
  ASSUME TypeInv, PlaceInv, pc # "scan", Numbered(Stream, consumed, nrec)
  PROVE  LastId(prefetched \o unread) = nrec
<1>1. /\ prefetched \o unread \in Seq(Record) /\ consumed \in Nat /\ nrec \in Nat
      /\ Stream = prefetched \o unread
  BY StreamTyped
<1> DEFINE q == prefetched \o unread
<1> HIDE DEF q
<1>2. q \in Seq(Record) /\ Numbered(q, consumed, nrec)
  BY <1>1 DEF q
<1>3. LastId(q) = nrec
  BY <1>1, <1>2 DEF LastId, Numbered
<1> QED BY <1>3 DEF q
--------------------------------------------------------------------------------
(* What the steps do to the stream.  Most of them nothing: *)
LEMMA StreamStays ==
  ASSUME TypeInv, TurnInv, PlaceInv,
         \/ Enter
         \/ Own \/ CheckAlive \/ CheckRefused
         \/ DeliverChannel \/ DeliverStdin \/ DeliverFailed
         \/ LoopCrash \/ LoopPoll \/ LoopTimeout \/ HostCancel \/ Read \/ ScanEnd \/ Emit
         \/ Decide \/ DecideResend \/ Finally \/ InterruptDetach
  PROVE  Stream' = Stream /\ UNCHANGED <<consumed, nrec>> /\ PlaceInv'
<1>1. CASE \/ Enter
           \/ Own \/ CheckAlive \/ CheckRefused
           \/ DeliverChannel \/ DeliverStdin \/ DeliverFailed
           \/ LoopCrash \/ LoopPoll \/ LoopTimeout \/ HostCancel \/ Emit
           \/ Decide \/ DecideResend \/ Finally \/ InterruptDetach
  <2>1. UNCHANGED <<prefetched, unread, consumed, nrec>>
    BY <1>1 DEF Enter, CancelOwn, Acquire, Own, CheckAlive, CheckRefused, DeliverChannel,
       DeliverStdin,
       DeliverFailed, LoopCrash, LoopPoll, LoopTimeout, HostCancel, Emit, Decide,
       DecideResend, DecideComplete, DecideApiError, DecideLimit, DecideBanner,
       DecideAgain, DecideFrame, Exit, Finally, FinallyDetach, FinallyReap,
       InterruptDetach, HostFrame, reader, claude, ghosts
  <2>2. /\ scan' = scan \/ scan' = ScanInit
        /\ \/ pc' = pc /\ scan' = scan
           \/ pc # "scan" /\ pc' # "spawn"
    BY <1>1 DEF Enter, CancelOwn, Acquire, Own, CheckAlive, CheckRefused, DeliverChannel,
       DeliverStdin,
       DeliverFailed, LoopCrash, LoopPoll, LoopTimeout, HostCancel, Emit, Decide,
       DecideResend, DecideComplete, DecideApiError, DecideLimit, DecideBanner,
       DecideAgain, Unfinished, Goes, Exit, Finish, Finally, FinallyDetach,
       FinallyReap, InterruptDetach, HostFrame, locals
  <2>3. scan' = ScanInit => scan'.batch = <<>>
    BY DEF ScanInit
  <2>4. Stream' = Stream
    BY <2>1, <2>2, <2>3, StreamMoved DEF Batch
  <2>5. PlaceInv'
    BY <2>1, <2>2, <2>3 DEF PlaceInv, Batch
  <2> QED BY <2>1, <2>4, <2>5
<1>2. CASE Read
  <2>1. /\ UNCHANGED <<consumed, nrec>> /\ pc # "scan" /\ pc' = "scan"
        /\ prefetched' = <<>> /\ unread' = <<>>
        /\ scan'.batch = prefetched \o unread
    BY <1>2 DEF Read, ghosts, ScanInit
  <2> QED BY <2>1, StreamMoved DEF PlaceInv
<1>3. CASE ScanEnd
  <2>1. /\ UNCHANGED <<consumed, nrec, prefetched, unread>> /\ pc' = "emit"
        /\ Batch = <<>>
    BY <1>3 DEF ScanEnd, reader, claude, ghosts, Batch
  <2>2. scan'.batch = Batch
    BY <1>3 DEF ScanEnd, TypeInv, TypeOK, TypeSend, ScanType, Batch
  <2> QED BY <2>1, <2>2, StreamMoved DEF PlaceInv, Batch
<1> QED BY <1>1, <1>2, <1>3

LEMMA StreamSteered ==
  ASSUME TypeInv, TurnInv, PlaceInv, NEW s \in Steers,
         \/ Steer(s) \/ SteerCall(s) \/ SteerWriteFailed(s) \/ SteerDeadline(s)
  PROVE  Stream' = Stream /\ UNCHANGED <<consumed, nrec>> /\ PlaceInv'
<1>1. UNCHANGED <<pc, scan, consumed, nrec>>
  BY DEF Steer, SteerCall, SteerWriteFailed, SteerDeadline, SteerRefused, SteerTooLate,
     SteerAdmit, SteerWritten, SteerFailClosed, SteerReap, SteerAcknowledged,
     SteerFrame, locals, claude, ghosts
<1>2. \/ UNCHANGED <<prefetched, unread>>
      \/ prefetched' = HandedBack /\ unread' = <<>> /\ active # NoProc
  BY DEF Steer, SteerCall, SteerWriteFailed, SteerDeadline, SteerRefused, SteerTooLate,
     SteerAdmit, SteerWritten, SteerFailClosed, SteerReap, SteerAcknowledged,
     SteerFrame, claude, Admissible
<1>3. PlaceInv'
  BY <1>1, <1>2 DEF PlaceInv, Batch, TurnInv, ActiveInv, InRounds
<1> QED BY <1>1, <1>2, <1>3, StreamMoved DEF Batch

(* the cases of the scan take a record, *)
ScanCase ==
    \/ ScanEcho \/ ScanEnqueue \/ ScanRoute \/ ScanTerminal
    \/ ScanForeignTerminal \/ ScanFailure

LEMMA NextBatch ==
  ASSUME TypeSend
  PROVE  /\ NextRecord.batch = Tail(Batch)
         /\ \A b : [NextRecord EXCEPT !.started = b].batch = Tail(Batch)
         /\ \A b : [NextRecord EXCEPT !.done = b].batch = Tail(Batch)
         /\ \A u : [NextRecord EXCEPT !.unc = u].batch = Tail(Batch)
         /\ \A b, c : [NextRecord EXCEPT !.err = b, !.lim = c].batch = Tail(Batch)
         /\ \A u : [NextRecord EXCEPT !.enq = u].batch = Tail(Batch)
<1>1. NextRecord \in [batch : {Tail(Batch)}, started : {scan.started},
                      done : {scan.done}, err : {scan.err}, lim : {scan.lim},
                      enq : {scan.enq}, unc : {scan.unc}]
  BY DEF TypeSend, ScanType, NextRecord, Batch
<1> QED BY <1>1

LEMMA StreamScanned ==
  ASSUME TypeInv, PlaceInv, ScanCase
  PROVE  /\ Stream # <<>> /\ Rec = Head(Stream) /\ Stream' = Tail(Stream)
         /\ consumed' = Rec.id /\ PlaceInv' /\ pc = "scan"
         /\ UNCHANGED <<pc, nrec, prefetched, unread>>
<1>0. TypeSend
  BY DEF TypeInv, TypeOK
<1>1. scan'.batch = Tail(Batch)
  <2>1. CASE ScanEcho
    BY <1>0, <2>1, NextBatch DEF ScanEcho
  <2>2. CASE ScanEnqueue
    BY <1>0, <2>2, NextBatch DEF ScanEnqueue
  <2>3. CASE ScanRoute
    BY <1>0, <2>3, NextBatch DEF ScanRoute
  <2>4. CASE ScanTerminal
    <3>1. CASE Defers
      <4>1. PICK u : scan' = [NextRecord EXCEPT !.unc = u]
        BY <2>4, <3>1 DEF ScanTerminal
      <4> QED BY <1>0, <4>1, NextBatch
    <3>2. CASE ~Defers
      BY <1>0, <2>4, <3>2, NextBatch DEF ScanTerminal
    <3> QED BY <3>1, <3>2
  <2>5. CASE ScanForeignTerminal
    BY <1>0, <2>5, NextBatch DEF ScanForeignTerminal
  <2>6. CASE ScanFailure
    BY <1>0, <2>6, NextBatch DEF ScanFailure
  <2> QED BY <2>1, <2>2, <2>3, <2>4, <2>5, <2>6 DEF ScanCase
<1>2. PICK K : Scanning(K)
  BY DEF ScanCase, ScanEcho, ScanEnqueue, ScanRoute, ScanTerminal,
     ScanForeignTerminal, ScanFailure
<1>3. consumed' = Rec.id /\ UNCHANGED <<pc, prefetched, nrec, unread>>
  BY DEF ScanCase, ScanEcho, ScanEnqueue, ScanRoute, ScanTerminal,
     ScanForeignTerminal, ScanFailure, ScanFrame, claude
<1>4. pc = "scan"
  BY <1>2 DEF Scanning
<1>5. PlaceInv'
  BY <1>3, <1>4 DEF PlaceInv
<1> QED BY <1>1, <1>2, <1>3, <1>4, <1>5, StreamTaken

(* Claude Code writes one, *)
LEMMA StreamWritten ==
  ASSUME TypeInv, PlaceInv, NEW k, NEW i, NEW t, Journal(k, i, t), CCRuns,
         k \in {"echo", "enq", "rem", "deq", "dur", "int", "err", "lim"},
         i \in Inputs \cup {None}, t \subseteq Inputs
  PROVE  LET r == [k |-> k, i |-> i, id |-> nrec + 1, t |-> t] IN
         /\ Stream' = Append(Stream, r) /\ r \in Record
         /\ nrec' = nrec + 1 /\ UNCHANGED <<consumed, stopPc, pc>> /\ PlaceInv'
<1> DEFINE r == [k |-> k, i |-> i, id |-> nrec + 1, t |-> t]
<1>1. nrec' = nrec + 1 /\ unread' = Append(unread, r) /\ nrec + 1 \in 1 .. MaxRecords
  BY BoundsAssumption DEF Journal, TypeInv, TypeOK, TypeReader
<1>2. UNCHANGED <<prefetched, scan, consumed, stopPc, pc>>
  BY DEF CCRuns, CCFrame, locals, hostSide, others, ghosts
<1>3. r \in Record
  BY <1>1 DEF Record
<1>4. PlaceInv'
  BY <1>2 DEF PlaceInv, Batch
<1> HIDE DEF r
<1>5. Stream' = Append(Stream, r)
  BY <1>1, <1>2, <1>3, StreamAppended
<1> QED BY <1>1, <1>2, <1>3, <1>4, <1>5 DEF r

(* or none, *)
LEMMA StreamSilent ==
  ASSUME TypeInv, PlaceInv, CCRuns, Silent
  PROVE  Stream' = Stream /\ UNCHANGED <<consumed, nrec, stopPc, pc>> /\ PlaceInv'
<1>1. UNCHANGED <<prefetched, unread, scan, consumed, nrec, stopPc, pc>>
  BY DEF CCRuns, CCFrame, Silent, locals, hostSide, others, ghosts
<1> QED BY <1>1, StreamMoved DEF PlaceInv, Batch

CCSteps ==
    \/ ClaudeStep \/ CCNotify \/ CCFailTurn \/ CCBanner \/ CCLose \/ CCDie
Kinds == {"echo", "enq", "rem", "deq", "dur", "int", "err", "lim"}

LEMMA CCContents ==
  ASSUME TypeInv
  PROVE  /\ cc.turn \subseteq Inputs /\ cc.echo \in Inputs \cup {None}
         /\ cc.inbox \in Seq(Inputs \cup {Escape}) /\ cc.queue \in Seq(Inputs)
         /\ cc.inbox # <<>> => Head(cc.inbox) \in Inputs \cup {Escape}
         /\ cc.queue # <<>> => Head(cc.queue) \in Inputs
BY DEF TypeInv, TypeOK, TypeClaude, CCType

LEMMA CCJournals ==
  ASSUME TypeInv, CCSteps
  PROVE  /\ CCRuns
         /\ \/ Silent
            \/ \E k \in Kinds, i \in Inputs \cup {None}, t \in SUBSET Inputs :
                  Journal(k, i, t) /\ (k = "enq" /\ i \in Steers => i \in journaled')
         /\ journaled \subseteq journaled'
<1>1. CCRuns
  BY DEF CCSteps, ClaudeStep, CCStart, CCEcho, CCEnqueue, CCRemove, CCDequeue,
     CCEndTurn, CCEscape, CCNotify, CCFailTurn, CCBanner, CCLose, CCDie
<1>a. journaled \subseteq journaled'
  BY DEF CCSteps, ClaudeStep, CCStart, CCEcho, CCEnqueue, CCRemove, CCDequeue,
     CCEndTurn, CCEscape, CCNotify, CCFailTurn, CCBanner, CCLose, CCDie
<1>2. CASE CCStart \/ CCNotify \/ CCBanner \/ CCLose \/ CCDie
  BY <1>1, <1>a, <1>2 DEF CCStart, CCNotify, CCBanner, CCLose, CCDie
<1>3. CASE CCEcho
  <2>1. Journal("echo", cc.echo, {}) /\ cc.echo \in Inputs
    BY <1>3, CCContents DEF CCEcho
  <2> QED BY <1>1, <1>a, <2>1 DEF Kinds
<1>4. CASE CCEnqueue
  <2>1. Journal("enq", Head(cc.inbox), {}) /\ Head(cc.inbox) \in Inputs
    BY <1>4, CCContents DEF CCEnqueue
  <2>2. Head(cc.inbox) \in Steers => Head(cc.inbox) \in journaled'
    BY <1>4 DEF CCEnqueue
  <2> QED BY <1>1, <1>a, <2>1, <2>2 DEF Kinds
<1>5. CASE CCRemove
  <2>1. Journal("rem", Head(cc.queue), {}) /\ Head(cc.queue) \in Inputs
    BY <1>5, CCContents DEF CCRemove
  <2> QED BY <1>1, <1>a, <2>1 DEF Kinds
<1>6. CASE CCDequeue
  <2>1. Journal("deq", Head(cc.queue), {}) /\ Head(cc.queue) \in Inputs
    BY <1>6, CCContents DEF CCDequeue
  <2> QED BY <1>1, <1>a, <2>1 DEF Kinds
<1>7. CASE CCEndTurn \/ CCFailTurn \/ CCEscape
  <2>1. Silent \/ \E k \in Kinds : Journal(k, None, cc.turn) /\ k # "enq"
    BY <1>7 DEF CCEndTurn, CCFailTurn, CCEscape, CloseTurn, Kinds
  <2> QED BY <1>1, <1>a, <2>1, CCContents
<1> QED BY <1>2, <1>3, <1>4, <1>5, <1>6, <1>7 DEF CCSteps, ClaudeStep

LEMMA StreamForeign ==
  ASSUME TypeInv, PlaceInv, NEW s \in Steers, CCForeign(s)
  PROVE  LET e == [k |-> "enq", i |-> s, id |-> nrec + 1, t |-> {}]
             m == [k |-> "rem", i |-> s, id |-> nrec + 2, t |-> {}] IN
         /\ Stream' = Append(Append(Stream, e), m) /\ e \in Record /\ m \in Record
         /\ nrec' = nrec + 2 /\ UNCHANGED <<consumed, stopPc, pc>> /\ PlaceInv'
<1> DEFINE e == [k |-> "enq", i |-> s, id |-> nrec + 1, t |-> {}]
           m == [k |-> "rem", i |-> s, id |-> nrec + 2, t |-> {}]
<1>1. /\ nrec' = nrec + 2 /\ unread' = unread \o <<e, m>>
      /\ nrec + 1 \in 1 .. MaxRecords /\ nrec + 2 \in 1 .. MaxRecords
  BY BoundsAssumption DEF CCForeign, TypeInv, TypeOK, TypeReader
<1>2. UNCHANGED <<prefetched, scan, consumed, stopPc, pc>>
  BY DEF CCForeign, CCRuns, CCFrame, locals, hostSide, others, ghosts
<1>3. e \in Record /\ m \in Record
  BY <1>1 DEF Record, Inputs
<1>4. PlaceInv'
  BY <1>2 DEF PlaceInv, Batch
<1> HIDE DEF e, m
<1>5. /\ Batch \in Seq(Record) /\ prefetched \in Seq(Record) /\ unread \in Seq(Record)
      /\ Stream \in Seq(Record)
  BY StreamTyped
<1>6. unread \o <<e, m>> = Append(Append(unread, e), m)
  BY <1>3, <1>5
<1>7. Batch \o prefetched \in Seq(Record) /\ Append(unread, e) \in Seq(Record)
  BY <1>3, <1>5, Joined, AppendProperties
<1>8. Stream = (Batch \o prefetched) \o unread
  BY DEF Stream, Batch
<1>9. Stream' = (Batch \o prefetched) \o Append(Append(unread, e), m)
  BY <1>1, <1>2, <1>6 DEF Stream, Batch
<1>10. (Batch \o prefetched) \o Append(Append(unread, e), m)
          = Append((Batch \o prefetched) \o Append(unread, e), m)
  BY <1>3, <1>7, JoinedAppend
<1>11. (Batch \o prefetched) \o Append(unread, e) = Append(Stream, e)
  BY <1>3, <1>5, <1>7, <1>8, JoinedAppend
<1> QED BY <1>1, <1>2, <1>3, <1>4, <1>9, <1>10, <1>11 DEF e, m

(* a reader without a turn takes all there is, and a stop or a restart forgets
   what had been read ahead. *)
LEMMA StreamDrained ==
  ASSUME TypeInv, PlaceInv, Backlog \/ ResumeDone \/ ResumeFailed
  PROVE  /\ Stream' = <<>> /\ nrec' = nrec /\ stopPc' = stopPc /\ PlaceInv'
         /\ pc \in {"backlog", "spawn"} /\ pc' \in {"deliver", "backlog", "detach"}
         /\ pc # "spawn" => consumed' = LastId(prefetched \o unread)
         /\ pc = "spawn" => consumed' = nrec
<1>1. /\ nrec' = nrec /\ stopPc' = stopPc /\ unread' = <<>> /\ scan' = scan
      /\ pc \in {"backlog", "spawn"} /\ pc' \in {"deliver", "backlog", "detach"}
      /\ prefetched' = (IF pc = "spawn" THEN prefetched ELSE <<>>)
      /\ pc # "spawn" => consumed' = LastId(prefetched \o unread)
      /\ pc = "spawn" => consumed' = nrec
  BY DEF Backlog, ResumeDone, ResumeFailed, Finish, locals, hostSide, others
<1>2. prefetched' = <<>>
  BY <1>1 DEF PlaceInv
<1>3. Stream' = <<>>
  BY <1>1, <1>2, StreamEmptied
<1> QED BY <1>1, <1>2, <1>3 DEF PlaceInv, Batch

LEMMA StreamDropped ==
  ASSUME TypeInv, FenceInv, PlaceInv, ResumeBegin \/ StopLock
  PROVE  /\ Stream' = unread /\ Batch = <<>> /\ Stream = prefetched \o unread
         /\ pc' = "spawn" \/ stopPc' # "ready"
         /\ pc' # pc => pc' = "spawn"
         /\ UNCHANGED <<nrec, consumed>> /\ PlaceInv'
<1>1. /\ UNCHANGED <<unread, scan, nrec, consumed>> /\ prefetched' = <<>>
      /\ \/ pc' = "spawn" /\ pc = "check"
         \/ stateLock = None /\ pc' = pc /\ stopPc' # "ready"
  BY DEF ResumeBegin, StopLock, HostFrame, locals, ghosts
<1>2. pc # "scan"
  BY <1>1, TextsAssumption DEF FenceInv, SteerFence, LockHolders
<1>3. Batch = <<>> /\ Stream = prefetched \o unread
  BY <1>2, StreamTyped
<1>4. Stream' = (<<>> \o <<>>) \o unread
  BY <1>1, <1>3 DEF Stream, Batch
<1>5. Stream' = unread
  BY <1>4, StreamTyped, Joined
<1> QED BY <1>1, <1>2, <1>3, <1>5 DEF PlaceInv, Batch

LEMMA StreamWatched ==
  ASSUME TypeInv, FenceInv, PlaceInv,
         Watch \/ InterruptMark \/ StopWatch \/ InterruptReap \/ InterruptEscape \/ StopReap
  PROVE  /\ pc' = pc /\ nrec' = nrec /\ PlaceInv' /\ (stopPc' = "ready" => stopPc = "ready")
         /\ \/ Stream' = Stream /\ consumed' = consumed
            \/ /\ Stream' = <<>> /\ consumed' = LastId(prefetched \o unread)
               /\ pc \in {"idle", "own"}
            \/ /\ Stream' \in {unread, <<>>} /\ consumed' = consumed
               /\ Stream = prefetched \o unread /\ stopPc' # "ready"
<1>1. /\ UNCHANGED <<pc, nrec, scan>>
      /\ stopPc' = "ready" => stopPc = "ready"
      /\ \/ UNCHANGED <<prefetched, unread, consumed>>
         \/ /\ prefetched' = <<>> /\ unread' = <<>>
            /\ consumed' = LastId(prefetched \o unread) /\ watchPc = "read"
         \/ /\ prefetched' = <<>> /\ unread' \in {unread, <<>>}
            /\ UNCHANGED consumed /\ stopPc' # "ready" /\ watchPc = "read"
  BY DEF Watch, WatchWake, WatchLook, WatchRead, StopWatch, InterruptMark, InterruptReap,
     InterruptEscape, StopReap, HostFrame, locals
<1>2. watchPc = "read" => pc \in {"idle", "own"} /\ Batch = <<>>
  BY StreamTyped DEF FenceInv, WatchInv
<1>3. PlaceInv'
  BY <1>1 DEF PlaceInv, Batch
<1>4. CASE prefetched' = <<>> /\ unread' = unread /\ watchPc = "read"
  <2>1. Stream' = (<<>> \o <<>>) \o unread
    BY <1>1, <1>2, <1>4 DEF Stream, Batch
  <2> QED BY <1>1, <1>2, <1>3, <1>4, <2>1, StreamTyped, StreamEmptied, Joined DEF Batch
<1> QED BY <1>1, <1>2, <1>3, <1>4, StreamTyped, StreamMoved, StreamEmptied DEF Batch
--------------------------------------------------------------------------------
(* Positions *)
LEMMA NumberedTail ==
  ASSUME NEW q \in Seq(Record), NEW c \in Nat, NEW n \in Nat, Numbered(q, c, n), q # <<>>
  PROVE  Numbered(Tail(q), Head(q).id, n)
<1>1. Head(q) = q[1] /\ q[1].id = c + 1
  BY Shorter DEF Numbered
<1>2. Tail(q) \in Seq(Record) /\ Len(Tail(q)) = Len(q) - 1
      /\ \A i \in 1 .. Len(q) - 1 : Tail(q)[i] = q[i + 1]
  BY Shorter
<1>3. DOMAIN q = 1 .. Len(q) /\ DOMAIN Tail(q) = 1 .. Len(q) - 1 /\ Len(q) \in Nat
  BY <1>2, LenProperties
<1>4. \A i \in 1 .. Len(q) - 1 : Tail(q)[i].id = c + (i + 1)
  <2> SUFFICES ASSUME NEW i \in 1 .. Len(q) - 1 PROVE Tail(q)[i].id = c + (i + 1)
    OBVIOUS
  <2>1. i + 1 \in DOMAIN q
    BY <1>3
  <2>2. q[i + 1].id = c + (i + 1)
    BY <2>1 DEF Numbered
  <2> QED BY <1>2, <2>2
<1>5. Len(q) = n - c
  BY DEF Numbered
<1>6. Len(Tail(q)) = n - Head(q).id
  BY <1>1, <1>2, <1>3, <1>5
<1>7. \A i \in DOMAIN Tail(q) : Tail(q)[i].id = Head(q).id + i
  BY <1>1, <1>3, <1>4
<1> QED BY <1>6, <1>7 DEF Numbered

LEMMA NumberedAppend ==
  ASSUME NEW q \in Seq(Record), NEW c \in Nat, NEW n \in Nat, Numbered(q, c, n),
         NEW r \in Record, r.id = n + 1
  PROVE  Numbered(Append(q, r), c, n + 1) /\ Append(q, r) \in Seq(Record)
<1>1. /\ Append(q, r) \in Seq(Record) /\ Len(Append(q, r)) = Len(q) + 1
      /\ \A i \in 1 .. Len(q) : Append(q, r)[i] = q[i]
      /\ Append(q, r)[Len(q) + 1] = r
  BY AppendProperties
<1>2. DOMAIN q = 1 .. Len(q) /\ DOMAIN Append(q, r) = 1 .. Len(q) + 1 /\ Len(q) \in Nat
  BY <1>1, LenProperties
<1> QED BY <1>1, <1>2 DEF Numbered

LEMMA StreamStep ==
  TypeInv /\ FenceInv /\ TurnInv /\ StreamInv /\ [Next]_vars => StreamInv'
<1> SUFFICES ASSUME TypeInv, FenceInv, TurnInv, StreamInv, [Next]_vars PROVE StreamInv'
  OBVIOUS
<1>0. PlaceInv
  BY DEF StreamInv
<1>a. Stream \in Seq(Record) /\ consumed \in Nat /\ nrec \in Nat
  BY StreamTyped
<1>1. CASE UNCHANGED vars
  <2>1. UNCHANGED <<prefetched, unread, scan, consumed, nrec, stopPc, pc>>
    BY <1>1 DEF vars, locals, others, claude, ghosts
  <2> QED BY <2>1 DEF StreamInv, PlaceInv, Batch, Stream
<1>2. CASE \/ Enter
           \/ Own \/ CheckAlive \/ CheckRefused
           \/ DeliverChannel \/ DeliverStdin \/ DeliverFailed
           \/ LoopCrash \/ LoopPoll \/ LoopTimeout \/ HostCancel \/ Read \/ ScanEnd \/ Emit
           \/ Decide \/ DecideResend \/ Finally \/ InterruptDetach
  <2>1. stopPc' = stopPc /\ (pc = "spawn" => pc' = "spawn")
    BY <1>2 DEF Enter, CancelOwn, Acquire, Own, CheckAlive, CheckRefused, DeliverChannel,
       DeliverStdin,
       DeliverFailed, LoopCrash, LoopPoll, LoopTimeout, HostCancel, Emit, Decide,
       DecideResend, DecideComplete, DecideApiError, DecideLimit, DecideBanner,
       DecideAgain, DecideFrame, Unfinished, Goes, Exit, Finally, FinallyDetach,
       FinallyReap, InterruptDetach, HostFrame, Read, ScanEnd, hostSide, others
  <2> QED BY <1>0, <1>2, <2>1, StreamStays DEF StreamInv
<1>3. CASE \E s \in Steers : \/ Steer(s) \/ SteerCall(s) \/ SteerWriteFailed(s)
                             \/ SteerDeadline(s)
  <2>1. UNCHANGED <<stopPc, pc>>
    BY <1>3 DEF Steer, SteerCall, SteerWriteFailed, SteerDeadline, SteerRefused,
       SteerTooLate, SteerAdmit, SteerWritten, SteerFailClosed, SteerReap,
       SteerAcknowledged, SteerFrame, others
  <2> QED BY <1>0, <1>3, <2>1, StreamSteered DEF StreamInv
<1>4. CASE ScanCase
  <2>1. UNCHANGED stopPc
    BY <1>4 DEF ScanCase, ScanEcho, ScanEnqueue, ScanRoute, ScanTerminal,
       ScanForeignTerminal, ScanFailure, ScanFrame, others
  <2> QED BY <1>0, <1>a, <1>4, <2>1, StreamScanned, NumberedTail DEF StreamInv
<1>5. CASE CCSteps
  <2>1. CASE Silent
    BY <1>0, <1>5, <2>1, CCJournals, StreamSilent DEF StreamInv
  <2>2. ASSUME NEW k \in Kinds, NEW i \in Inputs \cup {None}, NEW t \in SUBSET Inputs,
               Journal(k, i, t)
        PROVE  StreamInv'
    <3> DEFINE r == [k |-> k, i |-> i, id |-> nrec + 1, t |-> t]
    <3>1. /\ Stream' = Append(Stream, r) /\ r \in Record /\ r.id = nrec + 1
          /\ nrec' = nrec + 1 /\ UNCHANGED <<consumed, stopPc, pc>> /\ PlaceInv'
      BY <1>0, <1>5, <2>2, CCJournals, StreamWritten DEF Kinds
    <3> HIDE DEF r
    <3> QED BY <1>a, <3>1, NumberedAppend DEF StreamInv
  <2> QED BY <1>5, <2>1, <2>2, CCJournals
<1>6. ASSUME NEW s \in Steers, CCForeign(s) PROVE StreamInv'
  <2> DEFINE e == [k |-> "enq", i |-> s, id |-> nrec + 1, t |-> {}]
             m == [k |-> "rem", i |-> s, id |-> nrec + 2, t |-> {}]
  <2>f. /\ Stream' = Append(Append(Stream, e), m) /\ e \in Record /\ m \in Record
        /\ nrec' = nrec + 2 /\ UNCHANGED <<consumed, stopPc, pc>> /\ PlaceInv'
    BY <1>0, <1>6, StreamForeign
  <2>i. e.id = nrec + 1 /\ m.id = nrec + 2
    OBVIOUS
  <2>n. nrec + 2 = (nrec + 1) + 1
    BY <1>a
  <2> HIDE DEF e, m
  <2>1. /\ Stream' = Append(Append(Stream, e), m) /\ e \in Record /\ m \in Record
        /\ e.id = nrec + 1 /\ m.id = (nrec + 1) + 1
        /\ nrec' = (nrec + 1) + 1 /\ UNCHANGED <<consumed, stopPc, pc>> /\ PlaceInv'
    BY <2>f, <2>i, <2>n
  <2>2. ASSUME Numbered(Stream, consumed, nrec)
        PROVE  Numbered(Stream', consumed, nrec')
    <3>1. Append(Stream, e) \in Seq(Record) /\ Numbered(Append(Stream, e), consumed, nrec + 1)
      BY <1>a, <2>1, <2>2, NumberedAppend
    <3> DEFINE q == Append(Stream, e)
    <3>2. q \in Seq(Record) /\ Numbered(q, consumed, nrec + 1) /\ Stream' = Append(q, m)
      BY <2>1, <3>1
    <3> HIDE DEF q
    <3>3. Numbered(Append(q, m), consumed, (nrec + 1) + 1)
      BY <1>a, <2>1, <3>2, NumberedAppend
    <3> QED BY <2>1, <3>2, <3>3
  <2> QED BY <2>1, <2>2 DEF StreamInv
<1>7. CASE Backlog \/ ResumeDone \/ ResumeFailed
  <2>1. Numbered(<<>>, nrec, nrec)
    BY <1>a DEF Numbered
  <2>2. /\ Stream' = <<>> /\ nrec' = nrec /\ stopPc' = stopPc /\ PlaceInv' /\ pc # "scan"
        /\ pc # "spawn" => consumed' = LastId(prefetched \o unread)
        /\ pc = "spawn" => consumed' = nrec
    BY <1>0, <1>7, StreamDrained
  <2>3. stopPc = "ready" => consumed' = nrec
    BY <1>0, <2>2, LastIsLast DEF StreamInv
  <2> QED BY <2>1, <2>2, <2>3 DEF StreamInv
<1>8. CASE ResumeBegin \/ StopLock
  BY <1>0, <1>8, StreamDropped DEF StreamInv
<1>9. CASE Watch \/ InterruptMark \/ StopWatch \/ InterruptReap \/ InterruptEscape \/ StopReap
  <2>1. Numbered(<<>>, nrec, nrec)
    BY <1>a DEF Numbered
  <2> QED BY <1>0, <1>9, <2>1, StreamWatched, LastIsLast DEF StreamInv
<1> QED BY <1>1, <1>2, <1>3, <1>4, <1>5, <1>6, <1>7, <1>8, <1>9 DEF Next, Consume, Send,
      Round, Scan, ScanCase, Host, Chance, CCSteps
--------------------------------------------------------------------------------
LEMMA StreamInit == Init => StreamInv
<1> SUFFICES ASSUME Init PROVE StreamInv
  OBVIOUS
<1>1. /\ scan.batch = <<>> /\ prefetched = <<>> /\ unread = <<>>
      /\ nrec = 0 /\ consumed = 0 /\ pc = "idle"
  BY DEF Init, ScanInit
<1>2. Stream = <<>>
  BY <1>1 DEF Stream
<1> QED BY <1>1, <1>2 DEF StreamInv, PlaceInv, Batch, Numbered

(* The consumer, the preflight of a steer and the idle watcher share one file
   offset and the list of records handed back: between them no record of the
   journal is lost, repeated or reordered until stop or a restart discards some. *)
THEOREM JournalRead == Spec => []NothingSkipped
<1>1. StreamInv => NothingSkipped
  BY DEF StreamInv, Numbered, NothingSkipped
<1>2. Init => TypeInv /\ FenceInv /\ TurnInv /\ StreamInv
  BY TypeInvInit, FenceInit, TurnInit, StreamInit
<1>3. TypeInv /\ FenceInv /\ TurnInv /\ StreamInv /\ [Next]_vars
        => TypeInv' /\ FenceInv' /\ TurnInv' /\ StreamInv'
  BY TypeInvStep, FenceStep, TurnStep, StreamStep
<1> QED BY <1>1, <1>2, <1>3, PTL DEF Spec

(* _pending_steer and the fence end with the send_prompt they belong to, however
   it ends, so that the next one can be steered. *)
THEOREM FenceEnds == Spec => []FenceEndsWithSend
<1>1. TypeInv /\ TurnInv => FenceEndsWithSend
  BY DEF TypeInv, TurnInv, OwnerInv, UnsettledInv, PendingInv, FenceEndsWithSend
<1>2. Init => TypeInv /\ FenceInv /\ TurnInv
  BY TypeInvInit, FenceInit, TurnInit
<1>3. TypeInv /\ FenceInv /\ TurnInv /\ [Next]_vars => TypeInv' /\ FenceInv' /\ TurnInv'
  BY TypeInvStep, FenceStep, TurnStep
<1> QED BY <1>1, <1>2, <1>3, PTL DEF Spec

(* Who takes records from the stream. *)
LEMMA WhoConsumes ==
  ASSUME TypeInv, FenceInv, TurnInv, PlaceInv, [Next]_vars
  PROVE  \/ consumed' = consumed
         \/ pc = "scan"
         \/ pc' # pc
         \/ pc \in {"idle", "own"}
<1>1. CASE UNCHANGED vars
  BY <1>1 DEF vars, ghosts
<1>2. CASE CCSteps
  BY <1>2, CCJournals DEF CCRuns, CCFrame, ghosts
<1>3. ASSUME NEW s \in Steers, CCForeign(s) PROVE consumed' = consumed
  BY <1>3 DEF CCForeign, CCRuns, CCFrame, ghosts
<1>4. CASE ScanCase
  BY <1>4, StreamScanned
<1>5. CASE Backlog \/ ResumeDone \/ ResumeFailed
  BY <1>5 DEF Backlog, ResumeDone, ResumeFailed, Finish
<1>6. CASE \/ Enter
           \/ Own \/ CheckAlive \/ CheckRefused
           \/ DeliverChannel \/ DeliverStdin \/ DeliverFailed
           \/ LoopCrash \/ LoopPoll \/ LoopTimeout \/ HostCancel \/ Read \/ ScanEnd \/ Emit
           \/ Decide \/ DecideResend \/ Finally \/ InterruptDetach
  BY <1>6, StreamStays
<1>7. CASE \E s \in Steers : \/ Steer(s) \/ SteerCall(s) \/ SteerWriteFailed(s)
                             \/ SteerDeadline(s)
  BY <1>7, StreamSteered
<1>8. CASE ResumeBegin \/ StopLock
  BY <1>8, StreamDropped
<1>9. CASE Watch \/ InterruptMark \/ StopWatch \/ InterruptReap \/ InterruptEscape \/ StopReap
  BY <1>9, StreamWatched
<1> QED BY <1>1, <1>2, <1>3, <1>4, <1>5, <1>6, <1>7, <1>8, <1>9 DEF Next, Consume, Send,
   Round, Scan, ScanCase, Host, Chance, CCSteps

(* Once a send_prompt has published its turn, the offset moves in its own steps only.
   The idle watcher may begin a read while the send waits for the state lock, but it
   keeps that lock until the read is over (WatchInv). *)
THEOREM ReaderOwned == Spec => ForegroundOwnsReader
<1>1. /\ TypeInv /\ FenceInv /\ TurnInv /\ StreamInv
      /\ [Next]_vars
      => [pc \notin {"idle", "own"} /\ consumed' # consumed => pc = "scan" \/ pc' # pc]_vars
  BY WhoConsumes DEF StreamInv
<1>2. Init => TypeInv /\ FenceInv /\ TurnInv /\ StreamInv
  BY TypeInvInit, FenceInit, TurnInit, StreamInit
<1>3. TypeInv /\ FenceInv /\ TurnInv /\ StreamInv /\ [Next]_vars
        => TypeInv' /\ FenceInv' /\ TurnInv' /\ StreamInv'
  BY TypeInvStep, FenceStep, TurnStep, StreamStep
<1> QED BY <1>1, <1>2, <1>3, PTL DEF Spec, ForegroundOwnsReader
--------------------------------------------------------------------------------
(* Receipts.  At the admission of a steer the preflight has seen every record that
   its consumer has still to scan, because nothing is left of an earlier preflight
   (PrefetchedInv); so that an enqueue it has not seen is the steer's own. *)
Members(q) == {q[i] : i \in DOMAIN q}
PrefetchedInv ==
    prefetched # <<>> =>
        /\ pc # "scan"
        /\ \/ owner = None
           \/ unsettled # NoProc /\ active # NoProc
           \/ pc \in {"check", "backlog"}
           \/ pc = "detach" /\ active = NoProc
EarlierCopy(r, s) == r.k = "enq" /\ r.i = s => r.id \in receipt[s].prewrite
OwnEnqueue ==
    /\ pending # None =>
         /\ spc[pending] \notin {"idle", "called"}
         /\ pending \in journaled \/ (\A r \in Members(Stream) : EarlierCopy(r, pending))
    /\ scan.enq # None => scan.enq \in journaled /\ spc[scan.enq] \notin {"idle", "called"}
ReceiptInv == PrefetchedInv /\ OwnEnqueue /\ AckIsGenuine

LEMMA MembersTail ==
  ASSUME NEW q \in Seq(Record), q # <<>>
  PROVE  Members(Tail(q)) \subseteq Members(q) /\ Head(q) \in Members(q)
<1>1. /\ Head(q) = q[1] /\ Tail(q) \in Seq(Record)
      /\ Len(q) \in Nat \ {0} /\ Len(Tail(q)) = Len(q) - 1
      /\ \A i \in 1 .. Len(q) - 1 : Tail(q)[i] = q[i + 1]
  BY Shorter
<1>2. DOMAIN q = 1 .. Len(q) /\ DOMAIN Tail(q) = 1 .. Len(q) - 1
  BY <1>1, LenProperties
<1> QED BY <1>1, <1>2 DEF Members

LEMMA MembersAppend ==
  ASSUME NEW q \in Seq(Record), NEW r \in Record
  PROVE  Members(Append(q, r)) = Members(q) \cup {r}
<1>1. /\ Append(q, r) \in Seq(Record) /\ Len(Append(q, r)) = Len(q) + 1
      /\ \A i \in 1 .. Len(q) : Append(q, r)[i] = q[i]
      /\ Append(q, r)[Len(q) + 1] = r
  BY AppendProperties
<1>2. DOMAIN q = 1 .. Len(q) /\ DOMAIN Append(q, r) = 1 .. Len(q) + 1 /\ Len(q) \in Nat
  BY <1>1, LenProperties
<1> QED BY <1>1, <1>2 DEF Members

LEMMA MembersJoined ==
  ASSUME NEW a \in Seq(Record), NEW b \in Seq(Record)
  PROVE  Members(b) \subseteq Members(a \o b)
<1>1. /\ a \o b \in Seq(Record) /\ Len(a) \in Nat /\ Len(b) \in Nat
      /\ Len(a \o b) = Len(a) + Len(b)
      /\ \A i \in 1 .. Len(a) + Len(b) :
              (a \o b)[i] = IF i <= Len(a) THEN a[i] ELSE b[i - Len(a)]
  BY Joined
<1>2. DOMAIN (a \o b) = 1 .. Len(a) + Len(b) /\ DOMAIN b = 1 .. Len(b)
  BY <1>1, LenProperties
<1>3. ASSUME NEW j \in 1 .. Len(b) PROVE b[j] = (a \o b)[j + Len(a)] /\ j + Len(a) \in DOMAIN (a \o b)
  BY <1>1, <1>2
<1> QED BY <1>2, <1>3 DEF Members

(* Only Claude Code brings new records. *)
LEMMA StreamShrinks ==
  ASSUME TypeInv, FenceInv, TurnInv, PlaceInv, [Next]_vars,
         ~CCSteps, ~\E s \in Steers : CCForeign(s)
  PROVE  \/ Stream' = Stream
         \/ Stream' = <<>>
         \/ Stream # <<>> /\ Stream' = Tail(Stream)
         \/ Stream = prefetched \o unread /\ Stream' = unread
<1>1. CASE ScanCase
  BY <1>1, StreamScanned
<1>2. CASE ResumeBegin \/ StopLock
  BY <1>2, StreamDropped
<1>3. CASE UNCHANGED vars
  BY <1>3 DEF vars, locals, claude, Stream
<1> QED BY <1>1, <1>2, <1>3, StreamStays, StreamSteered, StreamDrained,
      StreamWatched DEF Next, Consume, Send, Round, Scan, ScanCase, Host, Chance, CCSteps

LEMMA NothingNew ==
  ASSUME TypeInv, FenceInv, TurnInv, PlaceInv, [Next]_vars,
         ~CCSteps, ~\E s \in Steers : CCForeign(s)
  PROVE  Members(Stream') \subseteq Members(Stream)
<1>a. Stream \in Seq(Record)
  BY StreamTyped
<1>1. CASE Stream' = Stream
  BY <1>1
<1>2. CASE Stream' = <<>>
  BY <1>2 DEF Members
<1>3. CASE Stream # <<>> /\ Stream' = Tail(Stream)
  BY <1>a, <1>3, MembersTail
<1>4. CASE Stream = prefetched \o unread /\ Stream' = unread
  BY <1>4, StreamTyped, MembersJoined
<1> QED BY <1>1, <1>2, <1>3, <1>4, StreamShrinks

LEMMA PrefetchedStep ==
  ASSUME TypeInv, FenceInv, TurnInv, PlaceInv, PrefetchedInv, [Next]_vars
  PROVE  PrefetchedInv'
<1> DEFINE Place == \/ owner = None
                    \/ unsettled # NoProc /\ active # NoProc
                    \/ pc \in {"check", "backlog"}
                    \/ pc = "detach" /\ active = NoProc
<1>a. SUFFICES ASSUME prefetched' # <<>> PROVE pc' # "scan" /\ Place'
  BY DEF PrefetchedInv
<1>b. stateLock = None => pc # "scan"
  BY TextsAssumption DEF FenceInv, SteerFence, LockHolders
<1>1. CASE \E s \in Steers : SteerTooLate(s) \/ SteerAdmit(s)
  <2>1. PICK s \in Steers : SteerTooLate(s) \/ SteerAdmit(s)
    BY <1>1
  <2>2. pc' = pc /\ stateLock = None
    BY <2>1 DEF SteerTooLate, SteerAdmit, SteerMayEnter, SteerFrame
  <2>3. CASE SteerTooLate(s)
    BY <1>b, <2>2, <2>3 DEF SteerTooLate
  <2>4. CASE SteerAdmit(s)
    <3>1. unsettled' = active /\ active' = active /\ active # NoProc
      BY <2>4 DEF SteerAdmit, Admissible
    <3> QED BY <1>b, <2>2, <3>1
  <2> QED BY <2>1, <2>3, <2>4
<1>2. CASE ResumeBegin \/ Backlog \/ Read \/ StopLock
  BY <1>a, <1>2 DEF ResumeBegin, Backlog, Read, StopLock
<1>3. CASE prefetched' = prefetched /\ UNCHANGED <<pc, owner, active, unsettled>>
  BY <1>a, <1>3 DEF PrefetchedInv
<1>4. CASE Scan
  <2>1. pc = "scan" /\ prefetched' = prefetched
    BY <1>4 DEF Scan, ScanEcho, ScanEnqueue, ScanRoute, ScanTerminal, Scanning, reader,
       ScanForeignTerminal, ScanFailure, ScanEnd, ScanFrame
  <2> QED BY <1>a, <2>1 DEF PrefetchedInv
<1>5. CASE Own \/ CheckAlive
  BY <1>a, <1>5 DEF Own, CheckAlive, reader
<1>6. CASE \/ CheckRefused \/ LoopCrash \/ LoopPoll \/ LoopTimeout \/ HostCancel
           \/ DecideApiError \/ DecideLimit \/ DecideBanner \/ DecideAgain \/ DecideResend
           \/ DeliverChannel \/ DeliverStdin \/ DeliverFailed \/ ResumeDone \/ ResumeFailed
           \/ Enter
  <2>1. UNCHANGED <<prefetched, owner, active, unsettled>> /\ pc' # "scan"
    BY <1>6 DEF CheckRefused, LoopCrash, LoopPoll, LoopTimeout, HostCancel, DecideApiError,
       DecideLimit, DecideBanner, DecideAgain, DecideResend, DeliverChannel,
       DeliverStdin, DeliverFailed, ResumeDone, ResumeFailed, Enter, CancelOwn, Acquire, Exit,
       Finish,
       DecideFrame, Unfinished, Goes, reader, lockSt, turnSt
  <2>2. \/ pc \in {"idle", "own", "loop", "poll", "emit", "decide", "deliver", "spawn"}
        \/ pc \in {"check", "backlog"} /\ pc' = "detach"
    BY <1>6 DEF CheckRefused, LoopCrash, LoopPoll, LoopTimeout, HostCancel, DecideApiError,
       DecideLimit, DecideBanner, DecideAgain, DecideResend, DeliverChannel,
       DeliverStdin, DeliverFailed, ResumeDone, ResumeFailed, Enter, CancelOwn, Acquire, Exit,
       Finish,
       Unfinished, Goes
  <2>3. pc \in {"check", "backlog"} => active = NoProc
    BY DEF TurnInv, ActiveInv, InRounds
  <2> QED BY <1>a, <2>1, <2>2, <2>3 DEF PrefetchedInv
<1>7. CASE Emit
  <2>1. /\ prefetched' = prefetched /\ UNCHANGED <<owner, unsettled>> /\ pc = "emit"
        /\ pc' = "decide" /\ active' \in {active, fg.proc}
    BY <1>7 DEF Emit, reader
  <2>2. unsettled # NoProc => fg.proc # NoProc
    BY DEF TurnInv, UnsettledInv
  <2> QED BY <1>a, <2>1, <2>2 DEF PrefetchedInv
<1>8. CASE DecideComplete
  <2>1. /\ prefetched' = prefetched /\ UNCHANGED unsettled /\ pc = "decide"
        /\ pc' = "detach"
        /\ \/ UNCHANGED <<owner, active>>
           \/ owner' = None
    BY <1>8 DEF DecideComplete, DecideFrame, Goes, Finish, DeferredOver
  <2> QED BY <1>a, <2>1 DEF PrefetchedInv
<1>9. CASE Finally \/ InterruptDetach
  <2>1. /\ prefetched' = prefetched
        /\ \/ UNCHANGED <<owner, active, unsettled>>
           \/ owner' = None
        /\ \/ pc' = pc
           \/ pc = "detach" /\ pc' = "reap" /\ (owner = sending => owner' = None)
           \/ pc = "reap" /\ pc' = "idle"
    BY <1>9 DEF Finally, FinallyDetach, FinallyReap, InterruptDetach, Detach, HostFrame,
       reader, lockSt, turnSt
  <2>2. owner # None => owner = sending
    BY DEF TurnInv, OwnerInv
  <2> QED BY <1>a, <2>1, <2>2 DEF PrefetchedInv
<1>10. ASSUME NEW s \in Steers, SteerFailClosed(s) PROVE pc' # "scan" /\ Place'
  <2>1. Busy(s) /\ UNCHANGED <<prefetched, pc>>
    BY <1>10 DEF SteerFailClosed, Busy, SteerFrame
  <2>2. unsettled \in {NoProc, receipt[s].proc}
    BY <2>1 DEF TurnInv, AdmittedInv
  <2>3. active # NoProc /\ unsettled # NoProc => active = receipt[s].proc
    BY <2>2 DEF TurnInv, ActiveInv, UnsettledInv
  <2>4. active \in {NoProc, receipt[s].proc} => active' = NoProc /\ owner' \in {owner, None}
    BY <1>10 DEF SteerFailClosed
  <2>5. active # receipt[s].proc => UNCHANGED <<owner, active>>
    BY <1>10 DEF SteerFailClosed
  <2>6. active = receipt[s].proc => owner' = None
    BY <1>10 DEF SteerFailClosed
  <2> QED BY <1>a, <2>1, <2>2, <2>3, <2>4, <2>5, <2>6 DEF PrefetchedInv
<1>11. ASSUME NEW s \in Steers,
              \/ SteerRefused(s) \/ SteerWritten(s) \/ SteerReap(s) \/ SteerAcknowledged(s)
              \/ SteerCall(s) \/ SteerWriteFailed(s) \/ SteerDeadline(s) \/ CCForeign(s)
       PROVE  pc' # "scan" /\ Place'
  <2>1. UNCHANGED <<prefetched, pc, owner, active, unsettled>>
    BY <1>11 DEF SteerRefused, SteerWritten, SteerReap, SteerAcknowledged, SteerCall,
       SteerWriteFailed, SteerDeadline, CCForeign, CCRuns, CCFrame, SteerFrame, lockSt,
       turnSt
  <2> QED BY <1>3, <2>1
<1>12. CASE CCSteps
  <2>1. UNCHANGED <<prefetched, pc, owner, active, unsettled>>
    BY <1>12, CCJournals DEF CCRuns, CCFrame, lockSt, turnSt
  <2> QED BY <1>3, <2>1
<1>13. CASE WatchWake \/ WatchLook \/ InterruptMark \/ InterruptReap \/ InterruptEscape
            \/ StopReap
  <2>1. UNCHANGED <<prefetched, pc, owner, active, unsettled>>
    BY <1>13 DEF WatchWake, WatchLook, InterruptMark, InterruptReap, InterruptEscape, StopReap,
       HostFrame, lockSt, turnSt
  <2> QED BY <1>3, <2>1
<1>14. CASE WatchRead \/ StopWatch
  <2>1. prefetched' = prefetched /\ UNCHANGED <<pc, owner, active, unsettled>>
    BY <1>a, <1>14 DEF WatchRead, StopWatch, HostFrame, turnSt
  <2> QED BY <1>3, <2>1
<1>15. CASE UNCHANGED vars
  <2>1. UNCHANGED <<prefetched, pc, owner, active, unsettled>>
    BY <1>15 DEF vars, turnSt
  <2> QED BY <1>3, <2>1
<1> QED BY <1>1, <1>2, <1>4, <1>5, <1>6, <1>7, <1>8, <1>9, <1>10, <1>11, <1>12, <1>13,
      <1>14, <1>15 DEF Next, Consume, Send, Round, Decide, Steer, Host, Watch, Chance, CCSteps

LEMMA AckKept ==
  ASSUME OwnEnqueue, AckIsGenuine,
         Members(Stream') \subseteq Members(Stream), journaled \subseteq journaled',
         pending' \in {pending, None, scan.enq}, scan'.enq \in {scan.enq, None},
         \A s \in Steers : receipt'[s].prewrite = receipt[s].prewrite,
         \A s \in Steers : spc'[s] \in {"idle", "called"} => spc[s] \in {"idle", "called"},
         \A s \in Steers : ack'[s] = "true" => ack[s] = "true",
         pending \in SteerOrNone, scan.enq \in SteerOrNone
  PROVE  OwnEnqueue' /\ AckIsGenuine'
<1>1. AckIsGenuine'
  BY DEF AckIsGenuine
<1>2. scan'.enq # None =>
        scan'.enq \in journaled' /\ spc'[scan'.enq] \notin {"idle", "called"}
  BY DEF OwnEnqueue, SteerOrNone
<1>3. pending' # None =>
        /\ spc'[pending'] \notin {"idle", "called"}
        /\ \/ pending' \in journaled'
           \/ \A r \in Members(Stream') : r.k = "enq" /\ r.i = pending'
                                            => r.id \in receipt'[pending'].prewrite
  BY DEF OwnEnqueue, SteerOrNone, EarlierCopy
<1>4. OwnEnqueue'
  BY <1>2, <1>3 DEF OwnEnqueue, EarlierCopy
<1> QED BY <1>1, <1>4

(* A receipt that is resolved to False is not one that is resolved to True. *)
LEMMA ResolveFalse ==
  ASSUME TypeSteer, NEW x \in SteerOrNone,
         ack' = Resolve(x, "false") \/ ack' = ack
  PROVE  \A s \in Steers : ack'[s] = "true" => ack[s] = "true"
BY DEF Resolve, TypeSteer

LEMMA AckDetach ==
  ASSUME TypeInv, NEW a, NEW o, Detach(a, o)
  PROVE  /\ \A s \in Steers : ack'[s] = "true" => ack[s] = "true"
         /\ pending' \in {pending, None}
<1>1. TypeSteer /\ pending \in SteerOrNone
  BY DEF TypeInv, TypeOK, TypeLock
<1>2. ack' = Resolve(pending, "false") \/ ack' = ack
  BY DEF Detach
<1>3. pending' \in {pending, None}
  BY DEF Detach
<1> QED BY <1>1, <1>2, <1>3, ResolveFalse

LEMMA AckReap ==
  ASSUME TypeInv, NEW a \in Stoppers, Reap(a)
  PROVE  \A s \in Steers : ack'[s] = "true" => ack[s] = "true"
<1>1. TypeSteer /\ reaping[a].steer \in SteerOrNone
  BY DEF TypeInv, TypeOK, TypeHost, ReapType
<1> QED BY <1>1, ResolveFalse DEF Reap

(* The steps of Claude Code *)
LEMMA AckClaude ==
  ASSUME TypeInv, FenceInv, PlaceInv, OwnEnqueue, AckIsGenuine,
         CCSteps \/ \E s \in Steers : CCForeign(s)
  PROVE  OwnEnqueue' /\ AckIsGenuine'
<1>a. /\ Stream \in Seq(Record) /\ pending \in SteerOrNone /\ scan.enq \in SteerOrNone
  BY StreamTyped DEF TypeInv, TypeOK, TypeLock, TypeSend, ScanType
<1>b. UNCHANGED <<pending, scan, receipt, spc, ack>>
  BY CCJournals DEF CCForeign, CCRuns, CCFrame, lockSt, turnSt, locals, hostSide, steerSt
<1>1. CASE CCSteps
  <2>1. CASE Silent
    BY <1>1, <1>a, <1>b, <2>1, CCJournals, StreamSilent, AckKept
  <2>2. ASSUME NEW k \in Kinds, NEW i \in Inputs \cup {None}, NEW t \in SUBSET Inputs,
               Journal(k, i, t), k = "enq" /\ i \in Steers => i \in journaled'
        PROVE  OwnEnqueue' /\ AckIsGenuine'
    <3> DEFINE r == [k |-> k, i |-> i, id |-> nrec + 1, t |-> t]
    <3>1. Stream' = Append(Stream, r) /\ r \in Record /\ r.k = k /\ r.i = i
      BY <1>1, <2>2, CCJournals, StreamWritten DEF Kinds
    <3> HIDE DEF r
    <3>2. Members(Stream') = Members(Stream) \cup {r}
      BY <1>a, <3>1, MembersAppend
    <3>3. journaled \subseteq journaled'
      BY <1>1, CCJournals
    <3>4. pending # None =>
            \/ pending \in journaled'
            \/ \A m \in Members(Stream') : EarlierCopy(m, pending)
      BY <1>a, <2>2, <3>1, <3>2, <3>3 DEF OwnEnqueue, EarlierCopy, SteerOrNone
    <3>5. OwnEnqueue'
      BY <1>b, <3>3, <3>4 DEF OwnEnqueue, EarlierCopy
    <3>6. AckIsGenuine'
      BY <1>b, <3>3 DEF AckIsGenuine
    <3> QED BY <3>5, <3>6
  <2> QED BY <1>1, <2>1, <2>2, CCJournals
<1>2. ASSUME NEW s \in Steers, CCForeign(s) PROVE OwnEnqueue' /\ AckIsGenuine'
  <2>1. UNCHANGED journaled /\ pending = None
    BY <1>2, <1>a DEF CCForeign, OwnEnqueue, SteerOrNone
  <2> QED BY <1>b, <2>1 DEF OwnEnqueue, AckIsGenuine
<1> QED BY <1>1, <1>2

(* the scan, *)
LEMMA AckScan ==
  ASSUME TypeInv, FenceInv, TurnInv, PlaceInv, OwnEnqueue, AckIsGenuine, Scan,
         Members(Stream') \subseteq Members(Stream)
  PROVE  OwnEnqueue' /\ AckIsGenuine'
<1>a. /\ Stream \in Seq(Record) /\ pending \in SteerOrNone /\ scan.enq \in SteerOrNone
      /\ TypeSend /\ TypeSteer
  BY StreamTyped DEF TypeInv, TypeOK, TypeLock, TypeSend, ScanType
<1>b. UNCHANGED <<journaled, spc>>
  BY DEF Scan, ScanEcho, ScanEnqueue, ScanRoute, ScanTerminal, ScanForeignTerminal,
     ScanFailure, ScanEnd, ScanFrame, claude, reader
<1>1. CASE ScanEcho \/ ScanRoute \/ ScanTerminal \/ ScanForeignTerminal \/ ScanFailure
  <2>1. UNCHANGED <<receipt, ack>> /\ pending' \in {pending, None}
    BY <1>1 DEF ScanEcho, ScanRoute, ScanTerminal, ScanForeignTerminal, ScanFailure, turnSt
  <2>2. scan'.enq = scan.enq
    <3>1. CASE ScanEcho \/ ScanRoute \/ ScanForeignTerminal
      BY <1>a, <3>1, NextRecordKeeps DEF ScanEcho, ScanRoute, ScanForeignTerminal
    <3>2. CASE ScanTerminal
      <4>1. CASE Defers
        <5>1. PICK u : scan' = [NextRecord EXCEPT !.unc = u]
          BY <3>2, <4>1 DEF ScanTerminal
        <5> QED BY <1>a, <5>1, NextRecordKeeps
      <4>2. CASE ~Defers
        BY <1>a, <3>2, <4>2, NextRecordKeeps DEF ScanTerminal
      <4> QED BY <4>1, <4>2
    <3>3. CASE ScanFailure
      BY <1>a, <3>3, NextRecordKeeps DEF ScanFailure
    <3> QED BY <1>1, <3>1, <3>2, <3>3
  <2> QED BY <1>a, <1>b, <2>1, <2>2, AckKept
<1>2. CASE ScanEnqueue
  <2>1. UNCHANGED <<pending, ack>>
    BY <1>2 DEF ScanEnqueue, turnSt
  <2>2. \A s \in Steers : receipt'[s].prewrite = receipt[s].prewrite
    BY <1>2, <1>a DEF ScanEnqueue, TypeSteer, ReceiptType
  <2>3. scan'.enq = IF Acknowledges THEN pending ELSE scan.enq
    BY <1>2, <1>a, NextRecordKeeps DEF ScanEnqueue
  <2>4. Rec \in Members(Stream) /\ Rec.k = "enq"
    BY <1>2, <1>a, StreamScanned, MembersTail, RecTyped DEF ScanCase, ScanEnqueue
  <2>5. Acknowledges => pending \in journaled /\ spc[pending] \notin {"idle", "called"}
    BY <2>4 DEF Acknowledges, OwnEnqueue, EarlierCopy
  <2>6. AckIsGenuine'
    BY <1>b, <2>1 DEF AckIsGenuine
  <2>7. scan'.enq # None =>
          scan'.enq \in journaled' /\ spc'[scan'.enq] \notin {"idle", "called"}
    BY <1>b, <2>3, <2>5 DEF OwnEnqueue
  <2>8. pending' # None =>
          /\ spc'[pending'] \notin {"idle", "called"}
          /\ \/ pending' \in journaled'
             \/ \A r \in Members(Stream') : r.k = "enq" /\ r.i = pending'
                                              => r.id \in receipt'[pending'].prewrite
    BY <1>a, <1>b, <2>1, <2>2 DEF OwnEnqueue, SteerOrNone, EarlierCopy
  <2>9. OwnEnqueue'
    BY <2>7, <2>8 DEF OwnEnqueue, EarlierCopy
  <2> QED BY <2>6, <2>9
<1>3. CASE ScanEnd
  <2>1. UNCHANGED receipt /\ pending' \in {pending, None, scan.enq}
    BY <1>3 DEF ScanEnd, FailedSteer
  <2>2. scan'.enq = None
    BY <1>3, <1>a DEF ScanEnd, TypeSend, ScanType
  <2>3. CASE ack' = Resolve(scan.enq, "true") /\ UNCHANGED pending
    <3>1. AckIsGenuine'
      BY <1>a, <1>b, <2>3 DEF AckIsGenuine, Resolve, TypeSteer, OwnEnqueue
    <3>2. OwnEnqueue'
      BY <1>b, <2>1, <2>2, <2>3 DEF OwnEnqueue, EarlierCopy
    <3> QED BY <3>1, <3>2
  <2>4. CASE ~(ack' = Resolve(scan.enq, "true") /\ UNCHANGED pending)
    <3>1. \E x \in SteerOrNone : ack' = Resolve(x, "false") \/ ack' = ack
      <4>1. CASE Releases
        <5>1. scan.unc \in SteerOrNone /\ ~Failed
          BY <1>a, <4>1 DEF TypeSend, ScanType, Releases
        <5> QED BY <1>3, <4>1, <5>1 DEF ScanEnd
      <4>2. CASE Failed
        <5>1. FailedSteer \in SteerOrNone
          BY <1>a DEF FailedSteer
        <5>2. ack' = Resolve(FailedSteer, "false") \/ ack' = ack
          BY <1>3, <4>2 DEF ScanEnd, Releases
        <5> QED BY <5>1, <5>2
      <4> QED BY <1>3, <2>4, <4>1, <4>2 DEF ScanEnd
    <3> QED BY <1>a, <1>b, <2>1, <2>2, <3>1, ResolveFalse, AckKept
  <2> QED BY <2>3, <2>4
<1> QED BY <1>1, <1>2, <1>3 DEF Scan

(* and all the others, which resolve no receipt to True. *)
LEMMA AckStep ==
  ASSUME TypeInv, FenceInv, TurnInv, PlaceInv, PrefetchedInv, OwnEnqueue, AckIsGenuine,
         [Next]_vars
  PROVE  OwnEnqueue' /\ AckIsGenuine'
<1>a. /\ pending \in SteerOrNone /\ scan.enq \in SteerOrNone /\ TypeSteer /\ TypeSend
  BY DEF TypeInv, TypeOK, TypeLock, TypeSend, ScanType
<1>1. CASE CCSteps \/ \E s \in Steers : CCForeign(s)
  BY <1>1, AckClaude
<1>2. ASSUME ~CCSteps, ~\E s \in Steers : CCForeign(s)
      PROVE  Members(Stream') \subseteq Members(Stream)
  BY <1>2, NothingNew
<1>3. CASE Scan
  <2>1. CASE CCSteps \/ \E s \in Steers : CCForeign(s)
    BY <1>1, <2>1
  <2> QED BY <1>2, <1>3, <2>1, AckScan
<1>4. CASE \/ Send \/ LoopCrash \/ LoopPoll \/ LoopTimeout \/ HostCancel \/ Read \/ Emit
           \/ Decide \/ DecideResend \/ Enter
  <2>1. UNCHANGED <<pending, spc, receipt, ack, journaled>>
    BY <1>4 DEF Send, Own, CheckAlive, CheckRefused, ResumeBegin, ResumeDone,
       ResumeFailed, Backlog, DeliverChannel, DeliverStdin, DeliverFailed,
       LoopCrash, LoopPoll, LoopTimeout, HostCancel, Read, Emit, Decide, DecideResend,
       DecideComplete, DecideApiError, DecideLimit, DecideBanner, DecideAgain,
       DecideFrame, Exit, Enter, CancelOwn, Acquire, reader, claude, lockSt, turnSt, hostSide,
       steerSt
  <2>2. \/ scan' = scan \/ scan' = ScanInit
        \/ Read
    BY <1>4 DEF Send, Own, CheckAlive, CheckRefused, ResumeBegin, ResumeDone,
       ResumeFailed, Backlog, DeliverChannel, DeliverStdin, DeliverFailed,
       LoopCrash, LoopPoll, LoopTimeout, HostCancel, Emit, Decide, DecideResend,
       DecideComplete, DecideApiError, DecideLimit, DecideBanner, DecideAgain,
       Exit, Enter, CancelOwn, Acquire, locals
  <2>a. ASSUME Read PROVE scan'.enq = None
    <3> DEFINE b == prefetched \o unread
    <3>1. scan' = [ScanInit EXCEPT !.batch = b, !.started = fg.started]
      BY <2>a DEF Read
    <3> HIDE DEF b
    <3> QED BY <3>1 DEF ScanInit
  <2>b. ASSUME scan' = ScanInit PROVE scan'.enq = None
    BY <2>b DEF ScanInit
  <2>3. \/ scan' = scan
        \/ scan'.enq = None
    BY <2>2, <2>a, <2>b
  <2> QED BY <1>a, <1>1, <1>2, <2>1, <2>3, AckKept
<1>5. CASE Finally \/ InterruptDetach \/ InterruptReap \/ StopReap
  <2>1. UNCHANGED <<spc, receipt, journaled>> /\ (scan' = scan \/ scan'.enq = None)
    BY <1>5 DEF Finally, FinallyDetach, FinallyReap, InterruptDetach, InterruptReap,
       StopReap, HostFrame, ScanInit, reader, claude, locals
  <2>2. CASE FinallyDetach \/ InterruptDetach
    <3>1. \E x, o : Detach(x, o)
      BY <2>2 DEF FinallyDetach, InterruptDetach
    <3>2. \A s \in Steers : ack'[s] = "true" => ack[s] = "true"
      BY <3>1, AckDetach
    <3>3. pending' \in {pending, None}
      BY <3>1, AckDetach
    <3> QED BY <1>a, <1>1, <1>2, <2>1, <3>2, <3>3, AckKept
  <2>3. CASE FinallyReap \/ InterruptReap \/ StopReap
    <3>1. \E x \in Stoppers : Reap(x)
      BY <2>3 DEF FinallyReap, InterruptReap, StopReap, Stoppers
    <3>2. \A s \in Steers : ack'[s] = "true" => ack[s] = "true"
      BY <3>1, AckReap
    <3>3. pending' = pending
      BY <2>3 DEF FinallyReap, InterruptReap, StopReap, lockSt, turnSt
    <3> QED BY <1>a, <1>1, <1>2, <2>1, <3>2, <3>3, AckKept
  <2> QED BY <1>5, <2>2, <2>3 DEF Finally
<1>6. CASE UNCHANGED vars \/ Watch \/ InterruptMark \/ StopWatch \/ InterruptEscape \/ StopLock
  <2>1. /\ UNCHANGED <<spc, receipt, journaled, scan, ack>>
        /\ pending' \in {pending, None}
    BY <1>6 DEF vars, Watch, WatchWake, WatchLook, WatchRead, StopWatch, InterruptMark,
       InterruptEscape,
       StopLock, HostFrame, locals, steerSt, claude, lockSt, turnSt
  <2> QED BY <1>a, <1>1, <1>2, <2>1, AckKept
<1>7. ASSUME NEW s \in Steers, SteerAdmit(s) PROVE OwnEnqueue' /\ AckIsGenuine'
  <2>1. /\ UNCHANGED <<ack, journaled, scan>> /\ pending' = s /\ prefetched' = HandedBack
        /\ stateLock = None /\ owner # None /\ unsettled = NoProc /\ pc' = pc
        /\ active # NoProc /\ unread' = <<>>
    BY <1>7 DEF SteerAdmit, SteerMayEnter, Admissible, SteerFrame, locals
  <2>2. spc'[s] = "write" /\ receipt'[s].prewrite = Ids(unread)
    BY <1>a, <1>7 DEF SteerAdmit, TypeSteer, ReceiptType
  <2>3. pc # "scan" /\ scan.enq = None
    BY <2>1, TextsAssumption DEF FenceInv, SteerFence, LockHolders
  <2>4. pc \notin {"check", "backlog"}
    BY <2>1 DEF TurnInv, ActiveInv, InRounds
  <2>5. prefetched = <<>>
    BY <2>1, <2>3, <2>4 DEF PrefetchedInv
  <2>6. Stream = unread
    <3>1. unread \in Seq(Record) /\ Stream = prefetched \o unread
      BY <2>3, StreamTyped
    <3> QED BY <2>5, <3>1, Joined
  <2>7. Stream' = Stream
    BY <1>7, StreamSteered DEF Steer
  <2>8. \A r \in Members(Stream') : r.id \in Ids(unread)
    BY <2>6, <2>7 DEF Members, Ids
  <2>9. OwnEnqueue'
    BY <2>1, <2>2, <2>3, <2>8 DEF OwnEnqueue, EarlierCopy
  <2> QED BY <2>1, <2>9 DEF AckIsGenuine
<1>8. ASSUME NEW s \in Steers,
             \/ SteerRefused(s) \/ SteerTooLate(s) \/ SteerWritten(s)
             \/ SteerFailClosed(s) \/ SteerReap(s) \/ SteerAcknowledged(s)
             \/ SteerCall(s) \/ SteerWriteFailed(s) \/ SteerDeadline(s)
      PROVE  OwnEnqueue' /\ AckIsGenuine'
  <2>1. UNCHANGED <<journaled, scan>> /\ pending' \in {pending, None}
    BY <1>8 DEF SteerRefused, SteerTooLate, SteerWritten, SteerFailClosed, SteerReap,
       SteerAcknowledged, SteerCall, SteerWriteFailed, SteerDeadline, SteerFrame,
       lockSt, turnSt, locals, claude
  <2>2. ack' = Resolve(s, "false") \/ ack' = ack
    BY <1>8 DEF SteerRefused, SteerTooLate, SteerWritten, SteerFailClosed, SteerReap,
       SteerAcknowledged, SteerCall, SteerWriteFailed, SteerDeadline
  <2>3. \A t \in Steers : ack'[t] = "true" => ack[t] = "true"
    BY <1>a, <2>2, ResolveFalse DEF SteerOrNone
  <2>4. \A t \in Steers : receipt'[t].prewrite = receipt[t].prewrite
    BY <1>a, <1>8 DEF SteerRefused, SteerTooLate, SteerWritten, SteerFailClosed, SteerReap,
       SteerAcknowledged, SteerCall, SteerWriteFailed, SteerDeadline, TypeSteer, ReceiptType
  <2>5. \E v \in {"called", "await", "failclosed", "reap", "done"} :
          /\ spc' = [spc EXCEPT ![s] = v]
          /\ v = "called" => spc[s] = "idle"
    BY <1>8 DEF SteerRefused, SteerTooLate, SteerWritten, SteerFailClosed, SteerReap,
       SteerAcknowledged, SteerCall, SteerWriteFailed, SteerDeadline, Return
  <2>6. \A t \in Steers : spc'[t] \in {"idle", "called"} => spc[t] \in {"idle", "called"}
    BY <1>a, <2>5 DEF TypeSteer
  <2> QED BY <1>a, <1>1, <1>2, <2>1, <2>3, <2>4, <2>6, AckKept
<1> QED BY <1>1, <1>3, <1>4, <1>5, <1>6, <1>7, <1>8 DEF Next, Consume, Round, Steer,
      Host, Chance, CCSteps

LEMMA ReceiptInit == Init => ReceiptInv
<1> SUFFICES ASSUME Init PROVE ReceiptInv
  OBVIOUS
<1>1. /\ prefetched = <<>> /\ pending = None /\ scan.enq = None
      /\ \A s \in Steers : ack[s] = "open"
  BY DEF Init, ScanInit
<1> QED BY <1>1 DEF ReceiptInv, PrefetchedInv, OwnEnqueue, AckIsGenuine

(* True from steer_active_turn means that Claude Code journalled this very input:
   an older copy of the same text, written by anybody, is never taken for it. *)
THEOREM AckGenuine == Spec => []AckIsGenuine
<1> DEFINE IInv == TypeInv /\ FenceInv /\ TurnInv /\ StreamInv /\ ReceiptInv
<1>1. IInv => AckIsGenuine
  BY DEF ReceiptInv
<1>2. Init => IInv
  BY TypeInvInit, FenceInit, TurnInit, StreamInit, ReceiptInit
<1>3. IInv /\ [Next]_vars => IInv'
  <2> SUFFICES ASSUME IInv, [Next]_vars PROVE IInv'
    OBVIOUS
  <2>1. TypeInv' /\ FenceInv' /\ TurnInv' /\ StreamInv'
    BY TypeInvStep, FenceStep, TurnStep, StreamStep
  <2>2. ReceiptInv'
    BY PrefetchedStep, AckStep DEF ReceiptInv, StreamInv
  <2> QED BY <2>1, <2>2
<1> QED BY <1>1, <1>2, <1>3, PTL DEF Spec
--------------------------------------------------------------------------------
(* Which turn a terminal record closes.  Runs(q, i, n, L): i is executed by the
   turn that the next terminal after position n of q closes; when there is none, the
   turn still runs it, or will never be closed (i \in L). *)
Closing(r) == r.k \in {"dur", "int", "err", "lim"}
FirstClosing(q, m, n) ==
    /\ m \in DOMAIN q /\ m > n /\ Closing(q[m])
    /\ \A k \in DOMAIN q : k > n /\ k < m => ~Closing(q[k])
NoClosing(q, n) == \A k \in DOMAIN q : k > n => ~Closing(q[k])
Runs(q, i, n, L) ==
    (\E m \in DOMAIN q : FirstClosing(q, m, n) /\ i \in q[m].t) \/ (NoClosing(q, n) /\ i \in L)

Live == IF alive[process] THEN cc.turn ELSE Inputs \cup {None}
Tells(r) == r.k = "echo" \/ (r.k = "rem" /\ r.i \in Prompts)
Told(q, L) == \A n \in DOMAIN q : Tells(q[n]) => Runs(q, q[n].i, n, L)
JournalInv == (cc.echo # None => cc.echo \in cc.turn) /\ Told(Stream, Live)
AliveInv == /\ \A p \in Procs : p > process => ~alive[p]
            /\ pc = "spawn" => ~alive[process]

LEMMA RunsTail ==
  ASSUME NEW q \in Seq(Record), q # <<>>, NEW n \in Nat, NEW i, NEW L,
         Runs(q, i, n + 1, L)
  PROVE  Runs(Tail(q), i, n, L)
<1>1. /\ Head(q) = q[1] /\ Tail(q) \in Seq(Record)
      /\ Len(q) \in Nat \ {0} /\ Len(Tail(q)) = Len(q) - 1
      /\ \A k \in 1 .. Len(q) - 1 : Tail(q)[k] = q[k + 1]
  BY Shorter
<1>2. DOMAIN q = 1 .. Len(q) /\ DOMAIN Tail(q) = 1 .. Len(q) - 1
  BY <1>1, LenProperties
<1> DEFINE t == Tail(q)
<1>3. \A k \in 1 .. Len(q) - 1 : t[k] = q[k + 1]
  BY <1>1
<1>4. DOMAIN t = 1 .. Len(q) - 1
  BY <1>2
<1> HIDE DEF t
<1>5. CASE NoClosing(q, n + 1) /\ i \in L
  BY <1>1, <1>2, <1>3, <1>4, <1>5 DEF Runs, NoClosing, Closing, t
<1>6. ASSUME NEW m \in DOMAIN q, FirstClosing(q, m, n + 1), i \in q[m].t
      PROVE  Runs(t, i, n, L)
  <2>1. m - 1 \in DOMAIN t /\ t[m - 1] = q[m] /\ m - 1 > n
    BY <1>1, <1>2, <1>3, <1>4, <1>6 DEF FirstClosing
  <2>2. ASSUME NEW k \in DOMAIN t, k > n, k < m - 1 PROVE ~Closing(t[k])
    <3>1. k + 1 \in DOMAIN q /\ k + 1 > n + 1 /\ k + 1 < m /\ t[k] = q[k + 1]
      BY <1>1, <1>2, <1>3, <1>4, <2>2
    <3> QED BY <1>6, <3>1 DEF FirstClosing
  <2>3. FirstClosing(t, m - 1, n)
    BY <1>6, <2>1, <2>2 DEF FirstClosing
  <2> QED BY <1>6, <2>1, <2>3 DEF Runs
<1> QED BY <1>5, <1>6 DEF Runs, t

LEMMA RunsHead ==
  ASSUME NEW q \in Seq(Record), q # <<>>, NEW i, NEW L,
         Runs(q, i, 0, L)
  PROVE  \/ Closing(Head(q)) /\ i \in Head(q).t
         \/ ~Closing(Head(q)) /\ Runs(Tail(q), i, 0, L)
<1>1. Head(q) = q[1] /\ Len(q) \in Nat \ {0} /\ DOMAIN q = 1 .. Len(q)
  BY Shorter, LenProperties
<1>2. CASE Closing(q[1])
  <2>1. PICK m \in DOMAIN q : FirstClosing(q, m, 0) /\ i \in q[m].t
    BY <1>1, <1>2 DEF Runs, NoClosing
  <2>2. m = 1
    BY <1>1, <1>2, <2>1 DEF FirstClosing
  <2> QED BY <1>1, <1>2, <2>1, <2>2
<1>3. CASE ~Closing(q[1])
  <2>1. Runs(q, i, 0 + 1, L)
    <3>1. CASE NoClosing(q, 0) /\ i \in L
      BY <1>1, <3>1 DEF Runs, NoClosing
    <3>2. ASSUME NEW m \in DOMAIN q, FirstClosing(q, m, 0), i \in q[m].t
          PROVE  Runs(q, i, 0 + 1, L)
      <4>1. m > 0 + 1
        BY <1>1, <1>3, <3>2 DEF FirstClosing
      <4>2. \A k \in DOMAIN q : k > 0 + 1 /\ k < m => ~Closing(q[k])
        BY <1>1, <3>2 DEF FirstClosing
      <4> QED BY <3>2, <4>1, <4>2 DEF Runs, FirstClosing
    <3> QED BY <3>1, <3>2 DEF Runs
  <2> QED BY <1>1, <1>3, <2>1, RunsTail
<1> QED BY <1>2, <1>3

LEMMA RunsLive ==
  ASSUME NEW q, NEW n, NEW i, NEW L, NEW M,
         Runs(q, i, n, L), i \in L => i \in M
  PROVE  Runs(q, i, n, M)
BY DEF Runs

LEMMA RunsAppend ==
  ASSUME NEW q \in Seq(Record), NEW r \in Record, NEW n \in 0 .. Len(q), NEW i,
         NEW L, NEW M, Runs(q, i, n, L),
         i \in L => i \in IF Closing(r) THEN r.t ELSE M
  PROVE  Runs(Append(q, r), i, n, M)
<1> DEFINE a == Append(q, r)
<1>1. /\ Len(a) = Len(q) + 1 /\ DOMAIN a = 1 .. Len(q) + 1
      /\ \A k \in 1 .. Len(q) : a[k] = q[k]
      /\ a[Len(q) + 1] = r /\ DOMAIN q = 1 .. Len(q) /\ Len(q) \in Nat
  BY AppendProperties, LenProperties
<1> HIDE DEF a
<1>2. ASSUME NEW m \in DOMAIN q, FirstClosing(q, m, n), i \in q[m].t
      PROVE  Runs(a, i, n, M)
  <2>1. m \in DOMAIN a /\ a[m] = q[m]
    BY <1>1
  <2>2. \A k \in DOMAIN a : k > n /\ k < m => k \in DOMAIN q /\ a[k] = q[k]
    BY <1>1
  <2>3. FirstClosing(a, m, n)
    BY <1>2, <2>1, <2>2 DEF FirstClosing
  <2> QED BY <1>2, <2>1, <2>3 DEF Runs
<1>3. ASSUME NoClosing(q, n), i \in L PROVE Runs(a, i, n, M)
  <2>1. \A k \in DOMAIN a : k > n /\ k < Len(q) + 1 => ~Closing(a[k])
    BY <1>1, <1>3 DEF NoClosing
  <2>2. CASE Closing(r)
    <3>1. Len(q) + 1 \in DOMAIN a /\ Len(q) + 1 > n
      BY <1>1
    <3>2. FirstClosing(a, Len(q) + 1, n) /\ i \in a[Len(q) + 1].t
      BY <1>1, <1>3, <2>1, <2>2, <3>1 DEF FirstClosing
    <3> QED BY <3>1, <3>2 DEF Runs
  <2>3. CASE ~Closing(r)
    <3>1. \A k \in DOMAIN a : k < Len(q) + 1 \/ k = Len(q) + 1
      BY <1>1
    <3>2. NoClosing(a, n)
      BY <1>1, <2>1, <2>3, <3>1 DEF NoClosing
    <3> QED BY <1>3, <2>3, <3>2 DEF Runs
  <2> QED BY <2>2, <2>3
<1> QED BY <1>2, <1>3 DEF Runs, a

LEMMA RunsSuffix ==
  ASSUME NEW a \in Seq(Record), NEW b \in Seq(Record), NEW n \in Nat, NEW i,
         NEW L, Runs(a \o b, i, n + Len(a), L)
  PROVE  Runs(b, i, n, L)
<1> DEFINE ab == a \o b
<1>1. /\ ab \in Seq(Record) /\ Len(a) \in Nat /\ Len(b) \in Nat
      /\ Len(ab) = Len(a) + Len(b)
      /\ \A k \in 1 .. Len(a) + Len(b) :
              ab[k] = IF k <= Len(a) THEN a[k] ELSE b[k - Len(a)]
  BY Joined
<1>2. DOMAIN ab = 1 .. Len(a) + Len(b) /\ DOMAIN b = 1 .. Len(b)
  BY <1>1, LenProperties
<1>a. Runs(ab, i, n + Len(a), L)
  OBVIOUS
<1> HIDE DEF ab
<1>3. \A k \in DOMAIN b : k + Len(a) \in DOMAIN ab /\ ab[k + Len(a)] = b[k]
  BY <1>1, <1>2
<1>4. CASE NoClosing(ab, n + Len(a)) /\ i \in L
  <2>1. ASSUME NEW k \in DOMAIN b, k > n PROVE ~Closing(b[k])
    <3>1. k + Len(a) > n + Len(a)
      BY <1>1, <1>2, <2>1
    <3> QED BY <1>3, <1>4, <3>1 DEF NoClosing
  <2> QED BY <1>4, <2>1 DEF Runs, NoClosing
<1>5. ASSUME NEW m \in DOMAIN ab, FirstClosing(ab, m, n + Len(a)), i \in ab[m].t
      PROVE  Runs(b, i, n, L)
  <2>1. m - Len(a) \in DOMAIN b /\ ab[m] = b[m - Len(a)] /\ m - Len(a) > n
    BY <1>1, <1>2, <1>5 DEF FirstClosing
  <2>2. ASSUME NEW k \in DOMAIN b, k > n, k < m - Len(a) PROVE ~Closing(b[k])
    <3>1. k + Len(a) > n + Len(a) /\ k + Len(a) < m
      BY <1>1, <1>2, <2>2
    <3> QED BY <1>3, <1>5, <3>1 DEF FirstClosing
  <2>3. FirstClosing(b, m - Len(a), n)
    BY <1>5, <2>1, <2>2 DEF FirstClosing
  <2> QED BY <1>5, <2>1, <2>3 DEF Runs
<1> QED BY <1>4, <1>5, <1>a DEF Runs

LEMMA ToldTail ==
  ASSUME NEW q \in Seq(Record), q # <<>>, NEW L, Told(q, L)
  PROVE  /\ Told(Tail(q), L)
         /\ Tells(Head(q)) => Runs(Tail(q), Head(q).i, 0, L)
<1> DEFINE t == Tail(q)
<1>1. /\ Head(q) = q[1] /\ t \in Seq(Record)
      /\ Len(q) \in Nat \ {0} /\ Len(t) = Len(q) - 1
      /\ \A k \in 1 .. Len(q) - 1 : t[k] = q[k + 1]
  BY Shorter
<1>2. DOMAIN q = 1 .. Len(q) /\ DOMAIN t = 1 .. Len(q) - 1
  BY <1>1, LenProperties
<1> HIDE DEF t
<1>3. ASSUME NEW n \in DOMAIN t, Tells(t[n]) PROVE Runs(t, t[n].i, n, L)
  <2>1. n + 1 \in DOMAIN q /\ t[n] = q[n + 1] /\ n \in Nat
    BY <1>1, <1>2
  <2>2. Runs(q, t[n].i, n + 1, L)
    BY <1>3, <2>1 DEF Told
  <2> QED BY <2>1, <2>2, RunsTail DEF t
<1>4. ASSUME Tells(Head(q)) PROVE Runs(t, Head(q).i, 0, L)
  <2>1. Runs(q, Head(q).i, 0 + 1, L)
    BY <1>1, <1>2, <1>4 DEF Told
  <2> QED BY <2>1, RunsTail DEF t
<1> QED BY <1>3, <1>4 DEF Told, t

LEMMA ToldSuffix ==
  ASSUME NEW a \in Seq(Record), NEW b \in Seq(Record), NEW L, Told(a \o b, L)
  PROVE  Told(b, L)
<1> DEFINE ab == a \o b
<1>1. /\ ab \in Seq(Record) /\ Len(a) \in Nat /\ Len(b) \in Nat
      /\ Len(ab) = Len(a) + Len(b)
      /\ \A k \in 1 .. Len(a) + Len(b) :
              ab[k] = IF k <= Len(a) THEN a[k] ELSE b[k - Len(a)]
  BY Joined
<1>2. DOMAIN ab = 1 .. Len(a) + Len(b) /\ DOMAIN b = 1 .. Len(b)
  BY <1>1, LenProperties
<1>a. Told(ab, L)
  OBVIOUS
<1> HIDE DEF ab
<1>3. ASSUME NEW n \in DOMAIN b, Tells(b[n]) PROVE Runs(b, b[n].i, n, L)
  <2>1. n + Len(a) \in DOMAIN ab /\ ab[n + Len(a)] = b[n] /\ n \in Nat
    BY <1>1, <1>2
  <2>2. Runs(ab, b[n].i, n + Len(a), L)
    BY <1>3, <1>a, <2>1 DEF Told
  <2> QED BY <2>1, <2>2, RunsSuffix DEF ab
<1> QED BY <1>3 DEF Told

LEMMA ToldLive ==
  ASSUME NEW q, NEW L, NEW M, Told(q, L), L \subseteq M
  PROVE  Told(q, M)
<1>1. ASSUME NEW n \in DOMAIN q, Tells(q[n]) PROVE Runs(q, q[n].i, n, M)
  <2>1. Runs(q, q[n].i, n, L)
    BY <1>1 DEF Told
  <2> QED BY <2>1, RunsLive
<1> QED BY <1>1 DEF Told

LEMMA ToldAppend ==
  ASSUME NEW q \in Seq(Record), NEW r \in Record, NEW L, NEW M, Told(q, L),
         L \subseteq IF Closing(r) THEN r.t ELSE M,
         Tells(r) => r.i \in M
  PROVE  Told(Append(q, r), M)
<1> DEFINE a == Append(q, r)
<1>1. /\ Len(a) = Len(q) + 1 /\ DOMAIN a = 1 .. Len(q) + 1
      /\ \A k \in 1 .. Len(q) : a[k] = q[k]
      /\ a[Len(q) + 1] = r /\ DOMAIN q = 1 .. Len(q) /\ Len(q) \in Nat
  BY AppendProperties, LenProperties
<1> HIDE DEF a
<1>2. ASSUME NEW n \in DOMAIN q, Tells(q[n]) PROVE Runs(a, q[n].i, n, M)
  <2>1. Runs(q, q[n].i, n, L) /\ n \in 0 .. Len(q)
    BY <1>1, <1>2 DEF Told
  <2> QED BY <2>1, RunsAppend DEF a
<1>3. ASSUME Tells(r) PROVE Runs(a, r.i, Len(q) + 1, M)
  <2>1. NoClosing(a, Len(q) + 1)
    BY <1>1 DEF NoClosing
  <2> QED BY <1>3, <2>1 DEF Runs
<1>4. ASSUME NEW n \in DOMAIN a, Tells(a[n]) PROVE Runs(a, a[n].i, n, M)
  <2>1. CASE n \in DOMAIN q
    BY <1>1, <1>2, <1>4, <2>1
  <2>2. CASE n = Len(q) + 1
    BY <1>1, <1>3, <1>4, <2>2
  <2> QED BY <1>1, <2>1, <2>2
<1> QED BY <1>4 DEF Told, a
--------------------------------------------------------------------------------
(* Who kills, replaces and spawns the process. *)
LEMMA Killed ==
  ASSUME TypeInv, NEW p \in ProcOrNone, Kill(p)
  PROVE  /\ \A x \in Procs : alive'[x] = (alive[x] /\ x # p)
         /\ \/ UNCHANGED <<cc, alive>>
            \/ UNCHANGED cc /\ p # process
            \/ cc'.echo = None /\ p = process
BY DEF Kill, TypeInv, TypeOK, TypeLife, Quiet

LEMMA Reaped ==
  ASSUME TypeInv, NEW a \in Stoppers, Reap(a)
  PROVE  /\ \A x \in Procs : alive'[x] => alive[x]
         /\ \/ UNCHANGED <<cc, alive>>
            \/ UNCHANGED cc /\ alive'[process] = alive[process]
            \/ cc'.echo = None /\ ~alive'[process]
<1>1. reaping[a].proc \in ProcOrNone /\ process \in Procs
  BY DEF TypeInv, TypeOK, TypeHost, TypeLife, ReapType
<1>2. CASE UNCHANGED <<alive, cc>>
  BY <1>2
<1>3. CASE Kill(reaping[a].proc)
  <2>1. alive \in [Procs -> BOOLEAN]
    BY DEF TypeInv, TypeOK, TypeLife
  <2> DEFINE p == reaping[a].proc
  <2>2. /\ \A x \in Procs : alive'[x] = (alive[x] /\ x # p)
        /\ \/ UNCHANGED <<cc, alive>>
           \/ UNCHANGED cc /\ p # process
           \/ cc'.echo = None /\ p = process
    BY <1>1, <1>3, Killed
  <2> HIDE DEF p
  <2> QED BY <1>1, <2>1, <2>2
<1> QED BY <1>2, <1>3 DEF Reap

(* Only the process of a resume begins to live, and what a step other than one of
   Claude Code leaves of the turn is the turn, or a process that is dead. *)
LEMMA LifeStep ==
  ASSUME TypeInv, [Next]_vars
  PROVE  /\ \A x \in Procs : alive'[x] => alive[x] \/ (ResumeDone /\ x = process)
         /\ \/ process' = process
            \/ ResumeBegin /\ process' = process + 1 /\ alive' = alive
         /\ \/ CCSteps \/ ResumeDone
            \/ cc'.echo = None
               /\ (ResumeBegin \/ (process' = process /\ ~alive'[process]))
            \/ /\ cc'.echo = cc.echo /\ cc'.turn = cc.turn /\ process' = process
               /\ alive'[process] = alive[process]
<1>a. /\ process \in Procs /\ alive \in [Procs -> BOOLEAN] /\ cc \in CCType
      /\ TypeSteer
  BY DEF TypeInv, TypeOK, TypeLife, TypeClaude
<1>1. CASE CCDie
  <2>1. Kill(process) /\ UNCHANGED process /\ process \in ProcOrNone
    BY <1>1, <1>a, NoneTyped DEF CCDie, CCRuns, CCFrame
  <2> QED BY <1>1, <2>1, Killed DEF CCSteps
<1>2. CASE CCSteps /\ ~CCDie
  <2>1. UNCHANGED <<alive, process>>
    BY <1>2 DEF CCSteps, ClaudeStep, CCStart, CCEcho, CCEnqueue, CCRemove, CCDequeue,
       CCEndTurn, CCEscape, CCNotify, CCFailTurn, CCBanner, CCLose, CCRuns, CCFrame
  <2> QED BY <1>2, <2>1
<1>3. CASE FinallyReap \/ InterruptReap \/ StopReap
  <2>1. UNCHANGED process /\ \E x \in Stoppers : Reap(x)
    BY <1>3 DEF FinallyReap, InterruptReap, StopReap, Stoppers
  <2> QED BY <2>1, Reaped
<1>4. ASSUME NEW s \in Steers, SteerReap(s)
      PROVE  /\ \A x \in Procs : alive'[x] => alive[x]
             /\ process' = process
             /\ \/ cc'.echo = None /\ ~alive'[process]
                \/ UNCHANGED cc /\ alive'[process] = alive[process]
  <2>1. UNCHANGED process /\ Kill(receipt[s].proc) /\ receipt[s].proc \in ProcOrNone
    BY <1>4, <1>a DEF SteerReap, SteerFrame, TypeSteer, ReceiptType
  <2> QED BY <1>a, <2>1, Killed
<1>5. CASE ResumeBegin
  BY <1>5 DEF ResumeBegin, Quiet
<1>6. CASE ResumeDone
  BY <1>6, <1>a DEF ResumeDone
<1>7. ASSUME UNCHANGED <<alive, process>>,
             \/ UNCHANGED cc
             \/ \E i : cc' = [cc EXCEPT !.inbox = Append(@, i)]
             \/ cc' = [cc EXCEPT !.banner = FALSE]
      PROVE  cc'.echo = cc.echo /\ cc'.turn = cc.turn
  BY <1>a, <1>7 DEF CCType
<1>8. CASE Send /\ ~ResumeBegin /\ ~ResumeDone
  <2>1. /\ UNCHANGED <<alive, process>>
        /\ UNCHANGED cc \/ \E i : cc' = [cc EXCEPT !.inbox = Append(@, i)]
    BY <1>8 DEF Send, Own, CheckAlive, CheckRefused, ResumeFailed, Backlog,
       DeliverChannel, DeliverStdin, DeliverFailed, Exit, life, reader, claude
  <2> QED BY <1>7, <2>1
<1>9. CASE \/ LoopCrash \/ LoopPoll \/ LoopTimeout \/ HostCancel \/ Read \/ Emit \/ Decide
           \/ DecideResend \/ Scan \/ FinallyDetach \/ Enter
  <2>1. /\ UNCHANGED <<alive, process>>
        /\ \/ UNCHANGED cc
           \/ \E i : cc' = [cc EXCEPT !.inbox = Append(@, i)]
           \/ cc' = [cc EXCEPT !.banner = FALSE]
    BY <1>9 DEF LoopCrash, LoopPoll, LoopTimeout, HostCancel, Read, Emit, Decide, DecideResend,
       DecideComplete, DecideApiError, DecideLimit, DecideBanner, DecideAgain,
       DecideFrame, Scan, ScanEcho, ScanEnqueue, ScanRoute, ScanTerminal,
       ScanForeignTerminal, ScanFailure, ScanEnd, ScanFrame, FinallyDetach, Enter, CancelOwn,
       Acquire,
       Exit, life, reader, claude
  <2> QED BY <1>7, <2>1
<1>10. CASE \/ Watch \/ InterruptMark \/ StopWatch \/ InterruptDetach \/ InterruptEscape
            \/ StopLock
            \/ UNCHANGED vars
  <2>1. /\ UNCHANGED <<alive, process>>
        /\ UNCHANGED cc \/ \E i : cc' = [cc EXCEPT !.inbox = Append(@, i)]
    BY <1>10 DEF Watch, WatchWake, WatchLook, WatchRead, StopWatch, InterruptMark,
       InterruptDetach,
       InterruptEscape, StopLock, HostFrame, vars, life, claude
  <2> QED BY <1>7, <2>1
<1>11. ASSUME NEW s \in Steers,
              \/ SteerRefused(s) \/ SteerTooLate(s) \/ SteerAdmit(s) \/ SteerWritten(s)
              \/ SteerFailClosed(s) \/ SteerAcknowledged(s) \/ SteerCall(s)
              \/ SteerWriteFailed(s) \/ SteerDeadline(s) \/ CCForeign(s)
       PROVE  /\ UNCHANGED <<alive, process>>
              /\ cc'.echo = cc.echo /\ cc'.turn = cc.turn
  <2>1. /\ UNCHANGED <<alive, process>>
        /\ UNCHANGED cc \/ \E i : cc' = [cc EXCEPT !.inbox = Append(@, i)]
    BY <1>11 DEF SteerRefused, SteerTooLate, SteerAdmit, SteerWritten, SteerFailClosed,
       SteerAcknowledged, SteerCall, SteerWriteFailed, SteerDeadline, CCForeign,
       CCRuns, CCFrame, SteerFrame, life, claude
  <2> QED BY <1>7, <2>1
<1> QED BY <1>1, <1>2, <1>3, <1>4, <1>5, <1>6, <1>8, <1>9, <1>10, <1>11 DEF Next,
      Consume, Send, Round, Finally, Steer, Host, Chance, CCSteps

LEMMA Spawning ==
  ASSUME [Next]_vars, pc' = "spawn"
  PROVE  ResumeBegin \/ (pc = "spawn" /\ ~ResumeDone)
<1>1. CASE UNCHANGED vars \/ OtherSteps
  BY <1>1, OthersKeep DEF vars, ResumeDone
<1>2. CASE Send \/ Enter
  BY <1>2 DEF Send, Own, CheckAlive, CheckRefused, ResumeDone, ResumeFailed, Backlog,
     DeliverChannel, DeliverStdin, DeliverFailed, Enter, CancelOwn, Acquire, Exit, Finish
<1>3. CASE \/ LoopCrash \/ LoopPoll \/ LoopTimeout \/ HostCancel \/ Read \/ Emit
           \/ Decide \/ DecideResend \/ Finally
  BY <1>3 DEF LoopCrash, LoopPoll, LoopTimeout, HostCancel, Read, Emit, Decide, DecideResend,
     DecideComplete, DecideApiError, DecideLimit, DecideBanner, DecideAgain, Unfinished,
     Goes, Finally, FinallyDetach, FinallyReap, Exit, Finish
<1>4. CASE Scan
  BY <1>4 DEF Scan, ScanEcho, ScanEnqueue, ScanRoute, ScanTerminal, ScanForeignTerminal,
     ScanFailure, ScanEnd, ScanFrame, Scanning
<1>5. CASE InterruptDetach \/ StopLock
  BY <1>5 DEF InterruptDetach, StopLock, HostFrame, ResumeDone
<1>6. CASE \E s \in Steers : \/ Steer(s) \/ SteerCall(s) \/ SteerWriteFailed(s)
                             \/ SteerDeadline(s)
  BY <1>6 DEF Steer, SteerCall, SteerWriteFailed, SteerDeadline, SteerRefused,
     SteerTooLate, SteerAdmit, SteerWritten, SteerFailClosed, SteerReap,
     SteerAcknowledged, SteerFrame, ResumeDone
<1> QED BY <1>1, <1>2, <1>3, <1>4, <1>5, <1>6 DEF Next, Consume, Round, Chance, Host,
      OtherSteps

LEMMA AliveInit == Init => AliveInv
<1>1. \A p \in Procs : p \in Nat
  BY BoundsAssumption DEF Procs
<1> SUFFICES ASSUME Init PROVE AliveInv
  OBVIOUS
<1>2. process = 1 /\ pc = "idle" /\ alive = [p \in Procs |-> p = 1]
  BY DEF Init
<1>3. ASSUME NEW p \in Procs, p > 1 PROVE ~alive[p]
  <2>1. p # 1
    BY <1>1, <1>3
  <2> QED BY <1>2, <2>1, Zenon
<1> QED BY <1>2, <1>3 DEF AliveInv

LEMMA AliveStep ==
  ASSUME TypeInv, TypeInv', AliveInv, [Next]_vars
  PROVE  AliveInv'
<1>a. process \in Procs /\ process' \in Procs
  BY DEF TypeInv, TypeOK, TypeLife
<1>c. \A p \in Procs : p \in Nat
  BY BoundsAssumption DEF Procs
<1>b. ResumeDone => pc = "spawn"
  BY DEF ResumeDone
<1>1. ASSUME NEW p \in Procs, p > process' PROVE ~alive'[p]
  <2>1. p > process
    BY <1>a, <1>c, <1>1, LifeStep
  <2> QED BY <1>a, <1>b, <1>c, <1>1, <2>1, LifeStep DEF AliveInv
<1>2. ASSUME pc' = "spawn" PROVE ~alive'[process']
  <2>1. CASE ResumeBegin
    <3>1. process' = process + 1 /\ alive' = alive
      BY <2>1 DEF ResumeBegin, TypeInv
    <3> QED BY <1>a, <1>c, <3>1 DEF AliveInv
  <2>2. CASE pc = "spawn" /\ ~ResumeDone
    <3>1. process' = process
      BY <2>2, LifeStep DEF ResumeBegin
    <3> QED BY <1>a, <2>2, <3>1, LifeStep DEF AliveInv
  <2> QED BY <1>2, <2>1, <2>2, Spawning
<1> QED BY <1>1, <1>2 DEF AliveInv

(* Claude Code names in a terminal record what the turn executed, and records an
   input only when the running turn executes it. *)
LEMMA CCTurns ==
  ASSUME TypeInv, CCSteps, cc.echo # None => cc.echo \in cc.turn
  PROVE  /\ cc'.echo # None => cc'.echo \in cc'.turn
         /\ \/ Silent /\ Live \subseteq Live'
            \/ \E k \in Kinds, i \in Inputs \cup {None}, t \in SUBSET Inputs :
                 /\ Journal(k, i, t)
                 /\ IF k \in {"dur", "int", "err", "lim"} THEN t = Live
                                                          ELSE Live \subseteq Live'
                 /\ k \in {"echo", "rem"} => i \in Live'
<1>a. /\ cc \in CCType /\ CCRuns /\ process' = process /\ Live = cc.turn
      /\ process \in Procs /\ alive \in [Procs -> BOOLEAN]
  BY CCJournals DEF CCRuns, CCFrame, Live, TypeInv, TypeOK, TypeClaude, TypeLife
<1>b. UNCHANGED alive => Live' = cc'.turn
  BY <1>a DEF Live, CCRuns
<1>1. CASE CCDie
  <2>1. cc'.echo = None /\ Silent /\ ~alive'[process]
    BY <1>1, <1>a DEF CCDie, Kill, Quiet
  <2>2. Live' = Inputs \cup {None}
    BY <1>a, <2>1 DEF Live
  <2> QED BY <1>a, <2>1, <2>2, CCContents
<1>2. CASE CCStart
  <2>1. cc'.turn = {Head(cc.inbox)} /\ cc'.echo = Head(cc.inbox) /\ cc.turn = {}
        /\ UNCHANGED alive /\ Silent
    BY <1>2, <1>a DEF CCStart, CCType
  <2> QED BY <1>a, <1>b, <2>1
<1>3. CASE CCNotify \/ CCBanner \/ CCLose
  <2>1. cc'.turn = cc.turn /\ cc'.echo = cc.echo /\ UNCHANGED alive /\ Silent
    BY <1>3, <1>a DEF CCNotify, CCBanner, CCLose, CCType
  <2> QED BY <1>a, <1>b, <2>1
<1>4. CASE CCEcho
  <2>1. /\ cc'.turn = cc.turn /\ cc'.echo = None /\ UNCHANGED alive
        /\ Journal("echo", cc.echo, {}) /\ cc.echo # None
    BY <1>4, <1>a DEF CCEcho, CCType
  <2> QED BY <1>a, <1>b, <2>1, CCContents DEF Kinds
<1>5. CASE CCEnqueue
  <2>1. /\ cc'.turn = cc.turn /\ cc'.echo = cc.echo /\ UNCHANGED alive
        /\ Journal("enq", Head(cc.inbox), {}) /\ Head(cc.inbox) \in Inputs
    BY <1>5, <1>a, CCContents DEF CCEnqueue, CCType
  <2> QED BY <1>a, <1>b, <2>1 DEF Kinds
<1>6. CASE CCRemove
  <2>1. /\ cc'.turn = cc.turn \cup {Head(cc.queue)} /\ cc'.echo = cc.echo
        /\ Journal("rem", Head(cc.queue), {}) /\ Head(cc.queue) \in Inputs
        /\ UNCHANGED alive
    BY <1>6, <1>a, CCContents DEF CCRemove, CCType
  <2> QED BY <1>a, <1>b, <2>1 DEF Kinds
<1>7. CASE CCDequeue
  <2>1. /\ cc'.turn = {Head(cc.queue)} /\ cc'.echo = Head(cc.queue) /\ cc.turn = {}
        /\ Journal("deq", Head(cc.queue), {}) /\ Head(cc.queue) \in Inputs
        /\ UNCHANGED alive
    BY <1>7, <1>a, CCContents DEF CCDequeue, CCType
  <2> QED BY <1>a, <1>b, <2>1 DEF Kinds
<1>8. CASE CCEndTurn \/ CCFailTurn \/ CCEscape
  <2>1. cc'.turn = {} /\ cc'.echo = None /\ UNCHANGED alive
    BY <1>8, <1>a DEF CCEndTurn, CCFailTurn, CCEscape, CCType
  <2>2. \/ \E k \in {"dur", "int", "err", "lim"} : Journal(k, None, cc.turn)
        \/ Silent /\ cc.turn = {}
    BY <1>8 DEF CCEndTurn, CCFailTurn, CCEscape, CloseTurn
  <2>3. CASE Silent /\ cc.turn = {}
    BY <1>a, <1>b, <2>1, <2>3
  <2>4. ASSUME NEW k \in {"dur", "int", "err", "lim"}, Journal(k, None, cc.turn)
        PROVE  \E kk \in Kinds, i \in Inputs \cup {None}, t \in SUBSET Inputs :
                 /\ Journal(kk, i, t)
                 /\ IF kk \in {"dur", "int", "err", "lim"} THEN t = Live
                                                           ELSE Live \subseteq Live'
                 /\ kk \in {"echo", "rem"} => i \in Live'
    <3>1. cc.turn \in SUBSET Inputs /\ k \in Kinds /\ None \in Inputs \cup {None}
      BY <1>a DEF CCType, Kinds
    <3> QED BY <1>a, <2>4, <3>1
  <2> QED BY <2>1, <2>2, <2>3, <2>4
<1> QED BY <1>1, <1>2, <1>3, <1>4, <1>5, <1>6, <1>7, <1>8 DEF CCSteps, ClaudeStep

(* The others leave the turn, or the process is dead. *)
LEMMA LiveStep ==
  ASSUME TypeInv, TypeInv', AliveInv, [Next]_vars, ~CCSteps
  PROVE  /\ (cc.echo # None => cc.echo \in cc.turn) =>
              (cc'.echo # None => cc'.echo \in cc'.turn)
         /\ ~ResumeDone => Live \subseteq Live'
<1>a. /\ process \in Procs /\ cc.turn \subseteq Inputs /\ Live \subseteq Inputs \cup {None}
  BY CCContents DEF TypeInv, TypeOK, TypeLife, Live
<1>1. CASE ResumeDone
  BY <1>1 DEF ResumeDone
<1>2. CASE /\ cc'.echo = None
           /\ ResumeBegin \/ (process' = process /\ ~alive'[process])
  <2>1. CASE ResumeBegin
    <3>1. process' = process + 1 /\ alive' = alive
      BY <2>1 DEF ResumeBegin, TypeInv
    <3>2. \A p \in Procs : p \in Nat
      BY BoundsAssumption DEF Procs
    <3>3. process' \in Procs
      BY DEF TypeInv, TypeOK, TypeLife
    <3>4. ~alive'[process']
      BY <1>a, <3>1, <3>2, <3>3 DEF AliveInv
    <3>5. Live' = Inputs \cup {None}
      BY <3>4 DEF Live
    <3> QED BY <1>2, <1>a, <3>5
  <2>2. CASE process' = process /\ ~alive'[process]
    <3>1. Live' = Inputs \cup {None}
      BY <2>2 DEF Live
    <3> QED BY <1>2, <1>a, <3>1
  <2> QED BY <1>2, <2>1, <2>2
<1>3. CASE /\ cc'.echo = cc.echo /\ cc'.turn = cc.turn /\ process' = process
           /\ alive'[process] = alive[process]
  BY <1>3 DEF Live
<1> QED BY <1>1, <1>2, <1>3, LifeStep

LEMMA JournalStep ==
  ASSUME TypeInv, TypeInv', FenceInv, TurnInv, PlaceInv, AliveInv, JournalInv, [Next]_vars
  PROVE  JournalInv'
<1>a. Stream \in Seq(Record) /\ Told(Stream, Live)
  BY StreamTyped DEF JournalInv
<1>1. CASE CCSteps
  <2>1. cc'.echo # None => cc'.echo \in cc'.turn
    BY <1>1, CCTurns DEF JournalInv
  <2>3. ASSUME NEW k \in Kinds, NEW i \in Inputs \cup {None}, NEW t \in SUBSET Inputs,
               Journal(k, i, t),
               IF k \in {"dur", "int", "err", "lim"} THEN t = Live
                                                     ELSE Live \subseteq Live',
               k \in {"echo", "rem"} => i \in Live'
        PROVE  Told(Stream', Live')
    <3> DEFINE r == [k |-> k, i |-> i, id |-> nrec + 1, t |-> t]
    <3>1. Stream' = Append(Stream, r) /\ r \in Record /\ r.k = k /\ r.i = i /\ r.t = t
      BY <1>1, <2>3, CCJournals, StreamWritten DEF Kinds
    <3> HIDE DEF r
    <3>2. Live \subseteq (IF Closing(r) THEN r.t ELSE Live') /\ (Tells(r) => r.i \in Live')
      BY <2>3, <3>1 DEF Closing, Tells
    <3>3. Told(Append(Stream, r), Live')
      BY <1>a, <3>1, <3>2, ToldAppend
    <3> QED BY <3>1, <3>3
  <2>4. Told(Stream', Live')
    <3>1. CASE Silent /\ Live \subseteq Live'
      <4>1. Stream' = Stream
        BY <1>1, <3>1, CCJournals, StreamSilent
      <4>2. Told(Stream, Live')
        BY <1>a, <3>1, ToldLive
      <4> QED BY <4>1, <4>2
    <3> QED BY <1>1, <2>3, <3>1, CCTurns DEF JournalInv
  <2> QED BY <2>1, <2>4 DEF JournalInv
<1>2. CASE ~CCSteps
  <2>1. cc'.echo # None => cc'.echo \in cc'.turn
    BY <1>2, LiveStep DEF JournalInv
  <2>2. CASE ResumeDone
    <3>1. Stream' = <<>>
      BY <2>2, StreamDrained
    <3>2. Told(<<>>, Live')
      BY DEF Told
    <3> QED BY <2>1, <3>1, <3>2 DEF JournalInv
  <2>3. ASSUME NEW s \in Steers, CCForeign(s), ~ResumeDone PROVE Told(Stream', Live')
    <3> DEFINE e == [k |-> "enq", i |-> s, id |-> nrec + 1, t |-> {}]
               m == [k |-> "rem", i |-> s, id |-> nrec + 2, t |-> {}]
    <3>1. /\ Stream' = Append(Append(Stream, e), m) /\ e \in Record /\ m \in Record
          /\ e.k = "enq" /\ m.k = "rem" /\ m.i = s
      BY <2>3, StreamForeign
    <3> HIDE DEF e, m
    <3>2. Live \subseteq Live'
      BY <1>2, <2>3, LiveStep
    <3>3. /\ ~Closing(e) /\ ~Closing(m) /\ ~Tells(e) /\ ~Tells(m)
      BY <3>1, TextsAssumption DEF Closing, Tells
    <3>4. Append(Stream, e) \in Seq(Record)
      BY <1>a, <3>1, AppendProperties
    <3>5. Told(Append(Stream, e), Live')
      BY <1>a, <3>1, <3>2, <3>3, ToldAppend
    <3> DEFINE q == Append(Stream, e)
               M == Live'
    <3>6. q \in Seq(Record) /\ Told(q, M) /\ M \subseteq M
      BY <3>4, <3>5
    <3> HIDE DEF q, M
    <3>7. Told(Append(q, m), M)
      BY <3>1, <3>3, <3>6, ToldAppend
    <3> QED BY <3>1, <3>7 DEF q, M
  <2>4. ASSUME ~ResumeDone, ~\E s \in Steers : CCForeign(s)
        PROVE  Told(Stream', Live')
    <3>1. Told(Stream, Live')
      BY <1>2, <1>a, <2>4, LiveStep, ToldLive
    <3>2. CASE Stream' = <<>>
      <4>1. Told(<<>>, Live')
        BY DEF Told
      <4> QED BY <3>2, <4>1
    <3>3. CASE Stream # <<>> /\ Stream' = Tail(Stream)
      <4>1. Told(Tail(Stream), Live')
        BY <1>a, <3>1, <3>3, ToldTail
      <4> QED BY <3>3, <4>1
    <3>4. CASE Stream = prefetched \o unread /\ Stream' = unread
      <4>1. Told(unread, Live')
        BY <3>1, <3>4, StreamTyped, ToldSuffix
      <4> QED BY <3>4, <4>1
    <3>5. CASE Stream' = Stream
      BY <3>1, <3>5
    <3> QED BY <1>2, <2>4, <3>2, <3>3, <3>4, <3>5, StreamShrinks
  <2>5. CASE ~ResumeDone
    <3>1. Told(Stream', Live')
      BY <2>3, <2>4, <2>5
    <3> QED BY <2>1, <3>1 DEF JournalInv
  <2> QED BY <2>2, <2>5
<1> QED BY <1>1, <1>2
--------------------------------------------------------------------------------
(* The locals of send_prompt: what it has seen of its own turn (FreshInv), and why a
   steer is not admitted while another is followed (FollowInv). *)
Before  == pc \in {"idle", "own", "check", "spawn", "backlog", "deliver"}
InBatch == pc \in {"scan", "emit", "decide"}
FreshInv ==
    /\ Before => ~fg.started /\ fg.followup = None /\ ~fg.deferred
    /\ active # NoProc \/ unsettled # NoProc \/ fg.followup # None => fg.started
    /\ InBatch /\ fg.started => scan.started
Reaping(s, p) == spc[s] = "reap" /\ receipt[s].proc = p
BeingKilled(p) == p # NoProc /\ (~alive[p] \/ \E s \in Steers : Reaping(s, p))
FollowInv ==
    /\ pending # None /\ fg.followup # None =>
         pc \in {"emit", "decide", "detach"} /\ (pc # "detach" => Failed)
    /\ fg.followup # None => unsettled # NoProc \/ owner = None \/ BeingKilled(fg.proc)

(* What a case of the scan does to them. *)
LEMMA NextFields ==
  ASSUME TypeSend
  PROVE  NextRecord \in [batch : {Tail(Batch)}, started : {scan.started},
                         done : {scan.done}, err : {scan.err}, lim : {scan.lim},
                         enq : {scan.enq}, unc : {scan.unc}]
BY DEF TypeSend, ScanType, NextRecord, Batch

Follows ==
    /\ Routes /\ fg'.followup = pending /\ ~fg'.followStarted
    /\ pending' = None /\ unsettled' = unsettled

LEMMA ScanFields ==
  ASSUME TypeInv, ScanCase
  PROVE  /\ pc = "scan" /\ pc' = "scan" /\ UNCHANGED <<sending, spc, process, alive, cc>>
         /\ scan'.started <=> scan.started \/ (Rec.k \in {"echo", "rem"} /\ Rec.i = sending)
         /\ scan'.done => scan.done \/ (ScanTerminal /\ ~Defers)
         /\ scan'.unc # scan.unc => ScanTerminal
         /\ scan.err => scan'.err
         /\ scan.lim => scan'.lim
         /\ fg'.proc = fg.proc /\ fg'.started = fg.started
         /\ fg'.deferred => fg.deferred \/ ScanTerminal
         /\ \/ Follows
            \/ /\ fg'.followup = fg.followup
               /\ \/ fg'.followStarted = fg.followStarted
                  \/ Rec.k = "echo" /\ fg.followup # None /\ Rec.i = fg.followup
         /\ pending' \in {pending, None} /\ active' \in {active, NoProc, fg.proc}
         /\ active' # NoProc => active # NoProc \/ fg.followup # None
         /\ \/ unsettled' = unsettled
            \/ unsettled' = NoProc /\ (pending # None \/ (ScanTerminal /\ ~Defers))
         /\ owner' \in {owner, None}
         /\ ScanTerminal /\ ~Defers => owner' = None
         /\ bound \subseteq bound'
         /\ Closing(Rec) /\ scan.started => bound' = bound \cup Rec.t
         /\ ScanTerminal => Closing(Rec) /\ scan.started
         /\ \A s \in Steers : receipt'[s].proc = receipt[s].proc
<1>a. TypeSend /\ TypeSteer /\ fg \in FgType
  BY DEF TypeInv, TypeOK, TypeSend
<1>b. UNCHANGED <<pc, sending, spc, process, alive, cc>>
  BY DEF ScanCase, ScanEcho, ScanEnqueue, ScanRoute, ScanTerminal, ScanForeignTerminal,
     ScanFailure, ScanFrame, claude, life
<1>1. CASE ScanEcho
  <2>1. Rec.k = "echo" /\ pc = "scan" /\ ~ScanTerminal
    BY <1>1, <1>a, RecTyped DEF ScanEcho, ScanTerminal, Scanning
  <2>2. scan' = [NextRecord EXCEPT !.started = scan.started \/ Starts]
    BY <1>1, <1>a, NextFields DEF ScanEcho
  <2>3. /\ scan'.started = (scan.started \/ Starts) /\ scan'.done = scan.done
        /\ scan'.unc = scan.unc /\ scan'.err = scan.err /\ scan'.lim = scan.lim
    BY <1>a, <2>2, NextFields
  <2>4. /\ UNCHANGED <<owner, pending, unsettled, receipt, bound>>
        /\ active' \in {active, fg.proc}
        /\ active' # active => fg.followup # None
        /\ \/ UNCHANGED fg
           \/ /\ fg' = [fg EXCEPT !.followStarted = TRUE, !.deferred = FALSE]
              /\ fg.followup # None /\ Rec.i = fg.followup
    BY <1>1 DEF ScanEcho
  <2>5. /\ fg'.proc = fg.proc /\ fg'.started = fg.started /\ fg'.followup = fg.followup
        /\ fg'.deferred => fg.deferred
        /\ \/ fg'.followStarted = fg.followStarted
           \/ fg.followup # None /\ Rec.i = fg.followup
    BY <1>a, <2>4 DEF FgType
  <2> QED BY <1>b, <2>1, <2>3, <2>4, <2>5 DEF Starts, Closing
<1>2. CASE ScanEnqueue
  <2>1. Rec.k = "enq" /\ pc = "scan" /\ ~ScanTerminal
    BY <1>2, <1>a, RecTyped DEF ScanEnqueue, ScanTerminal, Scanning
  <2>2. scan' = [NextRecord EXCEPT !.enq = IF Acknowledges THEN pending ELSE scan.enq]
    BY <1>2, <1>a, NextFields DEF ScanEnqueue
  <2>3. /\ scan'.started = scan.started /\ scan'.done = scan.done
        /\ scan'.unc = scan.unc /\ scan'.err = scan.err /\ scan'.lim = scan.lim
    BY <1>a, <2>2, NextFields
  <2>4. /\ UNCHANGED <<owner, active, pending, unsettled, bound>>
        /\ \E b : fg' = [fg EXCEPT !.confirm = b]
    BY <1>2 DEF ScanEnqueue, turnSt
  <2>5. /\ fg'.proc = fg.proc /\ fg'.started = fg.started /\ fg'.followup = fg.followup
        /\ fg'.deferred = fg.deferred /\ fg'.followStarted = fg.followStarted
    BY <1>a, <2>4 DEF FgType
  <2>6. \A s \in Steers : receipt'[s].proc = receipt[s].proc
    BY <1>2, <1>a DEF ScanEnqueue, TypeSteer, ReceiptType
  <2> QED BY <1>b, <2>1, <2>3, <2>4, <2>5, <2>6 DEF Closing
<1>3. CASE ScanRoute
  <2>1. Rec.k \in {"rem", "deq"} /\ pc = "scan" /\ ~ScanTerminal
    BY <1>3, <1>a, RecTyped DEF ScanRoute, ScanTerminal, Scanning
  <2>2. scan' = [NextRecord EXCEPT !.started = scan.started \/ Starts]
    BY <1>3, <1>a, NextFields DEF ScanRoute
  <2>3. /\ scan'.started = (scan.started \/ Starts) /\ scan'.done = scan.done
        /\ scan'.unc = scan.unc /\ scan'.err = scan.err /\ scan'.lim = scan.lim
    BY <1>a, <2>2, NextFields
  <2>4. /\ UNCHANGED <<owner, receipt, bound>> /\ pending' \in {pending, None}
        /\ active' \in {active, NoProc}
        /\ \/ UNCHANGED <<fg, unsettled>>
           \/ UNCHANGED fg /\ unsettled' = NoProc /\ pending # None
           \/ /\ fg' = [fg EXCEPT !.followup = pending, !.followStarted = FALSE]
              /\ Routes /\ pending' = None /\ unsettled' = unsettled
    BY <1>3 DEF ScanRoute, Routes
  <2>5. /\ fg'.proc = fg.proc /\ fg'.started = fg.started /\ fg'.deferred = fg.deferred
        /\ \/ Follows
           \/ fg'.followup = fg.followup /\ fg'.followStarted = fg.followStarted
    BY <1>a, <2>4 DEF FgType, Follows
  <2>6. scan'.started <=> scan.started \/ (Rec.k \in {"echo", "rem"} /\ Rec.i = sending)
    BY <2>3 DEF Starts
  <2> QED BY <1>b, <2>1, <2>3, <2>4, <2>5, <2>6 DEF Closing
<1>4. CASE ScanTerminal
  <2>1. Rec.k \in {"dur", "int"} /\ pc = "scan" /\ scan.started
    BY <1>4, <1>a, RecTyped DEF ScanTerminal, Scanning, Terminal
  <2>2. /\ UNCHANGED <<pending, receipt>> /\ active' = NoProc
        /\ bound' = bound \cup Rec.t
    BY <1>4 DEF ScanTerminal
  <2>3. CASE Defers
    <3>1. /\ fg' = [fg EXCEPT !.deferred = TRUE] /\ UNCHANGED <<owner, unsettled>>
          /\ \E u : scan' = [NextRecord EXCEPT !.unc = u]
      BY <1>4, <2>3 DEF ScanTerminal
    <3>2. /\ scan'.started = scan.started /\ scan'.done = scan.done
          /\ scan'.err = scan.err /\ scan'.lim = scan.lim
      BY <1>a, <3>1, NextFields
    <3>3. /\ fg'.proc = fg.proc /\ fg'.started = fg.started /\ fg'.followup = fg.followup
          /\ fg'.followStarted = fg.followStarted
      BY <1>a, <3>1 DEF FgType
    <3> QED BY <1>4, <1>b, <2>1, <2>2, <2>3, <3>1, <3>2, <3>3 DEF Closing
  <2>4. CASE ~Defers
    <3>1. /\ scan' = [NextRecord EXCEPT !.done = TRUE] /\ UNCHANGED fg /\ owner' = None
          /\ unsettled' \in {unsettled, NoProc}
      BY <1>4, <2>4 DEF ScanTerminal
    <3>2. /\ scan'.started = scan.started /\ scan'.unc = scan.unc
          /\ scan'.err = scan.err /\ scan'.lim = scan.lim
      BY <1>a, <3>1, NextFields
    <3> QED BY <1>4, <1>b, <2>1, <2>2, <2>4, <3>1, <3>2 DEF Closing
  <2> QED BY <2>3, <2>4
<1>5. CASE ScanForeignTerminal
  <2>1. Rec.k \in {"dur", "int"} /\ pc = "scan" /\ ~ScanTerminal
    BY <1>5, <1>a, RecTyped DEF ScanForeignTerminal, Scanning, ScanTerminal
  <2>2. scan' = NextRecord
    BY <1>5 DEF ScanForeignTerminal
  <2>3. /\ scan'.started = scan.started /\ scan'.done = scan.done
        /\ scan'.unc = scan.unc /\ scan'.err = scan.err /\ scan'.lim = scan.lim
    BY <1>a, <2>2, NextFields
  <2>4. /\ UNCHANGED <<owner, active, pending, unsettled, fg, receipt>>
        /\ bound' = IF scan.started THEN bound \cup Rec.t ELSE bound
    BY <1>5 DEF ScanForeignTerminal, turnSt
  <2> QED BY <1>b, <2>1, <2>3, <2>4 DEF Closing
<1>6. CASE ScanFailure
  <2>1. Rec.k \in {"err", "lim"} /\ pc = "scan" /\ ~ScanTerminal
    BY <1>6, <1>a, RecTyped DEF ScanFailure, Scanning, ScanTerminal
  <2>2. scan' = [NextRecord EXCEPT !.err = scan.err \/ Rec.k = "err",
                                   !.lim = scan.lim \/ Rec.k = "lim"]
    BY <1>6, <1>a, NextFields DEF ScanFailure
  <2>3. /\ scan'.started = scan.started /\ scan'.done = scan.done
        /\ scan'.unc = scan.unc /\ scan'.err = (scan.err \/ Rec.k = "err")
        /\ scan'.lim = (scan.lim \/ Rec.k = "lim")
    BY <1>a, <2>2, NextFields
  <2>4. /\ UNCHANGED <<owner, active, pending, unsettled, fg, receipt>>
        /\ bound' = bound \cup Rec.t
    BY <1>6 DEF ScanFailure, turnSt
  <2> QED BY <1>b, <2>1, <2>3, <2>4 DEF Closing
<1> QED BY <1>1, <1>2, <1>3, <1>4, <1>5, <1>6 DEF ScanCase

(* What the other steps do to them: at the end of a batch, *)
SameTurn ==
    /\ fg'.proc = fg.proc /\ fg'.started = fg.started /\ fg'.followup = fg.followup
    /\ fg'.followStarted = fg.followStarted /\ fg'.deferred = fg.deferred

LEMMA EndFields ==
  ASSUME TypeInv, ScanEnd
  PROVE  /\ pc = "scan" /\ pc' = "emit" /\ UNCHANGED <<sending, spc, receipt, bound>>
         /\ scan'.started = scan.started /\ scan'.err = scan.err /\ scan'.lim = scan.lim
         /\ scan'.unc = None
         /\ scan'.done => scan.done \/ Releases
         /\ fg'.proc = fg.proc /\ fg'.started = fg.started /\ fg'.followup = fg.followup
         /\ fg'.followStarted = fg.followStarted /\ (fg'.deferred => fg.deferred)
         /\ Failed \/ pending' \in {pending, None}
         /\ active' \in {active, NoProc}
         /\ \/ UNCHANGED <<unsettled, owner>>
            \/ owner' = None /\ unsettled' \in {unsettled, NoProc}
<1>a. scan \in ScanType /\ fg \in FgType
  BY DEF TypeInv, TypeOK, TypeSend
<1>b. pc = "scan" /\ pc' = "emit" /\ UNCHANGED <<sending, spc, receipt, bound>>
  BY DEF ScanEnd, reader, ghosts
<1>1. CASE Releases
  <2>1. /\ pending' = None /\ active' = NoProc /\ owner' = None
        /\ unsettled' \in {unsettled, NoProc}
        /\ fg' = [fg EXCEPT !.deferred = FALSE]
        /\ scan' = [scan EXCEPT !.done = TRUE, !.unc = None, !.enq = None]
    BY <1>1 DEF ScanEnd, Releases
  <2>2. /\ scan'.started = scan.started /\ scan'.err = scan.err /\ scan'.lim = scan.lim
        /\ scan'.unc = None
    BY <1>a, <2>1 DEF ScanType
  <2>3. /\ fg'.proc = fg.proc /\ fg'.started = fg.started /\ fg'.followup = fg.followup
        /\ fg'.followStarted = fg.followStarted /\ ~fg'.deferred
    BY <1>a, <2>1 DEF FgType
  <2> QED BY <1>1, <1>b, <2>1, <2>2, <2>3
<1>2. CASE ~Releases
  <2>1. /\ UNCHANGED <<owner, unsettled, fg>> /\ active' \in {active, NoProc}
        /\ scan' = [scan EXCEPT !.unc = None, !.enq = None]
        /\ Failed \/ pending' = pending
    BY <1>2 DEF ScanEnd
  <2>2. /\ scan'.started = scan.started /\ scan'.err = scan.err /\ scan'.lim = scan.lim
        /\ scan'.unc = None /\ scan'.done = scan.done
    BY <1>a, <2>1 DEF ScanType
  <2> QED BY <1>b, <2>1, <2>2
<1> QED BY <1>1, <1>2

(* before the prompt is delivered, *)
LEMMA BeforeFields ==
  ASSUME TypeInv, TurnInv, FreshInv, Send \/ Enter
  PROVE  /\ Before
         /\ pc' \in {"idle", "own", "check", "spawn", "backlog", "deliver", "loop", "detach"}
         /\ ~fg'.started /\ fg'.followup = None /\ ~fg'.deferred
         /\ UNCHANGED <<scan, spc, receipt>>
         /\ active' = NoProc /\ unsettled' = NoProc
<1>a. fg \in FgType
  BY DEF TypeInv, TypeOK, TypeSend
<1>b. UNCHANGED <<scan, spc, receipt, unsettled>> /\ active' \in {active, NoProc}
  BY DEF Send, Own, CheckAlive, CheckRefused, ResumeBegin, ResumeDone,
     ResumeFailed, Backlog, DeliverChannel, DeliverStdin, DeliverFailed, Exit, Enter,
     CancelOwn, Acquire,
     locals, lockSt, turnSt, hostSide, steerSt
<1>c. /\ pc \in {"idle", "own", "check", "spawn", "backlog", "deliver"}
      /\ pc' \in {"idle", "own", "check", "spawn", "backlog", "deliver", "loop", "detach"}
      /\ pc' # pc
  BY DEF Send, Own, CheckAlive, CheckRefused, ResumeBegin, ResumeDone,
     ResumeFailed, Backlog, DeliverChannel, DeliverStdin, DeliverFailed, Exit, Finish, Enter,
     CancelOwn, Acquire
<1>d. active = NoProc /\ unsettled = NoProc
  BY <1>c DEF TurnInv, ActiveInv, UnsettledInv, InRounds
<1>1. \/ UNCHANGED fg
      \/ fg' = [FgInit EXCEPT !.proc = process]
      \/ fg' = [fg EXCEPT !.confirm = TRUE]
  BY DEF Send, Own, CheckAlive, CheckRefused, ResumeBegin, ResumeDone,
     ResumeFailed, Backlog, DeliverChannel, DeliverStdin, DeliverFailed, Exit, Enter,
     CancelOwn, Acquire, locals
<1>2. ~fg.started /\ fg.followup = None /\ ~fg.deferred
  BY <1>c DEF FreshInv, Before
<1>3. ~fg'.started /\ fg'.followup = None /\ ~fg'.deferred
  BY <1>a, <1>1, <1>2 DEF FgType, FgInit
<1> QED BY <1>b, <1>c, <1>d, <1>3 DEF Before

(* between the batches and on the way out, *)
LEMMA LaterFields ==
  ASSUME TypeInv,
         \/ LoopCrash \/ LoopPoll \/ LoopTimeout \/ HostCancel \/ Decide \/ DecideResend
         \/ FinallyDetach
  PROVE  /\ SameTurn /\ UNCHANGED <<sending, bound, spc, receipt>>
         /\ \/ pc' = "detach"
            \/ pc = "decide" /\ pc' = "decide" /\ UNCHANGED scan
            \/ pc = "decide" /\ pc' = "loop" /\ ~Failed
            \/ pc = "loop" /\ pc' = "poll" /\ UNCHANGED scan
            \/ pc = "detach" /\ pc' = "reap"
         /\ pc' = "detach" => pc # "scan"
         /\ scan' = scan \/ scan' = ScanInit
         /\ pending' \in {pending, None} /\ active' \in {active, NoProc}
         /\ \/ UNCHANGED <<unsettled, owner>>
            \/ owner' = None /\ unsettled' \in {unsettled, NoProc}
<1>a. fg \in FgType
  BY DEF TypeInv, TypeOK, TypeSend
<1>1. UNCHANGED fg \/ fg' = [fg EXCEPT !.confirm = FALSE]
  BY DEF LoopCrash, LoopPoll, LoopTimeout, HostCancel, Decide, DecideResend, DecideComplete,
     DecideApiError, DecideLimit, DecideBanner, DecideAgain, FinallyDetach, Exit, locals
<1>2. SameTurn
  BY <1>a, <1>1 DEF SameTurn, FgType
<1>3. UNCHANGED <<sending, bound, spc, receipt>>
  BY DEF LoopCrash, LoopPoll, LoopTimeout, HostCancel, Decide, DecideResend, DecideComplete,
     DecideApiError, DecideLimit, DecideBanner, DecideAgain, DecideFrame, FinallyDetach,
     Exit, reader, ghosts, hostSide, steerSt
<1>4. /\ \/ pc' = "detach"
         \/ pc = "decide" /\ pc' = "decide" /\ UNCHANGED scan
         \/ pc = "decide" /\ pc' = "loop" /\ ~Failed
         \/ pc = "loop" /\ pc' = "poll" /\ UNCHANGED scan
         \/ pc = "detach" /\ pc' = "reap"
      /\ pc' = "detach" => pc # "scan"
      /\ scan' = scan \/ scan' = ScanInit
  BY DEF LoopCrash, LoopPoll, LoopTimeout, HostCancel, Decide, DecideResend, DecideComplete,
     DecideApiError, DecideLimit, DecideBanner, DecideAgain, Unfinished, Goes,
     FinallyDetach, Exit, Finish, locals
<1>5. /\ pending' \in {pending, None} /\ active' \in {active, NoProc}
      /\ \/ UNCHANGED <<unsettled, owner>>
         \/ owner' = None /\ unsettled' \in {unsettled, NoProc}
  BY DEF LoopCrash, LoopPoll, LoopTimeout, HostCancel, Decide, DecideResend, DecideComplete,
     DecideApiError, DecideLimit, DecideBanner, DecideAgain, DecideFrame, FinallyDetach,
     Detach, Exit, lockSt, turnSt
<1> QED BY <1>2, <1>3, <1>4, <1>5

(* and beside the consumer. *)
SideSteps ==
    \/ OtherSteps \/ InterruptDetach \/ StopLock \/ UNCHANGED vars
    \/ \E s \in Steers : Steer(s) \/ SteerCall(s) \/ SteerWriteFailed(s) \/ SteerDeadline(s)

LEMMA SideFields ==
  ASSUME TypeInv, SideSteps
  PROVE  /\ UNCHANGED <<pc, fg, scan, sending, bound, outcome>>
         /\ \/ \E s \in Steers : SteerAdmit(s)
            \/ /\ pending' \in {pending, None} /\ active' \in {active, NoProc}
               /\ owner' \in {owner, None}
               /\ \/ unsettled' = unsettled
                  \/ unsettled' = NoProc /\ owner' = None
                  \/ \E s \in Steers : SteerFailClosed(s) /\ unsettled = receipt[s].proc
<1>1. CASE OtherSteps \/ UNCHANGED vars
  BY <1>1, OthersKeep DEF vars, turnSt, locals, ghosts
<1>2. CASE InterruptDetach \/ StopLock
  BY <1>2 DEF InterruptDetach, StopLock, Detach, HostFrame, locals
<1>3. ASSUME NEW s \in Steers,
             Steer(s) \/ SteerCall(s) \/ SteerWriteFailed(s) \/ SteerDeadline(s)
      PROVE  /\ UNCHANGED <<pc, fg, scan, sending, bound, outcome>>
             /\ \/ \E t \in Steers : SteerAdmit(t)
                \/ /\ pending' \in {pending, None} /\ active' \in {active, NoProc}
                   /\ owner' \in {owner, None}
                   /\ \/ unsettled' = unsettled
                      \/ \E t \in Steers : SteerFailClosed(t) /\ unsettled = receipt[t].proc
  <2>1. UNCHANGED <<pc, fg, scan, sending, bound, outcome>>
    BY <1>3 DEF Steer, SteerCall, SteerWriteFailed, SteerDeadline, SteerRefused,
       SteerTooLate, SteerAdmit, SteerWritten, SteerFailClosed, SteerReap,
       SteerAcknowledged, SteerFrame, locals, ghosts
  <2>2. CASE SteerFailClosed(s)
    BY <2>1, <2>2 DEF SteerFailClosed
  <2>3. CASE ~SteerFailClosed(s) /\ ~SteerAdmit(s)
    BY <1>3, <2>1, <2>3 DEF Steer, SteerCall, SteerWriteFailed, SteerDeadline, SteerRefused,
       SteerTooLate, SteerWritten, SteerReap, SteerAcknowledged, lockSt, turnSt
  <2> QED BY <2>1, <2>2, <2>3
<1> QED BY <1>1, <1>2, <1>3 DEF SideSteps

LEMMA AllSteps ==
  ASSUME [Next]_vars
  PROVE  \/ SideSteps \/ ScanCase \/ ScanEnd \/ Read \/ Emit \/ FinallyReap
         \/ Send \/ Enter
         \/ LoopCrash \/ LoopPoll \/ LoopTimeout \/ HostCancel \/ Decide \/ DecideResend
         \/ FinallyDetach
BY DEF Next, Consume, Round, Scan, ScanCase, Finally, Chance, Host, OtherSteps, SideSteps

LEMMA FreshInit == Init => FreshInv
BY BoundsAssumption DEF Init, FreshInv, Before, InBatch, FgInit

LEMMA FreshStep ==
  ASSUME TypeInv, TurnInv, TurnInv', FreshInv, [Next]_vars
  PROVE  FreshInv'
<1>a. fg \in FgType /\ scan \in ScanType
  BY DEF TypeInv, TypeOK, TypeSend
<1>1. CASE SideSteps
  <2>1. UNCHANGED <<pc, fg, scan>>
    BY <1>1, SideFields
  <2>2. active' # NoProc \/ unsettled' # NoProc => active # NoProc \/ unsettled # NoProc
    <3>1. ASSUME NEW s \in Steers, SteerAdmit(s) PROVE active # NoProc
      BY <3>1 DEF SteerAdmit, Admissible
    <3>2. ASSUME NEW s \in Steers, SteerFailClosed(s), unsettled' # NoProc
          PROVE  unsettled # NoProc
      BY <3>2 DEF SteerFailClosed
    <3> QED BY <1>1, <3>1, <3>2, SideFields
  <2> QED BY <2>1, <2>2 DEF FreshInv, Before, InBatch
<1>2. CASE ScanCase
  <2>1. pending # None => unsettled # NoProc
    BY DEF TurnInv, PendingInv
  <2>2. Follows => pending # None
    BY DEF Follows, Routes
  <2>3. /\ pc = "scan" /\ pc' = "scan" /\ fg'.started = fg.started
        /\ scan'.started <=> scan.started \/ (Rec.k \in {"echo", "rem"} /\ Rec.i = sending)
        /\ Follows \/ fg'.followup = fg.followup
        /\ active' # NoProc => active # NoProc \/ fg.followup # None
        /\ unsettled' \in {unsettled, NoProc}
    BY <1>2, ScanFields
  <2> QED BY <2>1, <2>2, <2>3 DEF FreshInv, Before, InBatch
<1>3. CASE ScanEnd
  <2>1. /\ pc = "scan" /\ pc' = "emit" /\ scan'.started = scan.started
        /\ fg'.started = fg.started /\ fg'.followup = fg.followup
        /\ active' \in {active, NoProc} /\ unsettled' \in {unsettled, NoProc}
    BY <1>3, EndFields
  <2> QED BY <2>1 DEF FreshInv, Before, InBatch
<1>4. CASE Read
  <2>1. /\ pc = "poll" /\ pc' = "scan" /\ UNCHANGED <<active, unsettled>>
        /\ fg' = [fg EXCEPT !.hadMsgs = fg.hadMsgs \/ prefetched \o unread # <<>>]
        /\ scan' = [ScanInit EXCEPT !.batch = prefetched \o unread, !.started = fg.started]
    BY <1>4, <1>a DEF Read, turnSt, FgType
  <2>2. fg'.started = fg.started /\ fg'.followup = fg.followup
    BY <1>a, <2>1 DEF FgType
  <2>3. scan'.started = fg.started
    <3> DEFINE b == prefetched \o unread
    <3>1. scan' = [ScanInit EXCEPT !.batch = b, !.started = fg.started]
      BY <2>1
    <3> HIDE DEF b
    <3> QED BY <3>1 DEF ScanInit
  <2> QED BY <2>1, <2>2, <2>3 DEF FreshInv, Before, InBatch
<1>5. CASE Emit
  <2>1. /\ pc = "emit" /\ pc' = "decide" /\ UNCHANGED <<unsettled, scan>>
        /\ active' = active \/ Activates
        /\ fg' = [fg EXCEPT !.started = scan.started, !.confirm = fg.confirm /\ ~scan.started]
    BY <1>5, <1>a DEF Emit, FgType
  <2>2. fg'.started = scan.started /\ fg'.followup = fg.followup
    BY <1>a, <2>1 DEF FgType
  <2>3. Activates => scan.started
    BY DEF Activates
  <2> QED BY <2>1, <2>2, <2>3 DEF FreshInv, Before, InBatch
<1>6. CASE FinallyReap
  <2>1. pc' = "idle" /\ fg' = FgInit
    BY <1>6 DEF FinallyReap
  <2>2. active' = NoProc /\ unsettled' = NoProc
    BY <2>1 DEF TurnInv, ActiveInv, UnsettledInv, InRounds
  <2> QED BY <2>1, <2>2 DEF FreshInv, Before, InBatch, FgInit
<1>7. CASE Send \/ Enter
  <2>1. /\ pc' \in {"idle", "own", "check", "spawn", "backlog", "deliver", "loop", "detach"}
        /\ ~fg'.started /\ fg'.followup = None /\ ~fg'.deferred
        /\ active' = NoProc /\ unsettled' = NoProc
    BY <1>7, BeforeFields
  <2> QED BY <2>1 DEF FreshInv, Before, InBatch
<1>8. CASE LoopCrash \/ LoopPoll \/ LoopTimeout \/ HostCancel \/ Decide \/ DecideResend
           \/ FinallyDetach
  <2>1. /\ fg'.started = fg.started /\ fg'.followup = fg.followup
        /\ \/ pc' \in {"detach", "loop", "poll", "reap"}
           \/ pc = "decide" /\ pc' = "decide" /\ UNCHANGED scan
        /\ active' \in {active, NoProc} /\ unsettled' \in {unsettled, NoProc}
    BY <1>8, LaterFields DEF SameTurn
  <2> QED BY <2>1 DEF FreshInv, Before, InBatch
<1> QED BY <1>1, <1>2, <1>3, <1>4, <1>5, <1>6, <1>7, <1>8, AllSteps

(* A process that is being killed is not revived for the turn that it ran. *)
LEMMA KilledStays ==
  ASSUME TypeInv, [Next]_vars, ~ResumeDone, NEW p \in ProcOrNone, BeingKilled(p)
  PROVE  BeingKilled(p)'
<1>a. p \in Procs /\ p # NoProc /\ TypeSteer
  BY BoundsAssumption DEF BeingKilled, ProcOrNone, Procs, NoProc, TypeInv, TypeOK
<1>1. CASE ~alive[p]
  <2>1. ~alive'[p]
    BY <1>a, <1>1, LifeStep
  <2> QED BY <1>a, <2>1 DEF BeingKilled
<1>2. ASSUME NEW s \in Steers, Reaping(s, p), SteerReap(s) PROVE BeingKilled(p)'
  <2>1. Kill(p)
    BY <1>2 DEF Reaping, SteerReap
  <2>2. ~alive'[p]
    BY <1>a, <2>1 DEF Kill, TypeInv, TypeOK, TypeLife
  <2> QED BY <1>a, <2>2 DEF BeingKilled
<1>3. ASSUME NEW s \in Steers, Reaping(s, p), ~SteerReap(s)
      PROVE  spc'[s] = "reap" /\ receipt'[s].proc = p
  <2>1. CASE UNCHANGED <<spc, receipt>>
    BY <1>3, <2>1 DEF Reaping
  <2>2. ASSUME NEW t \in Steers,
               Steer(t) \/ SteerCall(t) \/ SteerWriteFailed(t) \/ SteerDeadline(t)
        PROVE  spc'[s] = "reap" /\ receipt'[s].proc = p
    <3>1. \/ t # s
          \/ spc[s] # "reap"
      BY <1>3, <2>2, <1>a DEF Steer, SteerCall, SteerWriteFailed, SteerDeadline,
         SteerRefused, SteerTooLate, SteerAdmit, SteerMayEnter, SteerWritten,
         SteerFailClosed, SteerReap, SteerAcknowledged
    <3>2. t # s
      BY <1>3, <3>1 DEF Reaping
    <3>3. /\ \E v : spc' = [spc EXCEPT ![t] = v]
          /\ receipt' = receipt \/ \E v : receipt' = [receipt EXCEPT ![t] = v]
      BY <1>a, <2>2 DEF Steer, SteerCall, SteerWriteFailed, SteerDeadline,
         SteerRefused, SteerTooLate, SteerAdmit, SteerWritten,
         SteerFailClosed, SteerReap, SteerAcknowledged, Return, TypeSteer
    <3>4. spc'[s] = spc[s] /\ receipt'[s] = receipt[s]
      BY <1>a, <3>2, <3>3 DEF TypeSteer
    <3> QED BY <1>3, <3>4 DEF Reaping
  <2>3. CASE OtherSteps \/ InterruptDetach \/ StopLock \/ UNCHANGED vars
    <3>1. UNCHANGED <<spc, receipt>>
      BY <2>3, OthersKeep DEF InterruptDetach, StopLock, HostFrame, vars, steerSt
    <3> QED BY <2>1, <3>1
  <2>4. CASE ScanCase
    <3>1. UNCHANGED spc /\ receipt'[s].proc = receipt[s].proc
      BY <2>4, ScanFields
    <3> QED BY <1>3, <3>1 DEF Reaping
  <2>5. CASE ScanEnd
    BY <2>1, <2>5, EndFields
  <2>6. CASE Read \/ Emit \/ FinallyReap
    BY <2>1, <2>6 DEF Read, Emit, FinallyReap, hostSide, steerSt
  <2>7. CASE Send \/ Enter
    <3>1. UNCHANGED <<spc, receipt>>
      BY <2>7 DEF Send, Own, CheckAlive, CheckRefused, ResumeBegin, ResumeDone,
         ResumeFailed, Backlog, DeliverChannel, DeliverStdin, DeliverFailed, Exit, Enter,
         CancelOwn, Acquire,
         hostSide, steerSt
    <3> QED BY <2>1, <3>1
  <2>8. CASE LoopCrash \/ LoopPoll \/ LoopTimeout \/ HostCancel \/ Decide \/ DecideResend
             \/ FinallyDetach
    BY <2>1, <2>8, LaterFields
  <2> QED BY <2>2, <2>3, <2>4, <2>5, <2>6, <2>7, <2>8, AllSteps DEF SideSteps
<1> QED BY <1>a, <1>1, <1>2, <1>3 DEF BeingKilled, Reaping

LEMMA FollowInit == Init => FollowInv
BY DEF Init, FollowInv, FgInit

(* While a steer is followed, no other one is admitted. *)
LEMMA AdmitsAlone ==
  ASSUME TypeInv, TurnInv, FollowInv, NEW s \in Steers, SteerAdmit(s)
  PROVE  fg.followup = None
<1>1. /\ active # NoProc /\ owner # None /\ unsettled = NoProc /\ alive[active]
      /\ \A t \in Steers : spc[t] # "reap"
  BY DEF SteerAdmit, SteerMayEnter, Admissible, AdmissionFree, Busy
<1>2. active = fg.proc
  BY <1>1 DEF TurnInv, ActiveInv
<1>3. ~BeingKilled(fg.proc)
  BY <1>1, <1>2 DEF BeingKilled, Reaping
<1> QED BY <1>1, <1>3 DEF FollowInv

LEMMA FollowStep ==
  ASSUME TypeInv, TurnInv, TurnInv', FreshInv, FollowInv, [Next]_vars
  PROVE  FollowInv'
<1> DEFINE F == BeingKilled(fg.proc)
<1>a. fg \in FgType /\ scan \in ScanType /\ fg.proc \in ProcOrNone
  BY DEF TypeInv, TypeOK, TypeSend, FgType
<1>b. pending # None => unsettled # NoProc
  BY DEF TurnInv, PendingInv
<1>c. pending' # None => unsettled' # NoProc
  BY DEF TurnInv, PendingInv
<1>d. ASSUME ~ResumeDone, BeingKilled(fg.proc), fg'.proc = fg.proc
      PROVE  BeingKilled(fg.proc)'
  <2>1. PICK p \in ProcOrNone : p = fg.proc
    BY <1>a
  <2>2. BeingKilled(p)
    BY <1>d, <2>1
  <2>3. BeingKilled(p)'
    BY <1>d, <2>2, KilledStays
  <2>4. fg'.proc = p
    BY <1>d, <2>1
  <2> QED BY <2>3, <2>4 DEF BeingKilled, Reaping
<1>1. CASE SideSteps
  <2>1. UNCHANGED <<pc, fg, scan>>
    BY <1>1, SideFields
  <2>2. CASE \E s \in Steers : SteerAdmit(s)
    <3>1. fg'.followup = None
      BY <2>1, <2>2, AdmitsAlone
    <3> QED BY <3>1 DEF FollowInv
  <2>3. CASE ~\E s \in Steers : SteerAdmit(s)
    <3>1. /\ pending' \in {pending, None} /\ owner' \in {owner, None}
          /\ \/ unsettled' = unsettled
             \/ unsettled' = NoProc /\ owner' = None
             \/ \E s \in Steers : SteerFailClosed(s) /\ unsettled = receipt[s].proc
      BY <1>1, <2>3, SideFields
    <3>2. ASSUME NEW s \in Steers, SteerFailClosed(s), unsettled = receipt[s].proc,
                 unsettled # NoProc
          PROVE  BeingKilled(fg.proc)'
      <4>1. unsettled = fg.proc /\ spc'[s] = "reap" /\ UNCHANGED receipt
        BY <3>2 DEF TurnInv, UnsettledInv, SteerFailClosed, TypeInv, TypeOK, TypeSteer
      <4>2. fg'.proc # NoProc /\ Reaping(s, fg.proc)'
        BY <2>1, <3>2, <4>1 DEF Reaping
      <4> QED BY <4>2 DEF BeingKilled
    <3>3. ~ResumeDone \/ fg.followup = None
      BY DEF ResumeDone, FreshInv, Before
    <3>4. fg'.followup # None =>
            unsettled' # NoProc \/ owner' = None \/ BeingKilled(fg.proc)'
      BY <1>d, <2>1, <3>1, <3>2, <3>3 DEF FollowInv
    <3>5. pending' # None /\ fg'.followup # None =>
            pc' \in {"emit", "decide", "detach"} /\ (pc' # "detach" => Failed')
      BY <2>1, <3>1 DEF FollowInv, Failed
    <3> QED BY <3>4, <3>5 DEF FollowInv
  <2> QED BY <2>2, <2>3
<1>2. CASE ScanCase
  <2>1. /\ pc = "scan" /\ pc' = "scan" /\ fg'.proc = fg.proc
        /\ Follows \/ fg'.followup = fg.followup
        /\ pending' \in {pending, None} /\ owner' \in {owner, None}
        /\ \/ unsettled' = unsettled
           \/ pending # None
           \/ owner' = None
    BY <1>2, ScanFields
  <2>2. pending = None \/ fg.followup = None
    BY <2>1 DEF FollowInv
  <2>3. ~ResumeDone
    BY <2>1 DEF ResumeDone
  <2>4. Follows => pending # None /\ pending' = None /\ unsettled' = unsettled
    BY DEF Follows, Routes
  <2>5. fg'.followup # None =>
            unsettled' # NoProc \/ owner' = None \/ BeingKilled(fg.proc)'
    BY <1>b, <1>d, <2>1, <2>2, <2>3, <2>4 DEF FollowInv
  <2>6. pending' = None \/ fg'.followup = None
    BY <2>1, <2>2, <2>4
  <2> QED BY <2>5, <2>6 DEF FollowInv
<1>3. CASE ScanEnd
  <2>1. /\ pc = "scan" /\ pc' = "emit" /\ scan'.err = scan.err /\ scan'.lim = scan.lim
        /\ fg'.proc = fg.proc /\ fg'.followup = fg.followup
        /\ Failed \/ pending' \in {pending, None}
        /\ \/ UNCHANGED <<unsettled, owner>>
           \/ owner' = None
    BY <1>3, EndFields
  <2>2. pending = None \/ fg.followup = None
    BY <2>1 DEF FollowInv
  <2>3. ~ResumeDone
    BY <2>1 DEF ResumeDone
  <2>4. fg'.followup # None =>
            unsettled' # NoProc \/ owner' = None \/ BeingKilled(fg.proc)'
    BY <1>d, <2>1, <2>3 DEF FollowInv
  <2>5. pending' # None /\ fg'.followup # None => Failed'
    BY <2>1, <2>2 DEF Failed
  <2> QED BY <2>1, <2>4, <2>5 DEF FollowInv
<1>4. CASE Read \/ Emit
  <2>1. /\ UNCHANGED <<pending, unsettled, owner>> /\ ~ResumeDone
        /\ pc = "poll" \/ (pc = "emit" /\ pc' = "decide" /\ UNCHANGED scan)
    BY <1>4 DEF Read, Emit, turnSt, ResumeDone
  <2>2. fg'.proc = fg.proc /\ fg'.followup = fg.followup
    <3>1. \/ \E b : fg' = [fg EXCEPT !.hadMsgs = b]
          \/ \E b, c : fg' = [fg EXCEPT !.started = b, !.confirm = c]
      BY <1>4 DEF Read, Emit
    <3> QED BY <1>a, <3>1 DEF FgType
  <2>3. fg'.followup # None =>
            unsettled' # NoProc \/ owner' = None \/ BeingKilled(fg.proc)'
    BY <1>d, <2>1, <2>2 DEF FollowInv
  <2>4. pending' # None /\ fg'.followup # None =>
            pc' \in {"emit", "decide", "detach"} /\ (pc' # "detach" => Failed')
    BY <2>1, <2>2 DEF FollowInv, Failed
  <2> QED BY <2>3, <2>4 DEF FollowInv
<1>5. CASE FinallyReap
  <2>1. fg' = FgInit
    BY <1>5 DEF FinallyReap
  <2> QED BY <2>1 DEF FollowInv, FgInit
<1>6. CASE Send \/ Enter
  BY <1>6, BeforeFields DEF FollowInv
<1>7. CASE LoopCrash \/ LoopPoll \/ LoopTimeout \/ HostCancel \/ Decide \/ DecideResend
           \/ FinallyDetach
  <2>1. /\ fg'.proc = fg.proc /\ fg'.followup = fg.followup
        /\ \/ pc' = "detach"
           \/ pc = "decide" /\ pc' = "decide" /\ UNCHANGED scan
           \/ pc = "decide" /\ pc' = "loop" /\ ~Failed
           \/ pc = "loop" /\ pc' = "poll" /\ UNCHANGED scan
           \/ pc' = "reap"
        /\ pending' \in {pending, None}
        /\ \/ UNCHANGED <<unsettled, owner>>
           \/ owner' = None
    BY <1>7, LaterFields DEF SameTurn
  <2>2. ~ResumeDone
    BY <2>1 DEF ResumeDone
  <2>3. fg'.followup # None =>
            unsettled' # NoProc \/ owner' = None \/ BeingKilled(fg.proc)'
    BY <1>d, <2>1, <2>2 DEF FollowInv
  <2>4. pc' = "reap" => unsettled' = NoProc
    BY DEF TurnInv, UnsettledInv, InRounds
  <2>5. pending' # None /\ fg'.followup # None =>
            pc' \in {"emit", "decide", "detach"} /\ (pc' # "detach" => Failed')
    BY <1>c, <2>1, <2>4 DEF FollowInv, Failed
  <2> QED BY <2>3, <2>5 DEF FollowInv
<1> QED BY <1>1, <1>2, <1>3, <1>4, <1>5, <1>6, <1>7, AllSteps
--------------------------------------------------------------------------------
(* Completion.  A send that has seen the echo of its prompt has the terminal of the
   turn that runs it in the records that it scanned, or as the next one to come. *)
Ran(i) == i \in bound \/ Runs(Stream, i, 0, Live)
StartedRuns  == fg.started \/ (InBatch /\ scan.started) => Ran(sending)
FollowedRuns == fg.followStarted /\ fg.followup # None => Ran(fg.followup)
DoneRan ==
    /\ fg.deferred \/ (InBatch /\ (scan.done \/ scan.unc # None)) => sending \in bound
    /\ InBatch /\ scan.done => fg.followup \in bound \cup {None}
DoneOpen ==
    /\ pc = "scan" /\ scan.done => pending = None
    /\ scan.unc # None => pc = "scan"
BoundInv == stopPc = "ready" => StartedRuns /\ FollowedRuns /\ DoneRan /\ DoneOpen

(* The next terminal stays the one it is, whatever Claude Code writes ... *)
LEMMA RanWritten ==
  ASSUME TypeInv, PlaceInv, JournalInv, CCSteps, NEW i, Ran(i)
  PROVE  Ran(i)'
<1>a. Stream \in Seq(Record) /\ bound' = bound
  BY StreamTyped, CCJournals DEF CCRuns, CCFrame, ghosts
<1>1. CASE i \in bound
  BY <1>a, <1>1 DEF Ran
<1>2. CASE Runs(Stream, i, 0, Live)
  <2>1. CASE Silent /\ Live \subseteq Live'
    <3>1. Stream' = Stream
      BY <2>1, CCJournals, StreamSilent
    <3>2. Runs(Stream, i, 0, Live')
      BY <1>2, <2>1, RunsLive
    <3> QED BY <3>1, <3>2 DEF Ran
  <2>2. ASSUME NEW k \in Kinds, NEW j \in Inputs \cup {None}, NEW t \in SUBSET Inputs,
               Journal(k, j, t),
               IF k \in {"dur", "int", "err", "lim"} THEN t = Live
                                                     ELSE Live \subseteq Live'
        PROVE  Runs(Stream', i, 0, Live')
    <3> DEFINE r == [k |-> k, i |-> j, id |-> nrec + 1, t |-> t]
    <3>1. Stream' = Append(Stream, r) /\ r \in Record /\ r.k = k /\ r.t = t
      BY <2>2, CCJournals, StreamWritten DEF Kinds
    <3> HIDE DEF r
    <3>2. i \in Live => i \in IF Closing(r) THEN r.t ELSE Live'
      BY <2>2, <3>1 DEF Closing
    <3>3. 0 \in 0 .. Len(Stream)
      BY <1>a, LenProperties
    <3>4. Runs(Append(Stream, r), i, 0, Live')
      BY <1>2, <1>a, <3>1, <3>2, <3>3, RunsAppend
    <3> QED BY <3>1, <3>4
  <2> QED BY <2>1, <2>2, CCTurns DEF Ran, JournalInv
<1> QED BY <1>1, <1>2 DEF Ran

LEMMA RanForeign ==
  ASSUME TypeInv, PlaceInv, NEW s \in Steers, CCForeign(s), Live \subseteq Live',
         NEW i, Ran(i)
  PROVE  Ran(i)'
<1>a. Stream \in Seq(Record) /\ bound' = bound
  BY StreamTyped DEF CCForeign, CCRuns, CCFrame, ghosts
<1>1. CASE i \in bound
  BY <1>a, <1>1 DEF Ran
<1>2. CASE Runs(Stream, i, 0, Live)
  <2> DEFINE e == [k |-> "enq", i |-> s, id |-> nrec + 1, t |-> {}]
             m == [k |-> "rem", i |-> s, id |-> nrec + 2, t |-> {}]
  <2>1. /\ Stream' = Append(Append(Stream, e), m) /\ e \in Record /\ m \in Record
        /\ ~Closing(e) /\ ~Closing(m)
    BY StreamForeign DEF Closing
  <2> HIDE DEF e, m
  <2>2. 0 \in 0 .. Len(Stream)
    BY <1>a, LenProperties
  <2>3. Runs(Append(Stream, e), i, 0, Live')
    BY <1>2, <1>a, <2>1, <2>2, RunsAppend
  <2> DEFINE q == Append(Stream, e)
             M == Live'
  <2>4. q \in Seq(Record) /\ Runs(q, i, 0, M)
    BY <1>a, <2>1, <2>3, AppendProperties
  <2> HIDE DEF q, M
  <2>5. 0 \in 0 .. Len(q)
    BY <2>4, LenProperties
  <2>6. Runs(Append(q, m), i, 0, M)
    BY <2>1, <2>4, <2>5, RunsAppend
  <2> QED BY <2>1, <2>6 DEF Ran, q, M
<1> QED BY <1>1, <1>2 DEF Ran

(* ... and who moves no record. *)
LEMMA RanStays ==
  ASSUME TypeInv, TypeInv', PlaceInv, AliveInv, JournalInv, [Next]_vars, ~ResumeDone,
         Stream' = Stream, bound \subseteq bound', NEW i, Ran(i)
  PROVE  Ran(i)'
<1>1. CASE CCSteps
  BY <1>1, RanWritten
<1>2. CASE ~CCSteps
  <2>1. Live \subseteq Live'
    BY <1>2, LiveStep
  <2>2. Runs(Stream, i, 0, Live) => Runs(Stream, i, 0, Live')
    BY <2>1, RunsLive
  <2> QED BY <2>2 DEF Ran
<1> QED BY <1>1, <1>2

LEMMA RanBeside ==
  ASSUME TypeInv, TypeInv', FenceInv, TurnInv, PlaceInv, AliveInv, JournalInv, [Next]_vars,
         SideSteps, pc \notin {"idle", "own"}, stopPc' = "ready", ~ResumeDone, NEW i, Ran(i)
  PROVE  Ran(i)'
<1>a. bound' = bound
  BY SideFields
<1>1. CASE CCSteps
  BY <1>1, RanWritten
<1>2. ASSUME NEW s \in Steers, CCForeign(s), ~CCSteps PROVE Ran(i)'
  <2>1. Live \subseteq Live'
    BY <1>2, LiveStep
  <2> QED BY <1>2, <2>1, RanForeign
<1>3. CASE Watch \/ InterruptMark \/ StopWatch \/ InterruptReap \/ InterruptEscape \/ StopReap
  <2>1. Stream' = Stream
    BY <1>3, StreamWatched
  <2> QED BY <1>a, <2>1, RanStays
<1>4. CASE InterruptDetach
  <2>1. Stream' = Stream
    BY <1>4, StreamStays
  <2> QED BY <1>a, <2>1, RanStays
<1>5. CASE StopLock
  BY <1>5 DEF StopLock
<1>6. CASE UNCHANGED vars
  <2>1. Stream' = Stream
    BY <1>6 DEF vars, locals, claude, Stream
  <2> QED BY <1>a, <2>1, RanStays
<1>7. CASE \E s \in Steers : \/ Steer(s) \/ SteerCall(s) \/ SteerWriteFailed(s)
                             \/ SteerDeadline(s)
  <2>1. Stream' = Stream
    BY <1>7, StreamSteered
  <2> QED BY <1>a, <2>1, RanStays
<1> QED BY <1>1, <1>2, <1>3, <1>4, <1>5, <1>6, <1>7 DEF SideSteps, OtherSteps, CCSteps

(* A record that is scanned is the next terminal, or leaves it where it is. *)
LEMMA RanScanned ==
  ASSUME TypeInv, TypeInv', PlaceInv, AliveInv, JournalInv, [Next]_vars, ScanCase,
         ~CCSteps, NEW i
  PROVE  /\ Ran(i) /\ (Closing(Rec) => scan.started) => Ran(i)'
         /\ Ran(i) /\ Closing(Rec) /\ scan.started => i \in bound'
         /\ Tells(Rec) /\ Rec.i = i => Ran(i)'
<1>a. /\ Stream \in Seq(Record) /\ Stream # <<>> /\ Rec = Head(Stream)
      /\ Stream' = Tail(Stream) /\ pc = "scan"
  BY StreamTyped, StreamScanned
<1>b. bound \subseteq bound' /\ (Closing(Rec) /\ scan.started => bound' = bound \cup Rec.t)
  BY ScanFields
<1>c. Live \subseteq Live'
  BY <1>a, LiveStep DEF ResumeDone
<1>1. ASSUME Runs(Stream, i, 0, Live)
      PROVE  \/ Closing(Rec) /\ i \in Rec.t
             \/ ~Closing(Rec) /\ Runs(Stream', i, 0, Live)
  BY <1>a, <1>1, RunsHead
<1>2. Runs(Stream', i, 0, Live) => Runs(Stream', i, 0, Live')
  BY <1>c, RunsLive
<1>3. ASSUME Tells(Rec), Rec.i = i PROVE Ran(i)'
  <2>1. Runs(Stream', i, 0, Live)
    BY <1>a, <1>3, ToldTail DEF JournalInv
  <2> QED BY <1>2, <2>1 DEF Ran
<1>4. ASSUME Ran(i), Closing(Rec) => scan.started PROVE Ran(i)'
  BY <1>b, <1>1, <1>2, <1>4 DEF Ran
<1>5. ASSUME Ran(i), Closing(Rec), scan.started PROVE i \in bound'
  BY <1>b, <1>1, <1>5 DEF Ran
<1> QED BY <1>3, <1>4, <1>5

LEMMA JournalInit == Init => JournalInv
<1> SUFFICES ASSUME Init PROVE JournalInv
  OBVIOUS
<1>1. /\ scan.batch = <<>> /\ prefetched = <<>> /\ unread = <<>> /\ cc.echo = None
  BY DEF Init, ScanInit, Quiet
<1>2. Stream = <<>>
  BY <1>1 DEF Stream
<1> QED BY <1>1, <1>2 DEF JournalInv, Told

LEMMA BoundInit == Init => BoundInv
BY DEF Init, BoundInv, StartedRuns, FollowedRuns, DoneRan, DoneOpen, InBatch, FgInit,
   ScanInit

LEMMA StopStays ==
  ASSUME [Next]_vars, stopPc' = "ready"
  PROVE  stopPc = "ready"
<1>1. CASE Watch \/ Host \/ InterruptMark \/ StopWatch \/ StopLock \/ UNCHANGED vars
  BY <1>1 DEF Watch, WatchWake, WatchLook, WatchRead, StopWatch, Host, InterruptMark,
     InterruptDetach,
     InterruptReap, InterruptEscape, StopReap, StopLock, vars, others
<1>2. CASE CCSteps \/ \E s \in Steers : CCForeign(s)
  BY <1>2 DEF CCSteps, ClaudeStep, CCStart, CCEcho, CCEnqueue, CCRemove, CCDequeue,
     CCEndTurn, CCEscape, CCNotify, CCFailTurn, CCBanner, CCLose, CCDie, CCForeign,
     CCRuns, CCFrame, hostSide, others
<1>3. CASE \E s \in Steers : \/ Steer(s) \/ SteerCall(s) \/ SteerWriteFailed(s)
                             \/ SteerDeadline(s)
  BY <1>3 DEF Steer, SteerCall, SteerWriteFailed, SteerDeadline, SteerRefused,
     SteerTooLate, SteerAdmit, SteerWritten, SteerFailClosed, SteerReap,
     SteerAcknowledged, SteerFrame, others
<1>4. CASE Send \/ Enter
  BY <1>4 DEF Send, Own, CheckAlive, CheckRefused, ResumeBegin, ResumeDone, ResumeFailed,
     Backlog, DeliverChannel, DeliverStdin, DeliverFailed, Enter, CancelOwn, Acquire, Exit,
     hostSide, others
<1>5. CASE \/ LoopCrash \/ LoopPoll \/ LoopTimeout \/ HostCancel \/ Read \/ Emit
           \/ Decide \/ DecideResend \/ Finally
  BY <1>5 DEF LoopCrash, LoopPoll, LoopTimeout, HostCancel, Read, Emit, Decide, DecideResend,
     DecideComplete, DecideApiError, DecideLimit, DecideBanner, DecideAgain, DecideFrame,
     Finally, FinallyDetach, FinallyReap, Exit, hostSide, others
<1>6. CASE Scan
  BY <1>6 DEF Scan, ScanEcho, ScanEnqueue, ScanRoute, ScanTerminal, ScanForeignTerminal,
     ScanFailure, ScanEnd, ScanFrame, others
<1> QED BY <1>1, <1>2, <1>3, <1>4, <1>5, <1>6 DEF Next, Consume, Round, Chance, CCSteps

(* The turns of the send and of the steer that it follows, from one step to the next. *)
LEMMA RanBoth ==
  ASSUME TypeInv, sending' = sending, fg'.followup = fg.followup,
         \A i \in Inputs \cup {None} : Ran(i) => Ran(i)'
  PROVE  /\ Ran(sending) => Ran(sending)'
         /\ Ran(fg.followup) => Ran(fg.followup)'
<1>1. sending \in Inputs \cup {None} /\ fg.followup \in Inputs \cup {None}
  BY DEF TypeInv, TypeOK, TypeSend, FgType, Inputs, SteerOrNone
<1>2. PICK i \in Inputs \cup {None} : i = sending
  BY <1>1
<1>3. PICK j \in Inputs \cup {None} : j = fg.followup
  BY <1>1
<1>4. Ran(sending) => Ran(sending)'
  <2>1. Ran(sending) => Ran(i)'
    BY <1>2
  <2>2. sending' = i
    BY <1>2
  <2> QED BY <2>1, <2>2 DEF Ran
<1>5. Ran(fg.followup) => Ran(fg.followup)'
  <2>1. Ran(fg.followup) => Ran(j)'
    BY <1>3
  <2>2. fg'.followup = j
    BY <1>3
  <2> QED BY <2>1, <2>2 DEF Ran
<1> QED BY <1>4, <1>5

(* BoundInv, part by part: beside the consumer, *)
LEMMA BoundBeside ==
  ASSUME TypeInv, TypeInv', FenceInv, TurnInv, PlaceInv, AliveInv, JournalInv, FreshInv,
         BoundInv, [Next]_vars, SideSteps
  PROVE  BoundInv'
<1> SUFFICES ASSUME stopPc' = "ready"
             PROVE  StartedRuns' /\ FollowedRuns' /\ DoneRan' /\ DoneOpen'
  BY DEF BoundInv
<1>1. StartedRuns /\ FollowedRuns /\ DoneRan /\ DoneOpen
  BY StopStays DEF BoundInv
<1>2. UNCHANGED <<pc, fg, scan, sending, bound>>
  BY SideFields
<1>3. ~ResumeDone
  BY <1>2 DEF ResumeDone
<1>4. CASE pc \in {"idle", "own"}
  <2>1. Before
    BY <1>4 DEF Before
  <2>2. ~fg.started /\ fg.followup = None /\ pc \notin {"scan", "emit", "decide"}
    BY <2>1 DEF FreshInv, Before
  <2> QED BY <1>1, <1>2, <2>2 DEF StartedRuns, FollowedRuns, DoneRan, DoneOpen, InBatch
<1>5. CASE pc \notin {"idle", "own"}
  <2>1. \A i \in Inputs \cup {None} : Ran(i) => Ran(i)'
    BY <1>3, <1>5, RanBeside
  <2>2. Ran(sending) => Ran(sending)'
    BY <1>2, <2>1, RanBoth
  <2>3. Ran(fg.followup) => Ran(fg.followup)'
    BY <1>2, <2>1, RanBoth
  <2>4. StartedRuns'
    BY <1>1, <1>2, <2>2 DEF StartedRuns, InBatch
  <2>5. FollowedRuns'
    BY <1>1, <1>2, <2>3 DEF FollowedRuns
  <2>6. DoneRan'
    BY <1>1, <1>2 DEF DoneRan, InBatch
  <2>7. ASSUME NEW s \in Steers, SteerAdmit(s) PROVE pc # "scan"
    BY <2>7, TextsAssumption DEF SteerAdmit, SteerMayEnter, FenceInv, SteerFence, LockHolders
  <2>8. pc = "scan" => pending' \in {pending, None}
    BY <2>7, SideFields
  <2>9. DoneOpen'
    BY <1>1, <1>2, <2>8 DEF DoneOpen
  <2> QED BY <2>4, <2>5, <2>6, <2>9
<1> QED BY <1>4, <1>5

(* when a record is scanned: a terminal counts once the turn has started, *)
LEMMA BoundScanned ==
  ASSUME TypeInv, TypeInv', PlaceInv, AliveInv, JournalInv, FreshInv,
         BoundInv, [Next]_vars, ScanCase, ~CCSteps
  PROVE  BoundInv'
<1> SUFFICES ASSUME stopPc' = "ready"
             PROVE  StartedRuns' /\ FollowedRuns' /\ DoneRan' /\ DoneOpen'
  BY DEF BoundInv
<1>1. StartedRuns /\ FollowedRuns /\ DoneRan /\ DoneOpen
  BY StopStays DEF BoundInv
<1>2. /\ pc = "scan" /\ pc' = "scan" /\ sending' = sending
      /\ scan'.started <=> scan.started \/ (Rec.k \in {"echo", "rem"} /\ Rec.i = sending)
      /\ scan'.done => scan.done \/ (ScanTerminal /\ ~Defers)
      /\ scan'.unc # scan.unc => ScanTerminal
      /\ fg'.started = fg.started
      /\ fg'.deferred => fg.deferred \/ ScanTerminal
      /\ \/ Follows
         \/ /\ fg'.followup = fg.followup
            /\ \/ fg'.followStarted = fg.followStarted
               \/ Rec.k = "echo" /\ fg.followup # None /\ Rec.i = fg.followup
      /\ pending' \in {pending, None} /\ bound \subseteq bound'
      /\ ScanTerminal => Closing(Rec) /\ scan.started
  BY ScanFields
<1>3. InBatch /\ InBatch'
  BY <1>2 DEF InBatch
<1>4. fg.started \/ fg.followup # None => scan.started
  BY <1>3 DEF FreshInv
<1>5. sending \in Prompts
  BY <1>2 DEF TypeInv
<1>s. PICK i : i = sending
  OBVIOUS
<1>f. PICK j : j = fg.followup
  OBVIOUS
<1>6. scan.started => Ran(i)
  BY <1>1, <1>3, <1>s DEF StartedRuns
<1>7. /\ scan.started => Ran(i)'
      /\ scan.started /\ Closing(Rec) => i \in bound'
      /\ Tells(Rec) /\ Rec.i = i => Ran(i)'
  BY <1>6, RanScanned
<1>8. /\ Ran(j) /\ scan.started => Ran(j)'
      /\ Ran(j) /\ scan.started /\ Closing(Rec) => j \in bound'
      /\ Tells(Rec) /\ Rec.i = j => Ran(j)'
  BY RanScanned
<1>9. StartedRuns'
  <2>1. scan'.started => Ran(i)'
    BY <1>2, <1>5, <1>7, <1>s DEF Tells
  <2>2. sending' = i
    BY <1>2, <1>s
  <2>3. fg'.started => scan'.started
    BY <1>2, <1>4
  <2> QED BY <2>1, <2>2, <2>3 DEF StartedRuns, Ran
<1>10. FollowedRuns'
  <2>1. CASE Follows
    BY <2>1 DEF Follows, FollowedRuns
  <2>2. CASE ~Follows
    <3>1. fg'.followup = j
      BY <1>2, <1>f, <2>2
    <3>2. fg'.followStarted /\ j # None => Ran(j)'
      BY <1>1, <1>2, <1>4, <1>8, <1>f, <2>2 DEF FollowedRuns, Tells
    <3> QED BY <3>1, <3>2 DEF FollowedRuns, Ran
  <2> QED BY <2>1, <2>2
<1>11. Follows => pending # None
  BY DEF Follows, Routes
<1>12. ~Defers => pending = None /\ (fg.followup = None \/ fg.followStarted)
  BY DEF Defers
<1>13. DoneRan'
  <2>1. ScanTerminal => sending \in bound'
    BY <1>2, <1>7, <1>s
  <2>2. fg'.deferred \/ scan'.done \/ scan'.unc # None => sending' \in bound'
    BY <1>1, <1>2, <1>3, <2>1 DEF DoneRan
  <2>3. scan.done => pending = None /\ fg.followup \in bound' \cup {None}
    BY <1>1, <1>2, <1>3 DEF DoneRan, DoneOpen
  <2>4. ScanTerminal /\ ~Defers => pending = None /\ fg.followup \in bound' \cup {None}
    BY <1>1, <1>2, <1>8, <1>12, <1>f DEF FollowedRuns
  <2>5. scan'.done => fg'.followup \in bound' \cup {None}
    BY <1>2, <1>11, <2>3, <2>4
  <2> QED BY <2>2, <2>5 DEF DoneRan
<1>14. DoneOpen'
  BY <1>1, <1>2, <1>12 DEF DoneOpen
<1> QED BY <1>9, <1>10, <1>13, <1>14

(* at the end of the batch, when it is read, and in what follows it, *)
LEMMA BoundInRound ==
  ASSUME TypeInv, TypeInv', TurnInv, PlaceInv, AliveInv, JournalInv, FreshInv, FollowInv,
         BoundInv, [Next]_vars,
         \/ ScanEnd \/ Read \/ Emit
         \/ LoopCrash \/ LoopPoll \/ LoopTimeout \/ HostCancel \/ Decide \/ DecideResend
         \/ FinallyDetach
  PROVE  BoundInv'
<1> SUFFICES ASSUME stopPc' = "ready"
             PROVE  StartedRuns' /\ FollowedRuns' /\ DoneRan' /\ DoneOpen'
  BY DEF BoundInv
<1>a. fg \in FgType /\ scan \in ScanType
  BY DEF TypeInv, TypeOK, TypeSend
<1>b. Stream' = Stream
  BY StreamStays DEF Finally
<1>1. StartedRuns /\ FollowedRuns /\ DoneRan /\ DoneOpen
  BY StopStays DEF BoundInv
<1>2. ASSUME ~ResumeDone, bound' = bound, sending' = sending, fg'.followup = fg.followup
      PROVE  /\ Ran(sending) => Ran(sending)'
             /\ Ran(fg.followup) => Ran(fg.followup)'
  <2>1. \A i \in Inputs \cup {None} : Ran(i) => Ran(i)'
    BY <1>b, <1>2, RanStays
  <2> QED BY <1>2, <2>1, RanBoth
<1>3. CASE ScanEnd
  <2>1. /\ pc = "scan" /\ pc' = "emit" /\ UNCHANGED <<sending, bound>>
        /\ scan'.started = scan.started /\ scan'.unc = None
        /\ scan'.done => scan.done \/ Releases
        /\ fg'.started = fg.started /\ fg'.followup = fg.followup
        /\ fg'.followStarted = fg.followStarted /\ (fg'.deferred => fg.deferred)
    BY <1>3, EndFields
  <2>2. ~ResumeDone /\ InBatch
    BY <2>1 DEF ResumeDone, InBatch
  <2>3. /\ Ran(sending) => Ran(sending)'
        /\ Ran(fg.followup) => Ran(fg.followup)'
    BY <1>2, <2>1, <2>2
  <2>4. StartedRuns'
    BY <1>1, <2>1, <2>2, <2>3 DEF StartedRuns
  <2>5. FollowedRuns'
    BY <1>1, <2>1, <2>3 DEF FollowedRuns
  <2>6. Releases => scan.unc # None /\ fg.followup = None
    BY <2>1 DEF Releases, FollowInv
  <2>7. DoneRan'
    BY <1>1, <2>1, <2>2, <2>6 DEF DoneRan
  <2>8. DoneOpen'
    BY <2>1 DEF DoneOpen
  <2> QED BY <2>4, <2>5, <2>7, <2>8
<1>4. CASE Read
  <2>1. /\ pc = "poll" /\ pc' = "scan" /\ UNCHANGED <<sending, bound>>
        /\ fg' = [fg EXCEPT !.hadMsgs = fg.hadMsgs \/ prefetched \o unread # <<>>]
        /\ scan' = [ScanInit EXCEPT !.batch = prefetched \o unread, !.started = fg.started]
    BY <1>4, <1>a DEF Read, ghosts, FgType
  <2>2. /\ fg'.started = fg.started /\ fg'.followup = fg.followup
        /\ fg'.followStarted = fg.followStarted /\ fg'.deferred = fg.deferred
    BY <1>a, <2>1 DEF FgType
  <2>3. scan'.started = fg.started /\ scan'.done = FALSE /\ scan'.unc = None
    <3> DEFINE b == prefetched \o unread
    <3>1. scan' = [ScanInit EXCEPT !.batch = b, !.started = fg.started]
      BY <2>1
    <3> HIDE DEF b
    <3> QED BY <3>1 DEF ScanInit
  <2>4. ~ResumeDone
    BY <2>1 DEF ResumeDone
  <2>5. /\ Ran(sending) => Ran(sending)'
        /\ Ran(fg.followup) => Ran(fg.followup)'
    BY <1>2, <2>1, <2>2, <2>4
  <2>6. StartedRuns'
    BY <1>1, <2>2, <2>3, <2>5 DEF StartedRuns
  <2>7. FollowedRuns'
    BY <1>1, <2>2, <2>5 DEF FollowedRuns
  <2>8. DoneRan' /\ DoneOpen'
    BY <1>1, <2>1, <2>2, <2>3 DEF DoneRan, DoneOpen
  <2> QED BY <2>6, <2>7, <2>8
<1>5. CASE Emit
  <2>1. /\ pc = "emit" /\ pc' = "decide" /\ UNCHANGED <<sending, bound, scan>>
        /\ fg' = [fg EXCEPT !.started = scan.started, !.confirm = fg.confirm /\ ~scan.started]
    BY <1>5, <1>a DEF Emit, FgType, reader, ghosts
  <2>2. /\ fg'.started = scan.started /\ fg'.followup = fg.followup
        /\ fg'.followStarted = fg.followStarted /\ fg'.deferred = fg.deferred
    BY <1>a, <2>1 DEF FgType
  <2>3. ~ResumeDone /\ InBatch
    BY <2>1 DEF ResumeDone, InBatch
  <2>4. /\ Ran(sending) => Ran(sending)'
        /\ Ran(fg.followup) => Ran(fg.followup)'
    BY <1>2, <2>1, <2>2, <2>3
  <2>5. StartedRuns'
    BY <1>1, <2>1, <2>2, <2>3, <2>4 DEF StartedRuns
  <2>6. FollowedRuns'
    BY <1>1, <2>2, <2>4 DEF FollowedRuns
  <2>7. DoneRan' /\ DoneOpen'
    BY <1>1, <2>1, <2>2, <2>3 DEF DoneRan, DoneOpen
  <2> QED BY <2>5, <2>6, <2>7
<1>6. CASE LoopCrash \/ LoopPoll \/ LoopTimeout \/ HostCancel \/ Decide \/ DecideResend
           \/ FinallyDetach
  <2>1. /\ UNCHANGED <<sending, bound>>
        /\ fg'.started = fg.started /\ fg'.followup = fg.followup
        /\ fg'.followStarted = fg.followStarted /\ fg'.deferred = fg.deferred
        /\ \/ pc' = "detach" /\ pc # "scan"
           \/ pc = "decide" /\ pc' = "decide" /\ UNCHANGED scan
           \/ pc = "decide" /\ pc' = "loop"
           \/ pc = "loop" /\ pc' = "poll" /\ UNCHANGED scan
           \/ pc = "detach" /\ pc' = "reap"
        /\ scan' = scan \/ scan' = ScanInit
    BY <1>6, LaterFields DEF SameTurn
  <2>2. ~ResumeDone
    BY <2>1 DEF ResumeDone
  <2>3. /\ Ran(sending) => Ran(sending)'
        /\ Ran(fg.followup) => Ran(fg.followup)'
    BY <1>2, <2>1, <2>2
  <2>4. StartedRuns'
    BY <1>1, <2>1, <2>3 DEF StartedRuns, InBatch
  <2>5. FollowedRuns'
    BY <1>1, <2>1, <2>3 DEF FollowedRuns
  <2>6. DoneRan'
    BY <1>1, <2>1 DEF DoneRan, InBatch
  <2>7. scan'.unc = None
    BY <1>1, <2>1 DEF DoneOpen, ScanInit
  <2>8. DoneOpen'
    BY <2>1, <2>7 DEF DoneOpen
  <2> QED BY <2>4, <2>5, <2>6, <2>8
<1> QED BY <1>3, <1>4, <1>5, <1>6

(* and outside the rounds. *)
LEMMA BoundOutside ==
  ASSUME TypeInv, TurnInv, FreshInv, BoundInv, [Next]_vars,
         FinallyReap \/ Send \/ Enter
  PROVE  BoundInv'
<1> SUFFICES ASSUME stopPc' = "ready"
             PROVE  StartedRuns' /\ FollowedRuns' /\ DoneRan' /\ DoneOpen'
  BY DEF BoundInv
<1>1. DoneOpen
  BY StopStays DEF BoundInv
<1>2. /\ pc' \notin {"scan", "emit", "decide"} /\ scan'.unc = None
      /\ ~fg'.started /\ fg'.followup = None /\ ~fg'.deferred
  <2>1. CASE FinallyReap
    BY <2>1 DEF FinallyReap, FgInit, ScanInit
  <2>2. CASE Send \/ Enter
    BY <1>1, <2>2, BeforeFields DEF DoneOpen, Before
  <2> QED BY <2>1, <2>2
<1> QED BY <1>2 DEF StartedRuns, FollowedRuns, DoneRan, DoneOpen, InBatch

LEMMA BoundStep ==
  ASSUME TypeInv, TypeInv', FenceInv, TurnInv, PlaceInv, AliveInv, JournalInv, FreshInv,
         FollowInv, BoundInv, [Next]_vars
  PROVE  BoundInv'
<1>1. CASE SideSteps
  BY <1>1, BoundBeside
<1>2. CASE ScanCase /\ ~SideSteps
  <2>1. ~CCSteps
    BY <1>2 DEF SideSteps, OtherSteps, CCSteps
  <2> QED BY <1>2, <2>1, BoundScanned
<1> QED BY <1>1, <1>2, BoundInRound, BoundOutside, AllSteps

(* Only the decision at the end of a round reports completion, of its own prompt. *)
LEMMA Completes ==
  ASSUME TypeInv, [Next]_vars, NEW p \in Prompts, outcome[p] = "open",
         outcome'[p] = "complete"
  PROVE  DecideComplete /\ p = sending
<1>a. outcome \in [Prompts -> {"none", "open", "complete", "error", "crashed", "timeout",
                               "api_error", "rate_limited", "cancelled"}]
  BY DEF TypeInv, TypeOK, TypeSend
<1>b. outcome' # outcome
  OBVIOUS
<1>c. ASSUME NEW o \in {"error", "crashed", "timeout", "api_error", "rate_limited",
                        "cancelled"},
             Finish(o)
      PROVE  FALSE
  <2>1. outcome' = [outcome EXCEPT ![sending] = o]
    BY <1>c DEF Finish
  <2> QED BY <1>a, <2>1
<1>1. CASE SideSteps
  BY <1>b, <1>1, SideFields
<1>2. CASE ScanCase \/ ScanEnd \/ Read \/ Emit \/ FinallyReap \/ FinallyDetach
  BY <1>b, <1>2 DEF ScanCase, ScanEcho, ScanEnqueue, ScanRoute, ScanTerminal,
     ScanForeignTerminal, ScanFailure, ScanFrame, ScanEnd, Read, Emit, FinallyReap,
     FinallyDetach, locals
<1>3. CASE Enter
  BY <1>a, <1>3 DEF Enter, CancelOwn, Acquire
<1>4. CASE Send
  BY <1>b, <1>c, <1>4 DEF Send, Own, CheckAlive, CheckRefused, ResumeBegin, ResumeDone,
     ResumeFailed, Backlog, DeliverChannel, DeliverStdin, DeliverFailed, Exit, locals
<1>5. CASE LoopCrash \/ LoopPoll \/ LoopTimeout \/ HostCancel \/ DecideResend
  BY <1>b, <1>c, <1>5 DEF LoopCrash, LoopPoll, LoopTimeout, HostCancel, DecideResend, Exit,
     locals
<1>6. CASE Decide /\ ~DecideComplete
  BY <1>b, <1>c, <1>6 DEF Decide, DecideApiError, DecideLimit, DecideBanner, DecideAgain, Exit
<1>7. CASE DecideComplete
  <2>1. outcome' = [outcome EXCEPT ![sending] = "complete"]
    BY <1>7 DEF DecideComplete, Finish
  <2>2. p = sending
    BY <1>a, <2>1
  <2> QED BY <1>7, <2>2
<1> QED BY <1>1, <1>2, <1>3, <1>4, <1>5, <1>6, <1>7, AllSteps

(* send_prompt reports completion only when the terminal of the turn that executed its
   own prompt has been scanned, and of the turn that executed the steer it followed:
   never on a terminal of an earlier or an autonomous turn, whatever Claude Code
   writes in between, whoever dies, and however often the send is steered. *)
THEOREM CompletionOwns == Spec => CompletionOwnsTurn
<1> DEFINE Turns == TypeInv /\ FenceInv /\ TurnInv /\ StreamInv
           IInv  == Turns /\ AliveInv /\ JournalInv /\ FreshInv /\ FollowInv /\ BoundInv
<1>1. IInv /\ [Next]_vars
        => [\A p \in Prompts :
              outcome[p] = "open" /\ outcome'[p] = "complete" /\ stopPc = "ready" =>
                p \in bound /\ fg.followup \in bound \cup {None}]_vars
  <2> SUFFICES ASSUME IInv, [Next]_vars, NEW p \in Prompts, outcome[p] = "open",
                      outcome'[p] = "complete", stopPc = "ready"
               PROVE  p \in bound /\ fg.followup \in bound \cup {None}
    OBVIOUS
  <2>1. DecideComplete /\ p = sending
    BY Completes
  <2>2. pc = "decide" /\ (scan.done \/ (fg.deferred /\ fg.followup = None))
    BY <2>1 DEF DecideComplete, Goes, DeferredOver, DeferredTest
  <2>3. DoneRan /\ InBatch
    BY <2>2 DEF BoundInv, InBatch
  <2> QED BY <2>1, <2>2, <2>3 DEF DoneRan
<1>2. Init => IInv
  BY TypeInvInit, FenceInit, TurnInit, StreamInit, AliveInit, JournalInit, FreshInit,
     FollowInit, BoundInit
<1>3. IInv /\ [Next]_vars => IInv'
  <2> SUFFICES ASSUME IInv, [Next]_vars PROVE IInv'
    OBVIOUS
  <2>1. Turns'
    BY TypeInvStep, FenceStep, TurnStep, StreamStep
  <2>2. AliveInv' /\ JournalInv'
    BY <2>1, AliveStep, JournalStep DEF StreamInv
  <2>3. FreshInv' /\ FollowInv'
    BY <2>1, FreshStep, FollowStep
  <2>4. BoundInv'
    BY <2>1, BoundStep DEF StreamInv
  <2> QED BY <2>1, <2>2, <2>3, <2>4
<1> QED BY <1>1, <1>2, <1>3, PTL DEF Spec, CompletionOwnsTurn
--------------------------------------------------------------------------------
(* Where a text is on its way.  Sequences of inputs: *)
Once(q, x) == \A m, n \in DOMAIN q : q[m] = x /\ q[n] = x => m = n
Latest(q, x) == \A m, n \in DOMAIN q : q[m] = x /\ n > m => q[n] = Escape

LEMMA HeadAndTail ==
  ASSUME NEW S, NEW q \in Seq(S), q # <<>>
  PROVE  /\ Head(q) = q[1] /\ Head(q) \in S /\ Tail(q) \in Seq(S)
         /\ Len(q) \in Nat \ {0} /\ DOMAIN q = 1 .. Len(q)
         /\ DOMAIN Tail(q) = 1 .. Len(q) - 1
         /\ \A i \in 1 .. Len(q) - 1 : Tail(q)[i] = q[i + 1]
BY LenProperties, HeadTailProperties

LEMMA TailTexts ==
  ASSUME NEW S, NEW q \in Seq(S), q # <<>>, NEW x
  PROVE  /\ Members(q) = Members(Tail(q)) \cup {Head(q)}
         /\ Once(q, x) => Once(Tail(q), x)
         /\ Once(q, x) /\ Head(q) = x => x \notin Members(Tail(q))
         /\ Latest(q, x) => Latest(Tail(q), x)
         /\ Latest(q, x) /\ Head(q) = x => Members(Tail(q)) \subseteq {Escape}
<1> DEFINE t == Tail(q)
<1>1. /\ Head(q) = q[1] /\ Len(q) \in Nat \ {0} /\ DOMAIN q = 1 .. Len(q)
      /\ DOMAIN t = 1 .. Len(q) - 1
      /\ \A i \in 1 .. Len(q) - 1 : t[i] = q[i + 1]
  BY HeadAndTail
<1> HIDE DEF t
<1>2. \A i \in DOMAIN t : i + 1 \in DOMAIN q /\ t[i] = q[i + 1] /\ i \in Nat /\ i + 1 > 1
  BY <1>1
<1>3. Members(q) = Members(t) \cup {Head(q)}
  <2>1. ASSUME NEW i \in DOMAIN q, i # 1 PROVE i - 1 \in DOMAIN t /\ q[i] = t[i - 1]
    BY <1>1, <2>1
  <2>2. \A i \in DOMAIN q : q[i] \in Members(t) \cup {Head(q)}
    BY <1>1, <2>1 DEF Members
  <2>3. Head(q) \in Members(q)
    BY <1>1 DEF Members
  <2>4. \A i \in DOMAIN t : t[i] \in Members(q)
    BY <1>2 DEF Members
  <2> QED BY <2>2, <2>3, <2>4 DEF Members
<1>4. ASSUME Once(q, x) PROVE Once(t, x)
  BY <1>2, <1>4 DEF Once
<1>5. ASSUME Once(q, x), Head(q) = x PROVE x \notin Members(t)
  BY <1>1, <1>2, <1>5 DEF Once, Members
<1>6. ASSUME Latest(q, x) PROVE Latest(t, x)
  BY <1>2, <1>6 DEF Latest
<1>7. ASSUME Latest(q, x), Head(q) = x PROVE Members(t) \subseteq {Escape}
  BY <1>1, <1>2, <1>7 DEF Latest, Members
<1> QED BY <1>3, <1>4, <1>5, <1>6, <1>7 DEF t

LEMMA AppendedText ==
  ASSUME NEW S, NEW q \in Seq(S), NEW y \in S, NEW x
  PROVE  /\ Members(Append(q, y)) = Members(q) \cup {y}
         /\ Once(q, x) /\ (y = x => x \notin Members(q)) => Once(Append(q, y), x)
         /\ Latest(q, x) /\ y = Escape => Latest(Append(q, y), x)
         /\ x \notin Members(q) => Latest(Append(q, y), x)
<1> DEFINE a == Append(q, y)
           n == Len(q)
<1>1. /\ Len(q) \in Nat /\ DOMAIN q = 1 .. Len(q) /\ DOMAIN a = 1 .. Len(q) + 1
      /\ \A i \in 1 .. Len(q) : a[i] = q[i]
      /\ a[Len(q) + 1] = y
  BY AppendProperties, LenProperties
<1> HIDE DEF a
<1>2. Members(a) = Members(q) \cup {y}
  BY <1>1 DEF Members
<1>3. ASSUME Once(q, x), y = x => x \notin Members(q) PROVE Once(a, x)
  BY <1>1, <1>3 DEF Once, Members
<1>4. ASSUME Latest(q, x), y = Escape PROVE Latest(a, x)
  BY <1>1, <1>4 DEF Latest
<1>5. ASSUME x \notin Members(q) PROVE Latest(a, x)
  BY <1>1, <1>5 DEF Latest, Members
<1> QED BY <1>2, <1>3, <1>4, <1>5 DEF a

LEMMA NoText ==
  \A x : Members(<<>>) = {} /\ Once(<<>>, x) /\ Latest(<<>>, x)
BY DEF Members, Once, Latest

(* The records of q that can route the steer s: those after its own enqueue, or all
   once that has been scanned (e).  P are the records of its preflight. *)
OwnEnqueueOf(r, s, P) == r.k = "enq" /\ r.i = s /\ r.id \notin P
Late(q, s, P, e) ==
    {q[m] : m \in {x \in DOMAIN q : /\ q[x].k \in {"rem", "deq"}
                                    /\ e \/ \E n \in DOMAIN q : n < x /\ OwnEnqueueOf(q[n], s, P)}}

LEMMA LateTail ==
  ASSUME NEW q \in Seq(Record), q # <<>>, NEW s, NEW P, NEW e \in BOOLEAN
  PROVE  /\ Late(Tail(q), s, P, e) \subseteq Late(q, s, P, e)
         /\ OwnEnqueueOf(Head(q), s, P) => Late(Tail(q), s, P, TRUE) \subseteq Late(q, s, P, e)
         /\ e /\ Head(q).k \in {"rem", "deq"} => Head(q) \in Late(q, s, P, e)
<1> DEFINE t == Tail(q)
<1>1. /\ Head(q) = q[1] /\ Len(q) \in Nat \ {0} /\ DOMAIN q = 1 .. Len(q)
      /\ DOMAIN t = 1 .. Len(q) - 1
      /\ \A i \in 1 .. Len(q) - 1 : t[i] = q[i + 1]
  BY HeadAndTail
<1> HIDE DEF t
<1>2. \A i \in DOMAIN t : i + 1 \in DOMAIN q /\ t[i] = q[i + 1] /\ i \in Nat /\ 1 < i + 1
                          /\ \A j \in DOMAIN t : j < i => j + 1 < i + 1
  BY <1>1
<1>3. ASSUME NEW r \in Late(t, s, P, e) PROVE r \in Late(q, s, P, e)
  <2>1. PICK m \in DOMAIN t : /\ r = t[m] /\ t[m].k \in {"rem", "deq"}
                              /\ e \/ \E n \in DOMAIN t : n < m /\ OwnEnqueueOf(t[n], s, P)
    BY DEF Late
  <2>2. e \/ \E n \in DOMAIN q : n < m + 1 /\ OwnEnqueueOf(q[n], s, P)
    BY <1>2, <2>1
  <2>3. m + 1 \in DOMAIN q /\ r = q[m + 1]
    BY <1>2, <2>1
  <2> QED BY <2>1, <2>2, <2>3 DEF Late
<1>4. ASSUME OwnEnqueueOf(Head(q), s, P), NEW r \in Late(t, s, P, TRUE) PROVE r \in Late(q, s, P, e)
  <2>1. PICK m \in DOMAIN t : r = t[m] /\ t[m].k \in {"rem", "deq"}
    BY DEF Late
  <2>2. 1 \in DOMAIN q /\ 1 < m + 1 /\ OwnEnqueueOf(q[1], s, P) /\ m + 1 \in DOMAIN q /\ r = q[m + 1]
    BY <1>1, <1>2, <1>4, <2>1
  <2> QED BY <2>1, <2>2 DEF Late
<1>5. ASSUME e, Head(q).k \in {"rem", "deq"} PROVE Head(q) \in Late(q, s, P, e)
  BY <1>1, <1>5 DEF Late
<1> QED BY <1>3, <1>4, <1>5 DEF t

LEMMA LateAppend ==
  ASSUME NEW q \in Seq(Record), NEW r \in Record, NEW s, NEW P, NEW e \in BOOLEAN,
         NEW x \in Late(Append(q, r), s, P, e)
  PROVE  x \in Late(q, s, P, e) \/ (x = r /\ r.k \in {"rem", "deq"})
<1> DEFINE a == Append(q, r)
<1>1. /\ Len(q) \in Nat /\ DOMAIN q = 1 .. Len(q) /\ DOMAIN a = 1 .. Len(q) + 1
      /\ \A i \in 1 .. Len(q) : a[i] = q[i]
      /\ a[Len(q) + 1] = r
  BY AppendProperties, LenProperties
<1>2. x \in Late(a, s, P, e)
  OBVIOUS
<1> HIDE DEF a
<1>3. PICK m \in DOMAIN a : /\ x = a[m] /\ a[m].k \in {"rem", "deq"}
                            /\ e \/ \E n \in DOMAIN a : n < m /\ OwnEnqueueOf(a[n], s, P)
  BY <1>2 DEF Late
<1>4. CASE m = Len(q) + 1
  BY <1>1, <1>3, <1>4
<1>5. CASE m # Len(q) + 1
  <2>1. m \in DOMAIN q /\ a[m] = q[m]
    BY <1>1, <1>3, <1>5
  <2>2. \A n \in DOMAIN a : n < m => n \in DOMAIN q /\ a[n] = q[n]
    BY <1>1, <2>1
  <2>3. e \/ \E n \in DOMAIN q : n < m /\ OwnEnqueueOf(q[n], s, P)
    BY <1>3, <2>2
  <2> QED BY <1>3, <2>1, <2>3 DEF Late
<1> QED BY <1>4, <1>5

LEMMA LateNone ==
  ASSUME NEW q, NEW s, NEW P, \A r \in Members(q) : ~OwnEnqueueOf(r, s, P)
  PROVE  Late(q, s, P, FALSE) = {}
BY DEF Late, Members

--------------------------------------------------------------------------------
(* What becomes of the inputs that Claude Code has still to run: *)
Waiting == (Members(cc.queue) \cup Members(cc.inbox)) \ {Escape}
Keeps  == cc'.inbox = cc.inbox /\ cc'.queue = cc.queue /\ cc'.echo = cc.echo
Loses  == cc'.inbox = <<>> /\ cc'.queue = <<>> /\ cc'.echo = None
Arrives(x) == cc'.inbox = Append(cc.inbox, x) /\ cc'.queue = cc.queue /\ cc'.echo = cc.echo
Delivers  == (DeliverChannel \/ DeliverStdin) /\ alive[process] /\ Arrives(sending)
Writes(s) == (SteerWritten(s) \/ SteerWriteFailed(s)) /\ alive[receipt[s].proc] /\ Arrives(s)
Escapes   == InterruptEscape /\ alive[process] /\ Arrives(Escape)
Works == CCStart \/ CCEcho \/ CCEnqueue \/ CCRemove \/ CCDequeue \/ CCEscape \/ CCLose

LEMMA InputAppended ==
  ASSUME TypeInv, NEW x, cc' = [cc EXCEPT !.inbox = Append(@, x)]
  PROVE  Arrives(x)
BY DEF TypeInv, TypeOK, TypeClaude, CCType, Arrives

LEMMA InputsKilled ==
  ASSUME TypeInv, NEW p, Kill(p)
  PROVE  \/ Keeps /\ alive'[process] = alive[process]
         \/ Loses /\ ~alive'[process]
BY DEF Kill, TypeInv, TypeOK, TypeLife, Quiet, Keeps, Loses

(* Without notifications and without a repeated delivery, an input of the host
   arrives when a prompt or a steer is written, and only Claude Code moves it. *)
LEMMA InputSteps ==
  ASSUME "child" \notin Env, "resend" \notin Env, TypeInv, [Next]_vars
  PROVE  \/ Keeps /\ process' = process /\ (alive'[process] = alive[process] \/ ResumeDone)
         \/ Loses /\ (ResumeBegin \/ (process' = process /\ ~alive'[process]))
         \/ Delivers \/ Escapes \/ Works
         \/ \E s \in Steers : Writes(s)
<1> DEFINE Same == Keeps /\ process' = process /\ (alive'[process] = alive[process] \/ ResumeDone)
           Gone == Loses /\ process' = process /\ ~alive'[process]
<1>a. cc \in CCType
  BY DEF TypeInv, TypeOK, TypeClaude
<1>b. UNCHANGED <<cc, alive, process>> => Same
  BY DEF Keeps
<1>1. CASE CCSteps /\ ~Works
  <2>1. CASE CCDie
    BY <2>1, InputsKilled DEF CCDie, CCRuns, CCFrame
  <2>2. CASE CCEndTurn \/ CCFailTurn \/ CCBanner
    BY <1>a, <2>2 DEF CCEndTurn, CCFailTurn, CCBanner, CCRuns, CCFrame, Keeps, CCType
  <2>3. ~CCNotify
    BY DEF CCNotify
  <2> QED BY <1>1, <2>1, <2>2, <2>3 DEF CCSteps, ClaudeStep, Works
<1>2. CASE FinallyReap \/ InterruptReap \/ StopReap
  <2>1. UNCHANGED process /\ \E x \in Stoppers : Reap(x)
    BY <1>2 DEF FinallyReap, InterruptReap, StopReap, Stoppers
  <2> QED BY <1>b, <2>1, InputsKilled DEF Reap
<1>3. ASSUME NEW s \in Steers, SteerReap(s) PROVE Same \/ Gone
  BY <1>3, InputsKilled DEF SteerReap, SteerFrame
<1>4. CASE ResumeBegin
  BY <1>4 DEF ResumeBegin, Quiet, Loses
<1>5. CASE ResumeDone
  BY <1>5 DEF ResumeDone, Keeps
<1>6. CASE DeliverChannel \/ DeliverStdin
  <2>1. \/ UNCHANGED <<cc, alive, process>>
        \/ alive[process] /\ cc' = [cc EXCEPT !.inbox = Append(@, sending)]
    BY <1>6 DEF DeliverChannel, DeliverStdin, life
  <2> QED BY <1>b, <1>6, <2>1, InputAppended DEF Delivers
<1>7. CASE /\ Send \/ Enter
           /\ ~ResumeBegin /\ ~ResumeDone /\ ~DeliverChannel /\ ~DeliverStdin
  <2>1. UNCHANGED <<cc, alive, process>>
    BY <1>7 DEF Send, Own, CheckAlive, CheckRefused, ResumeFailed, Backlog,
       DeliverFailed, Enter, CancelOwn, Acquire, Exit, life, reader, claude
  <2> QED BY <1>b, <2>1
<1>8. CASE LoopCrash \/ LoopPoll \/ LoopTimeout \/ HostCancel \/ Read \/ Emit \/ Decide
           \/ Scan \/ FinallyDetach
  <2>1. /\ UNCHANGED <<alive, process>>
        /\ UNCHANGED cc \/ cc' = [cc EXCEPT !.banner = FALSE]
    BY <1>8 DEF LoopCrash, LoopPoll, LoopTimeout, HostCancel, Read, Emit, Decide,
       DecideComplete, DecideApiError, DecideLimit, DecideBanner, DecideAgain,
       DecideFrame, Scan, ScanEcho, ScanEnqueue, ScanRoute, ScanTerminal,
       ScanForeignTerminal, ScanFailure, ScanEnd, ScanFrame, FinallyDetach,
       Exit, life, reader, claude
  <2> QED BY <1>a, <2>1 DEF Keeps, CCType
<1>9. ~DecideResend
  BY DEF DecideResend
<1>10. CASE InterruptEscape
  <2>1. \/ UNCHANGED <<cc, alive, process>>
        \/ alive[process] /\ cc' = [cc EXCEPT !.inbox = Append(@, Escape)]
    BY <1>10 DEF InterruptEscape
  <2> QED BY <1>b, <1>10, <2>1, InputAppended DEF Escapes
<1>11. CASE Watch \/ InterruptMark \/ StopWatch \/ InterruptDetach \/ StopLock \/ UNCHANGED vars
  <2>1. UNCHANGED <<cc, alive, process>>
    BY <1>11 DEF Watch, WatchWake, WatchLook, WatchRead, StopWatch, InterruptMark,
       InterruptDetach,
       StopLock, HostFrame, vars, life, claude
  <2> QED BY <1>b, <2>1
<1>12. ASSUME NEW s \in Steers, SteerWritten(s) \/ SteerWriteFailed(s)
       PROVE  Same \/ Writes(s)
  <2>1. \/ UNCHANGED <<cc, alive, process>>
        \/ alive[receipt[s].proc] /\ cc' = [cc EXCEPT !.inbox = Append(@, s)]
    BY <1>12 DEF SteerWritten, SteerWriteFailed, SteerFrame
  <2> QED BY <1>b, <1>12, <2>1, InputAppended DEF Writes
<1>13. ASSUME NEW s \in Steers,
              \/ SteerRefused(s) \/ SteerTooLate(s) \/ SteerAdmit(s)
              \/ SteerFailClosed(s) \/ SteerAcknowledged(s) \/ SteerCall(s)
              \/ SteerDeadline(s) \/ CCForeign(s)
       PROVE  Same
  <2>1. UNCHANGED <<cc, alive, process>>
    BY <1>13 DEF SteerRefused, SteerTooLate, SteerAdmit, SteerFailClosed,
       SteerAcknowledged, SteerCall, SteerDeadline, CCForeign,
       CCRuns, CCFrame, SteerFrame, life, claude
  <2> QED BY <1>b, <2>1
<1> QED BY <1>1, <1>2, <1>3, <1>4, <1>5, <1>6, <1>7, <1>8, <1>9, <1>10, <1>11, <1>12, <1>13
     DEF Next, Consume, Round, Finally, Steer, Host, Chance, CCSteps, Works

(* What a step of Claude Code does with an input, and which record it writes. *)
FromInbox == cc.inbox # <<>> /\ cc'.inbox = Tail(cc.inbox)
FromQueue == cc.queue # <<>> /\ cc'.queue = Tail(cc.queue) /\ cc'.inbox = cc.inbox
Records(k, i) == \E r \in Record : r.k = k /\ r.i = i /\ Stream' = Append(Stream, r)
Opens == /\ FromInbox /\ cc.queue = <<>> /\ cc'.queue = <<>>
         /\ cc.echo = None /\ cc'.echo = Head(cc.inbox) /\ Head(cc.inbox) \in Prompts \cup {Child}
         /\ Stream' = Stream
Echoes == /\ cc'.inbox = cc.inbox /\ cc'.queue = cc.queue
          /\ cc.echo # None /\ cc'.echo = None /\ Records("echo", cc.echo)
Queues == /\ FromInbox /\ Head(cc.inbox) # Escape /\ cc'.queue = Append(cc.queue, Head(cc.inbox))
          /\ cc.echo = None /\ cc'.echo = None /\ Records("enq", Head(cc.inbox))
Absorbs == FromQueue /\ cc.echo = None /\ cc'.echo = None /\ Records("rem", Head(cc.queue))
Dequeues == FromQueue /\ cc.echo = None /\ cc'.echo = Head(cc.queue)
            /\ Records("deq", Head(cc.queue))
Drops == /\ FromInbox /\ cc'.queue = cc.queue /\ cc'.echo = cc.echo
         /\ Stream' = Stream \/ Records("int", None)

LEMMA WorksKeep ==
  ASSUME Works \/ CCSteps \/ \E s \in Steers : CCForeign(s)
  PROVE  UNCHANGED <<stateLock, owner, active, pending, unsettled, sending, pc, fg, scan,
                     outcome, spc, receipt, process, ack, result, reaping, irq, stopPc>>
BY DEF Works, CCSteps, ClaudeStep, CCStart, CCEcho, CCEnqueue, CCRemove,
   CCDequeue, CCEndTurn, CCEscape, CCNotify, CCFailTurn, CCBanner, CCLose, CCDie, CCForeign,
   CCRuns, CCFrame, lockSt, turnSt, locals, hostSide, steerSt, others

LEMMA WorkSteps ==
  ASSUME TypeInv, PlaceInv, JournalInv, Works
  PROVE  /\ alive' = alive
         /\ Opens \/ Echoes \/ Queues \/ Absorbs \/ Dequeues \/ Drops
         /\ \/ journaled' = journaled
            \/ Queues /\ journaled' = journaled \cup ({Head(cc.inbox)} \cap Steers)
<1>a. /\ cc \in CCType /\ CCRuns /\ alive' = alive
      /\ cc.turn = {} => cc.echo = None
  BY DEF Works, CCStart, CCEcho, CCEnqueue, CCRemove, CCDequeue, CCEscape, CCLose,
     TypeInv, TypeOK, TypeClaude, JournalInv
<1>b. ASSUME NEW k, NEW i, NEW t, Journal(k, i, t), k \in Kinds, i \in Inputs \cup {None},
             t \subseteq Inputs
      PROVE  Records(k, i)
  <2> DEFINE r == [k |-> k, i |-> i, id |-> nrec + 1, t |-> t]
  <2>1. Stream' = Append(Stream, r) /\ r \in Record
    BY <1>a, <1>b, StreamWritten DEF Kinds
  <2> QED BY <2>1 DEF Records
<1>c. Silent => Stream' = Stream
  BY <1>a, StreamSilent
<1>1. CASE CCStart
  BY <1>a, <1>c, <1>1 DEF CCStart, Opens, FromInbox, CCType
<1>2. CASE CCEcho
  <2>1. cc.echo \in Inputs /\ Journal("echo", cc.echo, {})
    BY <1>2, CCContents DEF CCEcho
  <2>2. Records("echo", cc.echo)
    BY <1>b, <2>1 DEF Kinds
  <2> QED BY <1>a, <1>2, <2>2 DEF CCEcho, Echoes, CCType
<1>3. CASE CCEnqueue
  <2>1. Head(cc.inbox) \in Inputs /\ Journal("enq", Head(cc.inbox), {})
    BY <1>3, CCContents DEF CCEnqueue
  <2>2. Records("enq", Head(cc.inbox))
    BY <1>b, <2>1 DEF Kinds
  <2> QED BY <1>a, <1>3, <2>2 DEF CCEnqueue, Queues, FromInbox, CCType
<1>4. CASE CCRemove
  <2>1. Head(cc.queue) \in Inputs /\ Journal("rem", Head(cc.queue), {})
    BY <1>4, CCContents DEF CCRemove
  <2>2. Records("rem", Head(cc.queue))
    BY <1>b, <2>1 DEF Kinds
  <2> QED BY <1>a, <1>4, <2>2 DEF CCRemove, Absorbs, FromQueue, CCType
<1>5. CASE CCDequeue
  <2>1. Head(cc.queue) \in Inputs /\ Journal("deq", Head(cc.queue), {})
    BY <1>5, CCContents DEF CCDequeue
  <2>2. Records("deq", Head(cc.queue))
    BY <1>b, <2>1 DEF Kinds
  <2> QED BY <1>a, <1>5, <2>2 DEF CCDequeue, Dequeues, FromQueue, CCType
<1>6. CASE CCEscape
  <2>1. Silent \/ Journal("int", None, cc.turn)
    BY <1>6 DEF CCEscape, CloseTurn
  <2>2. Stream' = Stream \/ Records("int", None)
    BY <1>b, <1>c, <2>1, CCContents DEF Kinds
  <2> QED BY <1>a, <1>6, <2>2 DEF CCEscape, Drops, FromInbox, CCType
<1>7. CASE CCLose
  BY <1>a, <1>c, <1>7 DEF CCLose, Drops, FromInbox, CCType
<1> QED BY <1>a, <1>1, <1>2, <1>3, <1>4, <1>5, <1>6, <1>7 DEF Works

(* The records that come otherwise: terminals, and the old copy of a steer. *)
LEMMA NewRecords ==
  ASSUME "child" \notin Env, TypeInv, FenceInv, TurnInv, PlaceInv, [Next]_vars, ~Works
  PROVE  \/ Members(Stream') \subseteq Members(Stream)
         \/ \E k \in {"dur", "err", "lim"} : Records(k, None)
         \/ \E s \in Steers, e, m \in Record :
              /\ CCForeign(s) /\ e.i = s /\ m.i = s /\ e.k = "enq" /\ m.k = "rem"
              /\ Stream' = Append(Append(Stream, e), m)
<1>1. CASE ~CCSteps /\ ~\E s \in Steers : CCForeign(s)
  BY <1>1, NothingNew
<1>2. CASE CCEndTurn \/ CCFailTurn
  <2>1. PICK k \in {"dur", "err", "lim"} : Journal(k, None, cc.turn) /\ CCRuns
    BY <1>2 DEF CCEndTurn, CCFailTurn, CloseTurn
  <2> DEFINE r == [k |-> k, i |-> None, id |-> nrec + 1, t |-> cc.turn]
  <2>2. Stream' = Append(Stream, r) /\ r \in Record
    BY <2>1, CCContents, StreamWritten
  <2> QED BY <2>2 DEF Records
<1>3. CASE CCBanner \/ CCDie
  <2>1. CCRuns /\ Silent
    BY <1>3 DEF CCBanner, CCDie
  <2>2. Stream' = Stream
    BY <2>1, StreamSilent
  <2> QED BY <2>2
<1>4. ASSUME NEW s \in Steers, CCForeign(s)
      PROVE  \E e, m \in Record :
               /\ e.i = s /\ m.i = s /\ e.k = "enq" /\ m.k = "rem"
               /\ Stream' = Append(Append(Stream, e), m)
  <2> DEFINE e == [k |-> "enq", i |-> s, id |-> nrec + 1, t |-> {}]
             m == [k |-> "rem", i |-> s, id |-> nrec + 2, t |-> {}]
  <2>1. Stream' = Append(Append(Stream, e), m) /\ e \in Record /\ m \in Record
    BY <1>4, StreamForeign
  <2> QED BY <2>1
<1>5. ~CCNotify
  BY DEF CCNotify
<1> QED BY <1>1, <1>2, <1>3, <1>4, <1>5 DEF CCSteps, ClaudeStep, Works

(* What becomes of a steer: nothing, its enqueue is scanned, or a step of its own. *)
OwnStep(s) ==
    \/ SteerCall(s) \/ SteerRefused(s) \/ SteerTooLate(s) \/ SteerAdmit(s)
    \/ SteerWritten(s) \/ SteerWriteFailed(s) \/ SteerFailClosed(s) \/ SteerReap(s)
    \/ SteerAcknowledged(s) \/ SteerDeadline(s)
SteerStays(s) ==
    /\ spc'[s] = spc[s] /\ result'[s] = result[s]
    /\ receipt'[s].proc = receipt[s].proc /\ receipt'[s].prewrite = receipt[s].prewrite
    /\ receipt'[s].uncertain = receipt[s].uncertain
    /\ \/ receipt'[s].enqueued = receipt[s].enqueued
       \/ ScanEnqueue /\ Acknowledges /\ pending = s /\ receipt'[s].enqueued

LEMMA SteerMoves ==
  ASSUME TypeInv, [Next]_vars, NEW s \in Steers
  PROVE  SteerStays(s) \/ OwnStep(s)
<1>a. /\ TypeSteer /\ TypeSend
  BY DEF TypeInv, TypeOK
<1>b. UNCHANGED <<spc, receipt, result>> => SteerStays(s)
  BY DEF SteerStays
<1>1. ASSUME NEW t \in Steers, OwnStep(t), t # s PROVE SteerStays(s)
  <2>1. /\ spc' = spc \/ \E v : spc' = [spc EXCEPT ![t] = v]
        /\ receipt' = receipt \/ \E v : receipt' = [receipt EXCEPT ![t] = v]
        /\ result' = result \/ \E v : result' = [result EXCEPT ![t] = v]
    BY <1>a, <1>1 DEF OwnStep, SteerCall, SteerRefused, SteerTooLate, SteerAdmit,
       SteerWritten, SteerWriteFailed, SteerFailClosed, SteerReap, SteerAcknowledged,
       SteerDeadline, Return, TypeSteer
  <2>2. spc'[s] = spc[s] /\ receipt'[s] = receipt[s] /\ result'[s] = result[s]
    BY <1>a, <1>1, <2>1 DEF TypeSteer
  <2> QED BY <2>2 DEF SteerStays
<1>2. CASE ScanEnqueue
  <2>1. UNCHANGED <<spc, result>>
    BY <1>2 DEF ScanEnqueue, ScanFrame
  <2>2. CASE Acknowledges
    <3>1. receipt' = [receipt EXCEPT ![pending].enqueued = TRUE] /\ pending \in Steers
      BY <1>2, <2>2, <1>a DEF ScanEnqueue, Acknowledges, TypeInv, TypeOK, TypeLock, SteerOrNone
    <3>2. /\ receipt \in [Steers -> ReceiptType] /\ receipt[pending] \in ReceiptType
      BY <1>a, <3>1 DEF TypeSteer
    <3>3. CASE s = pending
      <4>1. receipt'[s] = [receipt[s] EXCEPT !.enqueued = TRUE]
        BY <3>1, <3>2, <3>3
      <4>2. /\ receipt'[s].enqueued /\ receipt'[s].proc = receipt[s].proc
            /\ receipt'[s].prewrite = receipt[s].prewrite
            /\ receipt'[s].uncertain = receipt[s].uncertain
        BY <3>2, <3>3, <4>1 DEF ReceiptType
      <4> QED BY <1>2, <2>1, <2>2, <3>3, <4>2 DEF SteerStays
    <3>4. CASE s # pending
      <4>1. receipt'[s] = receipt[s]
        BY <3>1, <3>2, <3>4
      <4> QED BY <2>1, <4>1 DEF SteerStays
    <3> QED BY <3>3, <3>4
  <2>3. CASE ~Acknowledges
    BY <1>b, <1>2, <2>1, <2>3 DEF ScanEnqueue
  <2> QED BY <2>2, <2>3
<1>3. CASE \/ OtherSteps \/ InterruptDetach \/ StopLock \/ UNCHANGED vars
  <2>1. UNCHANGED <<spc, receipt>>
    BY <1>3, OthersKeep DEF InterruptDetach, StopLock, HostFrame, vars, steerSt
  <2>2. UNCHANGED result
    <3>1. CASE CCSteps \/ \E t \in Steers : CCForeign(t)
      BY <3>1, WorksKeep
    <3> QED BY <1>3, <3>1 DEF OtherSteps, CCSteps, Watch, WatchWake, WatchLook, WatchRead,
       StopWatch, InterruptMark,
       InterruptReap, InterruptEscape, StopReap, InterruptDetach, StopLock, HostFrame, vars,
       steerSt
  <2> QED BY <1>b, <2>1, <2>2
<1>4. CASE Send \/ Enter
  BY <1>b, <1>4 DEF Send, Own, CheckAlive, CheckRefused, ResumeBegin, ResumeDone,
     ResumeFailed, Backlog, DeliverChannel, DeliverStdin, DeliverFailed, Exit, Enter,
     CancelOwn, Acquire,
     hostSide, steerSt
<1>5. CASE \/ Read \/ Emit \/ FinallyReap \/ FinallyDetach \/ LoopCrash \/ LoopPoll
           \/ LoopTimeout
           \/ HostCancel \/ Decide \/ DecideResend
  BY <1>b, <1>5 DEF Read, Emit, FinallyReap, FinallyDetach, LoopCrash, LoopPoll, LoopTimeout,
     HostCancel, Decide, DecideResend, DecideComplete, DecideApiError, DecideLimit,
     DecideBanner, DecideAgain, DecideFrame, Exit, hostSide, steerSt
<1>6. CASE ScanEnd \/ (ScanCase /\ ~ScanEnqueue)
  BY <1>b, <1>6 DEF ScanEnd, ScanCase, ScanEcho, ScanRoute, ScanTerminal,
     ScanForeignTerminal, ScanFailure, ScanFrame
<1> QED BY <1>1, <1>2, <1>3, <1>4, <1>5, <1>6, AllSteps DEF SideSteps, Steer, OwnStep

LEMMA OwnFields ==
  ASSUME TypeInv, NEW s \in Steers, OwnStep(s)
  PROVE  /\ \/ spc[s] = "idle" /\ spc'[s] = "called" /\ SteerCall(s)
            \/ spc[s] = "called" /\ spc'[s] = "done" /\ result'[s] = "false"
               /\ (SteerRefused(s) \/ SteerTooLate(s))
            \/ spc[s] = "called" /\ spc'[s] = "write" /\ SteerAdmit(s)
            \/ spc[s] = "write" /\ spc'[s] \in {"await", "failclosed"}
               /\ (SteerWritten(s) \/ SteerWriteFailed(s))
            \/ spc[s] = "failclosed" /\ spc'[s] = "reap" /\ SteerFailClosed(s)
            \/ spc[s] = "reap" /\ spc'[s] = "done" /\ result'[s] = "false" /\ SteerReap(s)
            \/ spc[s] = "await" /\ spc'[s] = "done" /\ result'[s] = ack[s] /\ ack[s] # "open"
               /\ SteerAcknowledged(s)
            \/ spc[s] = "await" /\ spc'[s] = "done" /\ result'[s] \in {"false", "uncertain"}
               /\ SteerDeadline(s)
         /\ result'[s] = result[s] \/ spc'[s] = "done"
         /\ receipt'[s].enqueued = receipt[s].enqueued
         /\ \/ receipt'[s].proc = receipt[s].proc /\ receipt'[s].prewrite = receipt[s].prewrite
            \/ SteerAdmit(s) /\ receipt'[s].proc = process
         /\ \/ receipt'[s].uncertain = receipt[s].uncertain
            \/ SteerDeadline(s) /\ result'[s] = "uncertain"
         /\ UNCHANGED <<process, sending, pc, fg, scan, outcome, reaping, stopPc>>
<1>a. TypeSteer
  BY DEF TypeInv, TypeOK
<1>b. UNCHANGED <<process, sending, pc, fg, scan, outcome, reaping, stopPc>>
  BY DEF OwnStep, SteerCall, SteerRefused, SteerTooLate, SteerAdmit,
     SteerWritten, SteerWriteFailed, SteerFailClosed, SteerReap, SteerAcknowledged,
     SteerDeadline, SteerFrame, locals, others
<1>1. CASE SteerCall(s)
  <2>1. PICK e : receipt' = [receipt EXCEPT ![s].expect = e]
    BY <1>1 DEF SteerCall
  <2>2. /\ receipt'[s].enqueued = receipt[s].enqueued /\ receipt'[s].proc = receipt[s].proc
        /\ receipt'[s].prewrite = receipt[s].prewrite
        /\ receipt'[s].uncertain = receipt[s].uncertain
    BY <1>a, <2>1 DEF TypeSteer, ReceiptType
  <2>3. spc[s] = "idle" /\ spc'[s] = "called" /\ result' = result
    BY <1>a, <1>1 DEF SteerCall, TypeSteer
  <2> QED BY <1>b, <1>1, <2>2, <2>3
<1>2. CASE SteerRefused(s) \/ SteerTooLate(s)
  BY <1>a, <1>b, <1>2 DEF SteerRefused, SteerTooLate, SteerMayEnter, Return, TypeSteer
<1>3. CASE SteerAdmit(s)
  BY <1>a, <1>b, <1>3 DEF SteerAdmit, SteerMayEnter, TypeSteer, ReceiptType
<1>4. CASE SteerWritten(s) \/ SteerWriteFailed(s)
  BY <1>a, <1>b, <1>4 DEF SteerWritten, SteerWriteFailed, TypeSteer
<1>5. CASE SteerFailClosed(s)
  BY <1>a, <1>b, <1>5 DEF SteerFailClosed, TypeSteer
<1>6. CASE SteerReap(s) \/ SteerAcknowledged(s)
  BY <1>a, <1>b, <1>6 DEF SteerReap, SteerAcknowledged, Return, TypeSteer
<1>7. CASE SteerDeadline(s)
  <2>1. /\ spc[s] = "await" /\ spc'[s] = "done" /\ receipt'[s].enqueued = receipt[s].enqueued
        /\ receipt'[s].proc = receipt[s].proc /\ receipt'[s].prewrite = receipt[s].prewrite
    BY <1>a, <1>7 DEF SteerDeadline, Return, TypeSteer, ReceiptType
  <2>2. \/ result'[s] = "false" /\ receipt' = receipt
        \/ result'[s] = "uncertain"
    BY <1>a, <1>7 DEF SteerDeadline, Return, TypeSteer
  <2> QED BY <1>b, <1>7, <2>1, <2>2
<1> QED BY <1>1, <1>2, <1>3, <1>4, <1>5, <1>6, <1>7 DEF OwnStep

(* Who touches the fence, the open steer, and the steer that is followed. *)
LEMMA HoldMoves ==
  ASSUME [Next]_vars
  PROVE  \/ UNCHANGED <<pending, unsettled>> /\ (active' \in {active, NoProc} \/ Emit)
         \/ ScanCase \/ ScanEnd \/ FinallyDetach \/ InterruptDetach \/ StopLock
         \/ \E s \in Steers : SteerAdmit(s) \/ SteerFailClosed(s)
<1>1. CASE \/ Send \/ LoopCrash \/ LoopPoll \/ LoopTimeout \/ HostCancel \/ Read \/ Emit
           \/ FinallyReap
           \/ Decide \/ DecideResend \/ Enter
  BY <1>1 DEF Send, Own, CheckAlive, CheckRefused, ResumeBegin, ResumeDone,
     ResumeFailed, Backlog, DeliverChannel, DeliverStdin, DeliverFailed,
     LoopCrash, LoopPoll, LoopTimeout, HostCancel, Read, Emit, FinallyReap, Decide, DecideResend,
     DecideComplete, DecideApiError, DecideLimit, DecideBanner, DecideAgain,
     DecideFrame, Exit, Enter, CancelOwn, Acquire, lockSt, turnSt
<1>2. CASE OtherSteps \/ UNCHANGED vars
  BY <1>2, OthersKeep DEF vars, turnSt
<1>3. ASSUME NEW s \in Steers,
             \/ SteerRefused(s) \/ SteerTooLate(s) \/ SteerWritten(s) \/ SteerReap(s)
             \/ SteerAcknowledged(s) \/ SteerCall(s) \/ SteerWriteFailed(s) \/ SteerDeadline(s)
      PROVE  UNCHANGED <<pending, unsettled>> /\ active' \in {active, NoProc}
  BY <1>3 DEF SteerRefused, SteerTooLate, SteerWritten, SteerReap, SteerAcknowledged,
     SteerCall, SteerWriteFailed, SteerDeadline, lockSt, turnSt
<1> QED BY <1>1, <1>2, <1>3, AllSteps DEF SideSteps, Steer

LEMMA FollowupMoves ==
  ASSUME TypeInv, TurnInv, FreshInv, [Next]_vars
  PROVE  \/ fg'.followup = None
         \/ fg'.followup = fg.followup /\ fg'.followStarted = fg.followStarted
            /\ fg'.proc = fg.proc /\ ~Before
         \/ ScanCase
<1>a. fg \in FgType
  BY DEF TypeInv, TypeOK, TypeSend
<1>b. Before => fg.followup = None
  BY DEF FreshInv
<1>1. CASE Read \/ Emit
  BY <1>a, <1>b, <1>1 DEF Read, Emit, FgType
<1>2. CASE FinallyReap
  BY <1>2 DEF FinallyReap, FgInit
<1> QED BY <1>b, <1>1, <1>2, AllSteps, SideFields, EndFields, BeforeFields,
   LaterFields DEF SameTurn

(* The process of a session: only the current one lives, and only a live one has
   inputs; a turn, and a fence, are of the current process; the steer that is being
   written is the open one, and no other is followed. *)
Polling == pc \in {"loop", "poll", "scan", "emit", "decide"}
OnlyInv ==
    /\ \A p \in Procs : alive[p] => p = process
    /\ ~alive[process] => Waiting = {} /\ cc.echo = None
SameProc ==
    /\ Polling \/ pc \in {"backlog", "deliver"} => fg.proc = process
    /\ unsettled # NoProc => unsettled = process
WriteInv == \A s \in Steers : spc[s] = "write" => pending = s /\ fg.followup = None
ProcInv == OnlyInv /\ SameProc /\ WriteInv

LEMMA WriteStep ==
  ASSUME TypeInv, FenceInv, TurnInv, FreshInv, FollowInv, WriteInv, [Next]_vars
  PROVE  WriteInv'
<1> SUFFICES ASSUME NEW s \in Steers, spc'[s] = "write"
             PROVE  pending' = s /\ fg'.followup = None
  BY DEF WriteInv
<1>1. CASE SteerAdmit(s)
  <2>1. fg.followup = None
    BY <1>1, AdmitsAlone
  <2> QED BY <1>1, <2>1 DEF SteerAdmit, SteerFrame, locals
<1>2. CASE spc[s] = "write"
  <2>1. pending = s /\ fg.followup = None /\ stateLock # None /\ pc # "scan"
    BY <1>2, TextsAssumption DEF WriteInv, FenceInv, SteerFence, LockHolders
  <2>2. ~ScanCase /\ ~ScanEnd
    BY <2>1 DEF ScanCase, ScanEcho, ScanEnqueue, ScanRoute, ScanTerminal,
       ScanForeignTerminal, ScanFailure, ScanEnd, Scanning
  <2>3. /\ ~FinallyDetach /\ ~InterruptDetach /\ ~StopLock
        /\ \A t \in Steers : ~SteerAdmit(t) /\ ~SteerFailClosed(t)
    BY <2>1 DEF FinallyDetach, InterruptDetach, StopLock, Detach, SteerAdmit,
       SteerMayEnter, SteerFailClosed
  <2> QED BY <2>1, <2>2, <2>3, HoldMoves, FollowupMoves
<1> QED BY <1>1, <1>2, SteerMoves, OwnFields DEF SteerStays

LEMMA WrittenTo ==
  ASSUME TypeInv, FenceInv, TurnInv, ProcInv, NEW s \in Steers, spc[s] = "write"
  PROVE  /\ pending = s /\ fg.followup = None /\ unsettled = process
         /\ receipt[s].proc = process
<1>1. pending = s /\ fg.followup = None /\ s # None
  BY TextsAssumption DEF ProcInv, WriteInv
<1>2. unsettled # NoProc /\ unsettled = receipt[s].proc
  BY <1>1 DEF TurnInv, PendingInv, FenceInv, SteerFence, OpenIsFenced
<1> QED BY <1>1, <1>2 DEF ProcInv, SameProc

(* What Claude Code has still to run becomes less but for the arrivals. *)
LEMMA WorksLess ==
  ASSUME TypeInv, PlaceInv, JournalInv, Works
  PROVE  /\ Waiting' \subseteq Waiting
         /\ cc'.echo \in {cc.echo, None} \cup Waiting
<1>1. cc.inbox \in Seq(Inputs \cup {Escape}) /\ cc.queue \in Seq(Inputs)
  BY CCContents
<1>2. cc.inbox # <<>> => Members(cc.inbox) = Members(Tail(cc.inbox)) \cup {Head(cc.inbox)}
  BY <1>1, TailTexts
<1>3. cc.queue # <<>> => Members(cc.queue) = Members(Tail(cc.queue)) \cup {Head(cc.queue)}
                         /\ Head(cc.queue) \in Inputs
  BY <1>1, TailTexts, CCContents
<1>e. Escape \notin Inputs
  BY TextsAssumption DEF Escape, Inputs
<1>4. CASE Opens
  <2>1. Head(cc.inbox) # Escape
    BY <1>4, <1>e DEF Opens, Inputs
  <2> QED BY <1>2, <1>4, <2>1 DEF Opens, FromInbox, Waiting, Members
<1>5. CASE Queues
  <2>1. Head(cc.inbox) \in Inputs
    BY <1>5, CCContents DEF Queues, FromInbox
  <2>2. Members(cc'.queue) = Members(cc.queue) \cup {Head(cc.inbox)}
    BY <1>1, <1>5, <2>1, AppendedText DEF Queues
  <2> QED BY <1>2, <1>5, <2>2 DEF Queues, FromInbox, Waiting, Members
<1>6. CASE Echoes
  BY <1>6 DEF Echoes, Waiting, Members
<1>7. CASE Absorbs \/ Dequeues
  <2>1. cc.queue # <<>> /\ cc'.queue = Tail(cc.queue) /\ cc'.inbox = cc.inbox
        /\ cc'.echo \in {None, Head(cc.queue)}
    BY <1>7 DEF Absorbs, Dequeues, FromQueue
  <2>2. Waiting' \subseteq Waiting
    BY <1>3, <2>1 DEF Waiting, Members
  <2>3. Head(cc.queue) \in Waiting
    BY <1>3, <1>e, <2>1 DEF Waiting
  <2> QED BY <2>1, <2>2, <2>3
<1>8. CASE Drops
  BY <1>2, <1>8 DEF Drops, FromInbox, Waiting, Members
<1> QED BY <1>4, <1>5, <1>6, <1>7, <1>8, WorkSteps

LEMMA Arrival ==
  ASSUME TypeInv, NEW x \in Inputs \cup {Escape}, Arrives(x)
  PROVE  Waiting' = (Waiting \cup {x}) \ {Escape} /\ cc'.echo = cc.echo
<1>1. cc.inbox \in Seq(Inputs \cup {Escape})
  BY CCContents
<1>2. Members(cc'.inbox) = Members(cc.inbox) \cup {x}
  BY <1>1, AppendedText DEF Arrives
<1> QED BY <1>2 DEF Arrives, Waiting, Members

LEMMA LivingArrivals ==
  ASSUME TypeInv, Delivers \/ Escapes \/ Works \/ \E s \in Steers : Writes(s)
  PROVE  UNCHANGED <<alive, process>>
BY DEF Delivers, DeliverChannel, DeliverStdin, life, Escapes, InterruptEscape, HostFrame,
   Works, CCStart, CCEcho, CCEnqueue, CCRemove, CCDequeue, CCEscape, CCLose, CCRuns, CCFrame,
   Writes, SteerWritten, SteerWriteFailed, SteerFrame

LEMMA OnlyStep ==
  ASSUME "child" \notin Env, "resend" \notin Env, TypeInv, TypeInv', FenceInv, TurnInv,
         PlaceInv, JournalInv, ProcInv, [Next]_vars
  PROVE  OnlyInv'
<1>a. /\ process \in Procs /\ process' \in Procs /\ OnlyInv
  BY DEF TypeInv, TypeOK, TypeLife, ProcInv
<1>1. \A p \in Procs : alive'[p] => p = process'
  <2>1. CASE ResumeBegin
    BY <1>a, <2>1 DEF ResumeBegin, OnlyInv
  <2>2. CASE ~ResumeBegin
    BY <1>a, <2>2, LifeStep DEF OnlyInv
  <2> QED BY <2>1, <2>2
<1>2. ASSUME ~alive'[process'] PROVE Waiting' = {} /\ cc'.echo = None
  <2>1. CASE Keeps /\ process' = process /\ alive'[process] = alive[process]
    BY <1>a, <1>2, <2>1 DEF Keeps, OnlyInv, Waiting, Members
  <2>2. CASE ResumeDone
    BY <1>a, <1>2, <2>2 DEF ResumeDone, TypeInv, TypeOK, TypeLife
  <2>3. CASE Loses
    BY <2>3 DEF Loses, Waiting, Members
  <2>4. ASSUME UNCHANGED <<alive, process>> PROVE ~alive[process]
    BY <1>2, <2>4
  <2>5. ~Delivers /\ ~Escapes
    BY <2>4, LivingArrivals DEF Delivers, Escapes
  <2>6. ~Works
    BY <2>4, LivingArrivals DEF Works, CCStart, CCEcho, CCEnqueue, CCRemove, CCDequeue,
       CCEscape, CCLose, CCRuns
  <2>7. ASSUME NEW s \in Steers, Writes(s) PROVE FALSE
    <3>1. alive[receipt[s].proc] /\ spc[s] = "write"
      BY <2>7 DEF Writes, SteerWritten, SteerWriteFailed
    <3> QED BY <2>4, <2>7, <3>1, WrittenTo, LivingArrivals
  <2> QED BY <2>1, <2>2, <2>3, <2>5, <2>6, <2>7, InputSteps
<1> QED BY <1>1, <1>2 DEF OnlyInv

LEMMA SameProcStep ==
  ASSUME TypeInv, TurnInv, FenceInv, FreshInv, SameProc, [Next]_vars
  PROVE  SameProc'
<1> DEFINE Here == Polling \/ pc \in {"backlog", "deliver"}
<1>a. fg \in FgType /\ (process' = process \/ ResumeBegin)
  BY LifeStep DEF TypeInv, TypeOK, TypeSend
<1>1. ASSUME Here' PROVE fg'.proc = process'
  <2>1. CASE Send \/ Enter
    BY <1>a, <1>1, <2>1 DEF Send, Own, CheckAlive, CheckRefused, ResumeBegin, ResumeDone,
       ResumeFailed, Backlog, DeliverChannel, DeliverStdin, DeliverFailed, Exit, Finish,
       Enter, CancelOwn, Acquire, FgType, FgInit, Polling, SameProc, life, locals
  <2>2. CASE Read \/ Emit
    BY <1>a, <2>2 DEF Read, Emit, FgType, Polling, SameProc, life
  <2>3. CASE FinallyReap
    BY <1>1, <2>3 DEF FinallyReap, Polling
  <2>4. CASE LoopCrash \/ LoopPoll \/ LoopTimeout \/ HostCancel \/ Decide \/ DecideResend
             \/ FinallyDetach
    <3>1. pc \in {"loop", "decide"} /\ fg'.proc = fg.proc
      BY <1>1, <2>4, LaterFields DEF SameTurn, Polling
    <3>2. ~ResumeBegin
      BY <3>1 DEF ResumeBegin
    <3> QED BY <1>a, <3>1, <3>2 DEF SameProc, Polling
  <2>5. CASE SideSteps
    <3>1. UNCHANGED <<pc, fg>>
      BY <2>5, SideFields
    <3>2. ~ResumeBegin
      BY <3>1 DEF ResumeBegin
    <3> QED BY <1>a, <1>1, <3>1, <3>2 DEF SameProc, Polling
  <2>6. CASE ScanCase \/ ScanEnd
    <3>1. pc = "scan" /\ fg'.proc = fg.proc
      BY <2>6, ScanFields, EndFields
    <3>2. ~ResumeBegin
      BY <3>1 DEF ResumeBegin
    <3> QED BY <1>a, <3>1, <3>2 DEF SameProc, Polling
  <2> QED BY <2>1, <2>2, <2>3, <2>4, <2>5, <2>6, AllSteps
<1>2. ASSUME unsettled' # NoProc PROVE unsettled' = process'
  <2>1. ASSUME NEW s \in Steers, SteerAdmit(s) PROVE unsettled' = process'
    BY <2>1 DEF SteerAdmit, SteerFrame
  <2>2. CASE unsettled' = unsettled
    <3>1. ~ResumeBegin
      BY <1>2, <2>2 DEF ResumeBegin, TurnInv, UnsettledInv, InRounds
    <3> QED BY <1>2, <2>2, <3>1, <1>a DEF SameProc
  <2>3. unsettled' \in {unsettled, NoProc} \/ \E s \in Steers : SteerAdmit(s)
    <3>1. CASE FinallyDetach \/ InterruptDetach \/ StopLock
      BY <3>1 DEF FinallyDetach, InterruptDetach, StopLock, Detach
    <3>2. CASE \E s \in Steers : SteerFailClosed(s)
      BY <3>2 DEF SteerFailClosed
    <3> QED BY <3>1, <3>2, HoldMoves, ScanFields, EndFields
  <2> QED BY <1>2, <2>1, <2>2, <2>3
<1> QED BY <1>1, <1>2 DEF SameProc

LEMMA ProcStep ==
  ASSUME "child" \notin Env, "resend" \notin Env, TypeInv, TypeInv', FenceInv, TurnInv,
         PlaceInv, JournalInv, FreshInv, FollowInv, ProcInv, [Next]_vars
  PROVE  ProcInv'
BY OnlyStep, SameProcStep, WriteStep DEF ProcInv

(* A steer is in one place: nowhere before it is written, then on its way to one
   process, of which its echo is the last that is heard of it. *)
InFlight(s) == cc.echo = s \/ s \in Waiting
Unwritten(s) == spc[s] \in {"idle", "called", "write"}
NoEcho(s) == \A r \in Members(Stream) : ~(r.k = "echo" /\ r.i = s)
OnePlace(s) ==
    /\ Once(cc.queue, s) /\ Once(cc.inbox, s)
    /\ ~(s \in Members(cc.queue) /\ s \in Members(cc.inbox))
    /\ cc.echo = s => s \notin Waiting
OnceInv == \A s \in Steers :
    /\ OnePlace(s)
    /\ Unwritten(s) => ~InFlight(s) /\ ~receipt[s].enqueued /\ s \notin journaled
    /\ InFlight(s) \/ Unwritten(s) => NoEcho(s)
    /\ InFlight(s) => receipt[s].proc = process

LEMMA TextsDiffer ==
  /\ \A s \in Steers : s # Escape /\ s # None /\ s # Child /\ s \in Inputs /\ s \notin Prompts
  /\ \A p \in Prompts : p # Escape /\ p # None /\ p \in Inputs
  /\ Escape \notin Inputs /\ Escape # None /\ None \notin Inputs
BY TextsAssumption DEF Escape, Inputs

LEMMA StillInFlight ==
  ASSUME NEW s \in Steers
  PROVE  StillToRun(s) <=> InFlight(s)
BY TextsDiffer DEF StillToRun, InFlight, Waiting, Members

LEMMA JournaledMoves ==
  ASSUME [Next]_vars, ~CCEnqueue
  PROVE  journaled' = journaled
<1>1. CASE \/ Send \/ LoopCrash \/ LoopPoll \/ LoopTimeout \/ HostCancel \/ Read \/ Emit
           \/ FinallyReap
           \/ FinallyDetach \/ Decide \/ DecideResend \/ Enter
           \/ ScanCase \/ ScanEnd
  BY <1>1 DEF Send, Own, CheckAlive, CheckRefused, ResumeBegin, ResumeDone,
     ResumeFailed, Backlog, DeliverChannel, DeliverStdin, DeliverFailed,
     LoopCrash, LoopPoll, LoopTimeout, HostCancel, Read, Emit, FinallyReap, FinallyDetach,
     Decide,
     DecideResend, DecideComplete, DecideApiError, DecideLimit, DecideBanner, DecideAgain,
     DecideFrame, Exit, Enter, CancelOwn, Acquire, ScanCase, ScanEcho, ScanEnqueue, ScanRoute,
     ScanTerminal,
     ScanForeignTerminal, ScanFailure, ScanEnd, ScanFrame, reader, claude
<1>2. CASE OtherSteps \/ InterruptDetach \/ StopLock \/ UNCHANGED vars
  BY <1>2 DEF OtherSteps, ClaudeStep, CCStart, CCEcho, CCRemove,
   CCDequeue, CCEndTurn, CCEscape, CCNotify, CCFailTurn, CCBanner, CCLose, CCDie, CCForeign,
   Watch, WatchWake, WatchLook, WatchRead, StopWatch, InterruptMark, InterruptReap,
   InterruptEscape, StopReap, InterruptDetach, StopLock, HostFrame, vars, claude
<1>3. ASSUME NEW s \in Steers, OwnStep(s) PROVE journaled' = journaled
  BY <1>3 DEF OwnStep, SteerCall, SteerRefused, SteerTooLate, SteerAdmit,
     SteerWritten, SteerWriteFailed, SteerFailClosed, SteerReap, SteerAcknowledged,
     SteerDeadline, claude
<1> QED BY <1>1, <1>2, <1>3, AllSteps DEF SideSteps, Steer, OwnStep

LEMMA TextMoves ==
  ASSUME "child" \notin Env, "resend" \notin Env, TypeInv, PlaceInv, JournalInv,
         [Next]_vars, NEW x \in Inputs, InFlight(x)'
  PROVE  /\ process' = process
         /\ InFlight(x) \/ (Delivers /\ x = sending) \/ \E s \in Steers : Writes(s) /\ x = s
<1>a. /\ InFlight(x)' <=> cc'.echo = x \/ x \in Waiting'
      /\ x # None /\ x # Escape
  BY TextsDiffer DEF InFlight
<1>1. CASE Keeps /\ process' = process
  BY <1>1 DEF Keeps, InFlight, Waiting, Members
<1>2. CASE Loses
  BY <1>2, <1>a DEF Loses, Waiting, Members
<1>3. CASE Delivers
  <2>1. pc = "deliver"
    BY <1>3 DEF Delivers, DeliverChannel, DeliverStdin
  <2>2. sending \in Prompts
    BY <2>1 DEF TypeInv
  <2>3. Waiting' = (Waiting \cup {sending}) \ {Escape} /\ cc'.echo = cc.echo
    BY <1>3, <2>2, TextsDiffer, Arrival DEF Delivers
  <2> QED BY <1>3, <1>a, <2>3, LivingArrivals DEF InFlight
<1>4. CASE Escapes
  <2>1. Waiting' = (Waiting \cup {Escape}) \ {Escape} /\ cc'.echo = cc.echo
    BY <1>4, Arrival DEF Escapes
  <2> QED BY <1>4, <1>a, <2>1, LivingArrivals DEF InFlight
<1>5. CASE Works
  BY <1>5, <1>a, WorksLess, LivingArrivals DEF InFlight
<1>6. ASSUME NEW t \in Steers, Writes(t)
      PROVE  process' = process /\ (InFlight(x) \/ x = t)
  <2>1. Waiting' = (Waiting \cup {t}) \ {Escape} /\ cc'.echo = cc.echo
    BY <1>6, TextsDiffer, Arrival DEF Writes
  <2> QED BY <1>6, <1>a, <2>1, LivingArrivals DEF InFlight
<1> QED BY <1>1, <1>2, <1>3, <1>4, <1>5, <1>6, InputSteps

LEMMA InFlightMoves ==
  ASSUME "child" \notin Env, "resend" \notin Env, TypeInv, PlaceInv, JournalInv,
         [Next]_vars, NEW s \in Steers, InFlight(s)'
  PROVE  process' = process /\ (InFlight(s) \/ Writes(s))
<1>1. Delivers => sending \in Prompts
  BY DEF Delivers, DeliverChannel, DeliverStdin, TypeInv
<1> QED BY <1>1, TextMoves, TextsDiffer

LEMMA OnePlaceWorks ==
  ASSUME TypeInv, PlaceInv, JournalInv, Works, NEW s \in Steers, OnePlace(s)
  PROVE  OnePlace(s)'
<1>a. cc.inbox \in Seq(Inputs \cup {Escape}) /\ cc.queue \in Seq(Inputs)
  BY CCContents
<1>b. cc.inbox # <<>> =>
        /\ Members(cc.inbox) = Members(Tail(cc.inbox)) \cup {Head(cc.inbox)}
        /\ Once(Tail(cc.inbox), s)
        /\ Head(cc.inbox) = s => s \notin Members(Tail(cc.inbox))
  BY <1>a, TailTexts DEF OnePlace
<1>c. cc.queue # <<>> =>
        /\ Members(cc.queue) = Members(Tail(cc.queue)) \cup {Head(cc.queue)}
        /\ Once(Tail(cc.queue), s)
        /\ Head(cc.queue) = s => s \notin Members(Tail(cc.queue))
  BY <1>a, TailTexts DEF OnePlace
<1>w. Waiting = (Members(cc.queue) \cup Members(cc.inbox)) \ {Escape}
      /\ Waiting' = (Members(cc'.queue) \cup Members(cc'.inbox)) \ {Escape}
      /\ s # Escape /\ s # None
  BY TextsDiffer DEF Waiting, Members
<1>o. OnePlace(s)' <=>
        /\ Once(cc'.queue, s) /\ Once(cc'.inbox, s)
        /\ ~(s \in Members(cc'.queue) /\ s \in Members(cc'.inbox))
        /\ cc'.echo = s => s \notin Waiting'
  BY DEF OnePlace, Once, Members
<1>1. CASE Opens
  BY <1>1, <1>b, <1>w, <1>o, NoText DEF Opens, FromInbox, OnePlace
<1>2. CASE Echoes
  BY <1>2, <1>w, <1>o DEF Echoes, OnePlace
<1>3. CASE Queues
  <2>1. Head(cc.inbox) \in Inputs
    BY <1>3, CCContents DEF Queues, FromInbox
  <2>2. /\ Members(cc'.queue) = Members(cc.queue) \cup {Head(cc.inbox)}
        /\ (Head(cc.inbox) = s => s \notin Members(cc.queue)) => Once(cc'.queue, s)
    BY <1>a, <1>3, <2>1, AppendedText DEF Queues, OnePlace
  <2>3. Head(cc.inbox) \in Members(cc.inbox)
    BY <1>b, <1>3 DEF Queues, FromInbox
  <2> QED BY <1>3, <1>b, <1>w, <1>o, <2>2, <2>3 DEF Queues, FromInbox, OnePlace
<1>4. CASE Absorbs
  BY <1>4, <1>c, <1>w, <1>o DEF Absorbs, FromQueue, OnePlace
<1>5. CASE Dequeues
  <2>1. Head(cc.queue) \in Members(cc.queue)
    BY <1>c, <1>5 DEF Dequeues, FromQueue
  <2> QED BY <1>5, <2>1, <1>c, <1>w, <1>o DEF Dequeues, FromQueue, OnePlace
<1>6. CASE Drops
  BY <1>6, <1>b, <1>w, <1>o DEF Drops, FromInbox, OnePlace
<1> QED BY <1>1, <1>2, <1>3, <1>4, <1>5, <1>6, WorkSteps

LEMMA OnePlaceStep ==
  ASSUME "child" \notin Env, "resend" \notin Env, TypeInv, PlaceInv, JournalInv, OnceInv,
         [Next]_vars, NEW s \in Steers
  PROVE  OnePlace(s)'
<1>a. OnePlace(s)
  BY DEF OnceInv
<1>w. Waiting = (Members(cc.queue) \cup Members(cc.inbox)) \ {Escape}
      /\ Waiting' = (Members(cc'.queue) \cup Members(cc'.inbox)) \ {Escape}
      /\ s # Escape /\ s # None
  BY TextsDiffer DEF Waiting, Members
<1>o. OnePlace(s)' <=>
        /\ Once(cc'.queue, s) /\ Once(cc'.inbox, s)
        /\ ~(s \in Members(cc'.queue) /\ s \in Members(cc'.inbox))
        /\ cc'.echo = s => s \notin Waiting'
  BY DEF OnePlace, Once, Members
<1>b. ASSUME NEW x \in Inputs \cup {Escape}, Arrives(x), x = s => ~InFlight(s)
      PROVE  OnePlace(s)'
  <2>1. cc.inbox \in Seq(Inputs \cup {Escape})
    BY CCContents
  <2>2. /\ Members(cc'.inbox) = Members(cc.inbox) \cup {x}
        /\ (x = s => s \notin Members(cc.inbox)) => Once(cc'.inbox, s)
    BY <1>a, <1>b, <2>1, AppendedText DEF Arrives, OnePlace
  <2> QED BY <1>a, <1>b, <1>w, <1>o, <2>2 DEF Arrives, OnePlace, InFlight
<1>1. CASE Keeps
  BY <1>a, <1>1, <1>w, <1>o DEF Keeps, OnePlace
<1>2. CASE Loses
  BY <1>2, <1>w, <1>o, NoText DEF Loses
<1>3. CASE Delivers
  <2>1. pc = "deliver" /\ Arrives(sending)
    BY <1>3 DEF Delivers, DeliverChannel, DeliverStdin
  <2>2. sending \in Inputs /\ sending # s
    BY <2>1, TextsDiffer DEF TypeInv
  <2> QED BY <1>b, <2>1, <2>2
<1>4. CASE Escapes
  BY <1>b, <1>4, TextsDiffer DEF Escapes
<1>5. CASE Works
  BY <1>a, <1>5, OnePlaceWorks
<1>6. ASSUME NEW t \in Steers, Writes(t) PROVE OnePlace(s)'
  <2>1. Arrives(t) /\ Unwritten(t)
    BY <1>6 DEF Writes, SteerWritten, SteerWriteFailed, Unwritten
  <2>2. ~InFlight(t)
    BY <2>1 DEF OnceInv
  <2> QED BY <1>b, <2>1, <2>2, TextsDiffer
<1> QED BY <1>1, <1>2, <1>3, <1>4, <1>5, <1>6, InputSteps

LEMMA OnceStep ==
  ASSUME "child" \notin Env, "resend" \notin Env, TypeInv, FenceInv, TurnInv, PlaceInv,
         JournalInv, OwnEnqueue, ProcInv, OnceInv, [Next]_vars
  PROVE  OnceInv'
<1> SUFFICES ASSUME NEW s \in Steers
             PROVE  /\ OnePlace(s)'
                    /\ Unwritten(s)' => ~InFlight(s)' /\ ~receipt'[s].enqueued /\ s \notin journaled'
                    /\ InFlight(s)' \/ Unwritten(s)' => NoEcho(s)'
                    /\ InFlight(s)' => receipt'[s].proc = process'
  BY DEF OnceInv
<1>a. /\ OnePlace(s) /\ (Unwritten(s) => ~InFlight(s) /\ ~receipt[s].enqueued /\ s \notin journaled)
      /\ InFlight(s) \/ Unwritten(s) => NoEcho(s)
      /\ InFlight(s) => receipt[s].proc = process
  BY DEF OnceInv
<1>b. /\ Writes(s) => Unwritten(s) /\ ~Unwritten(s)'
      /\ Unwritten(s)' => Unwritten(s)
  <2>1. Writes(s) => OwnStep(s) /\ spc[s] = "write"
    BY DEF Writes, OwnStep, SteerWritten, SteerWriteFailed
  <2>2. CASE SteerStays(s)
    <3>1. ~Writes(s)
      BY <2>1, <2>2, OwnFields DEF SteerStays
    <3> QED BY <2>2, <3>1 DEF SteerStays, Unwritten
  <2>3. CASE OwnStep(s)
    BY <2>1, <2>3, OwnFields DEF Unwritten
  <2> QED BY <2>2, <2>3, SteerMoves
<1>c. InFlight(s)' => process' = process /\ (InFlight(s) \/ Writes(s))
  BY InFlightMoves
<1>1. OnePlace(s)'
  BY OnePlaceStep
<1>2. ASSUME Unwritten(s)'
      PROVE  ~InFlight(s)' /\ ~receipt'[s].enqueued /\ s \notin journaled'
  <2>1. Unwritten(s) /\ ~InFlight(s)'
    BY <1>2, <1>a, <1>b, <1>c
  <2>2. ~receipt'[s].enqueued
    <3>1. ~(ScanEnqueue /\ Acknowledges /\ pending = s)
      <4>1. ASSUME ScanEnqueue, pending = s PROVE FALSE
        <5>1. stateLock = "consumer" /\ spc[s] \notin {"idle", "called"}
          BY <4>1, TextsDiffer DEF ScanEnqueue, Scanning, FenceInv, SteerFence, LockHolders,
             OwnEnqueue
        <5> QED BY <2>1, <5>1 DEF Unwritten, FenceInv, SteerFence, LockHolders
      <4> QED BY <4>1
    <3> QED BY <1>a, <2>1, <3>1, SteerMoves, OwnFields DEF SteerStays
  <2>3. s \notin journaled'
    <3>1. CASE CCEnqueue
      <4>1. Works
        BY <3>1 DEF Works
      <4>2. CASE Queues /\ journaled' = journaled \cup ({Head(cc.inbox)} \cap Steers)
        <5>1. cc.inbox \in Seq(Inputs \cup {Escape}) /\ cc.inbox # <<>>
          BY <4>2, CCContents DEF Queues, FromInbox
        <5>2. Head(cc.inbox) \in Members(cc.inbox)
          BY <5>1, TailTexts
        <5>3. Head(cc.inbox) \in Waiting
          BY <4>2, <5>2 DEF Queues, Waiting
        <5>4. s \notin Waiting /\ s \notin journaled
          BY <1>a, <2>1 DEF InFlight
        <5>5. Head(cc.inbox) # s /\ journaled' = journaled \cup ({Head(cc.inbox)} \cap Steers)
          BY <4>2, <5>3, <5>4
        <5> QED BY <5>4, <5>5
      <4> QED BY <1>a, <2>1, <4>1, <4>2, WorkSteps
    <3>2. CASE ~CCEnqueue
      BY <1>a, <2>1, <3>2, JournaledMoves
    <3> QED BY <3>1, <3>2
  <2> QED BY <2>1, <2>2, <2>3
<1>3. ASSUME InFlight(s)' \/ Unwritten(s)' PROVE NoEcho(s)'
  <2>1. NoEcho(s) /\ (InFlight(s) \/ Unwritten(s))
    BY <1>3, <1>a, <1>b, <1>c
  <2>2. ASSUME NEW k, NEW i, Records(k, i), ~(k = "echo" /\ i = s) PROVE NoEcho(s)'
    <3>1. PICK r \in Record : r.k = k /\ r.i = i /\ Stream' = Append(Stream, r)
      BY <2>2 DEF Records
    <3>2. Members(Stream') = Members(Stream) \cup {r}
      BY <3>1, StreamTyped, MembersAppend
    <3>3. NoEcho(s)' <=> \A x \in Members(Stream') : ~(x.k = "echo" /\ x.i = s)
      BY DEF NoEcho, Members
    <3> QED BY <2>1, <2>2, <3>1, <3>2, <3>3 DEF NoEcho
  <2>3. ASSUME Members(Stream') \subseteq Members(Stream) PROVE NoEcho(s)'
    BY <2>1, <2>3 DEF NoEcho, Members
  <2>4. CASE Works
    <3>1. CASE Echoes
      <4>1. cc.echo = s => s \notin Waiting /\ cc'.echo = None
        BY <1>a, <3>1 DEF OnePlace, Echoes
      <4>2. cc.echo = s => ~InFlight(s)'
        BY <2>4, <4>1, WorksLess, TextsDiffer DEF InFlight
      <4>3. cc.echo # s
        BY <1>3, <1>2, <4>2, <1>a, <1>b DEF InFlight
      <4> QED BY <2>2, <3>1, <4>3 DEF Echoes
    <3>2. CASE Opens
      BY <2>3, <3>2 DEF Opens
    <3>3. CASE Queues \/ Absorbs \/ Dequeues
      BY <2>2, <3>3 DEF Queues, Absorbs, Dequeues
    <3>4. CASE Drops
      BY <2>2, <2>3, <3>4 DEF Drops
    <3> QED BY <2>4, <3>1, <3>2, <3>3, <3>4, WorkSteps
  <2>5. CASE ~Works
    <3>1. ASSUME NEW e \in Record, NEW m \in Record, e.k = "enq", m.k = "rem",
                 Stream' = Append(Append(Stream, e), m)
          PROVE  NoEcho(s)'
      <4>1. Append(Stream, e) \in Seq(Record) /\ Stream \in Seq(Record)
        BY StreamTyped
      <4>2. Members(Stream') = Members(Stream) \cup {e} \cup {m}
        BY <3>1, <4>1, MembersAppend
      <4>3. NoEcho(s)' <=> \A x \in Members(Stream') : ~(x.k = "echo" /\ x.i = s)
        BY DEF NoEcho, Members
      <4> QED BY <2>1, <3>1, <4>2, <4>3 DEF NoEcho
    <3> QED BY <2>2, <2>3, <2>5, <3>1, NewRecords
  <2> QED BY <2>4, <2>5
<1>4. ASSUME InFlight(s)' PROVE receipt'[s].proc = process'
  <2>1. process' = process /\ (InFlight(s) \/ Writes(s))
    BY <1>4, <1>c
  <2>2. CASE InFlight(s)
    <3>1. ~SteerAdmit(s)
      BY <1>a, <2>2 DEF SteerAdmit, SteerMayEnter, Unwritten
    <3> QED BY <1>a, <2>1, <2>2, <3>1, SteerMoves, OwnFields DEF SteerStays
  <2>3. CASE Writes(s)
    <3>1. spc[s] = "write" /\ UNCHANGED receipt
      BY <2>3 DEF Writes, SteerWritten, SteerWriteFailed
    <3> QED BY <2>1, <3>1, WrittenTo
  <2> QED BY <2>1, <2>2, <2>3
<1> QED BY <1>1, <1>2, <1>3, <1>4

(* The records that name a text which is not new to Claude Code. *)
LEMMA NewTexts ==
  ASSUME "child" \notin Env, TypeInv, FenceInv, TurnInv, PlaceInv, JournalInv, [Next]_vars,
         NEW r \in Members(Stream'), r \notin Members(Stream)
  PROVE  \/ r.i = None
         \/ \E s \in Steers : CCForeign(s) /\ r.i = s
         \/ Echoes /\ r.k = "echo" /\ r.i = cc.echo
         \/ Queues /\ r.k = "enq" /\ r.i = Head(cc.inbox)
         \/ Absorbs /\ r.k = "rem" /\ r.i = Head(cc.queue)
         \/ Dequeues /\ r.k = "deq" /\ r.i = Head(cc.queue)
<1>a. Stream \in Seq(Record)
  BY StreamTyped
<1>1. ASSUME NEW k, NEW i, Records(k, i) PROVE r.k = k /\ r.i = i
  <2>1. PICK x \in Record : x.k = k /\ x.i = i /\ Stream' = Append(Stream, x)
    BY <1>1 DEF Records
  <2>2. Members(Stream') = Members(Stream) \cup {x}
    BY <1>a, <2>1, MembersAppend
  <2> QED BY <2>1, <2>2
<1>2. CASE Works
  BY <1>1, <1>2, WorkSteps DEF Opens, Echoes, Queues, Absorbs, Dequeues, Drops
<1>3. CASE ~Works
  <2>1. ASSUME NEW s \in Steers, NEW e \in Record, NEW m \in Record,
               e.i = s, m.i = s, Stream' = Append(Append(Stream, e), m)
        PROVE  r.i = s
    <3>1. Append(Stream, e) \in Seq(Record)
      BY <1>a
    <3>2. Members(Stream') = Members(Stream) \cup {e} \cup {m}
      BY <1>a, <2>1, <3>1, MembersAppend
    <3> QED BY <2>1, <3>2
  <2> QED BY <1>1, <1>3, <2>1, NewRecords
<1> QED BY <1>2, <1>3

(* A prompt that has not been delivered is nowhere, and one that has been is the last
   input until it is seen to run: nothing waits behind it. *)
Undelivered(p) == outcome[p] = "none" \/ (sending = p /\ Before)
PromptInv ==
    /\ sending # None => outcome[sending] # "none"
    /\ \A p \in Prompts : Undelivered(p) =>
         ~InFlight(p) /\ \A r \in Members(Stream) : r.i # p
LastInput(x) ==
    /\ Latest(cc.inbox, x)
    /\ \A n \in DOMAIN cc.queue : cc.queue[n] = x =>
         n = Len(cc.queue) /\ Members(cc.inbox) \subseteq {Escape}
Reached ==
    \/ cc.echo = sending
    \/ \E r \in Members(Stream) : r.k \in {"echo", "rem"} /\ r.i = sending
    \/ InBatch /\ scan.started
LastInv == Polling /\ ~fg.started => LastInput(sending) /\ (Reached => Waiting = {})

LEMMA SendingMoves ==
  ASSUME TypeInv, TurnInv, FreshInv, [Next]_vars
  PROVE  \/ /\ sending' = sending /\ (Before' => Before)
            /\ \A p \in Prompts : outcome'[p] = "none" => outcome[p] = "none"
         \/ /\ sending' = None
            /\ \A p \in Prompts : outcome'[p] = "none" => outcome[p] = "none"
         \/ \E p \in Prompts : Acquire(p)
<1>a. outcome \in [Prompts -> {"none", "open", "complete", "error", "crashed",
                      "timeout", "api_error", "rate_limited", "cancelled"}]
  BY DEF TypeInv, TypeOK, TypeSend
<1>1. CASE SideSteps
  <2>1. UNCHANGED <<pc, sending, outcome>>
    BY <1>1, SideFields
  <2> QED BY <2>1 DEF Before
<1>2. CASE Send
  <2>1. Before
    BY <1>2, BeforeFields
  <2>2. sending' = sending
    BY <1>2 DEF Send, Own, CheckAlive, CheckRefused, ResumeBegin, ResumeDone,
       ResumeFailed, Backlog, DeliverChannel, DeliverStdin, DeliverFailed, Exit
  <2>3. outcome' = outcome \/ outcome' = [outcome EXCEPT ![sending] = "error"]
    BY <1>2 DEF Send, Own, CheckAlive, CheckRefused, ResumeBegin, ResumeDone,
       ResumeFailed, Backlog, DeliverChannel, DeliverStdin, DeliverFailed, Exit, Finish, locals
  <2> QED BY <1>a, <2>1, <2>2, <2>3
<1>3. CASE ScanCase \/ ScanEnd \/ Read \/ Emit
  BY <1>3 DEF ScanCase, ScanEcho, ScanEnqueue, ScanRoute, ScanTerminal,
     ScanForeignTerminal, ScanFailure, ScanEnd, ScanFrame, Read, Emit, Before, Scanning
<1>4. CASE LoopCrash \/ LoopPoll \/ LoopTimeout \/ HostCancel \/ Decide \/ DecideResend
           \/ FinallyDetach
  <2>1. sending' = sending /\ pc' \in {"detach", "decide", "loop", "poll", "reap"}
    BY <1>4, LaterFields
  <2>2. outcome' = outcome \/ \E o \in {"complete", "error", "crashed", "timeout", "api_error",
                                        "rate_limited", "cancelled"} :
                                 outcome' = [outcome EXCEPT ![sending] = o]
    BY <1>4 DEF LoopCrash, LoopPoll, LoopTimeout, HostCancel, Decide, DecideResend,
       DecideComplete,
       DecideApiError, DecideLimit, DecideBanner, DecideAgain, FinallyDetach, Exit, Finish,
       locals
  <2> QED BY <1>a, <2>1, <2>2 DEF Before
<1>5. CASE FinallyReap \/ CancelOwn
  BY <1>a, <1>5 DEF FinallyReap, CancelOwn
<1> QED BY <1>1, <1>2, <1>3, <1>4, <1>5, AllSteps DEF Enter

LEMMA HeadsWait ==
  ASSUME TypeInv
  PROVE  /\ cc.inbox # <<>> => Head(cc.inbox) \in Members(cc.inbox)
         /\ cc.queue # <<>> => Head(cc.queue) \in Members(cc.queue)
<1>1. cc.inbox \in Seq(Inputs \cup {Escape}) /\ cc.queue \in Seq(Inputs)
  BY CCContents
<1>2. cc.inbox # <<>> => Members(cc.inbox) = Members(Tail(cc.inbox)) \cup {Head(cc.inbox)}
  BY <1>1, TailTexts
<1>3. cc.queue # <<>> => Members(cc.queue) = Members(Tail(cc.queue)) \cup {Head(cc.queue)}
  BY <1>1, TailTexts
<1> QED BY <1>2, <1>3

LEMMA PromptStep ==
  ASSUME "child" \notin Env, "resend" \notin Env, TypeInv, FenceInv, TurnInv, PlaceInv,
         JournalInv, FreshInv, PromptInv, [Next]_vars
  PROVE  PromptInv'
<1>a. /\ outcome \in [Prompts -> {"none", "open", "complete", "error", "crashed",
                      "timeout", "api_error", "rate_limited", "cancelled"}]
      /\ sending \in Prompts \cup {None}
  BY DEF TypeInv, TypeOK, TypeSend
<1>b. ASSUME NEW q \in Prompts, Acquire(q)
      PROVE  /\ sending' = q /\ outcome[q] = "none" /\ outcome'[q] = "open"
             /\ \A p \in Prompts : p # q => outcome'[p] = outcome[p]
  BY <1>a, <1>b DEF Enter, CancelOwn, Acquire
<1>1. sending' # None => outcome'[sending'] # "none"
  BY <1>a, <1>b, SendingMoves DEF PromptInv
<1>2. ASSUME NEW p \in Prompts, Undelivered(p)'
      PROVE  ~InFlight(p)' /\ \A r \in Members(Stream') : r.i # p
  <2>1. Undelivered(p)
    BY <1>a, <1>b, <1>2, SendingMoves, TextsDiffer DEF Undelivered
  <2>2. ~InFlight(p) /\ \A r \in Members(Stream) : r.i # p
    BY <2>1 DEF PromptInv
  <2>3. ~(Delivers /\ sending = p)
    <3>1. Delivers => pc' = "loop" /\ UNCHANGED <<sending, outcome>>
      BY DEF Delivers, DeliverChannel, DeliverStdin, locals
    <3> QED BY <1>2, <3>1, TextsDiffer DEF Undelivered, Before, PromptInv
  <2>4. ~InFlight(p)'
    BY <2>2, <2>3, TextMoves, TextsDiffer
  <2>5. ASSUME NEW r \in Members(Stream'), r.i = p, r \notin Members(Stream) PROVE FALSE
    <3>1. p # None /\ p \notin Steers
      BY TextsDiffer
    <3>2. /\ cc.inbox # <<>> => Head(cc.inbox) \in Members(cc.inbox)
          /\ cc.queue # <<>> => Head(cc.queue) \in Members(cc.queue)
      BY HeadsWait
    <3>3. /\ cc.inbox # <<>> => Head(cc.inbox) # p
          /\ cc.queue # <<>> => Head(cc.queue) # p
      BY <2>2, <3>2, TextsDiffer DEF InFlight, Waiting
    <3>4. cc.echo # p
      BY <2>2 DEF InFlight
    <3> QED BY <2>5, <3>1, <3>3, <3>4, NewTexts DEF Queues, Absorbs, Dequeues, FromInbox,
       FromQueue
  <2> QED BY <2>2, <2>4, <2>5
<1>3. PromptInv' <=>
        /\ sending' # None => outcome'[sending'] # "none"
        /\ \A p \in Prompts : Undelivered(p)' => ~InFlight(p)' /\ \A r \in Members(Stream') : r.i # p
  BY DEF PromptInv, Members
<1> QED BY <1>1, <1>2, <1>3

LEMMA LastWorks ==
  ASSUME TypeInv, PlaceInv, JournalInv, Works, NEW x \in Inputs, LastInput(x)
  PROVE  /\ LastInput(x)'
         /\ cc'.echo = x => cc.echo = x \/ Waiting' = {}
         /\ Absorbs /\ Head(cc.queue) = x => Waiting' = {}
<1>a. cc.inbox \in Seq(Inputs \cup {Escape}) /\ cc.queue \in Seq(Inputs)
  BY CCContents
<1>b. cc.inbox # <<>> =>
        /\ Members(cc.inbox) = Members(Tail(cc.inbox)) \cup {Head(cc.inbox)}
        /\ Latest(Tail(cc.inbox), x)
        /\ Head(cc.inbox) = x => Members(Tail(cc.inbox)) \subseteq {Escape}
  BY <1>a, TailTexts DEF LastInput
<1>w. Waiting' = (Members(cc'.queue) \cup Members(cc'.inbox)) \ {Escape}
      /\ x # Escape /\ x # None
  BY TextsDiffer DEF Waiting, Members
<1>o. LastInput(x)' <=>
        /\ Latest(cc'.inbox, x)
        /\ \A n \in DOMAIN cc'.queue : cc'.queue[n] = x =>
             n = Len(cc'.queue) /\ Members(cc'.inbox) \subseteq {Escape}
  BY DEF LastInput, Latest, Members
<1>1. CASE Opens
  <2>1. /\ cc.inbox # <<>> /\ cc'.inbox = Tail(cc.inbox) /\ cc.queue = <<>> /\ cc'.queue = <<>>
        /\ cc'.echo = Head(cc.inbox)
    BY <1>1 DEF Opens, FromInbox
  <2>2. LastInput(x)'
    BY <1>b, <1>o, <2>1
  <2>3. cc'.echo = x => Waiting' = {}
    BY <1>b, <1>w, <2>1, NoText
  <2>4. ~Absorbs
    BY <2>1 DEF Absorbs, FromQueue
  <2> QED BY <2>2, <2>3, <2>4
<1>2. CASE Echoes
  <2>1. LastInput(x)'
    BY <1>2, <1>o DEF Echoes, LastInput
  <2>2. cc'.echo = None /\ ~Absorbs
    BY <1>2 DEF Echoes, Absorbs
  <2> QED BY <1>w, <2>1, <2>2
<1>3. CASE Queues
  <2> DEFINE h == Head(cc.inbox)
  <2>1. h \in Inputs /\ h # Escape /\ h \in Members(cc.inbox) /\ cc.inbox # <<>>
        /\ cc'.inbox = Tail(cc.inbox) /\ cc'.queue = Append(cc.queue, h) /\ cc'.echo = None
    BY <1>3, <1>b, CCContents DEF Queues, FromInbox
  <2> HIDE DEF h
  <2>2. /\ Len(cc.queue) \in Nat /\ DOMAIN cc.queue = 1 .. Len(cc.queue)
        /\ DOMAIN cc'.queue = 1 .. Len(cc.queue) + 1 /\ Len(cc'.queue) = Len(cc.queue) + 1
        /\ \A i \in 1 .. Len(cc.queue) : cc'.queue[i] = cc.queue[i]
        /\ cc'.queue[Len(cc.queue) + 1] = h
    BY <1>a, <2>1, AppendProperties, LenProperties
  <2>3. \A i \in DOMAIN cc.queue : cc.queue[i] # x
    BY <2>1 DEF LastInput
  <2>4. \A n \in DOMAIN cc'.queue : cc'.queue[n] = x => n = Len(cc'.queue) /\ h = x
    BY <2>2, <2>3
  <2>5. ~Absorbs
    <3>1. Absorbs => cc'.inbox = cc.inbox /\ Len(cc'.inbox) = Len(cc.inbox)
      BY DEF Absorbs, FromQueue
    <3>2. Len(Tail(cc.inbox)) # Len(cc.inbox)
      BY <1>a, <2>1, HeadTailProperties, LenProperties
    <3> QED BY <2>1, <3>1, <3>2
  <2> QED BY <1>b, <1>o, <1>w, <2>1, <2>4, <2>5 DEF h
<1>4. CASE Absorbs \/ Dequeues
  <2>1. cc.queue # <<>> /\ cc'.queue = Tail(cc.queue) /\ cc'.inbox = cc.inbox
        /\ cc'.echo \in {None, Head(cc.queue)}
    BY <1>4 DEF Absorbs, Dequeues, FromQueue
  <2>2. /\ Head(cc.queue) = cc.queue[1] /\ Len(cc.queue) \in Nat \ {0}
        /\ DOMAIN cc.queue = 1 .. Len(cc.queue)
        /\ DOMAIN cc'.queue = 1 .. Len(cc.queue) - 1 /\ Len(cc'.queue) = Len(cc.queue) - 1
        /\ \A i \in 1 .. Len(cc.queue) - 1 : cc'.queue[i] = cc.queue[i + 1]
    BY <1>a, <2>1, HeadAndTail, HeadTailProperties
  <2>3. \A n \in DOMAIN cc'.queue : cc'.queue[n] = x =>
             n = Len(cc'.queue) /\ Members(cc'.inbox) \subseteq {Escape}
    <3>1. \A n \in DOMAIN cc'.queue : n + 1 \in DOMAIN cc.queue /\ cc'.queue[n] = cc.queue[n + 1]
      BY <2>2
    <3> QED BY <2>1, <2>2, <3>1 DEF LastInput
  <2>4. ASSUME Head(cc.queue) = x PROVE Waiting' = {}
    <3>0. 1 \in DOMAIN cc.queue /\ cc.queue[1] = x
      BY <2>2, <2>4
    <3>1. 1 = Len(cc.queue) /\ Members(cc.inbox) \subseteq {Escape}
      BY <3>0 DEF LastInput
    <3>2. Members(cc'.queue) = {}
      BY <2>2, <3>1 DEF Members
    <3> QED BY <1>w, <2>1, <3>1, <3>2
  <2>5. LastInput(x)'
    BY <1>o, <2>1, <2>3 DEF LastInput
  <2> QED BY <1>w, <2>1, <2>4, <2>5
<1>5. CASE Drops
  <2>1. LastInput(x)'
    BY <1>5, <1>b, <1>o DEF Drops, FromInbox, LastInput
  <2>2. ~Absorbs
    <3>1. Absorbs => cc'.inbox = cc.inbox /\ Len(cc'.inbox) = Len(cc.inbox)
      BY DEF Absorbs, FromQueue
    <3>2. Len(Tail(cc.inbox)) # Len(cc.inbox)
      BY <1>5, <1>a, HeadTailProperties, LenProperties DEF Drops, FromInbox
    <3> QED BY <1>5, <3>1, <3>2 DEF Drops, FromInbox
  <2> QED BY <1>5, <2>1, <2>2 DEF Drops
<1> QED BY <1>1, <1>2, <1>3, <1>4, <1>5, WorkSteps

LEMMA OtherTexts ==
  ASSUME "child" \notin Env, TypeInv, FenceInv, TurnInv, PlaceInv, [Next]_vars, ~Works,
         NEW r \in Members(Stream'), r \notin Members(Stream)
  PROVE  r.i = None \/ \E s \in Steers : CCForeign(s) /\ r.i = s
<1>a. Stream \in Seq(Record)
  BY StreamTyped
<1>1. ASSUME NEW k, NEW i, Records(k, i) PROVE r.i = i
  <2>1. PICK x \in Record : x.k = k /\ x.i = i /\ Stream' = Append(Stream, x)
    BY <1>1 DEF Records
  <2>2. Members(Stream') = Members(Stream) \cup {x}
    BY <1>a, <2>1, MembersAppend
  <2> QED BY <2>1, <2>2
<1>2. ASSUME NEW s \in Steers, NEW e \in Record, NEW m \in Record,
             e.i = s, m.i = s, Stream' = Append(Append(Stream, e), m)
      PROVE  r.i = s
  <2>1. Append(Stream, e) \in Seq(Record)
    BY <1>a
  <2>2. Members(Stream') = Members(Stream) \cup {e} \cup {m}
    BY <1>a, <1>2, <2>1, MembersAppend
  <2> QED BY <1>2, <2>2
<1> QED BY <1>1, <1>2, NewRecords

(* The rounds of a prompt that has not been seen to run: either it is being
   delivered, or the record that starts its turn is scanned now. *)
StartsNow == ScanCase /\ Rec.k \in {"echo", "rem"} /\ Rec.i = sending
LEMMA PollMoves ==
  ASSUME TypeInv, TurnInv, FreshInv, [Next]_vars, Polling', ~fg'.started
  PROVE  \/ DeliverChannel \/ DeliverStdin
         \/ /\ Polling /\ ~fg.started /\ sending' = sending
            /\ InBatch' /\ scan'.started => (InBatch /\ scan.started) \/ StartsNow
<1>1. CASE SideSteps
  <2>1. UNCHANGED <<pc, fg, scan, sending>>
    BY <1>1, SideFields
  <2> QED BY <2>1 DEF Polling, InBatch
<1>2. CASE Send
  BY <1>2 DEF Send, Own, CheckAlive, CheckRefused, ResumeBegin, ResumeDone,
     ResumeFailed, Backlog, DeliverFailed, Exit, Finish, Polling
<1>3. CASE ScanCase
  <2>1. pc = "scan" /\ fg'.started = fg.started /\ sending' = sending
        /\ (scan'.started => scan.started \/ (Rec.k \in {"echo", "rem"} /\ Rec.i = sending))
    BY <1>3, ScanFields
  <2> QED BY <1>3, <2>1 DEF Polling, InBatch, StartsNow
<1>4. CASE ScanEnd
  <2>1. pc = "scan" /\ fg'.started = fg.started /\ sending' = sending
        /\ scan'.started = scan.started
    BY <1>4, EndFields
  <2> QED BY <2>1 DEF Polling, InBatch
<1>5. CASE Read
  <2>1. fg \in FgType /\ pc = "poll" /\ sending' = sending /\ scan'.started = fg.started
        /\ fg' = [fg EXCEPT !.hadMsgs = @ \/ prefetched \o unread # <<>>]
    BY <1>5 DEF Read, ScanInit, TypeInv, TypeOK, TypeSend
  <2>2. fg'.started = fg.started
    BY <2>1 DEF FgType
  <2> QED BY <2>1, <2>2 DEF Polling
<1>6. CASE Emit
  <2>1. fg \in FgType /\ pc = "emit" /\ sending' = sending /\ scan' = scan
        /\ fg' = [fg EXCEPT !.started = scan.started, !.confirm = @ /\ ~scan.started]
    BY <1>6 DEF Emit, TypeInv, TypeOK, TypeSend
  <2>2. fg'.started = scan.started
    BY <2>1 DEF FgType
  <2> QED BY <2>1, <2>2 DEF Polling, InBatch, FreshInv
<1>7. CASE LoopCrash \/ LoopPoll \/ LoopTimeout \/ HostCancel \/ Decide \/ DecideResend
           \/ FinallyDetach
  <2>1. SameTurn /\ sending' = sending /\ Polling /\ (InBatch' => InBatch /\ scan' = scan)
    BY <1>7, LaterFields DEF Polling, InBatch
  <2> QED BY <2>1 DEF SameTurn
<1>8. CASE FinallyReap \/ Enter
  BY <1>8 DEF FinallyReap, Enter, CancelOwn, Acquire, Polling
<1> QED BY <1>1, <1>2, <1>3, <1>4, <1>5, <1>6, <1>7, <1>8, AllSteps

LEMMA LastDelivered ==
  ASSUME TypeInv, TurnInv, PlaceInv, PromptInv, DeliverChannel \/ DeliverStdin
  PROVE  LastInv'
<1>1. pc = "deliver" /\ pc' = "loop" /\ sending' = sending /\ sending \in Prompts
      /\ sending \in Inputs \cup {Escape}
  BY TextsDiffer DEF DeliverChannel, DeliverStdin, TypeInv
<1>2. ~InFlight(sending) /\ \A r \in Members(Stream) : r.i # sending
  BY <1>1 DEF PromptInv, Undelivered, Before
<1>3. cc.inbox \in Seq(Inputs \cup {Escape}) /\ cc.queue \in Seq(Inputs)
  BY CCContents
<1>4. Stream' = Stream
  BY StreamStays
<1>5. Arrives(sending) \/ Keeps
  BY InputAppended DEF DeliverChannel, DeliverStdin, Keeps
<1>6. sending \notin Members(cc.inbox) /\ sending \notin Members(cc.queue) /\ cc.echo # sending
  BY <1>1, <1>2, TextsDiffer DEF InFlight, Waiting
<1>7. Latest(cc'.inbox, sending)
  <2>1. CASE Arrives(sending)
    BY <1>1, <1>3, <1>6, <2>1, AppendedText DEF Arrives
  <2>2. CASE Keeps
    BY <1>6, <2>2 DEF Keeps, Latest, Members
  <2> QED BY <1>5, <2>1, <2>2
<1>8. cc'.queue = cc.queue /\ cc'.echo = cc.echo
  BY <1>5 DEF Arrives, Keeps
<1>9. LastInput(sending)'
  BY <1>1, <1>6, <1>7, <1>8 DEF LastInput, Latest, Members
<1>10. ~Reached'
  BY <1>1, <1>2, <1>4, <1>6, <1>8 DEF Reached, InBatch, Members
<1> QED BY <1>9, <1>10 DEF LastInv

LEMMA LastStep ==
  ASSUME "child" \notin Env, "resend" \notin Env, TypeInv, FenceInv, TurnInv, PlaceInv,
         JournalInv, FreshInv, ProcInv, PromptInv, LastInv, [Next]_vars
  PROVE  LastInv'
<1> SUFFICES ASSUME Polling', ~fg'.started, ~DeliverChannel, ~DeliverStdin
             PROVE  LastInput(sending)' /\ (Reached' => Waiting' = {})
  BY LastDelivered DEF LastInv
<1>1. /\ Polling /\ ~fg.started /\ sending' = sending
      /\ InBatch' /\ scan'.started => (InBatch /\ scan.started) \/ StartsNow
  BY PollMoves
<1>2. sending \in Prompts /\ sending \in Inputs /\ sending # None /\ sending # Escape
      /\ sending \notin Steers
  BY <1>1, TextsDiffer DEF Polling, TypeInv
<1>3. LastInput(sending) /\ (Reached => Waiting = {})
  BY <1>1 DEF LastInv
<1>4. StartsNow => Reached
  <2>1. ASSUME ScanCase PROVE Rec \in Members(Stream)
    <3>1. Stream # <<>> /\ Rec = Head(Stream)
      BY <2>1, StreamScanned
    <3>2. Stream \in Seq(Record)
      BY StreamTyped
    <3> QED BY <3>1, <3>2, MembersTail
  <2> QED BY <2>1 DEF StartsNow, Reached
<1>5. Reached' => \/ Reached
                  \/ cc'.echo = sending
                  \/ \E r \in Members(Stream') : /\ r \notin Members(Stream)
                                                 /\ r.k \in {"echo", "rem"} /\ r.i = sending
  BY <1>1, <1>4 DEF Reached, Members
<1>o. LastInput(sending)' <=>
        /\ Latest(cc'.inbox, sending)
        /\ \A n \in DOMAIN cc'.queue : cc'.queue[n] = sending =>
             n = Len(cc'.queue) /\ Members(cc'.inbox) \subseteq {Escape}
  BY <1>1 DEF LastInput, Latest, Members
<1>6. CASE Works
  <2>1. /\ LET x == sending IN
           /\ Latest(cc'.inbox, x)
           /\ \A n \in DOMAIN cc'.queue : cc'.queue[n] = x =>
                n = Len(cc'.queue) /\ Members(cc'.inbox) \subseteq {Escape}
        /\ cc'.echo = sending => cc.echo = sending \/ Waiting' = {}
        /\ Absorbs /\ Head(cc.queue) = sending => Waiting' = {}
    <3>1. ASSUME NEW x \in Inputs, LastInput(x)
          PROVE  /\ Latest(cc'.inbox, x)
                 /\ \A n \in DOMAIN cc'.queue : cc'.queue[n] = x =>
                      n = Len(cc'.queue) /\ Members(cc'.inbox) \subseteq {Escape}
                 /\ cc'.echo = x => cc.echo = x \/ Waiting' = {}
                 /\ Absorbs /\ Head(cc.queue) = x => Waiting' = {}
      <4>1. LastInput(x)' /\ (cc'.echo = x => cc.echo = x \/ Waiting' = {})
            /\ (Absorbs /\ Head(cc.queue) = x => Waiting' = {})
        BY <1>6, <3>1, LastWorks
      <4>2. LastInput(x)' <=>
              /\ Latest(cc'.inbox, x)
              /\ \A n \in DOMAIN cc'.queue : cc'.queue[n] = x =>
                   n = Len(cc'.queue) /\ Members(cc'.inbox) \subseteq {Escape}
        BY DEF LastInput, Latest, Members
      <4> QED BY <4>1, <4>2
    <3> QED BY <1>2, <1>3, <3>1
  <2>2. Waiting = {} => Waiting' = {}
    BY <1>6, WorksLess
  <2>3. ASSUME NEW r \in Members(Stream'), r \notin Members(Stream), r.k \in {"echo", "rem"},
               r.i = sending
        PROVE  (Echoes /\ cc.echo = sending) \/ (Absorbs /\ Head(cc.queue) = sending)
    BY <1>2, <2>3, NewTexts
  <2>4. cc.echo = sending => Reached
    BY DEF Reached
  <2> QED BY <1>3, <1>5, <1>o, <2>1, <2>2, <2>3, <2>4
<1>7. CASE ~Works
  <2>1. \A r \in Members(Stream') : r \notin Members(Stream) => r.i # sending
    BY <1>2, <1>7, OtherTexts
  <2>2. ASSUME NEW s \in Steers, Writes(s) PROVE FALSE
    <3>1. spc[s] = "write"
      BY <2>2 DEF Writes, SteerWritten, SteerWriteFailed
    <3>2. unsettled = process /\ process # NoProc
      BY <3>1, WrittenTo DEF TypeInv, TypeOK, TypeLife, Procs, NoProc
    <3> QED BY <1>1, <3>2 DEF FreshInv
  <2>3. CASE Keeps
    BY <1>3, <1>5, <1>o, <2>1, <2>3 DEF Keeps, LastInput, Reached, Waiting, Members
  <2>4. CASE Loses
    BY <1>o, <2>4, NoText DEF Loses, Waiting, Members
  <2>5. CASE Escapes
    <3>1. cc.inbox \in Seq(Inputs \cup {Escape})
      BY CCContents
    <3>2. Arrives(Escape)
      BY <2>5 DEF Escapes
    <3>3. Latest(cc'.inbox, sending) /\ Members(cc'.inbox) = Members(cc.inbox) \cup {Escape}
      BY <1>3, <3>1, <3>2, AppendedText DEF Arrives, LastInput
    <3>4. Waiting' = Waiting \ {Escape} /\ cc'.echo = cc.echo
      BY <3>2, Arrival DEF Waiting
    <3>5. cc'.queue = cc.queue
      BY <3>2 DEF Arrives
    <3>6. LastInput(sending)'
      BY <1>3, <1>o, <3>3, <3>5 DEF LastInput
    <3> QED BY <1>3, <1>5, <2>1, <3>4, <3>6 DEF Reached
  <2> QED BY <1>7, <2>2, <2>3, <2>4, <2>5, InputSteps DEF Delivers
<1> QED BY <1>6, <1>7

(* What waits behind a steer.  While one is followed nothing waits, while one is
   open only that one does, and nothing waits when a turn can be steered, so that the
   next one that Claude Code takes is that steer.  A record that can route the open
   steer is the steer's own, and leaves nothing to wait. *)
FollowWaits == fg.followup # None => Waiting = {}
OpenWaits   == pending # None => Waiting \subseteq {pending}
ActiveWaits == active # NoProc /\ unsettled = NoProc => Waiting = {}
FenceHeld   == unsettled # NoProc /\ pending = None => fg.followup # None
RouteInv ==
    pending # None /\ fg.followup = None =>
        \A r \in Late(Stream, pending, receipt[pending].prewrite, receipt[pending].enqueued) :
            r.i = pending /\ Waiting = {} /\ (r.k = "rem" => cc.echo # pending)
WaitInv == FollowWaits /\ OpenWaits /\ ActiveWaits /\ FenceHeld /\ RouteInv

LEMMA WaitLess ==
  ASSUME "child" \notin Env, "resend" \notin Env, TypeInv, PlaceInv, JournalInv, [Next]_vars,
         ~Delivers, ~\E s \in Steers : Writes(s)
  PROVE  Waiting' \subseteq Waiting /\ cc'.echo \in {cc.echo, None} \cup Waiting
<1>1. CASE Keeps
  BY <1>1 DEF Keeps, Waiting, Members
<1>2. CASE Loses
  BY <1>2, NoText DEF Loses, Waiting, Members
<1>3. CASE Escapes
  BY <1>3, Arrival DEF Escapes, Waiting
<1>4. CASE Works
  BY <1>4, WorksLess
<1> QED BY <1>1, <1>2, <1>3, <1>4, InputSteps

LEMMA FollowupStays ==
  ASSUME TypeInv, TurnInv, FreshInv, [Next]_vars, unsettled # NoProc, ~ScanCase
  PROVE  fg'.followup = fg.followup /\ fg'.followStarted = fg.followStarted
<1>1. CASE SideSteps
  BY <1>1, SideFields
<1>2. CASE ScanEnd
  BY <1>2, EndFields
<1>3. CASE LoopCrash \/ LoopPoll \/ LoopTimeout \/ HostCancel \/ Decide \/ DecideResend
           \/ FinallyDetach
  BY <1>3, LaterFields DEF SameTurn
<1>4. CASE Read \/ Emit
  <2>1. fg \in FgType
    BY DEF TypeInv, TypeOK, TypeSend
  <2> QED BY <1>4, <2>1 DEF Read, Emit, FgType
<1>5. CASE FinallyReap
  BY <1>5 DEF FinallyReap, TurnInv, UnsettledInv, InRounds
<1>6. CASE Send \/ Enter
  BY <1>6, BeforeFields DEF FreshInv
<1> QED BY <1>1, <1>2, <1>3, <1>4, <1>5, <1>6, AllSteps

(* The scan finds that the open steer is routed. *)
LEMMA RouteFound ==
  ASSUME TypeInv, PlaceInv, FollowInv, RouteInv, Routes, Scanning({"rem", "deq"})
  PROVE  /\ Waiting = {} /\ fg.followup = None /\ Rec.i = pending
         /\ Rec.k = "rem" => cc.echo # pending
<1>1. pc = "scan" /\ Batch # <<>> /\ Rec.k \in {"rem", "deq"}
  BY DEF Scanning, Batch
<1>2. pending # None /\ receipt[pending].enqueued
  BY DEF Routes
<1>3. fg.followup = None
  BY <1>1, <1>2 DEF FollowInv
<1>4. Stream \in Seq(Record) /\ Stream # <<>> /\ Head(Stream) = Rec
  <2>1. /\ Batch \in Seq(Record) /\ prefetched \o unread \in Seq(Record)
        /\ Stream = Batch \o (prefetched \o unread) /\ Stream \in Seq(Record)
    BY StreamTyped
  <2> QED BY <1>1, <2>1, JoinedTail DEF Rec, Batch
<1>5. Rec \in Late(Stream, pending, receipt[pending].prewrite, receipt[pending].enqueued)
  <2>1. receipt[pending].enqueued = TRUE
    BY <1>2
  <2>2. Rec \in Late(Stream, pending, receipt[pending].prewrite, TRUE)
    BY <1>1, <1>4, LateTail
  <2> QED BY <2>1, <2>2
<1> QED BY <1>2, <1>3, <1>5 DEF RouteInv

LEMMA FollowWaitsStep ==
  ASSUME "child" \notin Env, "resend" \notin Env, TypeInv, TurnInv, FenceInv, PlaceInv,
         JournalInv, FreshInv, FollowInv, ProcInv, WaitInv, [Next]_vars
  PROVE  FollowWaits'
<1> SUFFICES ASSUME fg'.followup # None PROVE Waiting' = {}
  BY DEF FollowWaits, Waiting, Members
<1>1. CASE fg'.followup = fg.followup /\ ~Before
  <2>1. Waiting = {}
    BY <1>1 DEF WaitInv, FollowWaits
  <2>2. ~Delivers
    BY <1>1 DEF Delivers, DeliverChannel, DeliverStdin, Before
  <2>3. ~\E s \in Steers : Writes(s)
    BY <1>1 DEF Writes, SteerWritten, SteerWriteFailed, ProcInv, WriteInv
  <2> QED BY <2>1, <2>2, <2>3, WaitLess
<1>2. CASE ScanCase
  <2>1. pc = "scan" /\ cc' = cc /\ (Follows \/ fg'.followup = fg.followup)
    BY <1>2, ScanFields
  <2>2. Waiting' = Waiting
    BY <2>1 DEF Waiting, Members
  <2>3. CASE Follows
    <3>1. Routes /\ pending' = None /\ pending # None
      BY <2>3 DEF Follows, Routes
    <3>2. Scanning({"rem", "deq"})
      BY <1>2, <3>1 DEF ScanCase, ScanEcho, ScanEnqueue, ScanRoute, ScanTerminal,
         ScanForeignTerminal, ScanFailure, turnSt
    <3> QED BY <2>2, <3>1, <3>2, RouteFound DEF WaitInv
  <2>4. CASE fg'.followup = fg.followup
    BY <2>2, <2>4 DEF WaitInv, FollowWaits
  <2> QED BY <2>1, <2>3, <2>4
<1> QED BY <1>1, <1>2, FollowupMoves

(* Who opens a steer. *)
LEMMA PendingMoves ==
  ASSUME TypeInv, [Next]_vars
  PROVE  \/ pending' \in {pending, None}
         \/ \E s \in Steers : SteerAdmit(s) /\ pending' = s
         \/ ScanEnd /\ pending = None /\ pending' = scan.enq /\ unsettled # NoProc
<1>1. CASE ScanEnd
  BY <1>1 DEF ScanEnd, Reattaches, FailedSteer
<1>2. CASE FinallyDetach \/ InterruptDetach \/ StopLock
  BY <1>2 DEF FinallyDetach, InterruptDetach, StopLock, Detach
<1>3. CASE ScanCase
  BY <1>3, ScanFields
<1>4. ASSUME NEW s \in Steers, SteerAdmit(s) \/ SteerFailClosed(s)
      PROVE  pending' \in {pending, None} \/ (SteerAdmit(s) /\ pending' = s)
  BY <1>4 DEF SteerAdmit, SteerFailClosed
<1> QED BY <1>1, <1>2, <1>3, <1>4, HoldMoves

LEMMA WrittenWaits ==
  ASSUME TypeInv, TurnInv, FenceInv, PlaceInv, ProcInv, NEW s \in Steers, Writes(s)
  PROVE  /\ pending = s /\ fg.followup = None /\ unsettled = process /\ process # NoProc
         /\ UNCHANGED <<pending, unsettled, active, fg, receipt>> /\ Stream' = Stream
         /\ Waiting' = Waiting \cup {s} /\ spc[s] = "write"
<1>1. spc[s] = "write"
  BY DEF Writes, SteerWritten, SteerWriteFailed
<1>2. UNCHANGED <<pending, unsettled, active, fg, receipt>>
  BY DEF Writes, SteerWritten, SteerWriteFailed, SteerFrame, turnSt, locals
<1>3. Stream' = Stream
  BY StreamSteered DEF Writes, Steer
<1>4. Waiting' = (Waiting \cup {s}) \ {Escape} /\ s # Escape /\ Escape \notin Waiting
  BY Arrival, TextsDiffer DEF Writes, Waiting
<1>5. process # NoProc
  BY DEF TypeInv, TypeOK, TypeLife, Procs, NoProc
<1> QED BY <1>1, <1>2, <1>3, <1>4, <1>5, WrittenTo

LEMMA DeliveredAlone ==
  ASSUME TypeInv, TurnInv, FreshInv, Delivers
  PROVE  fg'.followup = None /\ active' = NoProc /\ unsettled' = NoProc /\ pending' = None
<1>1. fg'.followup = None /\ active' = NoProc /\ unsettled' = NoProc
  BY BeforeFields DEF Delivers, Send
<1>2. pending' = pending /\ unsettled' = unsettled
  BY DEF Delivers, DeliverChannel, DeliverStdin, lockSt, turnSt
<1> QED BY <1>1, <1>2 DEF TurnInv, PendingInv

LEMMA OpenWaitsStep ==
  ASSUME "child" \notin Env, "resend" \notin Env, TypeInv, TurnInv, FenceInv, PlaceInv,
         JournalInv, FreshInv, ProcInv, WaitInv, [Next]_vars
  PROVE  OpenWaits'
<1> SUFFICES ASSUME pending' # None PROVE Waiting' \subseteq {pending'}
  BY DEF OpenWaits, Waiting, Members
<1>1. CASE \E s \in Steers : Writes(s)
  BY <1>1, WrittenWaits DEF WaitInv, OpenWaits
<1>2. CASE ~\E s \in Steers : Writes(s)
  <2>1. Waiting' \subseteq Waiting
    BY <1>2, DeliveredAlone, WaitLess
  <2>2. ASSUME NEW s \in Steers, SteerAdmit(s) PROVE Waiting = {}
    BY <2>2 DEF SteerAdmit, Admissible, WaitInv, ActiveWaits
  <2>3. CASE ScanEnd /\ pending = None /\ unsettled # NoProc
    BY <2>1, <2>3 DEF WaitInv, FenceHeld, FollowWaits
  <2> QED BY <2>1, <2>2, <2>3, PendingMoves DEF WaitInv, OpenWaits
<1> QED BY <1>1, <1>2

LEMMA ActiveWaitsStep ==
  ASSUME "child" \notin Env, "resend" \notin Env, TypeInv, TurnInv, FenceInv, PlaceInv,
         JournalInv, FreshInv, FollowInv, ProcInv, LastInv, WaitInv, [Next]_vars
  PROVE  ActiveWaits'
<1> SUFFICES ASSUME active' # NoProc, unsettled' = NoProc PROVE Waiting' = {}
  BY DEF ActiveWaits, Waiting, Members
<1>1. ~Delivers /\ ~\E s \in Steers : Writes(s)
  BY WrittenWaits, DeliveredAlone
<1>2. Waiting' \subseteq Waiting
  BY <1>1, WaitLess
<1>3. CASE active' = active /\ unsettled = NoProc
  BY <1>2, <1>3 DEF WaitInv, ActiveWaits
<1>4. CASE Emit
  <2>1. CASE Activates
    <3>1. pc = "emit" /\ scan.started /\ ~fg.started
      BY <1>4, <2>1 DEF Emit, Activates
    <3> QED BY <1>2, <3>1 DEF LastInv, Polling, Reached, InBatch
  <2>2. CASE ~Activates
    BY <1>3, <1>4, <2>2 DEF Emit
  <2> QED BY <2>1, <2>2
<1>5. CASE ScanCase
  <2>1. CASE fg.followup # None
    BY <1>2, <2>1 DEF WaitInv, FollowWaits
  <2>2. CASE Scanning({"rem", "deq"}) /\ Routes
    BY <1>2, <2>2, RouteFound DEF WaitInv
  <2>3. CASE fg.followup = None /\ ~(Scanning({"rem", "deq"}) /\ Routes)
    <3>1. active' = active /\ unsettled' = unsettled
      BY <1>5, <2>3 DEF ScanCase, ScanEcho, ScanEnqueue, ScanRoute, ScanTerminal,
         ScanForeignTerminal, ScanFailure, turnSt
    <3> QED BY <1>3, <3>1
  <2> QED BY <2>1, <2>2, <2>3
<1>6. CASE ScanEnd
  BY <1>3, <1>6 DEF ScanEnd
<1>7. CASE FinallyDetach \/ InterruptDetach \/ StopLock
  BY <1>3, <1>7 DEF FinallyDetach, InterruptDetach, StopLock, Detach
<1>8. ASSUME NEW s \in Steers, SteerAdmit(s) PROVE FALSE
  <2>1. unsettled' = process /\ process # NoProc
    BY <1>8 DEF SteerAdmit, TypeInv, TypeOK, TypeLife, Procs, NoProc
  <2> QED BY <2>1
<1>9. ASSUME NEW s \in Steers, SteerFailClosed(s) PROVE Waiting' = {}
  <2>1. active # receipt[s].proc /\ active' = active
    BY <1>9 DEF SteerFailClosed
  <2>2. unsettled' = IF unsettled = receipt[s].proc THEN NoProc ELSE unsettled
    BY <1>9 DEF SteerFailClosed
  <2>3. unsettled = NoProc
    BY <2>1, <2>2 DEF TurnInv, ActiveInv, UnsettledInv
  <2> QED BY <1>3, <2>1, <2>3
<1> QED BY <1>3, <1>4, <1>5, <1>6, <1>7, <1>8, <1>9, HoldMoves

LEMMA FenceHeldStep ==
  ASSUME TypeInv, TurnInv, FenceInv, FreshInv, WaitInv, [Next]_vars
  PROVE  FenceHeld'
<1> SUFFICES ASSUME unsettled' # NoProc, pending' = None PROVE fg'.followup # None
  BY DEF FenceHeld
<1>1. CASE ScanCase
  <2>1. /\ pending' \in {pending, None} /\ (unsettled' = unsettled \/ unsettled' = NoProc)
        /\ (Follows \/ fg'.followup = fg.followup)
    BY <1>1, ScanFields
  <2>2. CASE pending = None
    BY <2>1, <2>2 DEF WaitInv, FenceHeld, Follows, Routes
  <2>3. CASE pending # None
    <3>1. unsettled = receipt[pending].proc
      BY <2>3 DEF FenceInv, SteerFence, OpenIsFenced
    <3>2. Routes /\ (fg'.followup = pending \/ unsettled' = NoProc)
      <4>1. fg \in FgType
        BY DEF TypeInv, TypeOK, TypeSend
      <4>2. ScanRoute /\ Routes
        BY <1>1, <2>3 DEF ScanCase, ScanEcho, ScanEnqueue, ScanRoute, ScanTerminal,
           ScanForeignTerminal, ScanFailure, turnSt
      <4>3. \/ fg' = [fg EXCEPT !.followup = pending, !.followStarted = FALSE]
            \/ unsettled' = NoProc
        BY <3>1, <4>2 DEF ScanRoute
      <4> QED BY <4>1, <4>2, <4>3 DEF FgType
    <3> QED BY <2>3, <3>2
  <2> QED BY <2>2, <2>3
<1>2. CASE ~ScanCase
  <2>1. ASSUME unsettled # NoProc, pending = None PROVE fg'.followup # None
    BY <1>2, <2>1, FollowupStays DEF WaitInv, FenceHeld
  <2>2. CASE ScanEnd
    <3>1. CASE Releases /\ unsettled' = IF unsettled = receipt[scan.unc].proc
                          THEN NoProc ELSE unsettled
      <4>1. pending # None /\ pending = scan.unc
        BY <3>1 DEF Releases
      <4> QED BY <3>1, <4>1 DEF FenceInv, SteerFence, OpenIsFenced
    <3>2. CASE unsettled' = unsettled /\ (pending' = pending \/ (Reattaches /\ pending' = FailedSteer))
      BY <2>1, <3>2 DEF Reattaches
    <3> QED BY <2>2, <3>1, <3>2 DEF ScanEnd
  <2>3. CASE FinallyDetach \/ InterruptDetach \/ StopLock
    BY <2>1, <2>3 DEF FinallyDetach, InterruptDetach, StopLock, Detach
  <2>4. ASSUME NEW s \in Steers, SteerAdmit(s) PROVE FALSE
    BY <2>4, TextsDiffer DEF SteerAdmit
  <2>5. ASSUME NEW s \in Steers, SteerFailClosed(s) PROVE FALSE
    <3>1. Busy(s) /\ unsettled' = IF unsettled = receipt[s].proc THEN NoProc ELSE unsettled
      BY <2>5 DEF SteerFailClosed, Busy
    <3>2. unsettled \in {NoProc, receipt[s].proc}
      BY <3>1 DEF TurnInv, AdmittedInv
    <3> QED BY <3>1, <3>2
  <2> QED BY <1>2, <2>1, <2>2, <2>3, <2>4, <2>5, HoldMoves
<1> QED BY <1>1, <1>2

LEMMA LateSuffix ==
  ASSUME NEW a \in Seq(Record), NEW b \in Seq(Record), NEW s, NEW P, NEW e \in BOOLEAN
  PROVE  Late(b, s, P, e) \subseteq Late(a \o b, s, P, e)
<1> DEFINE q == a \o b
<1>1. /\ Len(a) \in Nat /\ Len(b) \in Nat /\ DOMAIN b = 1 .. Len(b)
      /\ DOMAIN q = 1 .. Len(a) + Len(b)
      /\ \A i \in 1 .. Len(a) + Len(b) : q[i] = IF i <= Len(a) THEN a[i] ELSE b[i - Len(a)]
  BY Joined, LenProperties
<1> HIDE DEF q
<1>2. \A i \in DOMAIN b : /\ i + Len(a) \in DOMAIN q /\ q[i + Len(a)] = b[i]
                          /\ \A j \in DOMAIN b : j < i => j + Len(a) < i + Len(a)
  BY <1>1
<1>3. ASSUME NEW r \in Late(b, s, P, e) PROVE r \in Late(q, s, P, e)
  <2>1. PICK m \in DOMAIN b : /\ r = b[m] /\ b[m].k \in {"rem", "deq"}
                              /\ e \/ \E n \in DOMAIN b : n < m /\ OwnEnqueueOf(b[n], s, P)
    BY DEF Late
  <2>2. e \/ \E n \in DOMAIN q : n < m + Len(a) /\ OwnEnqueueOf(q[n], s, P)
    BY <1>2, <2>1
  <2>3. m + Len(a) \in DOMAIN q /\ r = q[m + Len(a)]
    BY <1>2, <2>1
  <2> QED BY <2>1, <2>2, <2>3 DEF Late
<1> QED BY <1>3 DEF q

(* The records that can route the open steer: a new one is the record of the steer
   that Claude Code takes from its queue. *)
LEMMA LateMoves ==
  ASSUME "child" \notin Env, TypeInv, FenceInv, TurnInv, PlaceInv, JournalInv, OwnEnqueue,
         [Next]_vars, pending # None, NEW P, NEW e \in BOOLEAN,
         NEW r \in Late(Stream', pending, P, e)
  PROVE  \/ r \in Late(Stream, pending, P, e)
         \/ /\ Absorbs \/ Dequeues
            /\ r.i = Head(cc.queue) /\ (r.k = "rem" => Absorbs)
<1>a. Stream \in Seq(Record) /\ prefetched \in Seq(Record) /\ unread \in Seq(Record)
  BY StreamTyped
<1>1. CASE Stream' = Stream
  BY <1>1
<1>2. ASSUME NEW k, NEW i, Records(k, i)
      PROVE  r \in Late(Stream, pending, P, e) \/ (k \in {"rem", "deq"} /\ r.k = k /\ r.i = i)
  <2>1. PICK x \in Record : x.k = k /\ x.i = i /\ Stream' = Append(Stream, x)
    BY <1>2 DEF Records
  <2>2. r \in Late(Append(Stream, x), pending, P, e)
    BY <2>1
  <2> QED BY <1>a, <2>1, <2>2, LateAppend
<1>3. CASE Works
  BY <1>1, <1>2, <1>3, WorkSteps DEF Opens, Echoes, Queues, Absorbs, Dequeues, Drops
<1>4. CASE CCEndTurn \/ CCFailTurn
  <2>1. PICK k \in {"dur", "err", "lim"} : Journal(k, None, cc.turn) /\ CCRuns
    BY <1>4 DEF CCEndTurn, CCFailTurn, CloseTurn
  <2> DEFINE x == [k |-> k, i |-> None, id |-> nrec + 1, t |-> cc.turn]
  <2>2. Stream' = Append(Stream, x) /\ x \in Record
    BY <2>1, CCContents, StreamWritten
  <2>3. Records(k, None)
    BY <2>2 DEF Records
  <2> QED BY <1>2, <2>3
<1>5. CASE CCBanner \/ CCDie
  <2>1. CCRuns /\ Silent
    BY <1>5 DEF CCBanner, CCDie
  <2> QED BY <1>1, <2>1, StreamSilent
<1>6. ~CCNotify
  BY DEF CCNotify
<1>7. ASSUME NEW s \in Steers, CCForeign(s) PROVE FALSE
  <2>1. pending \in Steers
    BY DEF TypeInv, TypeOK, TypeLock, SteerOrNone
  <2>2. spc[pending] \in {"idle", "called"}
    BY <1>7, <2>1 DEF CCForeign
  <2> QED BY <2>2 DEF OwnEnqueue
<1>8. CASE ~CCSteps /\ ~\E s \in Steers : CCForeign(s)
  <2>1. CASE Stream' = <<>>
    BY <2>1 DEF Late
  <2>2. CASE Stream # <<>> /\ Stream' = Tail(Stream)
    BY <1>a, <2>2, LateTail
  <2>3. CASE Stream = prefetched \o unread /\ Stream' = unread
    <3>1. Late(unread, pending, P, e) \subseteq Late(prefetched \o unread, pending, P, e)
      BY <1>a, LateSuffix
    <3> QED BY <2>3, <3>1
  <2> QED BY <1>1, <1>8, <2>1, <2>2, <2>3, StreamShrinks
<1> QED BY <1>3, <1>4, <1>5, <1>6, <1>7, <1>8 DEF CCSteps, ClaudeStep, Works

(* Nothing can route a steer that Claude Code has not queued. *)
LEMMA NothingLate ==
  ASSUME NEW s, NEW q, NEW P,
         \A r \in Members(q) : r.k = "enq" /\ r.i = s => r.id \in P
  PROVE  Late(q, s, P, FALSE) = {}
BY LateNone DEF OwnEnqueueOf

LEMMA RouteStep ==
  ASSUME "child" \notin Env, "resend" \notin Env, TypeInv, TypeInv', TurnInv, FenceInv,
         PlaceInv, JournalInv, OwnEnqueue, OwnEnqueue', FreshInv, FollowInv, ProcInv, OnceInv,
         WaitInv, [Next]_vars
  PROVE  RouteInv'
<1>o. RouteInv' <=>
        (pending' # None /\ fg'.followup = None =>
          \A r \in Late(Stream', pending', receipt'[pending'].prewrite, receipt'[pending'].enqueued) :
            r.i = pending' /\ Waiting' = {} /\ (r.k = "rem" => cc'.echo # pending'))
  BY DEF RouteInv, Late, OwnEnqueueOf, Waiting, Members
<1> SUFFICES ASSUME pending' # None, fg'.followup = None,
                    NEW r \in Late(Stream', pending', receipt'[pending'].prewrite,
                                   receipt'[pending'].enqueued)
             PROVE  r.i = pending' /\ Waiting' = {} /\ (r.k = "rem" => cc'.echo # pending')
  BY <1>o
<1>a. /\ pending \in SteerOrNone /\ receipt \in [Steers -> ReceiptType]
      /\ pending' \in Steers
  BY DEF TypeInv, TypeOK, TypeLock, TypeSteer, SteerOrNone
<1>e. /\ pending # None =>
           pending \in journaled \/ (\A x \in Members(Stream) : EarlierCopy(x, pending))
      /\ pending' \in journaled' \/
           (\A x \in Members(Stream') : x.k = "enq" /\ x.i = pending' =>
                                           x.id \in receipt'[pending'].prewrite)
  BY DEF OwnEnqueue, EarlierCopy, Members
<1>1. ASSUME NEW s \in Steers, SteerAdmit(s) PROVE FALSE
  <2>1. pending' = s /\ journaled' = journaled /\ spc[s] = "called"
    BY <1>1 DEF SteerAdmit, SteerMayEnter
  <2>2. receipt'[s].enqueued = receipt[s].enqueued
    BY <1>1, OwnFields DEF OwnStep
  <2>3. ~receipt[s].enqueued /\ s \notin journaled
    BY <2>1 DEF OnceInv, Unwritten
  <2>4. receipt[s].enqueued \in BOOLEAN
    BY <1>a DEF ReceiptType
  <2>5. receipt'[pending'].enqueued = FALSE
    BY <2>1, <2>2, <2>3, <2>4
  <2>6. Late(Stream', pending', receipt'[pending'].prewrite, FALSE) = {}
    BY <1>e, <2>1, <2>3, NothingLate
  <2> QED BY <2>5, <2>6
<1>2. ASSUME NEW s \in Steers, Writes(s) PROVE FALSE
  <2>1. /\ pending = s /\ pending' = s /\ receipt' = receipt /\ Stream' = Stream
        /\ Unwritten(s)
    BY <1>2, WrittenWaits DEF Unwritten
  <2>2. ~receipt[s].enqueued /\ s \notin journaled
    BY <2>1 DEF OnceInv
  <2>3. receipt[s].enqueued = FALSE
    BY <1>a, <2>2 DEF ReceiptType
  <2>4. s # None
    BY TextsDiffer
  <2>5. Late(Stream, s, receipt[s].prewrite, FALSE) = {}
    BY <1>e, <2>1, <2>2, <2>4, NothingLate DEF EarlierCopy
  <2> QED BY <2>1, <2>3, <2>5
<1>3. ASSUME pending = None, ScanEnd, unsettled # NoProc PROVE FALSE
  <2>1. fg.followup # None
    BY <1>3 DEF WaitInv, FenceHeld
  <2>2. fg'.followup = fg.followup
    BY <1>3, EndFields
  <2> QED BY <2>1, <2>2
<1>4. CASE pending' = pending /\ ~\E s \in Steers : SteerAdmit(s) \/ Writes(s)
  <2> DEFINE P == receipt[pending].prewrite
             e == receipt[pending].enqueued
  <2>a. pending # None /\ pending \in Steers /\ e \in BOOLEAN
    BY <1>4, <1>a DEF ReceiptType
  <2>b. Waiting' \subseteq Waiting /\ cc'.echo \in {cc.echo, None} \cup Waiting
    <3>1. ~Delivers
      BY DeliveredAlone
    <3> QED BY <1>4, <3>1, WaitLess
  <2>1. fg.followup = None
    <3>1. CASE ScanCase
      BY <1>4, <2>a, <3>1, ScanFields DEF Follows
    <3>2. CASE ~ScanCase
      BY <2>a, <3>2, FollowupStays DEF TurnInv, PendingInv
    <3> QED BY <3>1, <3>2
  <2>2. ASSUME r \in Late(Stream, pending, P, e)
        PROVE  r.i = pending' /\ Waiting' = {} /\ (r.k = "rem" => cc'.echo # pending')
    <3>1. r.i = pending /\ Waiting = {} /\ (r.k = "rem" => cc.echo # pending)
      BY <2>1, <2>2, <2>a DEF WaitInv, RouteInv
    <3> QED BY <1>4, <2>a, <2>b, <3>1
  <2>3. /\ receipt'[pending].prewrite = P
        /\ receipt'[pending].enqueued = e \/ (ScanEnqueue /\ Acknowledges)
    <3>1. ~SteerAdmit(pending)
      BY <1>4, <2>a
    <3> QED BY <2>a, <3>1, SteerMoves, OwnFields DEF SteerStays
  <2>4. CASE ScanEnqueue /\ Acknowledges
    <3>1. Stream # <<>> /\ Rec = Head(Stream) /\ Stream' = Tail(Stream) /\ Stream \in Seq(Record)
      BY <2>4, StreamScanned, StreamTyped DEF ScanCase
    <3>2. OwnEnqueueOf(Rec, pending, P)
      BY <2>4 DEF ScanEnqueue, Scanning, Acknowledges, OwnEnqueueOf
    <3>3. Late(Tail(Stream), pending, P, TRUE) \subseteq Late(Stream, pending, P, e)
      BY <2>a, <3>1, <3>2, LateTail
    <3>4. r \in Late(Tail(Stream), pending, P, TRUE)
      <4>1. CASE receipt'[pending].enqueued = TRUE
        BY <1>4, <2>3, <3>1, <4>1
      <4>2. CASE receipt'[pending].enqueued # TRUE
        <5>1. receipt'[pending].enqueued \in BOOLEAN
          BY <2>a DEF TypeInv, TypeOK, TypeSteer, ReceiptType
        <5>2. r \in Late(Tail(Stream), pending, P, FALSE)
          BY <1>4, <2>3, <3>1, <4>2, <5>1
        <5> QED BY <5>2 DEF Late
      <4> QED BY <4>1, <4>2
    <3> QED BY <2>2, <3>3, <3>4
  <2>5. CASE receipt'[pending].enqueued = e
    <3>1. r \in Late(Stream', pending, P, e)
      BY <1>4, <2>3, <2>5
    <3>2. CASE /\ Absorbs \/ Dequeues
               /\ r.i = Head(cc.queue) /\ (r.k = "rem" => Absorbs)
      <4>1. /\ cc.queue # <<>> /\ cc'.queue = Tail(cc.queue) /\ cc'.inbox = cc.inbox
            /\ Absorbs => cc'.echo = None
        BY <3>2 DEF Absorbs, Dequeues, FromQueue
      <4>2. cc.queue \in Seq(Inputs) /\ Head(cc.queue) \in Inputs
        BY <4>1, CCContents
      <4>3. Head(cc.queue) \in Members(cc.queue) /\ Head(cc.queue) \in Waiting
        BY <4>1, <4>2, HeadsWait, TextsDiffer DEF Waiting
      <4>4. Head(cc.queue) = pending
        BY <2>a, <4>3 DEF WaitInv, OpenWaits
      <4>5. OnePlace(pending)
        BY <2>a DEF OnceInv
      <4>6. pending \notin Members(Tail(cc.queue)) /\ pending \notin Members(cc.inbox)
        <5>1. Once(cc.queue, pending)
          BY <4>5 DEF OnePlace
        <5>2. pending \notin Members(Tail(cc.queue))
          BY <4>1, <4>2, <4>4, <5>1, TailTexts
        <5> QED BY <4>3, <4>4, <4>5, <5>2 DEF OnePlace
      <4>7. pending \notin Waiting'
        BY <4>1, <4>6 DEF Waiting, Members
      <4>8. Waiting' = {}
        BY <2>a, <2>b, <4>7 DEF WaitInv, OpenWaits
      <4> QED BY <1>4, <2>a, <3>2, <4>1, <4>4, <4>8
    <3> QED BY <2>2, <2>a, <3>1, <3>2, LateMoves
  <2> QED BY <2>3, <2>4, <2>5
<1> QED BY <1>1, <1>2, <1>3, <1>4, PendingMoves

LEMMA WaitStep ==
  ASSUME "child" \notin Env, "resend" \notin Env, TypeInv, TypeInv', TurnInv, FenceInv,
         PlaceInv, JournalInv, OwnEnqueue, OwnEnqueue', FreshInv, FollowInv, ProcInv, OnceInv,
         LastInv, WaitInv, [Next]_vars
  PROVE  WaitInv'
BY FollowWaitsStep, OpenWaitsStep, ActiveWaitsStep, FenceHeldStep, RouteStep DEF WaitInv

(* Processes that are stopped.  What a stopper has taken is the fence and the steer
   behind it, and a process that is being stopped is stopped before it is replaced. *)
ReapInv ==
    /\ pc # "reap" => reaping["consumer"] = NoReap
    /\ irq.pc # "reap" => reaping["interrupt"] = NoReap
    /\ stopPc # "reap" => reaping["stop"] = NoReap
    /\ \A a \in Stoppers : reaping[a].steer # None =>
         reaping[a].proc = receipt[reaping[a].steer].proc
NewSteer(s) == Unwritten(s) => /\ ack[s] = "open" /\ result[s] = "none"
                               /\ \A a \in Stoppers : reaping[a].steer # s
NewInv == \A s \in Steers : NewSteer(s)
Doomed == ~alive[process] \/ BeingStopped(process)

(* Who takes the steer, and who is taken from. *)
Takes(a) ==
    /\ stateLock = None /\ pending' = None /\ unsettled' = NoProc
    /\ \/ FinallyDetach /\ a = "consumer" /\ pc = "detach"
       \/ InterruptDetach /\ a = "interrupt" /\ irq.pc = "detach"
       \/ StopLock /\ a = "stop" /\ stopPc = "lock"
    /\ reaping' = [reaping EXCEPT ![a] =
         [proc |-> IF a = "stop" THEN process ELSE unsettled,
          steer |-> IF unsettled # NoProc THEN pending ELSE None]]
Reaps(a) ==
    /\ Reap(a)
    /\ \/ FinallyReap /\ a = "consumer"
       \/ InterruptReap /\ a = "interrupt"
       \/ StopReap /\ a = "stop"

LEMMA ReapMoves ==
  ASSUME TypeInv, TurnInv, [Next]_vars
  PROVE  \/ reaping' = reaping /\ (~(FinallyDetach \/ InterruptDetach \/ StopLock)
                                   \/ UNCHANGED <<pending, unsettled>>)
                               /\ ~\E a \in Stoppers : Reaps(a)
         \/ \E a \in Stoppers : Takes(a)
         \/ \E a \in Stoppers : Reaps(a)
<1>1. CASE FinallyDetach \/ InterruptDetach
  <2>0. PICK a \in Stoppers :
          /\ \E o : Detach(a, o)
          /\ \/ FinallyDetach /\ a = "consumer" /\ pc = "detach"
             \/ InterruptDetach /\ a = "interrupt" /\ irq.pc = "detach"
    BY <1>1 DEF FinallyDetach, InterruptDetach, Stoppers
  <2>1. PICK o : /\ Detach(a, o)
                 /\ \/ FinallyDetach /\ a = "consumer" /\ pc = "detach"
                    \/ InterruptDetach /\ a = "interrupt" /\ irq.pc = "detach"
    BY <2>0
  <2>2. CASE owner = o
    BY <2>1, <2>2 DEF Detach, Takes
  <2>3. CASE owner # o
    <3>1. UNCHANGED <<pending, unsettled, reaping>>
      BY <2>1, <2>3 DEF Detach
    <3> QED BY <3>1
  <2> QED BY <2>2, <2>3
<1>2. CASE StopLock
  <2>1. pending # None => unsettled # NoProc
    BY DEF TurnInv, PendingInv
  <2>2. Takes("stop")
    BY <1>2, <2>1 DEF StopLock, Takes
  <2> QED BY <2>2 DEF Stoppers
<1>3. CASE FinallyReap \/ InterruptReap \/ StopReap
  BY <1>3 DEF FinallyReap, InterruptReap, StopReap, Reaps, Stoppers
<1>4. CASE \/ Send \/ LoopCrash \/ LoopPoll \/ LoopTimeout \/ HostCancel \/ Read \/ Emit
           \/ Decide \/ DecideResend \/ Enter
           \/ ScanCase \/ ScanEnd
  <2>1. reaping' = reaping
    BY <1>4 DEF Send, Own, CheckAlive, CheckRefused, ResumeBegin, ResumeDone,
     ResumeFailed, Backlog, DeliverChannel, DeliverStdin, DeliverFailed,
     LoopCrash, LoopPoll, LoopTimeout, HostCancel, Read, Emit, Decide,
     DecideResend, DecideComplete, DecideApiError, DecideLimit, DecideBanner, DecideAgain,
     DecideFrame, Exit, Enter, CancelOwn, Acquire, ScanCase, ScanEcho, ScanEnqueue, ScanRoute,
     ScanTerminal,
     ScanForeignTerminal, ScanFailure, ScanEnd, ScanFrame, hostSide
  <2> QED BY <2>1, <1>1, <1>2
<1>5. CASE \/ CCSteps \/ Watch \/ InterruptMark \/ StopWatch \/ InterruptEscape
           \/ UNCHANGED vars
           \/ \E s \in Steers : Steer(s) \/ SteerCall(s) \/ SteerWriteFailed(s)
                                \/ SteerDeadline(s) \/ CCForeign(s)
  <2>1. reaping' = reaping
    BY <1>5 DEF CCSteps, ClaudeStep, CCStart, CCEcho, CCEnqueue, CCRemove,
   CCDequeue, CCEndTurn, CCEscape, CCNotify, CCFailTurn, CCBanner, CCLose, CCDie, CCForeign,
   CCRuns, CCFrame, hostSide, Watch, WatchWake, WatchLook, WatchRead, StopWatch,
   InterruptMark, InterruptEscape, vars,
   Steer, SteerCall, SteerRefused, SteerTooLate, SteerAdmit, SteerWritten, SteerWriteFailed,
   SteerFailClosed, SteerReap, SteerAcknowledged, SteerDeadline, SteerFrame
  <2> QED BY <2>1, <1>1, <1>2
<1> QED BY <1>1, <1>2, <1>3, <1>4, <1>5, AllSteps DEF SideSteps, OtherSteps, CCSteps

LEMMA ReapPlaces ==
  ASSUME [Next]_vars
  PROVE  /\ pc' # "reap" => pc # "reap" \/ FinallyReap
         /\ irq'.pc # "reap" => irq.pc # "reap" \/ InterruptReap
         /\ stopPc' # "reap" => stopPc # "reap" \/ StopReap
<1>1. CASE Watch \/ Host \/ InterruptMark \/ StopWatch \/ StopLock \/ UNCHANGED vars
  BY <1>1 DEF Watch, WatchWake, WatchLook, WatchRead, StopWatch, Host, InterruptMark,
     InterruptDetach,
     InterruptReap, InterruptEscape, StopReap, StopLock, vars, others, HostFrame
<1>2. CASE CCSteps \/ \E s \in Steers : CCForeign(s)
  BY <1>2 DEF CCSteps, ClaudeStep, CCStart, CCEcho, CCEnqueue, CCRemove, CCDequeue,
     CCEndTurn, CCEscape, CCNotify, CCFailTurn, CCBanner, CCLose, CCDie, CCForeign,
     CCRuns, CCFrame, hostSide, others
<1>3. CASE \E s \in Steers : \/ Steer(s) \/ SteerCall(s) \/ SteerWriteFailed(s)
                             \/ SteerDeadline(s)
  BY <1>3 DEF Steer, SteerCall, SteerWriteFailed, SteerDeadline, SteerRefused,
     SteerTooLate, SteerAdmit, SteerWritten, SteerFailClosed, SteerReap,
     SteerAcknowledged, SteerFrame, others
<1>4. CASE Send \/ Enter
  BY <1>4 DEF Send, Own, CheckAlive, CheckRefused, ResumeBegin, ResumeDone, ResumeFailed,
     Backlog, DeliverChannel, DeliverStdin, DeliverFailed, Enter, CancelOwn, Acquire, Exit,
     Finish, hostSide, others
<1>5. CASE \/ LoopCrash \/ LoopPoll \/ LoopTimeout \/ HostCancel \/ Read \/ Emit
           \/ Decide \/ DecideResend \/ Finally
  BY <1>5 DEF LoopCrash, LoopPoll, LoopTimeout, HostCancel, Read, Emit, Decide, DecideResend,
     DecideComplete, DecideApiError, DecideLimit, DecideBanner, DecideAgain, DecideFrame,
     Finally, FinallyDetach, FinallyReap, Exit, Finish, Goes, Unfinished, hostSide, others
<1>6. CASE Scan
  BY <1>6 DEF Scan, ScanEcho, ScanEnqueue, ScanRoute, ScanTerminal, ScanForeignTerminal,
     ScanFailure, ScanEnd, ScanFrame, Scanning, others
<1> QED BY <1>1, <1>2, <1>3, <1>4, <1>5, <1>6 DEF Next, Consume, Round, Chance, CCSteps

(* Who resolves the receipt of a steer, and to what. *)
Resolves(s) ==
    \/ /\ ScanEnd
       /\ \/ Releases /\ s = scan.unc /\ ack'[s] = "false"
          \/ Failed /\ ~Reattaches /\ s = FailedSteer /\ ack'[s] = "false"
          \/ ~Releases /\ ~Failed /\ s = scan.enq /\ ack'[s] = "true"
    \/ SteerFailClosed(s) /\ ack'[s] = "false"
    \/ \E a \in Stoppers : Reaps(a) /\ reaping[a].steer = s /\ ack'[s] = "false"

LEMMA AckMoves ==
  ASSUME TypeInv, TurnInv, [Next]_vars, NEW s \in Steers
  PROVE  ack'[s] = ack[s] \/ (ack[s] = "open" /\ Resolves(s))
<1>a. ack \in [Steers -> {"open", "true", "false"}] /\ s # None
  BY TextsDiffer DEF TypeInv, TypeOK, TypeSteer
<1>r. ASSUME NEW x, NEW b, ack' = Resolve(x, b)
      PROVE  ack'[s] = ack[s] \/ (ack[s] = "open" /\ s = x /\ ack'[s] = b)
  BY <1>a, <1>r DEF Resolve
<1>1. CASE ScanEnd
  <2>1. \/ ack' = ack
        \/ Releases /\ ack' = Resolve(scan.unc, "false")
        \/ Failed /\ ~Reattaches /\ ack' = Resolve(FailedSteer, "false")
        \/ ~Releases /\ ~Failed /\ ack' = Resolve(scan.enq, "true")
    BY <1>1 DEF ScanEnd
  <2> QED BY <1>1, <1>r, <2>1 DEF Resolves
<1>2. CASE FinallyDetach \/ InterruptDetach
  <2>1. ack' = ack \/ (unsettled = NoProc /\ ack' = Resolve(pending, "false"))
    BY <1>2 DEF FinallyDetach, InterruptDetach, Detach
  <2>2. unsettled = NoProc => pending = None
    BY DEF TurnInv, PendingInv
  <2> QED BY <1>a, <1>r, <2>1, <2>2
<1>3. CASE FinallyReap \/ InterruptReap \/ StopReap
  <2>1. PICK a \in Stoppers : Reaps(a)
    BY <1>3 DEF FinallyReap, InterruptReap, StopReap, Reaps, Stoppers
  <2>2. ack' = Resolve(reaping[a].steer, "false")
    BY <2>1 DEF Reaps, Reap
  <2> QED BY <1>r, <2>1, <2>2 DEF Resolves
<1>4. ASSUME NEW t \in Steers, SteerFailClosed(t)
      PROVE  ack'[s] = ack[s] \/ (ack[s] = "open" /\ Resolves(s))
  <2>1. ack' = Resolve(t, "false")
    BY <1>4 DEF SteerFailClosed
  <2> QED BY <1>4, <1>r, <2>1 DEF Resolves
<1>5. CASE \/ Send \/ LoopCrash \/ LoopPoll \/ LoopTimeout \/ HostCancel \/ Read \/ Emit
           \/ Decide \/ DecideResend \/ Enter
           \/ ScanCase
  <2>1. ack' = ack
    BY <1>5 DEF Send, Own, CheckAlive, CheckRefused, ResumeBegin, ResumeDone,
     ResumeFailed, Backlog, DeliverChannel, DeliverStdin, DeliverFailed,
     LoopCrash, LoopPoll, LoopTimeout, HostCancel, Read, Emit, Decide,
     DecideResend, DecideComplete, DecideApiError, DecideLimit, DecideBanner, DecideAgain,
     DecideFrame, Exit, Enter, CancelOwn, Acquire, ScanCase, ScanEcho, ScanEnqueue, ScanRoute,
     ScanTerminal,
     ScanForeignTerminal, ScanFailure, ScanFrame, hostSide, steerSt
  <2> QED BY <2>1
<1>6. CASE \/ CCSteps \/ Watch \/ InterruptMark \/ StopWatch \/ InterruptEscape \/ StopLock
           \/ UNCHANGED vars
           \/ \E t \in Steers : CCForeign(t)
  <2>1. ack' = ack
    BY <1>6 DEF CCSteps, ClaudeStep, CCStart, CCEcho, CCEnqueue, CCRemove,
   CCDequeue, CCEndTurn, CCEscape, CCNotify, CCFailTurn, CCBanner, CCLose, CCDie, CCForeign,
   CCRuns, CCFrame, hostSide, steerSt, Watch, WatchWake, WatchLook, WatchRead, StopWatch,
   InterruptMark,
   InterruptEscape, StopLock, vars
  <2> QED BY <2>1
<1>7. ASSUME NEW t \in Steers, \/ SteerCall(t) \/ SteerWriteFailed(t) \/ SteerDeadline(t)
                               \/ Steer(t) /\ ~SteerFailClosed(t)
      PROVE  ack' = ack
  BY <1>7 DEF Steer, SteerCall, SteerRefused, SteerTooLate, SteerAdmit, SteerWritten,
     SteerWriteFailed, SteerReap, SteerAcknowledged, SteerDeadline
<1> QED BY <1>1, <1>2, <1>3, <1>4, <1>5, <1>6, <1>7, AllSteps DEF SideSteps, OtherSteps, CCSteps

(* What is not written has no receipt yet: *)
LEMMA ResolvedOnce ==
  ASSUME TypeInv, TurnInv, FenceInv, OwnEnqueue, NewInv, [Next]_vars, NEW s \in Steers,
         Unwritten(s)
  PROVE  /\ ~Resolves(s)
         /\ stateLock = None => pending # s
<1>a. s # None
  BY TextsDiffer
<1>1. CASE spc[s] = "write"
  <2>1. stateLock = "steer" /\ pc # "scan" /\ None # "steer"
    BY <1>1, TextsAssumption DEF FenceInv, SteerFence, LockHolders
  <2> QED BY <1>1, <2>1 DEF Resolves, ScanEnd, SteerFailClosed, NewInv, NewSteer, Unwritten
<1>2. CASE spc[s] \in {"idle", "called"}
  <2>1. s # pending /\ s # scan.enq
    BY <1>2, <1>a DEF OwnEnqueue
  <2>2. ~(Releases /\ s = scan.unc) /\ s # FailedSteer
    BY <2>1 DEF Releases, FailedSteer
  <2> QED BY <1>2, <2>1, <2>2 DEF Resolves, SteerFailClosed, NewInv, NewSteer, Unwritten
<1> QED BY <1>1, <1>2 DEF Unwritten

LEMMA NewStep ==
  ASSUME TypeInv, TurnInv, FenceInv, OwnEnqueue, NewInv, [Next]_vars
  PROVE  NewInv'
<1> SUFFICES ASSUME NEW s \in Steers, Unwritten(s)'
             PROVE  /\ ack'[s] = "open" /\ result'[s] = "none"
                    /\ \A a \in Stoppers : reaping'[a].steer # s
  BY DEF NewInv, NewSteer
<1>a. reaping \in [Stoppers -> ReapType] /\ s # None
  BY TextsDiffer DEF TypeInv, TypeOK, TypeHost
<1>1. Unwritten(s) /\ result'[s] = result[s]
  BY SteerMoves, OwnFields DEF Unwritten, SteerStays
<1>2. ack[s] = "open" /\ result[s] = "none" /\ \A a \in Stoppers : reaping[a].steer # s
  BY <1>1 DEF NewInv, NewSteer
<1>3. ack'[s] = "open"
  BY <1>1, <1>2, AckMoves, ResolvedOnce
<1>4. ASSUME NEW b \in Stoppers, Takes(b), NEW a \in Stoppers
      PROVE  reaping'[a].steer # s
  <2>1. reaping'[a] = reaping[a] \/ reaping'[a].steer \in {pending, None}
    BY <1>a, <1>4 DEF Takes, ReapType
  <2>2. pending # s
    BY <1>1, <1>4, ResolvedOnce DEF Takes
  <2> QED BY <1>a, <1>2, <2>1, <2>2
<1>5. ASSUME NEW b \in Stoppers, Reaps(b), NEW a \in Stoppers
      PROVE  reaping'[a].steer # s
  BY <1>a, <1>2, <1>5 DEF Reaps, Reap, NoReap
<1> QED BY <1>1, <1>2, <1>3, <1>4, <1>5, ReapMoves

LEMMA ReapStep ==
  ASSUME TypeInv, TurnInv, FenceInv, ProcInv, NewInv, ReapInv, [Next]_vars
  PROVE  ReapInv'
<1>a. reaping \in [Stoppers -> ReapType]
  BY DEF TypeInv, TypeOK, TypeHost
<1>1. ASSUME NEW b \in Stoppers, Takes(b)
      PROVE  /\ b = "consumer" => pc' = "reap"
             /\ b = "interrupt" => irq'.pc = "reap"
             /\ b = "stop" => stopPc' = "reap"
             /\ \A a \in Stoppers : a # b => reaping'[a] = reaping[a]
             /\ reaping'[b].steer # None => reaping'[b].steer = pending /\ unsettled # NoProc
             /\ reaping'[b].proc \in {process, unsettled}
             /\ receipt' = receipt
  <2>1. irq \in [pc : {"ready", "detach", "reap", "esc", "done"},
                owner : Prompts \cup {None}, proc : ProcOrNone]
    BY DEF TypeInv, TypeOK, TypeHost
  <2> QED BY <1>a, <1>1, <2>1 DEF Takes, FinallyDetach, InterruptDetach, StopLock, HostFrame,
     ReapType
<1>2. ASSUME NEW b \in Stoppers, Reaps(b)
      PROVE  /\ reaping'[b] = NoReap
             /\ \A a \in Stoppers : a # b => reaping'[a] = reaping[a]
  BY <1>a, <1>2 DEF Reaps, Reap
<1>3. /\ "consumer" \in Stoppers /\ "interrupt" \in Stoppers /\ "stop" \in Stoppers
      /\ FinallyReap => Reaps("consumer")
      /\ InterruptReap => Reaps("interrupt")
      /\ StopReap => Reaps("stop")
  BY DEF Stoppers, FinallyReap, InterruptReap, StopReap, Reaps
<1>4. /\ pc' # "reap" => reaping'["consumer"] = NoReap
      /\ irq'.pc # "reap" => reaping'["interrupt"] = NoReap
      /\ stopPc' # "reap" => reaping'["stop"] = NoReap
  BY <1>1, <1>2, <1>3, ReapPlaces, ReapMoves DEF ReapInv
<1>5. ASSUME NEW a \in Stoppers, reaping'[a].steer # None
      PROVE  reaping'[a].proc = receipt'[reaping'[a].steer].proc
  <2>1. CASE reaping'[a] = reaping[a]
    <3> DEFINE t == reaping[a].steer
    <3>1. t \in Steers /\ reaping[a].proc = receipt[t].proc
      BY <1>a, <1>5, <2>1 DEF ReapInv, ReapType, SteerOrNone
    <3>2. ~SteerAdmit(t)
      BY <3>1 DEF SteerAdmit, SteerMayEnter, NewInv, NewSteer, Unwritten
    <3>3. receipt'[t].proc = receipt[t].proc
      BY <3>1, <3>2, SteerMoves, OwnFields DEF SteerStays
    <3> QED BY <2>1, <3>1, <3>3
  <2>2. CASE Takes(a)
    <3>1. /\ reaping'[a].steer = pending /\ unsettled # NoProc /\ pending # None
          /\ reaping'[a].proc \in {process, unsettled} /\ receipt' = receipt
      BY <1>1, <1>5, <2>2
    <3>2. unsettled = process /\ unsettled = receipt[pending].proc
      BY <3>1 DEF ProcInv, SameProc, FenceInv, SteerFence, OpenIsFenced
    <3> QED BY <3>1, <3>2
  <2>3. CASE Reaps(a)
    BY <1>2, <1>5, <2>3 DEF NoReap
  <2> QED BY <1>1, <1>2, <2>1, <2>2, <2>3, ReapMoves
<1> QED BY <1>4, <1>5 DEF ReapInv

(* A process that is dead or being stopped is not revived while it has inputs. *)
LEMMA DoomedStays ==
  ASSUME TypeInv, TypeInv', TurnInv, ProcInv, ReapInv, [Next]_vars, ~ResumeDone, Doomed
  PROVE  Doomed'
<1>a. /\ process \in Procs /\ process # NoProc /\ process' \in Procs
      /\ reaping \in [Stoppers -> ReapType]
  <2>1. process \in Procs /\ process' \in Procs
    BY DEF TypeInv, TypeOK, TypeLife
  <2>2. reaping \in [Stoppers -> ReapType]
    BY DEF TypeInv, TypeOK, TypeHost
  <2> QED BY <2>1, <2>2 DEF Procs, NoProc
<1>d. ~alive'[process'] => Doomed'
  BY DEF Doomed
<1>1. CASE ResumeBegin
  <2>1. process' = process + 1 /\ alive' = alive /\ process \in Nat
    BY <1>1, <1>a DEF ResumeBegin, Procs
  <2>2. ~alive[process']
    BY <1>a, <2>1 DEF ProcInv, OnlyInv
  <2> QED BY <1>d, <2>1, <2>2
<1>2. CASE ~ResumeBegin
  <2>1. process' = process /\ (alive'[process] => alive[process])
    BY <1>a, <1>2, LifeStep
  <2>2. CASE ~alive[process]
    BY <1>d, <2>1, <2>2
  <2>3. ASSUME NEW a \in Stoppers, reaping[a].proc = process PROVE Doomed'
    <3>1. CASE reaping' = reaping
      BY <2>1, <2>3, <3>1 DEF Doomed, BeingStopped
    <3>2. ASSUME NEW b \in Stoppers, Takes(b) PROVE Doomed'
      <4>1. reaping[a] # NoReap
        BY <1>a, <2>3 DEF NoReap
      <4>2. b # a
        BY <3>2, <4>1 DEF ReapInv, Takes
      <4>3. reaping'[a] = reaping[a]
        BY <1>a, <3>2, <4>2 DEF Takes
      <4> QED BY <2>1, <2>3, <4>3 DEF Doomed, BeingStopped
    <3>3. ASSUME NEW b \in Stoppers, Reaps(b) PROVE Doomed'
      <4>1. CASE b = a
        <5>1. Kill(process)
          BY <1>a, <2>3, <3>3, <4>1 DEF Reaps, Reap
        <5>2. ~alive'[process]
          BY <1>a, <5>1 DEF Kill, TypeInv, TypeOK, TypeLife
        <5> QED BY <1>d, <2>1, <5>2
      <4>2. CASE b # a
        <5>1. reaping'[a] = reaping[a]
          BY <1>a, <3>3, <4>2 DEF Reaps, Reap
        <5> QED BY <2>1, <2>3, <5>1 DEF Doomed, BeingStopped
      <4> QED BY <4>1, <4>2
    <3> QED BY <3>1, <3>2, <3>3, ReapMoves
  <2>4. ASSUME NEW s \in Steers, spc[s] = "reap", receipt[s].proc = process PROVE Doomed'
    <3>1. CASE SteerStays(s)
      BY <2>1, <2>4, <3>1 DEF SteerStays, Doomed, BeingStopped
    <3>2. CASE SteerReap(s)
      <4>1. Kill(process)
        BY <2>4, <3>2 DEF SteerReap
      <4>2. ~alive'[process]
        BY <1>a, <4>1 DEF Kill, TypeInv, TypeOK, TypeLife
      <4> QED BY <1>d, <2>1, <4>2
    <3>3. OwnStep(s) => SteerReap(s)
      BY <2>4, OwnFields
    <3> QED BY <3>1, <3>2, <3>3, SteerMoves
  <2> QED BY <2>2, <2>3, <2>4 DEF Doomed, BeingStopped
<1> QED BY <1>1, <1>2

LEMMA DoomedBefore ==
  ASSUME TypeInv, TypeInv', TurnInv, AliveInv, ProcInv, ReapInv, [Next]_vars, ~Doomed',
         NEW s \in Steers, InFlight(s)
  PROVE  ~Doomed
<1>1. ASSUME ResumeDone PROVE FALSE
  <2>1. ~alive[process]
    BY <1>1 DEF ResumeDone, AliveInv
  <2> QED BY <2>1, TextsDiffer DEF ProcInv, OnlyInv, InFlight
<1> QED BY <1>1, DoomedStays

(* Steers that are reported as uncertain, and only those, may be given up. *)
UncertainInv ==
    /\ scan.unc # None => receipt[scan.unc].uncertain
    /\ \A s \in Steers : receipt[s].uncertain => spc[s] = "done" /\ result[s] = "uncertain"

LEMMA UncertainMoves ==
  ASSUME TypeInv, [Next]_vars, NEW s \in Steers
  PROVE  receipt'[s].uncertain = receipt[s].uncertain
         \/ (SteerDeadline(s) /\ receipt'[s].uncertain /\ spc'[s] = "done"
             /\ result'[s] = "uncertain")
<1>1. receipt \in [Steers -> ReceiptType] /\ spc \in [Steers ->
              {"idle", "called", "write", "await", "failclosed", "reap", "done"}]
  BY DEF TypeInv, TypeOK, TypeSteer
<1>2. CASE SteerDeadline(s) /\ result'[s] = "uncertain"
  <2>1. spc'[s] = "done" /\ (receipt' = receipt
          \/ receipt' = [receipt EXCEPT ![s].uncertain = TRUE])
    BY <1>1, <1>2 DEF SteerDeadline, Return
  <2> QED BY <1>1, <1>2, <2>1 DEF ReceiptType
<1> QED BY <1>2, SteerMoves, OwnFields DEF SteerStays

LEMMA UncMoves ==
  ASSUME TypeInv, TurnInv, FreshInv, [Next]_vars
  PROVE  \/ scan'.unc \in {scan.unc, None}
         \/ scan'.unc = pending /\ pending # None /\ receipt[pending].uncertain /\ ScanTerminal
<1>1. CASE SideSteps
  BY <1>1, SideFields
<1>2. CASE ScanCase
  <2>1. CASE ScanTerminal
    <3>1. \/ scan' = [NextRecord EXCEPT !.done = TRUE]
          \/ scan' = [NextRecord EXCEPT !.unc =
                          IF /\ pending # None /\ receipt[pending].uncertain
                             /\ ~receipt[pending].enqueued
                          THEN pending ELSE @]
      BY <2>1 DEF ScanTerminal
    <3>2. NextRecord \in [batch : {Tail(Batch)}, started : {scan.started},
                         done : {scan.done}, err : {scan.err}, lim : {scan.lim},
                         enq : {scan.enq}, unc : {scan.unc}]
      BY NextFields DEF TypeInv, TypeOK
    <3> QED BY <2>1, <3>1, <3>2
  <2> QED BY <1>2, <2>1, ScanFields
<1>3. CASE ScanEnd
  BY <1>3, EndFields
<1>4. CASE Send \/ Enter
  BY <1>4, BeforeFields
<1>5. CASE LoopCrash \/ LoopPoll \/ LoopTimeout \/ HostCancel \/ Decide \/ DecideResend
           \/ FinallyDetach
  BY <1>5, LaterFields DEF ScanInit
<1>6. CASE Emit \/ FinallyReap
  BY <1>6 DEF Emit, FinallyReap, ScanInit
<1>7. CASE Read
  <2>1. scan' = [ScanInit EXCEPT !.batch = prefetched \o unread, !.started = fg.started]
    BY <1>7 DEF Read
  <2> QED BY <2>1 DEF ScanInit
<1> QED BY <1>1, <1>2, <1>3, <1>4, <1>5, <1>6, <1>7, AllSteps

LEMMA UncertainStep ==
  ASSUME TypeInv, TurnInv, FreshInv, UncertainInv, [Next]_vars
  PROVE  UncertainInv'
<1>1. ASSUME scan'.unc # None PROVE receipt'[scan'.unc].uncertain
  <2>1. receipt[scan'.unc].uncertain
    BY <1>1, UncMoves DEF UncertainInv
  <2>2. scan'.unc \in Steers
    BY <1>1, UncMoves DEF TypeInv, TypeOK, TypeSend, ScanType, TypeLock, SteerOrNone
  <2> QED BY <2>1, <2>2, UncertainMoves
<1>2. ASSUME NEW s \in Steers, receipt'[s].uncertain
      PROVE  spc'[s] = "done" /\ result'[s] = "uncertain"
  <2>1. CASE receipt[s].uncertain
    <3>1. spc[s] = "done" /\ result[s] = "uncertain"
      BY <2>1 DEF UncertainInv
    <3> QED BY <3>1, SteerMoves, OwnFields DEF SteerStays
  <2> QED BY <1>2, <2>1, UncertainMoves
<1> QED BY <1>1, <1>2 DEF UncertainInv

(* A steer that Claude Code has still to run, and that is not given up, is fenced, and
   it is the open one or the one that the consumer follows: until its echo is read. *)
Held(s) ==
    /\ unsettled # NoProc
    /\ pending = s \/ (fg.followup = s /\ ~fg.followStarted)
HeldInv == \A s \in Steers : InFlight(s) /\ ~receipt[s].uncertain /\ ~Doomed => Held(s)

LEMMA HeldScanned ==
  ASSUME TypeInv, TurnInv, FenceInv, PlaceInv, FollowInv, OnceInv, WaitInv, ScanCase,
         NEW s \in Steers, InFlight(s), Held(s)
  PROVE  Held(s)'
<1>a. /\ fg \in FgType /\ pc = "scan" /\ s # None
      /\ NextRecord \in [batch : {Tail(Batch)}, started : {scan.started},
                         done : {scan.done}, err : {scan.err}, lim : {scan.lim},
                         enq : {scan.enq}, unc : {scan.unc}]
  BY ScanFields, NextFields, TextsDiffer DEF TypeInv, TypeOK, TypeSend
<1>b. ~(pending # None /\ fg.followup # None)
  BY <1>a DEF FollowInv
<1>1. CASE ScanEcho
  <2>1. Rec \in Members(Stream) /\ Rec.k = "echo"
    <3>1. Stream # <<>> /\ Rec = Head(Stream) /\ Stream \in Seq(Record)
      BY StreamScanned, StreamTyped
    <3> QED BY <1>1, <3>1, MembersTail DEF ScanEcho, Scanning
  <2>2. Rec.i # s
    BY <2>1 DEF OnceInv, NoEcho
  <2>3. UNCHANGED <<pending, unsettled>> /\ (fg' = fg \/ fg.followup # s)
    BY <1>1, <2>2 DEF ScanEcho
  <2>4. fg.followup # s => pending = s /\ fg.followup = None
    BY <1>a, <1>b DEF Held
  <2> QED BY <2>3, <2>4 DEF Held
<1>2. CASE ScanRoute
  <2>1. CASE Routes
    <3>1. pending = s /\ fg.followup = None
      BY <1>a, <1>b, <2>1 DEF Held, Routes
    <3>2. Scanning({"rem", "deq"})
      BY <1>2 DEF ScanRoute
    <3>3. Waiting = {} /\ (Rec.k = "rem" => cc.echo # s)
      BY <2>1, <3>1, <3>2, RouteFound DEF WaitInv
    <3>4. Rec.k = "deq"
      BY <3>2, <3>3 DEF InFlight, Scanning
    <3>5. fg' = [fg EXCEPT !.followup = s, !.followStarted = FALSE] /\ unsettled' = unsettled
      BY <1>2, <2>1, <3>1, <3>4 DEF ScanRoute
    <3> QED BY <1>a, <3>5 DEF Held, FgType
  <2>2. CASE ~Routes
    BY <1>2, <2>2 DEF ScanRoute, Held
  <2> QED BY <2>1, <2>2
<1>3. CASE ScanTerminal
  <2>1. Defers
    BY <1>a DEF Held, Defers
  <2>2. fg' = [fg EXCEPT !.deferred = TRUE] /\ UNCHANGED <<unsettled, pending>>
    BY <1>3, <2>1 DEF ScanTerminal
  <2> QED BY <1>a, <2>2 DEF Held, FgType
<1>4. CASE ScanEnqueue
  <2>1. fg' = [fg EXCEPT !.confirm = @ /\ (scan.started \/ Rec.i # sending)]
        /\ UNCHANGED <<unsettled, pending>>
    BY <1>4 DEF ScanEnqueue, turnSt
  <2> QED BY <1>a, <2>1 DEF Held, FgType
<1>5. CASE ScanForeignTerminal \/ ScanFailure
  BY <1>5 DEF ScanForeignTerminal, ScanFailure, turnSt, Held
<1> QED BY <1>1, <1>2, <1>3, <1>4, <1>5 DEF ScanCase

LEMMA HeldStep ==
  ASSUME "child" \notin Env, "resend" \notin Env, TypeInv, TypeInv', TurnInv, FenceInv,
         PlaceInv, JournalInv, AliveInv, FreshInv, FollowInv, ProcInv, OnceInv, WaitInv,
         ReapInv, UncertainInv, HeldInv, [Next]_vars
  PROVE  HeldInv'
<1>o. HeldInv' <=> \A s \in Steers :
          InFlight(s)' /\ ~receipt'[s].uncertain /\ ~Doomed' => Held(s)'
  BY DEF HeldInv, InFlight, Held, Waiting, Members
<1> SUFFICES ASSUME NEW s \in Steers, InFlight(s)', ~receipt'[s].uncertain, ~Doomed'
             PROVE  Held(s)'
  BY <1>o
<1>a. reaping \in [Stoppers -> ReapType]
  BY DEF TypeInv, TypeOK, TypeHost
<1>b. process' = process /\ (InFlight(s) \/ Writes(s))
  BY InFlightMoves
<1>1. CASE Writes(s)
  BY <1>1, WrittenWaits DEF Held
<1>2. CASE InFlight(s)
  <2>1. ~Doomed /\ ~receipt[s].uncertain
    BY <1>2, DoomedBefore, UncertainMoves
  <2>2. Held(s) /\ unsettled # NoProc /\ unsettled = process
    BY <1>2, <2>1 DEF HeldInv, Held, ProcInv, SameProc
  <2>3. CASE ScanCase
    BY <1>2, <2>2, <2>3, HeldScanned
  <2>4. CASE ~ScanCase
    <3>1. fg'.followup = fg.followup /\ fg'.followStarted = fg.followStarted
      BY <2>2, <2>4, FollowupStays
    <3>2. CASE UNCHANGED <<pending, unsettled>>
      BY <2>2, <3>1, <3>2 DEF Held
    <3>3. CASE ScanEnd
      <4>1. pc = "scan"
        BY <3>3, EndFields
      <4>2. ~Releases
        BY <2>1, <2>2, <4>1, TextsDiffer DEF Releases, UncertainInv, Held, FollowInv
      <4>3. unsettled' = unsettled /\ (pending' = pending \/ pending = None)
        BY <3>3, <4>2 DEF ScanEnd, Reattaches, FailedSteer
      <4> QED BY <2>2, <3>1, <4>3, TextsDiffer DEF Held
    <3>4. CASE FinallyDetach \/ InterruptDetach \/ StopLock
      <4>1. ASSUME NEW a \in Stoppers, Takes(a) PROVE FALSE
        <5>1. reaping'[a].proc = process
          BY <1>a, <2>2, <4>1 DEF Takes
        <5> QED BY <1>b, <5>1 DEF Doomed, BeingStopped
      <4>2. ASSUME NEW a \in Stoppers, Reaps(a) PROVE UNCHANGED <<pending, unsettled>>
        BY <3>4, <4>2 DEF Reaps, FinallyReap, InterruptReap, StopReap, FinallyDetach,
           InterruptDetach, StopLock, lockSt, turnSt
      <4> QED BY <3>2, <3>4, <4>1, <4>2, ReapMoves
    <3>5. ASSUME NEW t \in Steers, SteerAdmit(t) PROVE FALSE
      BY <2>2, <3>5 DEF SteerAdmit, Admissible
    <3>6. ASSUME NEW t \in Steers, SteerFailClosed(t) PROVE FALSE
      <4>1. receipt[t].proc = process
        BY <2>2, <3>6 DEF SteerFailClosed, TurnInv, AdmittedInv, Busy
      <4>2. spc'[t] = "reap" /\ receipt' = receipt
        BY <3>6 DEF SteerFailClosed, TypeInv, TypeOK, TypeSteer
      <4> QED BY <1>b, <4>1, <4>2 DEF Doomed, BeingStopped
    <3> QED BY <2>4, <3>2, <3>3, <3>4, <3>5, <3>6, HoldMoves
  <2> QED BY <2>3, <2>4
<1> QED BY <1>b, <1>1, <1>2

(* The answer to a steer.  A steer that is reported as not delivered is not run any more,
   because its receipt is open as long as it can be (FollowedOpen), and an acknowledged
   receipt is open only in the batch that acknowledges it, or when that batch failed
   and gave it back, up to the end of the turn (AcknowledgedOpen). *)
FalseIsDoomed == \A s \in Steers :
    /\ result[s] = "false" \/ (ack[s] = "false" /\ ~receipt[s].uncertain)
    /\ InFlight(s)
    => Doomed
FollowedOpen == \A s \in Steers : fg.followup = s =>
    ack[s] # "open" \/ pending = s \/ (pc = "scan" /\ scan.enq = s) \/ Doomed
AcknowledgedOpen == \A s \in Steers : pending = s /\ receipt[s].enqueued /\ ack[s] = "open" =>
    \/ pc = "scan" /\ scan.enq = s
    \/ pc \in {"emit", "decide"} /\ Failed
    \/ pc = "detach"
AnswerInv == FalseIsDoomed /\ FollowedOpen /\ AcknowledgedOpen

LEMMA EnqMoves ==
  ASSUME TypeInv, ScanCase
  PROVE  /\ pc = "scan" /\ pc' = "scan"
         /\ scan'.enq = scan.enq \/ (ScanEnqueue /\ Acknowledges /\ scan'.enq = pending)
<1>1. NextRecord \in [batch : {Tail(Batch)}, started : {scan.started},
                         done : {scan.done}, err : {scan.err}, lim : {scan.lim},
                         enq : {scan.enq}, unc : {scan.unc}]
  BY NextFields DEF TypeInv, TypeOK
<1>2. CASE ScanEnqueue
  <2>1. scan' = [NextRecord EXCEPT !.enq = IF Acknowledges THEN pending ELSE @]
    BY <1>2 DEF ScanEnqueue
  <2> QED BY <1>1, <1>2, <2>1, ScanFields
<1>3. CASE ScanEcho \/ ScanRoute
  <2>1. scan' = [NextRecord EXCEPT !.started = @ \/ Starts]
    BY <1>3 DEF ScanEcho, ScanRoute
  <2> QED BY <1>1, <2>1, ScanFields
<1>4. CASE ScanTerminal
  <2>1. \/ \E u : scan' = [NextRecord EXCEPT !.unc = u]
        \/ scan' = [NextRecord EXCEPT !.done = TRUE]
    BY <1>4 DEF ScanTerminal
  <2> QED BY <1>1, <2>1, ScanFields
<1>5. CASE ScanForeignTerminal \/ ScanFailure
  <2>1. \/ scan' = NextRecord
        \/ \E b, c : scan' = [NextRecord EXCEPT !.err = b, !.lim = c]
    BY <1>5 DEF ScanForeignTerminal, ScanFailure
  <2> QED BY <1>1, <2>1, ScanFields
<1> QED BY <1>2, <1>3, <1>4, <1>5 DEF ScanCase

LEMMA FalseStep ==
  ASSUME "child" \notin Env, "resend" \notin Env, TypeInv, TypeInv', TurnInv, FenceInv,
         PlaceInv, JournalInv, AliveInv, FreshInv, ProcInv, OnceInv, ReapInv, NewInv,
         UncertainInv, HeldInv, AnswerInv, [Next]_vars
  PROVE  FalseIsDoomed'
<1>o. FalseIsDoomed' <=> \A s \in Steers :
          /\ result'[s] = "false" \/ (ack'[s] = "false" /\ ~receipt'[s].uncertain)
          /\ InFlight(s)'
          => Doomed'
  BY DEF FalseIsDoomed, InFlight, Waiting, Members
<1> SUFFICES ASSUME NEW s \in Steers, InFlight(s)', ~Doomed',
                    result'[s] = "false" \/ (ack'[s] = "false" /\ ~receipt'[s].uncertain)
             PROVE  FALSE
  BY <1>o
<1>a. process' = process /\ (InFlight(s) \/ Writes(s))
  BY InFlightMoves
<1>1. CASE Writes(s)
  <2>1. Unwritten(s) /\ ack' = ack /\ result' = result
    BY <1>1 DEF Writes, SteerWritten, SteerWriteFailed, Unwritten
  <2> QED BY <2>1 DEF NewInv, NewSteer
<1>2. CASE InFlight(s)
  <2>1. ~Doomed
    BY <1>2, DoomedBefore
  <2>2. result[s] # "false" /\ ~(ack[s] = "false" /\ ~receipt[s].uncertain)
    BY <1>2, <2>1 DEF AnswerInv, FalseIsDoomed
  <2>3. receipt[s].proc = process /\ ~Unwritten(s)
    BY <1>2 DEF OnceInv
  <2>4. ~receipt[s].uncertain => Held(s) /\ unsettled # NoProc /\ unsettled = process
    BY <1>2, <2>1 DEF HeldInv, Held, ProcInv, SameProc
  <2>5. spc[s] # "done" => ~receipt[s].uncertain
    BY DEF UncertainInv
  <2>6. CASE result'[s] = "false"
    <3>1. OwnStep(s)
      BY <2>2, <2>6, SteerMoves DEF SteerStays
    <3>2. ASSUME SteerReap(s) PROVE FALSE
      <4>1. Kill(process)
        BY <2>3, <3>2 DEF SteerReap
      <4>2. ~alive'[process]
        BY <4>1 DEF Kill, TypeInv, TypeOK, TypeLife
      <4> QED BY <1>a, <4>2 DEF Doomed
    <3>3. ASSUME SteerAcknowledged(s) PROVE FALSE
      <4>1. spc[s] = "await" /\ result'[s] = ack[s]
        BY <3>3 DEF SteerAcknowledged, Return, TypeInv, TypeOK, TypeSteer
      <4> QED BY <2>2, <2>5, <2>6, <4>1
    <3>4. ASSUME SteerDeadline(s) PROVE FALSE
      <4>1. spc[s] = "await" /\ ack[s] = "open" /\ stateLock = None
        BY <3>4 DEF SteerDeadline
      <4>2. pending # s \/ unsettled # receipt[s].proc
        BY <2>6, <3>4 DEF SteerDeadline, Return, TypeInv, TypeOK, TypeSteer
      <4>3. fg.followup = s /\ pending # s
        BY <2>3, <2>4, <2>5, <4>1, <4>2 DEF Held
      <4>4. pc # "scan"
        BY <4>1, TextsAssumption DEF FenceInv, SteerFence, LockHolders
      <4> QED BY <2>1, <4>1, <4>3, <4>4 DEF AnswerInv, FollowedOpen
    <3> QED BY <2>2, <2>3, <2>6, <3>1, <3>2, <3>3, <3>4, OwnFields DEF Unwritten
  <2>7. CASE ack'[s] = "false" /\ ~receipt'[s].uncertain
    <3>1. ~receipt[s].uncertain
      BY <2>7, UncertainMoves
    <3>2. ack[s] = "open" /\ Resolves(s)
      BY <2>2, <2>7, <3>1, AckMoves
    <3>3. ~(Releases /\ s = scan.unc) /\ ~(~Reattaches /\ s = FailedSteer)
      BY <2>4, <3>1, <3>2, TextsDiffer DEF UncertainInv, Releases, Reattaches
    <3>4. CASE SteerFailClosed(s)
      <4>1. spc'[s] = "reap" /\ receipt' = receipt
        BY <3>4 DEF SteerFailClosed, TypeInv, TypeOK, TypeSteer
      <4> QED BY <1>a, <2>3, <4>1 DEF Doomed, BeingStopped
    <3>5. ASSUME NEW a \in Stoppers, reaping[a].steer = s PROVE FALSE
      <4>1. reaping[a].proc = process
        BY <2>3, <3>5, TextsDiffer DEF ReapInv
      <4> QED BY <2>1, <4>1 DEF Doomed, BeingStopped
    <3> QED BY <2>7, <3>2, <3>3, <3>4, <3>5 DEF Resolves
  <2> QED BY <2>6, <2>7
<1> QED BY <1>a, <1>1, <1>2

LEMMA OpenBefore ==
  ASSUME TypeInv, TurnInv, [Next]_vars, NEW s \in Steers, ack'[s] = "open"
  PROVE  ack[s] = "open" /\ ~Resolves(s)
BY AckMoves DEF Resolves

LEMMA FollowedStep ==
  ASSUME TypeInv, TypeInv', TurnInv, FenceInv, FreshInv, FollowInv, ProcInv, ReapInv,
         AnswerInv, [Next]_vars
  PROVE  FollowedOpen'
<1> SUFFICES ASSUME NEW s \in Steers, fg'.followup = s, ack'[s] = "open", pending' # s,
                    ~(pc' = "scan" /\ scan'.enq = s), ~Doomed'
             PROVE  FALSE
  BY DEF FollowedOpen
<1>a. s # None /\ reaping \in [Stoppers -> ReapType]
  BY TextsDiffer DEF TypeInv, TypeOK, TypeHost
<1>1. ack[s] = "open" /\ ~Resolves(s)
  BY OpenBefore
<1>2. ~Doomed /\ process' = process
  <2>1. ~ResumeDone /\ ~ResumeBegin
    <3>1. ResumeDone => fg'.followup = None
      BY BeforeFields DEF Send
    <3>2. ResumeBegin => fg'.followup = None
      BY BeforeFields DEF Send
    <3> QED BY <1>a, <3>1, <3>2
  <2> QED BY <2>1, DoomedStays, LifeStep
<1>3. CASE ScanCase
  <2>1. pc = "scan" /\ pc' = "scan" /\ pending' \in {pending, None}
        /\ (Follows \/ fg'.followup = fg.followup)
    BY <1>3, ScanFields
  <2>2. CASE Follows
    <3>1. pending = s /\ receipt[s].enqueued
      BY <2>2 DEF Follows, Routes
    <3>2. scan.enq = s
      BY <1>1, <2>1, <3>1 DEF AnswerInv, AcknowledgedOpen
    <3> QED BY <1>3, <2>1, <3>1, <3>2, EnqMoves
  <2>3. CASE fg'.followup = fg.followup
    <3>1. pending = None
      BY <1>a, <2>1, <2>3 DEF FollowInv
    <3>2. scan.enq = s
      BY <1>1, <1>2, <1>a, <2>3, <3>1 DEF AnswerInv, FollowedOpen
    <3> QED BY <1>3, <2>1, <3>1, <3>2, EnqMoves DEF Acknowledges
  <2> QED BY <2>1, <2>2, <2>3
<1>4. CASE ~ScanCase
  <2>1. fg.followup = s
    BY <1>4, <1>a, FollowupMoves
  <2>2. pending = s \/ (pc = "scan" /\ scan.enq = s)
    BY <1>1, <1>2, <2>1 DEF AnswerInv, FollowedOpen
  <2>3. CASE pc = "scan" /\ scan.enq = s
    <3>1. pending = None
      BY <1>a, <2>1, <2>3 DEF FollowInv
    <3>2. CASE ScanEnd
      <4>1. ~Releases /\ FailedSteer = s
        BY <1>a, <2>3, <3>1 DEF Releases, FailedSteer
      <4>2. \/ Reattaches /\ pending' = s
            \/ ~Reattaches /\ ack' = Resolve(s, "false")
            \/ ack' = Resolve(s, "true")
        BY <2>3, <3>2, <4>1 DEF ScanEnd
      <4>3. ASSUME NEW b \in {"true", "false"}, ack' = Resolve(s, b) PROVE FALSE
        BY <1>1, <1>a, <4>3 DEF Resolve, TypeInv, TypeOK, TypeSteer
      <4> QED BY <4>2, <4>3
    <3>3. CASE SideSteps
      BY <2>3, <3>3, SideFields
    <3>4. ASSUME pc # "scan" PROVE FALSE
      BY <2>3, <3>4
    <3> QED BY <1>4, <2>3, <3>2, <3>3, AllSteps, LaterFields, BeforeFields
          DEF Read, Emit, FinallyReap, Before, LoopCrash, LoopPoll, LoopTimeout, HostCancel,
          Decide,
          DecideResend, DecideComplete, DecideApiError, DecideLimit, DecideBanner, DecideAgain,
          Goes, Unfinished, FinallyDetach
  <2>4. CASE pending = s
    <3>1. unsettled # NoProc /\ unsettled = process
      BY <1>a, <2>4 DEF TurnInv, PendingInv, ProcInv, SameProc
    <3>2. CASE FinallyDetach \/ InterruptDetach \/ StopLock
      <4>1. ASSUME NEW a \in Stoppers, Takes(a) PROVE FALSE
        <5>1. reaping'[a].proc = process
          BY <1>a, <3>1, <4>1 DEF Takes
        <5> QED BY <1>2, <5>1 DEF Doomed, BeingStopped
      <4>2. ASSUME NEW a \in Stoppers, Reaps(a) PROVE UNCHANGED pending
        BY <3>2, <4>2 DEF Reaps, FinallyReap, InterruptReap, StopReap, lockSt, turnSt
      <4> QED BY <2>4, <3>2, <4>1, <4>2, ReapMoves
    <3>3. ASSUME NEW t \in Steers, SteerFailClosed(t) PROVE FALSE
      <4>1. t = s
        BY <2>4, <3>3 DEF SteerFailClosed
      <4>2. ack' = Resolve(s, "false")
        BY <3>3, <4>1 DEF SteerFailClosed
      <4> QED BY <1>1, <1>a, <4>2 DEF Resolve, TypeInv, TypeOK, TypeSteer
    <3>4. ASSUME NEW t \in Steers, SteerAdmit(t) PROVE FALSE
      BY <1>a, <2>4, <3>4 DEF SteerAdmit, Admissible
    <3>5. ASSUME ScanEnd PROVE FALSE
      <4>1. pc = "scan"
        BY <3>5, EndFields
      <4> QED BY <1>a, <2>1, <2>4, <4>1 DEF FollowInv
    <3> QED BY <1>4, <2>4, <3>2, <3>3, <3>4, <3>5, HoldMoves
  <2> QED BY <2>2, <2>3, <2>4
<1> QED BY <1>3, <1>4

LEMMA AcknowledgedStep ==
  ASSUME TypeInv, TypeInv', TurnInv, TurnInv', FenceInv, OnceInv, AnswerInv, [Next]_vars
  PROVE  AcknowledgedOpen'
<1>o. AcknowledgedOpen' <=> \A s \in Steers :
          pending' = s /\ receipt'[s].enqueued /\ ack'[s] = "open" =>
              \/ pc' = "scan" /\ scan'.enq = s
              \/ pc' \in {"emit", "decide"} /\ (scan'.err \/ scan'.lim)
              \/ pc' = "detach"
  BY DEF AcknowledgedOpen, Failed
<1> SUFFICES ASSUME NEW s \in Steers, pending' = s, receipt'[s].enqueued, ack'[s] = "open"
             PROVE  \/ pc' = "scan" /\ scan'.enq = s
                    \/ pc' \in {"emit", "decide"} /\ (scan'.err \/ scan'.lim)
                    \/ pc' = "detach"
  BY <1>o
<1>a. s # None
  BY TextsDiffer
<1>1. ack[s] = "open"
  BY OpenBefore
<1>2. ASSUME SteerAdmit(s) PROVE FALSE
  <2>1. Unwritten(s) /\ receipt'[s].enqueued = receipt[s].enqueued
    BY <1>2, OwnFields DEF OwnStep, SteerAdmit, SteerMayEnter, Unwritten
  <2> QED BY <2>1 DEF OnceInv
<1>3. CASE ScanEnd
  <2>1. pc = "scan" /\ pc' = "emit" /\ scan'.err = scan.err /\ scan'.lim = scan.lim
        /\ receipt' = receipt
    BY <1>3, EndFields
  <2>2. CASE Failed
    BY <2>1, <2>2 DEF Failed
  <2>3. CASE ~Failed
    <3>1. /\ pending' = pending /\ ack' = Resolve(scan.enq, "true")
      BY <1>3, <1>a, <2>3 DEF ScanEnd
    <3>2. scan.enq = s
      BY <1>1, <2>1, <3>1 DEF AnswerInv, AcknowledgedOpen
    <3> QED BY <1>1, <1>a, <3>1, <3>2 DEF Resolve, TypeInv, TypeOK, TypeSteer
  <2> QED BY <2>2, <2>3
<1>4. CASE pending = s /\ ~ScanEnd
  <2>1. receipt[s].enqueued \/ (ScanEnqueue /\ Acknowledges)
    BY SteerMoves, OwnFields DEF SteerStays
  <2>2. CASE ScanEnqueue /\ Acknowledges
    <3>1. scan' = [NextRecord EXCEPT !.enq = s] /\ pc = "scan" /\ pc' = "scan"
      BY <1>4, <2>2, ScanFields DEF ScanEnqueue, ScanCase
    <3>2. [NextRecord EXCEPT !.enq = s].enq = s
      BY NextRecordKeeps DEF TypeInv, TypeOK
    <3> QED BY <3>1, <3>2
  <2>3. CASE receipt[s].enqueued
    <3>1. \/ pc = "scan" /\ scan.enq = s
          \/ pc \in {"emit", "decide"} /\ Failed
          \/ pc = "detach"
      BY <1>1, <1>4, <2>3 DEF AnswerInv, AcknowledgedOpen
    <3>2. CASE ScanCase
      BY <1>4, <3>1, <3>2, EnqMoves
    <3>3. CASE SideSteps
      BY <3>1, <3>3, SideFields DEF Failed
    <3>4. CASE Read \/ FinallyReap \/ Send \/ Enter
      <4>1. pc \notin {"scan", "emit", "decide", "detach"}
        BY <3>4 DEF Read, FinallyReap, Enter, CancelOwn, Acquire, Send, Own, CheckAlive,
           CheckRefused, ResumeBegin,
           ResumeDone, ResumeFailed, Backlog, DeliverChannel, DeliverStdin, DeliverFailed
      <4> QED BY <3>1, <4>1
    <3>5. CASE Emit
      BY <3>1, <3>5 DEF Emit, Failed
    <3>6. CASE LoopCrash \/ LoopPoll \/ LoopTimeout \/ HostCancel \/ Decide \/ DecideResend
               \/ FinallyDetach
      <4>1. \/ pc' = "detach"
            \/ pc = "decide" /\ pc' = "decide" /\ UNCHANGED scan
            \/ pc = "decide" /\ pc' = "loop" /\ ~Failed
            \/ pc = "loop" /\ pc' = "poll" /\ UNCHANGED scan
            \/ pc = "detach" /\ pc' = "reap"
        BY <3>6, LaterFields
      <4>2. pc' # "reap"
        <5>1. unsettled' # NoProc /\ InRounds'
          BY <1>a DEF TurnInv, PendingInv, UnsettledInv
        <5> QED BY <5>1 DEF InRounds
      <4> QED BY <3>1, <4>1, <4>2 DEF Failed
    <3> QED BY <1>4, <3>2, <3>3, <3>4, <3>5, <3>6, AllSteps
  <2> QED BY <2>1, <2>2, <2>3
<1> QED BY <1>2, <1>3, <1>4, <1>a, PendingMoves

LEMMA AnswerStep ==
  ASSUME "child" \notin Env, "resend" \notin Env, TypeInv, TypeInv', TurnInv, TurnInv',
         FenceInv, PlaceInv, JournalInv, AliveInv, FreshInv, FollowInv, ProcInv, OnceInv,
         ReapInv, NewInv, UncertainInv, HeldInv, AnswerInv, [Next]_vars
  PROVE  AnswerInv'
BY FalseStep, FollowedStep, AcknowledgedStep DEF AnswerInv

(* The whole invariant. *)
RoundsInv == /\ TypeInv /\ FenceInv /\ TurnInv /\ StreamInv /\ ReceiptInv
             /\ AliveInv /\ JournalInv /\ FreshInv /\ FollowInv
SteeredInv == /\ ProcInv /\ OnceInv /\ PromptInv /\ LastInv /\ WaitInv
              /\ ReapInv /\ NewInv /\ UncertainInv /\ HeldInv /\ AnswerInv

LEMMA SteeredInit == Init => SteeredInv
<1> SUFFICES ASSUME Init PROVE SteeredInv
  OBVIOUS
<1>1. /\ cc.inbox = <<>> /\ cc.queue = <<>> /\ cc.echo = None
      /\ Waiting = {} /\ \A x \in Inputs : ~InFlight(x)
      /\ \A x : Once(cc.inbox, x) /\ Once(cc.queue, x)
  <2>1. cc.inbox = <<>> /\ cc.queue = <<>> /\ cc.echo = None
    BY DEF Init, Quiet
  <2> QED BY <2>1, NoText, TextsDiffer DEF Waiting, InFlight
<1>2. Members(Stream) = {}
  <2>1. scan.batch = <<>> /\ prefetched = <<>> /\ unread = <<>>
    BY DEF Init, ScanInit
  <2>2. <<>> \in Seq(Record)
    BY EmptySeq
  <2>3. Stream = <<>>
    BY <2>1, <2>2, Joined DEF Stream
  <2> QED BY <2>3, NoText
<1>3. /\ pc = "idle" /\ sending = None /\ irq.pc = "ready" /\ stopPc = "ready"
      /\ active = NoProc /\ unsettled = NoProc /\ pending = None
      /\ fg.followup = None /\ scan.unc = None
  BY DEF Init, FgInit, ScanInit
<1>4. ASSUME NEW s \in Steers
      PROVE  /\ spc[s] = "idle" /\ ack[s] = "open" /\ result[s] = "none"
             /\ ~receipt[s].enqueued /\ ~receipt[s].uncertain /\ s \notin journaled
  BY DEF Init, NoReceipt
<1>5. \A a \in Stoppers : reaping[a] = NoReap /\ reaping[a].steer = None
  BY DEF Init, NoReap
<1>6. \A p \in Procs : alive[p] => p = process
  BY DEF Init
<1>7. ProcInv
  BY <1>1, <1>3, <1>4, <1>6 DEF ProcInv, OnlyInv, SameProc, WriteInv, Polling
<1>8. OnceInv
  BY <1>1, <1>2, <1>4, NoText, TextsDiffer DEF OnceInv, OnePlace, Unwritten, NoEcho
<1>9. PromptInv /\ LastInv
  BY <1>1, <1>2, <1>3, TextsDiffer DEF PromptInv, LastInv, Polling
<1>10. WaitInv
  BY <1>3 DEF WaitInv, FollowWaits, OpenWaits, ActiveWaits, FenceHeld, RouteInv
<1>11. ReapInv /\ NewInv
  BY <1>4, <1>5, TextsDiffer DEF ReapInv, NewInv, NewSteer, Stoppers
<1>12. UncertainInv /\ HeldInv
  BY <1>1, <1>3, <1>4, TextsDiffer DEF UncertainInv, HeldInv
<1>13. AnswerInv
  BY <1>1, <1>3, <1>4, TextsDiffer
     DEF AnswerInv, FalseIsDoomed, FollowedOpen, AcknowledgedOpen
<1> QED BY <1>7, <1>8, <1>9, <1>10, <1>11, <1>12, <1>13 DEF SteeredInv

LEMMA RoundsInit == Init => RoundsInv
BY TypeInvInit, FenceInit, TurnInit, StreamInit, ReceiptInit, AliveInit, JournalInit,
   FreshInit, FollowInit DEF RoundsInv

LEMMA RoundsStep == RoundsInv /\ [Next]_vars => RoundsInv'
<1> SUFFICES ASSUME RoundsInv, [Next]_vars PROVE RoundsInv'
  OBVIOUS
<1>0. /\ TypeInv /\ FenceInv /\ TurnInv /\ StreamInv /\ PlaceInv /\ AliveInv /\ JournalInv
      /\ FreshInv /\ FollowInv /\ PrefetchedInv /\ OwnEnqueue /\ AckIsGenuine
  BY DEF RoundsInv, StreamInv, ReceiptInv
<1>1. TypeInv' /\ FenceInv' /\ TurnInv' /\ StreamInv'
  BY <1>0, TypeInvStep, FenceStep, TurnStep, StreamStep
<1>2. ReceiptInv'
  <2>1. PrefetchedInv' /\ OwnEnqueue' /\ AckIsGenuine'
    BY <1>0, PrefetchedStep, AckStep
  <2> QED BY <2>1 DEF ReceiptInv
<1>3. AliveInv' /\ JournalInv' /\ FreshInv' /\ FollowInv'
  BY <1>0, <1>1, AliveStep, JournalStep, FreshStep, FollowStep
<1> QED BY <1>1, <1>2, <1>3 DEF RoundsInv

LEMMA SteeredStep ==
  ASSUME "child" \notin Env, "resend" \notin Env, RoundsInv, SteeredInv, [Next]_vars
  PROVE  SteeredInv'
<1>1. RoundsInv'
  BY RoundsStep
<1>2. /\ TypeInv /\ FenceInv /\ TurnInv /\ PlaceInv /\ AliveInv /\ JournalInv
      /\ FreshInv /\ FollowInv /\ OwnEnqueue
  BY DEF RoundsInv, StreamInv, ReceiptInv
<1>3. TypeInv' /\ TurnInv' /\ OwnEnqueue'
  BY <1>1 DEF RoundsInv, ReceiptInv
<1>4. /\ ProcInv /\ OnceInv /\ PromptInv /\ LastInv /\ WaitInv
      /\ ReapInv /\ NewInv /\ UncertainInv /\ HeldInv /\ AnswerInv
  BY DEF SteeredInv
<1>5. ProcInv' /\ OnceInv'
  BY <1>2, <1>3, <1>4, ProcStep, OnceStep
<1>6. PromptInv' /\ LastInv'
  BY <1>2, <1>4, PromptStep, LastStep
<1>7. WaitInv'
  BY <1>2, <1>3, <1>4, WaitStep
<1>8. ReapInv' /\ NewInv' /\ UncertainInv'
  BY <1>2, <1>4, ReapStep, NewStep, UncertainStep
<1>9. HeldInv'
  BY <1>2, <1>3, <1>4, HeldStep
<1>10. AnswerInv'
  BY <1>2, <1>3, <1>4, AnswerStep
<1> QED BY <1>5, <1>6, <1>7, <1>8, <1>9, <1>10 DEF SteeredInv

(* A steer that Claude Code has still to run never outlives the send_prompt that was
   steered: the same consumer follows it to its next terminal record, or its process is
   being stopped, unless the host was told that its fate is uncertain.  Whatever is
   lost, dies, fails, times out or is interrupted, and in whatever order the records
   come; without the notifications of sub-agents and repeated deliveries, whose removal
   from the queue session.py takes for that of the steer. *)
THEOREM SteerFollowed ==
  ASSUME "child" \notin Env, "resend" \notin Env
  PROVE  Spec => []SteerIsFollowed
<1> DEFINE IInv == RoundsInv /\ SteeredInv
<1>1. Init => IInv
  BY RoundsInit, SteeredInit
<1>2. IInv /\ [Next]_vars => IInv'
  BY RoundsStep, SteeredStep
<1>3. IInv => SteerIsFollowed
  <2> SUFFICES ASSUME IInv, NEW s \in Steers, StillToRun(s), ~receipt[s].uncertain,
                      ~BeingStopped(process)
               PROVE  sending # None
    BY DEF SteerIsFollowed
  <2>1. InFlight(s)
    BY StillInFlight
  <2>2. alive[process]
    BY <2>1, TextsDiffer DEF SteeredInv, ProcInv, OnlyInv, InFlight
  <2>3. unsettled # NoProc
    BY <2>1, <2>2 DEF Doomed, SteeredInv, HeldInv, Held
  <2>4. owner # None /\ owner = sending
    BY <2>3 DEF RoundsInv, TurnInv, UnsettledInv, OwnerInv
  <2> QED BY <2>4
<1> QED BY <1>1, <1>2, <1>3, PTL DEF Spec

(* When steer_active_turn returns False, the host may submit the text again: the copy
   that was written is not going to run, because it is gone with its process, was never
   written, or its process is being stopped before anything else can happen to it. *)
THEOREM FalseNeverRuns ==
  ASSUME "child" \notin Env, "resend" \notin Env
  PROVE  Spec => []FalseNeverRunsLater
<1> DEFINE IInv == RoundsInv /\ SteeredInv
<1>1. Init => IInv
  BY RoundsInit, SteeredInit
<1>2. IInv /\ [Next]_vars => IInv'
  BY RoundsStep, SteeredStep
<1>3. IInv => FalseNeverRunsLater
  <2> SUFFICES ASSUME IInv, NEW s \in Steers, result[s] = "false", StillToRun(s)
               PROVE  BeingStopped(process)
    BY DEF FalseNeverRunsLater
  <2>1. InFlight(s)
    BY StillInFlight
  <2>2. alive[process]
    BY <2>1, TextsDiffer DEF SteeredInv, ProcInv, OnlyInv, InFlight
  <2> QED BY <2>1, <2>2 DEF Doomed, SteeredInv, AnswerInv, FalseIsDoomed
<1> QED BY <1>1, <1>2, <1>3, PTL DEF Spec
================================================================================
