----------------------------- MODULE CCMSlot_proofs ----------------------------
(***************************************************************************)
(* What holds of CCMSlot for any number of launches:                       *)
(*   SlotTypesHold   Spec => []SlotTypeOK                                  *)
(*   NewestStays     Spec => []NewestStaysRegistered                       *)
(*   WakesOwn        Spec => WakesItsDispatcher                            *)
(* The last two if the host does not resume a session that is in a turn.   *)
(***************************************************************************)
EXTENDS CCMSlot, TLAPS

Up(t) == lpc[t] = "up"

TypeInv ==
    /\ SlotTypeOK
    /\ \A t \in Turns : cpc[t] # "none" => sess[t] \in Turns

(* One launch at a time, which holds the slot's proxy while it creates; what
   else is known of a turn is known of one that was launched. *)
LaunchInv ==
    /\ \A t \in Turns : lpc[t] # "none" => t <= launched
    /\ \A t \in Turns : Launching(t) => t = launched
    /\ \A t \in Turns : cpc[t] # "none" => Up(t)
    /\ \A t \in Turns : sess[t] # Nobody => Up(t) /\ Up(sess[t])
    /\ \A s \in live : Up(s)
    /\ \A t \in Turns : lpc[t] = "create" => slot.proxy = t
    /\ \A t \in Turns : plan[t].by # Nobody =>
         Up(plan[t].by) /\ plan[t].resume = sess[plan[t].by]
    /\ \A t \in Turns : kpc[t] # "none" => Up(t) /\ t \in done

(* A session leads to the proxy of the one turn that is on it, so that on_exit
   finds its own. *)
OwnInv ==
    /\ \A t \in Turns : ~Ended(t) => tag[sess[t]] = t
    /\ \A t \in Turns : cpc[t] \in {"exit", "rotate", "over", "lost"} => own[t] = t

(* Only dispatchers whose turn is over wait on another proxy. *)
ChainInv == \A p \in Turns : chained[p] # Nobody => cpc[chained[p]] = "over"

(* The consumer of the slot is that of its session, or its session is stopped. *)
PairInv ==
    /\ \A c \in Turns : slot.consumer = c /\ ~Ended(c) =>
         slot.session = sess[c] \/ sess[c] \notin live
    /\ \A t \in Turns : lpc[t] = "stop" => slot.session \in {Nobody, plan[t].stale}
    /\ \A t \in Turns : lpc[t] = "remove" => slot.session = Nobody

(* Nobody who was on a session that can be resumed will kill it any more. *)
Past(x) == x \in done /\ kpc[x] # "check"
ReuseInv ==
    /\ \A t \in Turns : Up(t) /\ plan[t].by # Nobody => sess[plan[t].by] \notin live
    /\ \A u \in Turns : Up(u) /\ Ended(u) /\ sess[u] \in live => u \in done
    /\ \A x, c \in Turns : Up(x) /\ ~Ended(c) /\ x # c /\ sess[x] = sess[c] => Past(x)
    /\ \A t \in Turns : Launching(t) /\ plan[t].by = Nobody /\ plan[t].resume \in live =>
         \A x \in Turns : sess[x] = plan[t].resume => Ended(x) /\ Past(x)

SlotInv == LaunchInv /\ OwnInv /\ ChainInv /\ PairInv /\ ReuseInv
--------------------------------------------------------------------------------
(* Proxies and cancellation. *)

LEMMA TurnsTyped == /\ Turns \subseteq Nat /\ Nobody \notin Turns
                    /\ TurnOrNobody = Turns \cup {Nobody}
                    /\ \A n \in Nat : n < MaxTurns => n + 1 \in Turns
  BY SlotAssumption DEF Turns, Nobody, TurnOrNobody

LEMMA ValuesTyped ==
  ASSUME TypeInv, NEW t \in Turns
  PROVE  /\ sess[t] = Nobody \/ sess[t] \in Turns
         /\ chained[t] = Nobody \/ chained[t] \in Turns
         /\ plan[t].by = Nobody \/ plan[t].by \in Turns
  BY TurnsTyped DEF TypeInv, SlotTypeOK

(* complete sets its own proxy, *)
LEMMA CompletesItself == ASSUME NEW p \in Turns PROVE p \in Downstream(p)
  BY TurnsTyped DEF Downstream

LEMMA CompletesTurns == ASSUME NEW p PROVE Downstream(p) \subseteq Turns
  BY DEF Downstream

(* and besides only those that are chained. *)
LEMMA CompletesOver ==
  ASSUME TypeInv, ChainInv, NEW p \in Turns
  PROVE  Downstream(p) \subseteq {p} \cup {q \in Turns : cpc[q] = "over"}
<1> DEFINE S == {p} \cup {q \in Turns : cpc[q] = "over"}
<1>1. \A x \in S : chained[x] \in S \cup {Nobody}
  BY TurnsTyped DEF TypeInv, SlotTypeOK, ChainInv
<1>2. S \in SUBSET Turns /\ p \in S
  OBVIOUS
<1> HIDE DEF S
<1>3. \A q \in Downstream(p) : q \in S
  BY <1>1, <1>2 DEF Downstream
<1> QED BY <1>3 DEF S

(* What a cancellation does to the consumer c, and to no other. *)
Cuts(c, u) ==
    /\ u = c
    /\ \/ cpc[u] \in {"wait", "turn"} /\ cpc'[u] = "ending"
       \/ cpc[u] \in {"exit", "rotate"} /\ cpc'[u] = "lost"

LEMMA CancelCuts ==
  ASSUME TypeInv, NEW c \in TurnOrNobody, Cancel(c)
  PROVE  /\ cpc' \in [Turns -> {"none", "wait", "turn", "ending", "exit", "rotate",
                                "over", "lost"}]
         /\ \A u \in Turns : cpc'[u] = cpc[u] \/ Cuts(c, u)
<1>1. cpc \in [Turns -> {"none", "wait", "turn", "ending", "exit", "rotate",
                         "over", "lost"}]
  BY DEF TypeInv, SlotTypeOK
<1>2. CASE AfterCancel(c) = "same"
  BY <1>1, <1>2 DEF Cancel
<1>3. CASE AfterCancel(c) # "same"
  <2>1. c \in Turns /\ cpc' = [cpc EXCEPT ![c] = AfterCancel(c)]
    BY <1>3, TurnsTyped DEF Cancel, Move, AfterCancel
  <2>2. \/ cpc[c] \in {"wait", "turn"} /\ AfterCancel(c) = "ending"
        \/ cpc[c] \in {"exit", "rotate"} /\ AfterCancel(c) = "lost"
    BY <1>3 DEF AfterCancel
  <2> QED BY <1>1, <2>1, <2>2 DEF Cuts
<1> QED BY <1>2, <1>3
--------------------------------------------------------------------------------
(* Types. *)
LEMMA TypeStep == TypeInv /\ [Next]_vars => TypeInv'
<1> SUFFICES ASSUME TypeInv, [Next]_vars PROVE TypeInv'
  OBVIOUS
<1> USE DEF launchSt, sessions, proxies, consumer, killSt
<1>1. ASSUME NEW r \in TurnOrNobody, NEW c \in TurnOrNobody, LaunchBegin(r, c)
      PROVE  TypeInv'
  <2>1. launched + 1 \in Turns /\ launched' = launched + 1
    BY <1>1, SlotAssumption DEF LaunchBegin, TypeInv, SlotTypeOK, Turns, TurnOrNobody
  <2>2. plan' \in [Turns -> [resume : TurnOrNobody, by : TurnOrNobody, stale : TurnOrNobody]]
    BY <1>1, <2>1, TurnsTyped DEF LaunchBegin, TypeInv, SlotTypeOK
  <2>3. lpc' \in [Turns -> {"none", "stop", "remove", "create", "up", "failed"}]
    BY <1>1, <2>1 DEF LaunchBegin, TypeInv, SlotTypeOK, Launch
  <2>4. slot' \in [proxy : TurnOrNobody, session : TurnOrNobody, consumer : TurnOrNobody]
    BY <1>1, <2>1, TurnsTyped DEF LaunchBegin, TypeInv, SlotTypeOK, Register
  <2> QED BY <1>1, <2>1, <2>2, <2>3, <2>4, TurnsTyped DEF LaunchBegin, TypeInv, SlotTypeOK
<1>2. CASE HostLaunch
  BY <1>1, <1>2, TurnsTyped DEF HostLaunch
<1>3. ASSUME NEW t \in Turns, LaunchStopped(t) PROVE TypeInv'
  BY <1>3, TurnsTyped DEF LaunchStopped, Launch, TypeInv, SlotTypeOK
<1>4. ASSUME NEW t \in Turns, LaunchRemoved(t) PROVE TypeInv'
  <2>1. slot.consumer \in TurnOrNobody
    BY DEF TypeInv, SlotTypeOK
  <2>2. /\ cpc' \in [Turns -> {"none", "wait", "turn", "ending", "exit", "rotate",
                               "over", "lost"}]
        /\ \A u \in Turns : cpc'[u] = cpc[u] \/ Cuts(slot.consumer, u)
    BY <1>4, <2>1, CancelCuts DEF LaunchRemoved
  <2>3. \A u \in Turns : cpc'[u] # "none" => cpc[u] # "none"
    BY <2>2 DEF Cuts
  <2> QED BY <1>4, <2>2, <2>3, TurnsTyped DEF LaunchRemoved, Launch, TypeInv, SlotTypeOK
<1>5. ASSUME NEW t \in Turns, LaunchUp(t) PROVE TypeInv'
  <2> DEFINE r == plan[t].resume
             s == IF r \in live /\ plan[t].by = Nobody THEN r ELSE t
  <2>1. s \in Turns
    BY DEF TypeInv, SlotTypeOK
  <2>2. /\ sess' = [sess EXCEPT ![t] = s] /\ tag' = [tag EXCEPT ![s] = t]
        /\ live' \subseteq live \cup {s}
        /\ slot' = [slot EXCEPT !.session = s, !.consumer = t]
        /\ lpc' = [lpc EXCEPT ![t] = "up"] /\ cpc' = [cpc EXCEPT ![t] = "wait"]
        /\ UNCHANGED <<launched, plan, proxies, own, killSt>>
    BY <1>5 DEF LaunchUp, Launch, Move
  <2> HIDE DEF s
  <2> QED BY <2>1, <2>2, TurnsTyped DEF TypeInv, SlotTypeOK
<1>6. ASSUME NEW t \in Turns, LaunchFails(t) PROVE TypeInv'
  BY <1>6 DEF LaunchFails, Launch, TypeInv, SlotTypeOK
<1>7. ASSUME NEW t \in Turns, TurnStep(t) PROVE TypeInv'
  <2>1. PICK pc \in {"turn", "ending"} : cpc' = [cpc EXCEPT ![t] = pc]
    BY <1>7 DEF TurnStep, TurnStart, TurnEnd, Move
  <2>2. cpc[t] # "none" /\ live' \subseteq live
    BY <1>7 DEF TurnStep, TurnStart, TurnEnd
  <2> QED BY <1>7, <2>1, <2>2 DEF TurnStep, TurnStart, TurnEnd, TypeInv, SlotTypeOK
<1>8. ASSUME NEW t \in Turns, OnExit(t) PROVE TypeInv'
  <2>1. OwnProxy(t) \in TurnOrNobody /\ cpc[t] = "ending"
    BY <1>8 DEF OnExit, OwnProxy, TypeInv, SlotTypeOK
  <2>2. PICK pc \in {"exit", "rotate"} : cpc' = [cpc EXCEPT ![t] = pc]
    BY <1>8 DEF OnExit, Move
  <2> QED BY <1>8, <2>1, <2>2 DEF OnExit, TypeInv, SlotTypeOK
<1>9. ASSUME NEW c \in Turns, Rotate(c) PROVE TypeInv'
  <2>1. sess[c] \in TurnOrNobody
    BY DEF TypeInv, SlotTypeOK
  <2> QED BY <1>1, <1>9, <2>1, TurnsTyped DEF Rotate
<1>10. ASSUME NEW c \in Turns, Rotated(c) PROVE TypeInv'
  <2>1. done' \subseteq Turns /\ chained' \in [Turns -> TurnOrNobody]
    BY <1>10, CompletesTurns DEF Rotated, Chain, Complete, TypeInv, SlotTypeOK
  <2> QED BY <1>10, <2>1 DEF Rotated, Move, TypeInv, SlotTypeOK
<1>11. ASSUME NEW c \in Turns, NotRotated(c) PROVE TypeInv'
  BY <1>11 DEF NotRotated, Move, TypeInv, SlotTypeOK
<1>12. ASSUME NEW t \in Turns, ExitDone(t) PROVE TypeInv'
  <2>1. done' \subseteq Turns
    BY <1>12, CompletesTurns DEF ExitDone, Complete, TypeInv, SlotTypeOK
  <2>2. slot' \in [proxy : TurnOrNobody, session : TurnOrNobody, consumer : TurnOrNobody]
    BY <1>12, TurnsTyped DEF ExitDone, Cleaned, Unless, TypeInv, SlotTypeOK
  <2> QED BY <1>12, <2>1, <2>2 DEF ExitDone, Move, TypeInv, SlotTypeOK
<1>13. ASSUME NEW t \in Turns, Kill(t) PROVE TypeInv'
  <2>1. done' \subseteq Turns
    BY <1>13, CompletesTurns DEF Kill, Complete, TypeInv, SlotTypeOK
  <2> QED BY <1>13, <2>1 DEF Kill, TypeInv, SlotTypeOK
<1>14. ASSUME NEW t \in Turns, ForceKill(t) PROVE TypeInv'
  <2>1. CASE TakenOver(t)
    BY <1>14, <2>1 DEF ForceKill, TypeInv, SlotTypeOK
  <2>2. CASE ~TakenOver(t)
    <3>1. slot.consumer \in TurnOrNobody
      BY DEF TypeInv, SlotTypeOK
    <3>2. /\ cpc' \in [Turns -> {"none", "wait", "turn", "ending", "exit", "rotate",
                                 "over", "lost"}]
          /\ \A u \in Turns : cpc'[u] = cpc[u] \/ Cuts(slot.consumer, u)
      BY <1>14, <2>2, <3>1, CancelCuts DEF ForceKill
    <3>3. \A u \in Turns : cpc'[u] # "none" => cpc[u] # "none"
      BY <3>2 DEF Cuts
    <3>4. lpc' \in [Turns -> {"none", "stop", "remove", "create", "up", "failed"}]
      BY <1>14, <2>2 DEF ForceKill, TypeInv, SlotTypeOK
    <3>5. /\ slot' = [slot EXCEPT !.session = Nobody, !.consumer = Nobody]
          /\ kobj' = [kobj EXCEPT ![t] = slot.session] /\ kpc' = [kpc EXCEPT ![t] = "stop"]
          /\ UNCHANGED <<launched, plan, sess, live, tag, done, chained, own>>
      BY <1>14, <2>2 DEF ForceKill
    <3> QED BY <3>2, <3>3, <3>4, <3>5, TurnsTyped DEF TypeInv, SlotTypeOK
  <2> QED BY <2>1, <2>2
<1>15. ASSUME NEW t \in Turns, ForceKilled(t) PROVE TypeInv'
  BY <1>15 DEF ForceKilled, TypeInv, SlotTypeOK
<1>16. CASE UNCHANGED vars
  BY <1>16 DEF vars, TypeInv, SlotTypeOK
<1> QED BY <1>2, <1>3, <1>4, <1>5, <1>6, <1>7, <1>8, <1>9, <1>10, <1>11, <1>12, <1>13,
           <1>14, <1>15, <1>16 DEF Next, HostStep, Progress
--------------------------------------------------------------------------------
(* Steps that begin and publish no launch.  A consumer whose turn is over stays
   so; one that ends has completed its proxy, or its session is stopped. *)
Onward(u) ==
    /\ lpc'[u] = lpc[u] \/ (Launching(u) /\ lpc'[u] \notin {"none", "up"})
    /\ cpc'[u] = cpc[u] \/ (~Ended(u) /\ cpc'[u] # "none")
    /\ kpc'[u] = kpc[u] \/ (Up(u) /\ u \in done' /\ (u \in done => kpc'[u] # "check"))

LEMMA OnwardKeeps ==
  ASSUME TypeInv, SlotInv,
         UNCHANGED <<launched, plan, sess, tag>>, live' \subseteq live, done \subseteq done',
         \A u \in Turns : Onward(u),
         \A u \in Turns : lpc'[u] = "create" => slot'.proxy = u,
         \A u \in Turns : cpc'[u] \in {"exit", "rotate", "over", "lost"} => own'[u] = u,
         \A u \in Turns : ~Ended(u) /\ cpc'[u] \in {"over", "lost"} =>
             sess[u] \notin live' \/ u \in done',
         ChainInv', PairInv'
  PROVE  SlotInv'
<1>1. /\ \A u \in Turns : Launching(u)' => Launching(u)
      /\ \A u \in Turns : Up(u)' <=> Up(u)
      /\ \A u \in Turns : Ended(u) => Ended(u)'
      /\ \A u \in Turns : cpc'[u] # "none" => cpc[u] # "none"
  BY DEF Onward, Launching, Ended, Up
<1>2. LaunchInv'
  <2>1. \A u \in Turns : lpc'[u] # "none" => lpc[u] # "none"
    BY DEF Onward, Launching
  <2>2. \A u \in Turns : kpc'[u] # "none" => Up(u)' /\ u \in done'
    BY <1>1 DEF Onward, SlotInv, LaunchInv
  <2>3. \A u \in Turns : sess[u] # Nobody => Up(u)' /\ Up(sess[u])'
    BY <1>1, ValuesTyped DEF SlotInv, LaunchInv
  <2>4. \A u \in Turns : plan[u].by # Nobody => Up(plan[u].by)' /\ plan[u].resume = sess[plan[u].by]
    BY <1>1, ValuesTyped DEF SlotInv, LaunchInv
  <2>5. \A u \in live' : Up(u)'
    BY <1>1 DEF SlotInv, LaunchInv, TypeInv, SlotTypeOK
  <2> QED BY <1>1, <2>1, <2>2, <2>3, <2>4, <2>5 DEF SlotInv, LaunchInv, Up
<1>3. OwnInv'
  BY <1>1 DEF SlotInv, OwnInv, Ended
<1>4. ReuseInv'
  <2>1. \A u \in Turns : Past(u) => Past(u)'
    BY DEF Past, Onward
  <2>2. ASSUME NEW t \in Turns, Up(t)', plan[t].by # Nobody
        PROVE  sess[plan[t].by] \notin live'
    BY <1>1, <2>2 DEF SlotInv, ReuseInv
  <2>3. ASSUME NEW u \in Turns, Up(u)', Ended(u)', sess[u] \in live'
        PROVE  u \in done'
    <3>1. CASE Ended(u)
      BY <1>1, <2>3, <3>1 DEF SlotInv, ReuseInv
    <3>2. CASE ~Ended(u)
      <4>1. cpc'[u] \in {"over", "lost"}
        BY <2>3, <3>2 DEF Onward, Ended
      <4> QED BY <2>3, <3>2, <4>1
    <3> QED BY <3>1, <3>2
  <2>4. ASSUME NEW x \in Turns, NEW c \in Turns, Up(x)', ~Ended(c)', x # c, sess[x] = sess[c]
        PROVE  Past(x)'
    BY <1>1, <2>1, <2>4 DEF SlotInv, ReuseInv
  <2>5. ASSUME NEW t \in Turns, Launching(t)', plan[t].by = Nobody, plan[t].resume \in live',
               NEW x \in Turns, sess[x] = plan[t].resume
        PROVE  Ended(x)' /\ Past(x)'
    BY <1>1, <2>1, <2>5 DEF SlotInv, ReuseInv
  <2> QED BY <2>2, <2>3, <2>4, <2>5 DEF ReuseInv
<1> QED BY <1>2, <1>3, <1>4 DEF SlotInv

(* The pair in the slot, where nobody touches it. *)
LEMMA PairKept ==
  ASSUME TypeInv, PairInv, UNCHANGED <<plan, sess>>, live' \subseteq live,
         slot'.session = slot.session, slot'.consumer = slot.consumer,
         \A u \in Turns : lpc'[u] \in {"stop", "remove"} => lpc'[u] = lpc[u],
         \A u \in Turns : Ended(u) => Ended(u)'
  PROVE  PairInv'
  BY DEF PairInv

(* The chain, where nobody is chained. *)
LEMMA ChainKept ==
  ASSUME TypeInv, ChainInv, chained' = chained,
         \A u \in Turns : cpc[u] = "over" => cpc'[u] = "over"
  PROVE  ChainInv'
<1>1. \A p \in Turns : chained[p] # Nobody => cpc'[chained[p]] = "over"
  BY ValuesTyped DEF ChainInv
<1> QED BY <1>1 DEF ChainInv

LEMMA TurnsKeep ==
  ASSUME TypeInv, SlotInv, NEW t \in Turns, TurnStep(t)
  PROVE  SlotInv'
<1>1. PICK pc \in {"turn", "ending"} : cpc' = [cpc EXCEPT ![t] = pc]
  BY DEF TurnStep, TurnStart, TurnEnd, Move
<1>2. cpc[t] \in {"wait", "turn"} /\ live' \subseteq live
  BY DEF TurnStep, TurnStart, TurnEnd, sessions
<1>3. UNCHANGED <<launchSt, sess, tag, proxies, slot, own, killSt>>
  BY DEF TurnStep, TurnStart, TurnEnd, sessions
<1>4. \A u \in Turns : cpc'[u] = IF u = t THEN pc ELSE cpc[u]
  BY <1>1 DEF TypeInv, SlotTypeOK
<1>5. \A u \in Turns : Onward(u) /\ (Ended(u) => Ended(u)')
  BY <1>2, <1>3, <1>4 DEF Onward, Ended, launchSt, killSt
<1>6. PairInv' /\ ChainInv'
  BY <1>2, <1>3, <1>4, <1>5, PairKept, ChainKept DEF SlotInv, launchSt, proxies
<1> QED BY <1>2, <1>3, <1>4, <1>5, <1>6, OnwardKeeps
        DEF SlotInv, LaunchInv, OwnInv, launchSt, proxies, Ended

LEMMA OnExitKeeps ==
  ASSUME TypeInv, SlotInv, NEW t \in Turns, OnExit(t)
  PROVE  SlotInv'
<1>1. PICK pc \in {"exit", "rotate"} : cpc' = [cpc EXCEPT ![t] = pc]
  BY DEF OnExit, Move
<1>2. cpc[t] = "ending" /\ own' = [own EXCEPT ![t] = OwnProxy(t)]
  BY DEF OnExit
<1>3. UNCHANGED <<launchSt, sessions, proxies, slot, killSt>>
  BY DEF OnExit
<1>4. \A u \in Turns : cpc'[u] = IF u = t THEN pc ELSE cpc[u]
  BY <1>1 DEF TypeInv, SlotTypeOK
<1>5. \A u \in Turns : Onward(u) /\ (Ended(u) => Ended(u)')
  BY <1>2, <1>3, <1>4 DEF Onward, Ended, launchSt, killSt
<1>6. PairInv' /\ ChainInv'
  BY <1>2, <1>3, <1>4, <1>5, PairKept, ChainKept DEF SlotInv, launchSt, proxies, sessions
<1>7. OwnProxy(t) = t
  BY <1>2, TurnsTyped DEF SlotInv, OwnInv, Ended, OwnProxy
<1>8. \A u \in Turns : own'[u] = IF u = t THEN t ELSE own[u]
  BY <1>2, <1>7 DEF TypeInv, SlotTypeOK
<1> QED BY <1>2, <1>3, <1>4, <1>5, <1>6, <1>8, OnwardKeeps
        DEF SlotInv, LaunchInv, OwnInv, launchSt, proxies, sessions, Ended

LEMMA NotRotatedKeeps ==
  ASSUME TypeInv, SlotInv, NEW c \in Turns, NotRotated(c)
  PROVE  SlotInv'
<1>1. cpc' = [cpc EXCEPT ![c] = "exit"] /\ cpc[c] = "rotate"
  BY DEF NotRotated, Move
<1>2. UNCHANGED <<launchSt, sessions, proxies, slot, own, killSt>>
  BY DEF NotRotated
<1>3. \A u \in Turns : cpc'[u] = IF u = c THEN "exit" ELSE cpc[u]
  BY <1>1 DEF TypeInv, SlotTypeOK
<1>4. \A u \in Turns : Onward(u) /\ (Ended(u) => Ended(u)')
  BY <1>1, <1>2, <1>3 DEF Onward, Ended, launchSt, killSt
<1>5. PairInv' /\ ChainInv'
  BY <1>1, <1>2, <1>3, <1>4, PairKept, ChainKept DEF SlotInv, launchSt, proxies, sessions
<1> QED BY <1>1, <1>2, <1>3, <1>4, <1>5, OnwardKeeps
        DEF SlotInv, LaunchInv, OwnInv, launchSt, proxies, sessions, Ended

(* The retry has replaced the session, so that nobody resumes the old one. *)
LEMMA RotatedKeeps ==
  ASSUME TypeInv, SlotInv, NEW c \in Turns, Rotated(c)
  PROVE  SlotInv'
<1>1. /\ cpc' = [cpc EXCEPT ![c] = "over"] /\ cpc[c] = "rotate" /\ own[c] = c
      /\ UNCHANGED <<launchSt, sessions, slot, own, killSt>>
  BY DEF Rotated, Move, SlotInv, OwnInv
<1>2. PICK t \in Turns : plan[t].by = c /\ Up(t)
  BY DEF Rotated, LaunchOf, Up
<1>3. sess[c] \notin live
  BY <1>2, TurnsTyped DEF SlotInv, ReuseInv
<1>4. \A u \in Turns : cpc'[u] = IF u = c THEN "over" ELSE cpc[u]
  BY <1>1 DEF TypeInv, SlotTypeOK
<1>5. done \subseteq done'
  BY DEF Rotated, Chain, Complete
<1>6. \A u \in Turns : Onward(u) /\ (Ended(u) => Ended(u)')
  BY <1>1, <1>4 DEF Onward, Ended, launchSt, killSt
<1>7. PairInv'
  BY <1>1, <1>6, PairKept DEF SlotInv, launchSt, sessions
<1>8. ChainInv'
  <2>1. \A p \in Turns : chained'[p] \in {chained[p], c}
    BY <1>1 DEF Rotated, Chain, TypeInv, SlotTypeOK
  <2>2. \A p \in Turns : chained[p] # Nobody => cpc'[chained[p]] = "over"
    BY <1>1, <1>4, ValuesTyped DEF SlotInv, ChainInv
  <2> QED BY <1>4, <2>1, <2>2 DEF ChainInv
<1> QED BY <1>1, <1>3, <1>4, <1>5, <1>6, <1>7, <1>8, OnwardKeeps
        DEF SlotInv, LaunchInv, OwnInv, launchSt, sessions, Ended

(* on_exit pops what is still its own: the session in the slot is another's if
   its consumer is. *)
LEMMA ExitDoneKeeps ==
  ASSUME TypeInv, SlotInv, NEW t \in Turns, ExitDone(t)
  PROVE  SlotInv'
<1>1. /\ cpc' = [cpc EXCEPT ![t] = "over"] /\ cpc[t] = "exit" /\ own[t] = t
      /\ UNCHANGED <<launchSt, sessions, chained, own, killSt>>
      /\ done' = done \cup Downstream(t)
  BY DEF ExitDone, Move, SlotInv, OwnInv, Complete
<1>2. t \in done'
  BY <1>1, CompletesItself
<1>3. \A u \in Turns : cpc'[u] = IF u = t THEN "over" ELSE cpc[u]
  BY <1>1 DEF TypeInv, SlotTypeOK
<1>4. \A u \in Turns : Onward(u) /\ (Ended(u) => Ended(u)')
  BY <1>1, <1>3 DEF Onward, Ended, launchSt, killSt
<1>5. /\ slot'.proxy = IF slot.proxy = t THEN Nobody ELSE slot.proxy
      /\ slot'.session = IF slot.session = sess[t] THEN Nobody ELSE slot.session
      /\ slot'.consumer = IF slot.consumer = t THEN Nobody ELSE slot.consumer
  BY <1>1 DEF ExitDone, Cleaned, Unless
<1>6. ASSUME NEW c \in Turns, c # t, ~Ended(c) PROVE sess[c] # sess[t]
  BY <1>1, <1>6 DEF SlotInv, OwnInv, Ended
<1>7. PairInv'
  <2>1. \A c \in Turns : slot'.consumer = c /\ ~Ended(c)' => c # t /\ slot.consumer = c /\ ~Ended(c)
    BY <1>4, <1>5, TurnsTyped
  <2> QED BY <1>1, <1>5, <1>6, <2>1 DEF SlotInv, PairInv, launchSt, sessions
<1>8. ChainInv'
  BY <1>1, <1>3, ChainKept DEF SlotInv
<1>9. \A u \in Turns : lpc'[u] = "create" => slot'.proxy = u
  BY <1>1, <1>5 DEF SlotInv, LaunchInv, Up, launchSt
<1> QED BY <1>1, <1>2, <1>3, <1>4, <1>7, <1>8, <1>9, OnwardKeeps
        DEF SlotInv, OwnInv, launchSt, sessions, Ended

LEMMA KillKeeps ==
  ASSUME TypeInv, SlotInv, NEW t \in Turns, Kill(t)
  PROVE  SlotInv'
<1>1. /\ Up(t) /\ t \notin done /\ done' = done \cup Downstream(t)
      /\ kpc' = [kpc EXCEPT ![t] = "check"]
      /\ UNCHANGED <<launchSt, sessions, chained, slot, consumer, kobj>>
  BY DEF Kill, Complete, Up
<1>2. t \in done'
  BY <1>1, CompletesItself
<1>3. \A u \in Turns : Onward(u) /\ (Ended(u) => Ended(u)')
  BY <1>1, <1>2 DEF Onward, Ended, launchSt, consumer, TypeInv, SlotTypeOK
<1>4. PairInv' /\ ChainInv'
  BY <1>1, <1>3, PairKept, ChainKept DEF SlotInv, launchSt, sessions, consumer
<1>5. \A u \in Turns : Ended(u)' <=> Ended(u)
  BY <1>1 DEF consumer, Ended
<1> QED BY <1>1, <1>3, <1>4, <1>5, OnwardKeeps
        DEF SlotInv, LaunchInv, OwnInv, launchSt, sessions, consumer, Ended

LEMMA ForceKilledKeeps ==
  ASSUME TypeInv, SlotInv, NEW t \in Turns, ForceKilled(t)
  PROVE  SlotInv'
<1>1. /\ kpc[t] = "stop" /\ kpc' = [kpc EXCEPT ![t] = "done"] /\ live' \subseteq live
      /\ UNCHANGED <<launchSt, sess, tag, proxies, slot, consumer, kobj>>
  BY DEF ForceKilled
<1>2. \A u \in Turns : Onward(u) /\ (Ended(u) => Ended(u)')
  BY <1>1 DEF Onward, Ended, launchSt, consumer, proxies, TypeInv, SlotTypeOK, SlotInv, LaunchInv
<1>3. PairInv' /\ ChainInv'
  BY <1>1, <1>2, PairKept, ChainKept DEF SlotInv, launchSt, proxies, consumer
<1> QED BY <1>1, <1>2, <1>3, OnwardKeeps
        DEF SlotInv, LaunchInv, OwnInv, launchSt, proxies, consumer, Ended

(* _force_kill deregisters only while the slot holds no other's session, and the
   consumer it cancels is the killed turn's own, or its session is stopped. *)
LEMMA ForceKillKeeps ==
  ASSUME TypeInv, SlotInv, NEW t \in Turns, ForceKill(t)
  PROVE  SlotInv'
<1> DEFINE c == slot.consumer
<1>1. /\ kpc[t] = "check" /\ kpc' = [kpc EXCEPT ![t] = "stop"]
      /\ UNCHANGED <<launched, plan, sessions, proxies, own>>
      /\ Up(t) /\ t \in done
  BY DEF ForceKill, SlotInv, LaunchInv
<1>2. CASE TakenOver(t)
  <2>1. UNCHANGED <<lpc, cpc, slot>>
    BY <1>2 DEF ForceKill
  <2>2. \A u \in Turns : Onward(u) /\ (Ended(u) => Ended(u)')
    BY <1>1, <2>1 DEF Onward, Ended, proxies, TypeInv, SlotTypeOK
  <2>3. PairInv' /\ ChainInv'
    BY <1>1, <2>1, <2>2, PairKept, ChainKept DEF SlotInv, proxies, sessions
  <2> QED BY <1>1, <2>1, <2>2, <2>3, OnwardKeeps
          DEF SlotInv, LaunchInv, OwnInv, proxies, sessions, Ended
<1>3. CASE ~TakenOver(t)
  <2>1. /\ Cancel(c) /\ slot' = [slot EXCEPT !.session = Nobody, !.consumer = Nobody]
        /\ lpc' = [u \in Turns |-> IF u \in Abandoned(c) THEN "failed" ELSE lpc[u]]
        /\ c \in TurnOrNobody
    BY <1>3 DEF ForceKill, TypeInv, SlotTypeOK
  <2>2. \A u \in Turns : cpc'[u] = cpc[u] \/ Cuts(c, u)
    BY <2>1, CancelCuts
  <2>3. \A u \in Turns : Onward(u) /\ (Ended(u) => Ended(u)')
    <3>1. \A u \in Turns : lpc'[u] = lpc[u] \/ (Launching(u) /\ lpc'[u] = "failed")
      BY <2>1 DEF Abandoned
    <3>2. \A u \in Turns : cpc'[u] = cpc[u] \/ (~Ended(u) /\ cpc'[u] # "none")
      BY <2>2 DEF Cuts, Ended
    <3>3. \A u \in Turns : kpc'[u] = kpc[u] \/ (u = t /\ kpc'[u] = "stop")
      BY <1>1 DEF TypeInv, SlotTypeOK
    <3> QED BY <1>1, <3>1, <3>2, <3>3 DEF Onward, proxies, Ended
  <2>4. /\ slot'.session = Nobody /\ slot'.consumer = Nobody /\ slot'.proxy = slot.proxy
    BY <2>1 DEF TypeInv, SlotTypeOK
  <2>5. PairInv'
    BY <2>4, TurnsTyped DEF PairInv
  <2>6. ChainInv'
    BY <1>1, <2>2, ChainKept DEF SlotInv, proxies, Cuts
  <2>7. ASSUME NEW u \in Turns, ~Ended(u), cpc'[u] \in {"over", "lost"}
        PROVE  sess[u] \notin live \/ u \in done
    <3>1. u = c /\ cpc[u] \in {"exit", "rotate"}
      BY <2>2, <2>7 DEF Cuts, Ended
    <3>2. slot.session = sess[u] \/ sess[u] \notin live
      BY <2>7, <3>1 DEF SlotInv, PairInv
    <3>3. sess[u] \in Turns
      BY <3>1 DEF TypeInv
    <3>4. sess[u] = sess[t] \/ sess[u] \notin live
      BY <1>3, <3>2, <3>3, TurnsTyped DEF TakenOver
    <3>5. sess[u] = sess[t] /\ u # t => Past(t)
      BY <1>1, <2>7 DEF SlotInv, ReuseInv
    <3> QED BY <1>1, <3>4, <3>5 DEF Past
  <2>8. \A u \in Turns : lpc'[u] = "create" => slot'.proxy = u
    BY <2>1, <2>4 DEF SlotInv, LaunchInv
  <2>9. \A u \in Turns : cpc'[u] \in {"exit", "rotate", "over", "lost"} => own[u] = u
    BY <2>2 DEF SlotInv, OwnInv, Cuts
  <2> QED BY <1>1, <2>3, <2>5, <2>6, <2>7, <2>8, <2>9, OnwardKeeps DEF proxies, sessions
<1> QED BY <1>2, <1>3
--------------------------------------------------------------------------------
(* Launching.  r is the session to resume and c the consumer that rotates. *)
LEMMA BeginKeeps ==
  ASSUME TypeInv, SlotInv, NEW r \in TurnOrNobody, NEW c \in TurnOrNobody,
         LaunchBegin(r, c),
         c = Nobody => r = Nobody \/ RunsOn(r) = {},
         c # Nobody => cpc[c] = "rotate" /\ r = sess[c]
  PROVE  SlotInv'
<1>a. launched + 1 \in Turns /\ launched \in Nat
  BY SlotAssumption DEF LaunchBegin, TypeInv, SlotTypeOK, Turns, TurnOrNobody
<1>0. PICK t \in Turns : t = launched + 1
  BY <1>a
<1>1. PICK stale :
        /\ plan' = [plan EXCEPT ![t] = [resume |-> r, by |-> c, stale |-> stale]]
        /\ stale \in {Nobody, slot.session}
        /\ stale # Nobody => Launch(t, "stop") /\ UNCHANGED slot
        /\ stale = Nobody => Launch(t, "create") /\ Register(t)
  BY <1>0 DEF LaunchBegin
<1>2. /\ \A u \in Turns : ~Launching(u) /\ kpc[u] # "check"
      /\ launched' = t /\ UNCHANGED <<sessions, proxies, consumer, killSt>>
  BY <1>0 DEF LaunchBegin
<1>3. t \in Turns /\ t <= t /\ \A u \in Turns : u <= launched => u # t /\ u <= t
  BY <1>0, <1>a DEF Turns
<1>4. lpc[t] = "none" /\ cpc[t] = "none" /\ sess[t] = Nobody
  BY <1>3 DEF SlotInv, LaunchInv, Up
<1>5. /\ lpc'[t] \in {"stop", "create"} /\ \A u \in Turns : u # t => lpc'[u] = lpc[u]
      /\ plan'[t].by = c /\ plan'[t].resume = r /\ plan'[t].stale = stale
      /\ \A u \in Turns : u # t => plan'[u] = plan[u]
      /\ slot'.session = slot.session /\ slot'.consumer = slot.consumer
      /\ lpc'[t] = "create" => slot'.proxy = t
      /\ lpc'[t] = "stop" => stale = slot.session
  <2>1. plan' = [plan EXCEPT ![t] = [resume |-> r, by |-> c, stale |-> stale]]
        /\ plan \in [Turns -> [resume : TurnOrNobody, by : TurnOrNobody, stale : TurnOrNobody]]
    BY <1>1 DEF TypeInv, SlotTypeOK
  <2>2. /\ plan'[t].by = c /\ plan'[t].resume = r /\ plan'[t].stale = stale
        /\ \A u \in Turns : u # t => plan'[u] = plan[u]
    BY <2>1
  <2> QED BY <1>1, <2>2 DEF Launch, Register, TypeInv, SlotTypeOK
<1>6. UNCHANGED <<sess, live, tag, done, chained, cpc, own, kpc, kobj>>
  BY <1>2 DEF sessions, proxies, consumer, killSt
<1>7. \A u \in Turns : Up(u)' <=> Up(u)
  BY <1>4, <1>5 DEF Up
<1>8. LaunchInv'
  <2>1. \A u \in Turns : lpc'[u] # "none" => u <= launched'
    BY <1>2, <1>3, <1>5 DEF SlotInv, LaunchInv
  <2>2. \A u \in Turns : Launching(u)' => u = launched'
    BY <1>2, <1>5 DEF Launching
  <2>3. \A u \in Turns : sess[u] # Nobody => Up(u)' /\ Up(sess[u])'
    BY <1>6, <1>7, ValuesTyped DEF SlotInv, LaunchInv
  <2>4. ASSUME NEW u \in Turns, plan'[u].by # Nobody
        PROVE  lpc'[plan'[u].by] = "up" /\ plan'[u].resume = sess[plan'[u].by]
    <3>1. CASE u = t
      <4>1. c \in Turns /\ lpc'[c] = "up"
        BY <1>4, <1>5, <2>4, <3>1, TurnsTyped DEF SlotInv, LaunchInv, Up
      <4> QED BY <1>5, <2>4, <3>1, <4>1
    <3>2. CASE u # t
      <4>1. plan[u].by \in Turns /\ lpc[plan[u].by] = "up" /\ plan[u].by # t
        BY <1>4, <1>5, <2>4, <3>2, ValuesTyped DEF SlotInv, LaunchInv, Up
      <4> QED BY <1>5, <2>4, <3>2, <4>1 DEF SlotInv, LaunchInv
    <3> QED BY <3>1, <3>2
  <2>5. \A u \in Turns : lpc'[u] = "create" => slot'.proxy = u
    BY <1>2, <1>5 DEF Launching
  <2>6. \A u \in Turns : cpc'[u] # "none" => Up(u)'
    BY <1>6, <1>7 DEF SlotInv, LaunchInv
  <2>7. \A u \in Turns : kpc'[u] # "none" => Up(u)' /\ u \in done'
    BY <1>6, <1>7 DEF SlotInv, LaunchInv
  <2>8. UNCHANGED <<sess, kpc, cpc, done>> /\ \A u \in live' : Up(u)'
    BY <1>6, <1>7 DEF SlotInv, LaunchInv, TypeInv, SlotTypeOK
  <2> QED BY <2>1, <2>2, <2>3, <2>4, <2>5, <2>6, <2>7, <2>8 DEF LaunchInv, Up
<1>9. OwnInv'
  BY <1>6 DEF SlotInv, OwnInv, Ended
<1>10. ChainInv'
  BY <1>6 DEF SlotInv, ChainInv
<1>11. \A u \in Turns : Ended(u)' <=> Ended(u)
  BY <1>6 DEF Ended
<1>12. PairInv'
  <2>1. \A u \in Turns : lpc'[u] = "stop" => slot'.session \in {Nobody, plan'[u].stale}
    BY <1>2, <1>5 DEF Launching
  <2>2. \A u \in Turns : lpc'[u] # "remove"
    BY <1>2, <1>5 DEF Launching
  <2> QED BY <1>5, <1>6, <1>11, <2>1, <2>2 DEF SlotInv, PairInv
<1>13. ReuseInv'
  <2>1. ASSUME NEW u \in Turns, Up(u)', plan'[u].by # Nobody
        PROVE  sess'[plan'[u].by] \notin live'
    <3>1. u # t /\ Up(u)
      BY <1>4, <1>7, <2>1 DEF Up
    <3> QED BY <1>5, <1>6, <2>1, <3>1 DEF SlotInv, ReuseInv
  <2>2. ASSUME NEW x \in Turns, c = Nobody, r \in live, sess[x] = r
        PROVE  Ended(x) /\ Past(x)
    <3>1. r # Nobody
      BY <2>2, TurnsTyped DEF TypeInv, SlotTypeOK
    <3>2. Ended(x)
      BY <2>2, <3>1 DEF RunsOn
    <3>3. Up(x)
      BY <2>2, <3>1 DEF SlotInv, LaunchInv
    <3> QED BY <1>2, <2>2, <3>2, <3>3 DEF SlotInv, ReuseInv, Past
  <2>3. \A x \in Turns : Past(x)' <=> Past(x)
    BY <1>6 DEF Past
  <2>4. \A u \in Turns : Launching(u)' => u = t
    BY <1>2, <1>5 DEF Launching
  <2>5. ASSUME NEW u \in Turns, Launching(u)', plan'[u].by = Nobody, plan'[u].resume \in live',
               NEW x \in Turns, sess'[x] = plan'[u].resume
        PROVE  Ended(x)' /\ Past(x)'
    BY <1>5, <1>6, <1>11, <2>2, <2>3, <2>4, <2>5
  <2> QED BY <1>6, <1>7, <1>11, <2>1, <2>3, <2>5 DEF SlotInv, ReuseInv
<1> QED BY <1>8, <1>9, <1>10, <1>12, <1>13 DEF SlotInv

LEMMA HostLaunchKeeps ==
  ASSUME TypeInv, SlotInv, "reuse" \notin Env, HostLaunch
  PROVE  SlotInv'
<1>1. PICK r \in TurnOrNobody : LaunchBegin(r, Nobody) /\ (r = Nobody \/ RunsOn(r) = {})
  BY DEF HostLaunch
<1> QED BY <1>1, TurnsTyped, BeginKeeps

LEMMA RotateKeeps ==
  ASSUME TypeInv, SlotInv, NEW c \in Turns, Rotate(c)
  PROVE  SlotInv'
<1>1. sess[c] \in TurnOrNobody /\ c \in TurnOrNobody /\ c # Nobody
  BY TurnsTyped DEF TypeInv, SlotTypeOK
<1> QED BY <1>1, BeginKeeps DEF Rotate

LEMMA LaunchFailsKeeps ==
  ASSUME TypeInv, SlotInv, NEW t \in Turns, LaunchFails(t)
  PROVE  SlotInv'
<1>1. /\ lpc[t] = "create" /\ lpc' = [lpc EXCEPT ![t] = "failed"]
      /\ UNCHANGED <<launched, plan, sessions, proxies, slot, consumer, killSt>>
  BY DEF LaunchFails, Launch
<1>2. \A u \in Turns : Onward(u) /\ (Ended(u) => Ended(u)')
  BY <1>1 DEF Onward, Launching, Ended, consumer, killSt, TypeInv, SlotTypeOK
<1>3. \A u \in Turns : lpc'[u] = IF u = t THEN "failed" ELSE lpc[u]
  BY <1>1 DEF TypeInv, SlotTypeOK
<1>4. PairInv' /\ ChainInv'
  BY <1>1, <1>2, <1>3, PairKept, ChainKept DEF SlotInv, proxies, sessions, consumer
<1> QED BY <1>1, <1>2, <1>3, <1>4, OnwardKeeps
        DEF SlotInv, LaunchInv, OwnInv, proxies, sessions, consumer, Ended

LEMMA LaunchStoppedKeeps ==
  ASSUME TypeInv, SlotInv, NEW t \in Turns, LaunchStopped(t)
  PROVE  SlotInv'
<1>1. /\ lpc[t] = "stop" /\ live' = live \ {plan[t].stale}
      /\ UNCHANGED <<launched, plan, sess, tag, proxies, consumer, killSt>>
  BY DEF LaunchStopped
<1>2. /\ \A u \in Turns : lpc'[u] = IF u = t THEN "remove" ELSE lpc[u]
      /\ slot'.session = Nobody /\ slot'.consumer = slot.consumer /\ slot'.proxy = slot.proxy
  BY DEF LaunchStopped, Launch, TypeInv, SlotTypeOK
<1>3. \A u \in Turns : Onward(u) /\ (Ended(u)' <=> Ended(u))
  BY <1>1, <1>2 DEF Onward, Launching, Ended, consumer, killSt
<1>4. PairInv'
  <2>1. slot.session \in {Nobody, plan[t].stale}
    BY <1>1 DEF SlotInv, PairInv
  <2>2. ASSUME NEW c \in Turns, slot.consumer = c, ~Ended(c) PROVE sess[c] \notin live'
    <3>1. sess[c] \in Turns
      BY <2>2 DEF Ended, TypeInv
    <3>2. slot.session = sess[c] \/ sess[c] \notin live
      BY <2>2 DEF SlotInv, PairInv
    <3> QED BY <1>1, <2>1, <3>1, <3>2, TurnsTyped
  <2>3. \A u \in Turns : lpc'[u] # "stop"
    BY <1>1, <1>2 DEF SlotInv, LaunchInv, Launching
  <2> QED BY <1>1, <1>2, <1>3, <2>2, <2>3 DEF PairInv
<1>5. ChainInv'
  BY <1>1, ChainKept DEF SlotInv, proxies, consumer
<1> QED BY <1>1, <1>2, <1>3, <1>4, <1>5, OnwardKeeps
        DEF SlotInv, LaunchInv, OwnInv, proxies, consumer, Ended

(* Whom the removal cancels has a session that the launch has stopped before. *)
LEMMA LaunchRemovedKeeps ==
  ASSUME TypeInv, SlotInv, NEW t \in Turns, LaunchRemoved(t)
  PROVE  SlotInv'
<1> DEFINE c == slot.consumer
<1>1. /\ lpc[t] = "remove" /\ Cancel(c) /\ c \in TurnOrNobody
      /\ UNCHANGED <<launched, plan, sessions, proxies, own, killSt>>
  BY DEF LaunchRemoved, TypeInv, SlotTypeOK
<1>2. PICK pc \in {"failed", "create"} : \A u \in Turns : lpc'[u] = IF u = t THEN pc ELSE lpc[u]
  BY DEF LaunchRemoved, Launch, TypeInv, SlotTypeOK
<1>3. slot'.consumer = Nobody /\ slot'.proxy = t /\ slot'.session = slot.session
  BY DEF LaunchRemoved, TypeInv, SlotTypeOK
<1>4. \A u \in Turns : cpc'[u] = cpc[u] \/ Cuts(c, u)
  BY <1>1, CancelCuts
<1>5. \A u \in Turns : Onward(u)
  BY <1>1, <1>2, <1>4 DEF Onward, Launching, Ended, Cuts, killSt
<1>6. \A u \in Turns : Launching(u)' => u = t
  BY <1>1, <1>2 DEF SlotInv, LaunchInv, Launching
<1>7. PairInv'
  BY <1>2, <1>3, <1>6, TurnsTyped DEF PairInv, Launching
<1>8. ChainInv'
  BY <1>1, <1>4, ChainKept DEF SlotInv, proxies, Cuts
<1>9. ASSUME NEW u \in Turns, ~Ended(u), cpc'[u] \in {"over", "lost"}
      PROVE  sess[u] \notin live
  <2>1. u = c
    BY <1>4, <1>9 DEF Cuts, Ended
  <2>2. slot.session = Nobody /\ (slot.session = sess[u] \/ sess[u] \notin live)
    BY <1>1, <1>9, <2>1 DEF SlotInv, PairInv
  <2> QED BY <2>2, TurnsTyped DEF TypeInv, SlotTypeOK
<1>10. \A u \in Turns : lpc'[u] = "create" => slot'.proxy = u
  BY <1>3, <1>6 DEF Launching
<1>11. \A u \in Turns : cpc'[u] \in {"exit", "rotate", "over", "lost"} => own[u] = u
  BY <1>4 DEF SlotInv, OwnInv, Cuts
<1> QED BY <1>1, <1>5, <1>7, <1>8, <1>9, <1>10, <1>11, OnwardKeeps DEF proxies, sessions

(* The launch is up: it takes over the session that it resumes, of which all
   earlier turns are past, or replaces it by its own. *)
LEMMA LaunchUpKeeps ==
  ASSUME TypeInv, SlotInv, NEW t \in Turns, LaunchUp(t)
  PROVE  SlotInv'
<1>a. plan[t].resume \in TurnOrNobody /\ (plan[t].resume \in live => plan[t].resume \in Turns)
  BY DEF TypeInv, SlotTypeOK
<1>b. PICK r \in TurnOrNobody : r = plan[t].resume
  BY <1>a
<1>0. PICK s \in Turns : s = IF r \in live /\ plan[t].by = Nobody THEN r ELSE t
  BY <1>a, <1>b
<1>1. /\ lpc[t] = "create" /\ sess' = [sess EXCEPT ![t] = s] /\ tag' = [tag EXCEPT ![s] = t]
      /\ live' = (IF s = t THEN live \ {r} ELSE live) \cup {s}
      /\ slot' = [slot EXCEPT !.session = s, !.consumer = t]
      /\ lpc' = [lpc EXCEPT ![t] = "up"] /\ cpc' = [cpc EXCEPT ![t] = "wait"]
      /\ UNCHANGED <<launched, plan, proxies, own, killSt>>
  BY <1>b, <1>0 DEF LaunchUp, Launch, Move
<1>2. s \in Turns /\ (s = t \/ s \in live)
  BY <1>0
<1>3. /\ cpc[t] = "none" /\ sess[t] = Nobody /\ \A u \in Turns : sess[u] # t
      /\ \A u \in Turns : plan[u].by # t
      /\ \A u \in Turns : Launching(u) => u = t
  <2>1. ~Up(t) /\ t # Nobody /\ Launching(t)
    BY <1>1, TurnsTyped DEF Up, Launching
  <2> QED BY <2>1 DEF SlotInv, LaunchInv
<1>4. s # t => plan[t].by = Nobody /\ \A x \in Turns : sess[x] = s => Ended(x) /\ Past(x)
  BY <1>b, <1>0, <1>1 DEF SlotInv, ReuseInv, Launching
<1>5. plan[t].by # Nobody => s = t /\ r = sess[plan[t].by] /\ Up(plan[t].by)
  BY <1>b, <1>0 DEF SlotInv, LaunchInv
<1>6. \A x \in Turns : sess[x] = s => Ended(x) /\ Past(x)
  BY <1>3, <1>4
<1>7. s = t => r \notin live' \/ r = t
  BY <1>1
<1>8. /\ \A u \in Turns : sess'[u] = IF u = t THEN s ELSE sess[u]
      /\ \A u \in Turns : tag'[u] = IF u = s THEN t ELSE tag[u]
      /\ \A u \in Turns : lpc'[u] = IF u = t THEN "up" ELSE lpc[u]
      /\ \A u \in Turns : cpc'[u] = IF u = t THEN "wait" ELSE cpc[u]
      /\ slot'.session = s /\ slot'.consumer = t /\ slot'.proxy = slot.proxy
      /\ UNCHANGED <<launched, plan, done, chained, own, kpc>>
      /\ live' \subseteq live \cup {s}
  BY <1>1, <1>2 DEF TypeInv, SlotTypeOK, proxies, killSt
<1>9. \A u \in Turns : (u # t => (Up(u)' <=> Up(u)) /\ (Ended(u)' <=> Ended(u)))
                     /\ Up(t)' /\ ~Ended(t)' /\ ~Launching(u)'
  BY <1>3, <1>8 DEF Up, Ended, Launching
<1>10. LaunchInv'
  <2>1. ASSUME NEW u \in Turns, sess'[u] # Nobody
        PROVE  lpc'[u] = "up" /\ lpc'[sess'[u]] = "up"
    <3>1. CASE u = t
      <4>1. lpc'[s] = "up"
        BY <1>2, <1>8 DEF SlotInv, LaunchInv, Up
      <4> QED BY <1>8, <3>1, <4>1
    <3>2. CASE u # t
      <4>1. /\ sess[u] # Nobody /\ lpc[u] = "up" /\ sess[u] \in Turns
            /\ lpc[sess[u]] = "up" /\ sess[u] # t
        BY <1>3, <1>8, <2>1, <3>2, ValuesTyped DEF SlotInv, LaunchInv, Up
      <4> QED BY <1>8, <3>2, <4>1
    <3> QED BY <3>1, <3>2
  <2>2. ASSUME NEW u \in Turns, plan[u].by # Nobody
        PROVE  lpc'[plan[u].by] = "up" /\ plan[u].resume = sess'[plan[u].by]
    <3>1. plan[u].by \in Turns /\ plan[u].by # t
      BY <1>3, <2>2, ValuesTyped
    <3> QED BY <1>8, <2>2, <3>1 DEF SlotInv, LaunchInv, Up
  <2>3. \A u \in Turns : lpc'[u] # "none" => u <= launched'
    BY <1>1, <1>8 DEF SlotInv, LaunchInv
  <2>4. \A u \in Turns : cpc'[u] # "none" => Up(u)'
    BY <1>8, <1>9 DEF SlotInv, LaunchInv
  <2>5. \A u \in Turns : kpc[u] # "none" => Up(u)' /\ u \in done
    BY <1>9 DEF SlotInv, LaunchInv
  <2>6. \A u \in Turns : lpc'[u] # "create"
    BY <1>9 DEF Launching
  <2>7. ASSUME NEW u \in live' PROVE Up(u)'
    <3>1. CASE u = t
      BY <1>9, <3>1
    <3>2. CASE u # t
      BY <1>2, <1>8, <1>9, <2>7, <3>2 DEF SlotInv, LaunchInv, TypeInv, SlotTypeOK
    <3> QED BY <3>1, <3>2
  <2> QED BY <1>8, <1>9, <2>1, <2>2, <2>3, <2>4, <2>5, <2>6, <2>7 DEF LaunchInv, Up
<1>11. OwnInv'
  <2>1. ASSUME NEW u \in Turns, ~Ended(u)' PROVE tag'[sess'[u]] = u
    <3>1. CASE u = t
      BY <1>2, <1>8, <3>1
    <3>2. CASE u # t
      <4>1. ~Ended(u) /\ sess[u] \in Turns /\ sess[u] # s
        BY <1>6, <1>9, <2>1, <3>2 DEF Ended, TypeInv
      <4> QED BY <1>8, <3>2, <4>1 DEF SlotInv, OwnInv
    <3> QED BY <3>1, <3>2
  <2>2. \A u \in Turns : cpc'[u] \in {"exit", "rotate", "over", "lost"} => own'[u] = u
    BY <1>8 DEF SlotInv, OwnInv
  <2> QED BY <2>1, <2>2 DEF OwnInv
<1>12. ChainInv'
  BY <1>3, <1>8, ChainKept DEF SlotInv
<1>13. PairInv'
  <2>1. \A u \in Turns : lpc'[u] \notin {"stop", "remove"}
    BY <1>9 DEF Launching
  <2> QED BY <1>8, <2>1 DEF PairInv
<1>14. ReuseInv'
  <2>1. ASSUME NEW u \in Turns, plan[u].by # Nobody, Up(u)' PROVE sess'[plan[u].by] \notin live'
    <3>1. plan[u].by \in Turns /\ plan[u].by # t /\ sess'[plan[u].by] = sess[plan[u].by]
      BY <1>3, <1>8, <2>1, ValuesTyped
    <3>2. CASE u = t
      <4>1. r = sess[plan[u].by] /\ s = t /\ r # t
        BY <1>3, <1>5, <2>1, <3>1, <3>2
      <4> QED BY <1>7, <3>1, <4>1
    <3>3. CASE u # t
      <4>1. sess[plan[u].by] \notin live
        BY <1>9, <2>1, <3>3 DEF SlotInv, ReuseInv
      <4>2. sess[plan[u].by] # s
        BY <1>2, <1>3, <3>1, <4>1
      <4> QED BY <1>8, <3>1, <4>1, <4>2
    <3> QED BY <3>2, <3>3
  <2>2. ASSUME NEW u \in Turns, Up(u)', Ended(u)', sess'[u] \in live' PROVE u \in done
    <3>1. u # t /\ Up(u) /\ Ended(u) /\ sess'[u] = sess[u]
      BY <1>8, <1>9, <2>2
    <3>2. CASE sess[u] = s
      BY <1>6, <3>2 DEF Past
    <3>3. CASE sess[u] # s
      BY <1>8, <2>2, <3>1, <3>3 DEF SlotInv, ReuseInv
    <3> QED BY <3>2, <3>3
  <2>3. ASSUME NEW x \in Turns, NEW c \in Turns, Up(x)', ~Ended(c)', x # c, sess'[x] = sess'[c]
        PROVE  Past(x)
    <3>1. CASE c = t
      BY <1>6, <1>8, <2>3, <3>1
    <3>2. CASE c # t
      <4>1. ~Ended(c) /\ sess'[c] = sess[c] /\ sess[c] # s
        BY <1>6, <1>8, <1>9, <2>3, <3>2
      <4>2. x # t
        BY <1>8, <2>3, <4>1
      <4> QED BY <1>8, <1>9, <2>3, <4>1, <4>2 DEF SlotInv, ReuseInv
    <3> QED BY <3>1, <3>2
  <2>4. \A x \in Turns : Past(x)' <=> Past(x)
    BY <1>8 DEF Past
  <2> QED BY <1>8, <1>9, <2>1, <2>2, <2>3, <2>4 DEF ReuseInv
<1> QED BY <1>10, <1>11, <1>12, <1>13, <1>14 DEF SlotInv
--------------------------------------------------------------------------------
LEMMA SlotStep == TypeInv /\ SlotInv /\ "reuse" \notin Env /\ [Next]_vars => SlotInv'
<1> SUFFICES ASSUME TypeInv, SlotInv, "reuse" \notin Env, [Next]_vars PROVE SlotInv'
  OBVIOUS
<1>1. CASE HostStep
  BY <1>1, HostLaunchKeeps, RotateKeeps, KillKeeps, LaunchFailsKeeps DEF HostStep
<1>2. CASE \E t \in Turns : TurnStep(t)
  BY <1>2, TurnsKeep
<1>3. CASE \E t \in Turns : Progress(t)
  BY <1>3, LaunchStoppedKeeps, LaunchRemovedKeeps, LaunchUpKeeps, OnExitKeeps, RotatedKeeps,
     NotRotatedKeeps, ExitDoneKeeps, ForceKillKeeps, ForceKilledKeeps DEF Progress
<1>4. CASE UNCHANGED vars
  <2> USE DEF vars, launchSt, sessions, proxies, consumer, killSt
  <2>1. LaunchInv' /\ OwnInv' /\ ChainInv'
    BY <1>4 DEF SlotInv, LaunchInv, OwnInv, ChainInv, Up, Launching, Ended
  <2>2. PairInv' /\ ReuseInv'
    BY <1>4 DEF SlotInv, PairInv, ReuseInv, Up, Launching, Ended, Past
  <2> QED BY <2>1, <2>2 DEF SlotInv
<1> QED BY <1>1, <1>2, <1>3, <1>4 DEF Next

LEMMA SlotInit == Init => TypeInv /\ SlotInv
<1> SUFFICES ASSUME Init PROVE TypeInv /\ SlotInv
  OBVIOUS
<1>1. SlotTypeOK
  <2>1. /\ Nobody \in TurnOrNobody
        /\ NoPlan \in [resume : TurnOrNobody, by : TurnOrNobody, stale : TurnOrNobody]
    BY SlotAssumption DEF Nobody, TurnOrNobody, NoPlan
  <2>2. launched \in TurnOrNobody
    BY SlotAssumption DEF Init, TurnOrNobody
  <2> QED BY <2>1, <2>2 DEF Init, SlotTypeOK
<1>0. TypeInv
  BY <1>1 DEF Init, TypeInv, Ended
<1>2. /\ \A t \in Turns : /\ lpc[t] = "none" /\ cpc[t] = "none" /\ kpc[t] = "none"
                         /\ sess[t] = Nobody /\ chained[t] = Nobody /\ plan[t].by = Nobody
      /\ live = {} /\ slot.consumer = Nobody
  BY DEF Init, NoPlan
<1>3. LaunchInv /\ OwnInv /\ ChainInv
  BY <1>2 DEF LaunchInv, OwnInv, ChainInv, Launching, Ended
<1>4. PairInv /\ ReuseInv
  BY <1>2, TurnsTyped DEF PairInv, ReuseInv, Up, Launching, Ended
<1> QED BY <1>0, <1>3, <1>4 DEF SlotInv

LEMMA SlotInvariant ==
  ASSUME "reuse" \notin Env PROVE Spec => [](TypeInv /\ SlotInv)
<1>1. TypeInv /\ SlotInv /\ [Next]_vars => (TypeInv /\ SlotInv)'
  BY TypeStep, SlotStep
<1> QED BY <1>1, SlotInit, PTL DEF Spec
--------------------------------------------------------------------------------
(* Types: of the three dictionaries at the instance, the proxies, their chain,
   and the session that _force_kill is going to stop. *)
THEOREM SlotTypesHold == Spec => []SlotTypeOK
<1>1. Init => TypeInv
  BY SlotInit
<1>2. TypeInv => SlotTypeOK
  BY DEF TypeInv
<1> QED BY <1>1, <1>2, TypeStep, PTL DEF Spec

(* The newest turn's place.  While another begins there is no newest turn. *)
LEMMA NewestStep ==
  ASSUME TypeInv, SlotInv, NewestStaysRegistered, [Next]_vars
  PROVE  NewestStaysRegistered'
<1> SUFFICES ASSUME NEW t \in Turns, t = launched', lpc'[t] = "up",
                    cpc'[t] \in {"wait", "turn"}, kpc'[t] = "none"
             PROVE  slot' = [proxy |-> t, session |-> sess'[t], consumer |-> t]
  BY DEF NewestStaysRegistered
<1> DEFINE ours == [proxy |-> t, session |-> sess[t], consumer |-> t]
<1>1. ASSUME UNCHANGED <<launched, lpc, sess>>, cpc[t] \in {"wait", "turn"}, kpc[t] = "none"
      PROVE  slot = ours /\ sess' = sess /\ ~Ended(t) /\ sess[t] \in Turns
  BY <1>1 DEF NewestStaysRegistered, Ended, TypeInv
<1>2. ASSUME NEW r, NEW c, LaunchBegin(r, c) PROVE FALSE
  <2>1. t = launched + 1 /\ ~Launching(t)
    BY <1>2 DEF LaunchBegin
  <2>2. lpc' = [lpc EXCEPT ![t] = "stop"] \/ lpc' = [lpc EXCEPT ![t] = "create"]
    BY <1>2, <2>1 DEF LaunchBegin, Launch
  <2> QED BY <2>2 DEF TypeInv, SlotTypeOK
<1>3. ASSUME NEW u \in Turns, LaunchStopped(u) \/ LaunchRemoved(u) \/ LaunchFails(u)
      PROVE  FALSE
  <2>1. Launching(u) /\ launched' = launched
    BY <1>3 DEF LaunchStopped, LaunchRemoved, LaunchFails, Launching
  <2>2. u = t
    BY <2>1 DEF SlotInv, LaunchInv
  <2> QED BY <1>3, <2>2 DEF LaunchStopped, LaunchRemoved, LaunchFails, Launch, TypeInv, SlotTypeOK
<1>4. ASSUME NEW u \in Turns, LaunchUp(u)
      PROVE  slot' = [proxy |-> t, session |-> sess'[t], consumer |-> t]
  <2>1. Launching(u) /\ launched' = launched /\ lpc[u] = "create"
    BY <1>4 DEF LaunchUp, Launching
  <2>2. u = t /\ slot.proxy = t
    BY <2>1 DEF SlotInv, LaunchInv
  <2>3. PICK s : /\ sess' = [sess EXCEPT ![t] = s]
                 /\ slot' = [slot EXCEPT !.session = s, !.consumer = t]
    BY <1>4, <2>2 DEF LaunchUp
  <2> QED BY <2>2, <2>3 DEF TypeInv, SlotTypeOK
<1>5. ASSUME NEW u \in Turns, TurnStep(u) \/ OnExit(u) \/ Rotated(u) \/ NotRotated(u)
      PROVE  slot' = ours /\ sess' = sess
  <2>1. UNCHANGED <<launched, lpc, sess, slot, kpc>>
    BY <1>5 DEF TurnStep, TurnStart, TurnEnd, OnExit, Rotated, NotRotated, launchSt, sessions, killSt
  <2>2. PICK pc \in {"turn", "ending", "exit", "rotate", "over"} : cpc' = [cpc EXCEPT ![u] = pc]
    BY <1>5 DEF TurnStep, TurnStart, TurnEnd, OnExit, Rotated, NotRotated, Move
  <2>3. pc = "turn" => cpc[u] = "wait"
    BY <1>5, <2>2 DEF TurnStep, TurnStart, TurnEnd, OnExit, Rotated, NotRotated, Move,
         TypeInv, SlotTypeOK
  <2>4. cpc[t] \in {"wait", "turn"}
    BY <2>2, <2>3 DEF TypeInv, SlotTypeOK
  <2> QED BY <1>1, <2>1, <2>4
<1>6. ASSUME NEW u \in Turns, Kill(u) \/ ForceKilled(u)
      PROVE  slot' = ours /\ sess' = sess
  <2>1. UNCHANGED <<launched, lpc, sess, slot, cpc>>
    BY <1>6 DEF Kill, ForceKilled, launchSt, sessions, consumer
  <2>2. kpc[t] = "none"
    BY <1>6 DEF Kill, ForceKilled, TypeInv, SlotTypeOK
  <2> QED BY <1>1, <2>1, <2>2
<1>7. ASSUME NEW u \in Turns, ExitDone(u)
      PROVE  slot' = ours /\ sess' = sess
  <2>1. /\ UNCHANGED <<launched, lpc, sess, kpc>> /\ cpc[u] = "exit" /\ own[u] = u
        /\ cpc' = [cpc EXCEPT ![u] = "over"] /\ slot' = Cleaned(u)
    BY <1>7 DEF ExitDone, Move, launchSt, sessions, killSt, SlotInv, OwnInv
  <2>2. u # t /\ cpc[t] = cpc'[t]
    BY <2>1 DEF TypeInv, SlotTypeOK
  <2>3. slot = ours /\ sess' = sess /\ ~Ended(t) /\ sess[t] \in Turns
    BY <1>1, <2>1, <2>2
  <2>4. sess[u] # sess[t]
    BY <2>1, <2>2, <2>3 DEF SlotInv, OwnInv, Ended
  <2> QED BY <2>1, <2>2, <2>3, <2>4 DEF Cleaned, Unless
<1>8. ASSUME NEW u \in Turns, ForceKill(u)
      PROVE  slot' = ours /\ sess' = sess
  <2>1. kpc[u] = "check" /\ kpc' = [kpc EXCEPT ![u] = "stop"] /\ UNCHANGED <<launched, sess>>
    BY <1>8 DEF ForceKill, sessions
  <2>2. u # t /\ kpc[t] = "none"
    BY <2>1 DEF TypeInv, SlotTypeOK
  <2>3. CASE TakenOver(u)
    <3>1. UNCHANGED <<lpc, cpc, slot>>
      BY <1>8, <2>3 DEF ForceKill
    <3> QED BY <1>1, <2>1, <2>2, <3>1
  <2>4. CASE ~TakenOver(u)
    <3>1. /\ Cancel(slot.consumer) /\ slot.consumer \in TurnOrNobody
          /\ lpc' = [v \in Turns |-> IF v \in Abandoned(slot.consumer) THEN "failed" ELSE lpc[v]]
      BY <1>8, <2>4 DEF ForceKill, TypeInv, SlotTypeOK
    <3>2. cpc[t] \in {"wait", "turn"} /\ lpc[t] = "up"
      BY <3>1, CancelCuts DEF Cuts
    <3>3. slot = ours /\ ~Ended(t) /\ sess[t] \in Turns
      BY <2>1, <2>2, <3>2 DEF NewestStaysRegistered, Ended, TypeInv
    <3>4. sess[u] = sess[t] /\ Up(u)
      BY <2>1, <2>4, <3>3, TurnsTyped DEF TakenOver, SlotInv, LaunchInv
    <3>5. Past(u)
      BY <2>2, <3>3, <3>4 DEF SlotInv, ReuseInv
    <3> QED BY <2>1, <3>5 DEF Past
  <2> QED BY <2>3, <2>4
<1>9. CASE UNCHANGED vars
  BY <1>1, <1>9 DEF vars, launchSt, sessions, consumer, killSt
<1> QED BY <1>2, <1>3, <1>4, <1>5, <1>6, <1>7, <1>8, <1>9
        DEF Next, HostStep, HostLaunch, Rotate, Progress

(* As long as the newest turn runs, the instance leads to its proxy, its session
   and its consumer, whatever on_exit and _force_kill of older turns still do
   (adapters/ccm.py:343).  The host resumes no session that is in a turn: else
   the older turn on it finds the newer proxy as its own, and pops it. *)
THEOREM NewestStays ==
  ASSUME "reuse" \notin Env PROVE Spec => []NewestStaysRegistered
<1>1. Init => NewestStaysRegistered
  BY DEF Init, NewestStaysRegistered
<1>2. NewestStaysRegistered /\ TypeInv /\ SlotInv /\ [Next]_vars => NewestStaysRegistered'
  BY NewestStep
<1> QED BY <1>1, <1>2, SlotInvariant, PTL DEF Spec

(* A dispatcher is woken by the exit of its own consumer, through the proxy that
   its own retry was chained to, or by its own kill; never by another's exit
   (_PTYProcessProxy.complete, on_exit).  Again no session is resumed in a turn:
   else the older turn completes the newer proxy. *)
THEOREM WakesOwn ==
  ASSUME "reuse" \notin Env PROVE Spec => WakesItsDispatcher
<1> DEFINE Own == \A t \in done' \ done :
                    kpc'[t] # "none" \/ cpc[t] \in {"exit", "rotate", "over", "lost"}
<1>1. ASSUME TypeInv, SlotInv, [Next]_vars PROVE Own
  <2>1. ASSUME NEW c \in Turns, Rotated(c) \/ ExitDone(c) \/ Kill(c)
        PROVE  Own
    <3>0. Rotated(c) \/ ExitDone(c) => own[c] = c
      BY <1>1 DEF Rotated, ExitDone, SlotInv, OwnInv
    <3>1. done' \subseteq done \cup Downstream(c)
      BY <2>1, <3>0 DEF Rotated, ExitDone, Kill, Chain, Complete
    <3>2. Downstream(c) \subseteq {c} \cup {q \in Turns : cpc[q] = "over"}
      BY <1>1, CompletesOver DEF SlotInv
    <3>3. kpc'[c] # "none" \/ cpc[c] \in {"exit", "rotate"}
      BY <1>1, <2>1 DEF Rotated, ExitDone, Kill, TypeInv, SlotTypeOK
    <3> QED BY <3>1, <3>2, <3>3
  <2>2. CASE done' = done
    BY <2>2
  <2>3. done' = done \/ \E c \in Turns : Rotated(c) \/ ExitDone(c) \/ Kill(c)
    BY <1>1 DEF Next, HostStep, HostLaunch, Rotate, LaunchBegin, LaunchFails, Progress,
         LaunchStopped, LaunchRemoved, LaunchUp, OnExit, NotRotated, ForceKill, ForceKilled,
         TurnStep, TurnStart, TurnEnd, vars, proxies
  <2> QED BY <2>1, <2>2, <2>3
<1>2. TypeInv /\ SlotInv /\ [Next]_vars => [Own]_vars
  BY <1>1
<1> QED BY <1>2, SlotInvariant, PTL DEF Spec, WakesItsDispatcher
================================================================================
