-------------------------- MODULE ChannelBridge_proofs -------------------------
(***************************************************************************)
(* What is proved of ChannelBridge, for any number of Sessions, ports,     *)
(* permission requests, prompts, restarts and decisions.                   *)
(*                                                                         *)
(* A permission is told from its own relay: RelayInv.  That a prompt stays *)
(* in its conversation, and that a delivery is what it reports, rests on   *)
(* the lock of the working directory: under it .mcp.json names the Session *)
(* that holds it (ConfigInv), so that a process reads its own              *)
(* configuration and a server that can still write belongs to the process  *)
(* that runs; on no process being started while a prompt is underway       *)
(* (DeliveryInv, ScreenInv); and on each copy that Claude Code gets being  *)
(* either the one reported or one that was not answered in time (Counted,  *)
(* LateInv).                                                               *)
(***************************************************************************)
EXTENDS ChannelBridge, TLAPS

Somebody == Sessions \cup {None}
PortOrNone == Ports \cup {None}
Servers == [of : Somebody, by : Somebody, orphan : BOOLEAN]
Deliveries ==
    [pc : {"idle", "try", "post", "wait", "stdin", "over"} \cup Outcomes,
     n : 0 .. MaxPrompts, aim : PortOrNone, copies : Nat, lost : 0 .. MaxLosses,
     late : Nat, tried : BOOLEAN, blind : BOOLEAN, leaked : BOOLEAN]
Relays ==
    [pc : {"none", "posting", "waiting", "expired", "answered", "void"},
     by : Somebody, of : Somebody, told : BOOLEAN,
     result : Behaviors \cup {None}, heard : Behaviors \cup {None},
     said : SUBSET Behaviors, n : 0 .. MaxDecisions,
     excuse : {"none", "unforwarded", "expired"}]
Posts == [b : Behaviors, port : PortOrNone] \cup {NoPost}

TypeInv ==
    /\ life \in [Sessions -> {"new", "created", "starting", "up", "stopping", "stopped"}]
    /\ proc \in [Sessions -> {"none", "spawned", "dialog", "chat", "ready", "dead", "wedged"}]
    /\ restarts \in [Sessions -> 0 .. MaxRestarts]
    /\ port \in [Sessions -> PortOrNone] /\ reg \in [Sessions -> PortOrNone]
    /\ cwdLock \in Somebody /\ mcp \in Somebody /\ named \in [Sessions -> Somebody]
    /\ server \in [Ports -> Servers]
    /\ delivery \in [Sessions -> Deliveries]
    /\ force \in [Sessions -> BOOLEAN] /\ unavail \in [Sessions -> BOOLEAN]
    /\ req \in [Requests -> Relays]
    /\ post \in [Requests -> Posts]
    /\ topic \in {"prompts", "requests"}

(* Who has a port has not just been made, and only who has one is written to
   .mcp.json, is read from it and has a server. *)
PortInv ==
    /\ \A s \in Sessions : life[s] = "new" <=> port[s] = None
    /\ \A s \in Sessions : life[s] \in {"new", "created"} => proc[s] = "none"
    /\ mcp # None => port[mcp] # None
    /\ \A s \in Sessions : proc[s] = "spawned" => mcp # None
    /\ \A s \in Sessions : named[s] # None => port[named[s]] # None
    /\ \A s \in Sessions : proc[s] \in {"dialog", "chat", "ready"} => named[s] # None
    /\ \A p \in Ports : server[p] # NoServer =>
         server[p].of # None /\ server[p].by # None /\ port[server[p].of] = p
RegInv ==
    \A s \in Sessions : /\ reg[s] \in {None, port[s]}
                        /\ life[s] \in {"new", "stopping", "stopped"} => reg[s] = None

(* Copies that Claude Code has got, or will, were not answered, but for the one
   that ends the delivery; and while it prepares its prompt a Session starts no
   process. *)
Counted(d) ==
    /\ d.copies + d.late <= d.lost + (IF d.pc \in {"channel", "pasted", "over"} THEN 1 ELSE 0)
    /\ d.pc \in {"channel", "pasted"} => d.copies >= 1
Underway(s) == delivery[s].pc \in {"try", "post", "wait", "stdin"}
DeliveryInv ==
    \A s \in Sessions : LET d == delivery[s] IN
        /\ Counted(d)
        /\ d.pc \notin {"idle", "over"} => life[s] \in {"up", "stopping", "stopped"}

(* A process has read its own configuration, and a server that can still write
   is that of a process that runs. *)
ConfigInv ==
    /\ cwdLock # None => mcp = cwdLock /\ life[cwdLock] = "starting"
    /\ \A s \in Sessions : proc[s] = "spawned" => cwdLock = s
    /\ \A s \in Sessions : proc[s] \in {"dialog", "chat", "ready"} => named[s] = s
    /\ \A p \in Ports : server[p] # NoServer =>
         server[p].by = server[p].of /\ (~server[p].orphan => proc[server[p].by] = "ready")
ScreenInv ==
    \A s \in Sessions : LET d == delivery[s] IN
        /\ Underway(s) /\ d.lost > 0 => proc[s] \in {"ready", "dead"}
        /\ d.pc = "stdin" /\ d.tried => proc[s] \notin {"dialog", "wedged"}
        /\ d.pc = "refused" => d.lost = 0
        /\ d.pc \in {"try", "post", "wait"} \/ d.tried => ~d.blind
        /\ ~d.leaked

(* What is still to be taken late is with the process of the Session itself. *)
LateInv ==
    \A s \in Sessions :
        delivery[s].late > 0 => port[s] \in Ports /\ server[port[s]].by = s

RelayInv ==
    \A q \in Requests : LET r == req[q] IN
        /\ r.pc \in {"none", "posting", "waiting", "expired"} => r.heard = None
        /\ r.result # None => r.result \in r.said
        /\ r.pc = "expired" => r.excuse = "expired"
        /\ r.by # None => r.of # None
        /\ r.told => r.by # None

Base == TypeInv /\ PortInv /\ RegInv /\ DeliveryInv /\ RelayInv /\ HeardAsDecided
Quick == ConfigInv /\ ScreenInv /\ LateInv
--------------------------------------------------------------------------------
LEMMA NobodyElse ==
  /\ None \notin Sessions /\ None \notin Ports /\ None \notin Requests
  /\ None \notin Behaviors
BY BridgeAssumption DEF Behaviors

(* The end of a process: its server goes or can no longer write. *)
LEMMA DiesFacts ==
  ASSUME TypeInv, NEW s \in Sessions, NEW o, Dies(s, o)
  PROVE  /\ proc' \in [Sessions -> {"none", "spawned", "dialog", "chat", "ready", "dead", "wedged"}]
         /\ proc'[s] = IF proc[s] \in {"dialog", "wedged"} THEN "wedged" ELSE "dead"
         /\ \A u \in Sessions : u # s => proc'[u] = proc[u]
         /\ server' \in [Ports -> Servers]
         /\ \A p \in Ports : server'[p] # NoServer =>
              /\ server[p] # NoServer
              /\ server'[p].of = server[p].of /\ server'[p].by = server[p].by
              /\ ~server'[p].orphan => ~server[p].orphan /\ server[p].by # s
         /\ \A p \in Ports : server[p].by # s => server'[p] = server[p]
         /\ delivery' \in [Sessions -> Deliveries]
         /\ \A u \in Sessions :
              /\ delivery'[u] = delivery[u] \/ delivery'[u] = [delivery[u] EXCEPT !.late = 0]
              /\ delivery'[u].late > 0 => delivery[u].late > 0 /\ server[port[u]].by # s
         /\ req' \in [Requests -> Relays]
         /\ \A q \in Requests : req'[q] = req[q]
              \/ (req[q].pc # "answered" /\ req'[q] = [req[q] EXCEPT !.pc = "void"])
         /\ UNCHANGED <<cwdLock, mcp, named, post, topic>>
<1>1. /\ proc' \in [Sessions -> {"none", "spawned", "dialog", "chat", "ready", "dead", "wedged"}]
      /\ proc'[s] = IF proc[s] \in {"dialog", "wedged"} THEN "wedged" ELSE "dead"
      /\ \A u \in Sessions : u # s => proc'[u] = proc[u]
  BY DEF Dies, TypeInv
<1>2. NoServer \in Servers
  BY DEF NoServer, Servers, Somebody
<1>3. \A p \in Ports : /\ server[p] \in Servers
                       /\ server'[p] = IF server[p].by # s \/ server[p].orphan THEN server[p]
                            ELSE IF o THEN [server[p] EXCEPT !.orphan = TRUE] ELSE NoServer
  BY DEF Dies, TypeInv
<1>4. \A p \in Ports : server'[p] \in Servers
  <2> TAKE p \in Ports
  <2>1. [server[p] EXCEPT !.orphan = TRUE] \in Servers
    BY <1>3 DEF Servers
  <2> QED BY <1>2, <1>3, <2>1
<1>5. server' \in [Ports -> Servers]
  BY <1>3, <1>4 DEF Dies
<1>6. ASSUME NEW p \in Ports, server'[p] # NoServer
      PROVE  /\ server[p] # NoServer
             /\ server'[p].of = server[p].of /\ server'[p].by = server[p].by
             /\ ~server'[p].orphan => ~server[p].orphan /\ server[p].by # s
  <2>1. CASE server[p].by # s \/ server[p].orphan
    BY <1>3, <1>6, <2>1
  <2>2. CASE ~(server[p].by # s \/ server[p].orphan)
    <3>1. server'[p] = [server[p] EXCEPT !.orphan = TRUE]
      BY <1>3, <1>6, <2>2
    <3>2. server[p].by # None
      BY <2>2, NobodyElse
    <3> QED BY <1>3, <3>1, <3>2 DEF Servers, NoServer
  <2> QED BY <2>1, <2>2
<1>7. \A q \in Requests : /\ req[q] \in Relays
         /\ req'[q] = IF req[q].by = s /\ req[q].pc # "answered"
                      THEN [req[q] EXCEPT !.pc = "void"] ELSE req[q]
  BY DEF Dies, TypeInv
<1>8. \A q \in Requests : req'[q] \in Relays
  <2> TAKE q \in Requests
  <2>1. [req[q] EXCEPT !.pc = "void"] \in Relays
    BY <1>7 DEF Relays
  <2> QED BY <1>7, <2>1
<1>9. req' \in [Requests -> Relays]
  BY <1>7, <1>8 DEF Dies
<1>10. UNCHANGED <<cwdLock, mcp, named, post, topic>>
  BY DEF Dies, config
<1>11. \A u \in Sessions : /\ delivery[u] \in Deliveries
         /\ delivery'[u] = IF delivery[u].late > 0 /\ server[port[u]].by = s
                           THEN [delivery[u] EXCEPT !.late = 0] ELSE delivery[u]
  BY DEF Dies, TypeInv
<1>12. \A u \in Sessions : LET e == [delivery[u] EXCEPT !.late = 0] IN e \in Deliveries /\ e.late = 0
  BY <1>11 DEF Deliveries
<1>13. delivery' \in [Sessions -> Deliveries]
  BY <1>11, <1>12 DEF Dies
<1>14. \A u \in Sessions :
         /\ delivery'[u] = delivery[u] \/ delivery'[u] = [delivery[u] EXCEPT !.late = 0]
         /\ delivery'[u].late > 0 => delivery[u].late > 0 /\ server[port[u]].by # s
  <2> TAKE u \in Sessions
  <2>1. CASE delivery[u].late > 0 /\ server[port[u]].by = s
    <3> DEFINE e == [delivery[u] EXCEPT !.late = 0]
    <3>1. delivery'[u] = e /\ e.late = 0
      BY <1>11, <1>12, <2>1
    <3> HIDE DEF e
    <3>2. ~(delivery'[u].late > 0)
      BY <3>1
    <3> QED BY <1>11, <2>1, <3>2
  <2>2. CASE ~(delivery[u].late > 0 /\ server[port[u]].by = s)
    BY <1>11, <2>2
  <2> QED BY <2>1, <2>2
<1> QED BY <1>1, <1>3, <1>5, <1>6, <1>7, <1>9, <1>10, <1>13, <1>14
--------------------------------------------------------------------------------
(* What the steps of a delivery make of its record. *)
LEMMA DeliveryTyped ==
  ASSUME TypeInv, NEW s \in Sessions, NEW d, delivery' = [delivery EXCEPT ![s] = d]
  PROVE  /\ delivery'[s] = d
         /\ \A u \in Sessions : u # s => delivery'[u] = delivery[u]
         /\ d \in Deliveries => delivery' \in [Sessions -> Deliveries]
         /\ delivery[s] \in Deliveries
BY DEF TypeInv

(* What a request's step makes of its record. *)
LEMMA RelayTyped ==
  ASSUME TypeInv, NEW q \in Requests, NEW r, With(q, r)
  PROVE  /\ req'[q] = r
         /\ \A u \in Requests : u # q => req'[u] = req[u]
         /\ r \in Relays => req' \in [Requests -> Relays]
         /\ req[q] \in Relays
         /\ UNCHANGED <<life, restarts, port, proc, server, cwdLock, mcp, named, reg,
                        delivery, force, unavail, topic>>
BY DEF TypeInv, With, OnlyRelays, sessions, process, config, choice
--------------------------------------------------------------------------------
(* A delivery changes its own record and the two choices of its Session. *)
LEMMA DeliveryKeeps ==
  ASSUME Base, NEW s \in Sessions, NEW d \in Deliveries,
         delivery' = [delivery EXCEPT ![s] = d], OnlyDelivers,
         force' \in [Sessions -> BOOLEAN], unavail' \in [Sessions -> BOOLEAN],
         Counted(d),
         d.pc \notin {"idle", "over"} => life[s] \in {"up", "stopping", "stopped"}
  PROVE  Base'
<1>1. UNCHANGED <<life, restarts, port, proc, server, cwdLock, mcp, named, reg, req, post, topic>>
  BY DEF OnlyDelivers, sessions, process, config, relay
<1>2. /\ delivery' \in [Sessions -> Deliveries] /\ delivery'[s] = d
      /\ \A u \in Sessions : u # s => delivery'[u] = delivery[u]
  BY DeliveryTyped DEF Base
<1>3. TypeInv'
  BY <1>1, <1>2 DEF Base, TypeInv
<1>4. PortInv' /\ RegInv' /\ RelayInv' /\ HeardAsDecided'
  BY <1>1 DEF Base, PortInv, RegInv, RelayInv, HeardAsDecided
<1>5. DeliveryInv'
  BY <1>1, <1>2 DEF Base, DeliveryInv
<1> QED BY <1>3, <1>4, <1>5 DEF Base

LEMMA DeliveringBase ==
  ASSUME Base, NEW s \in Sessions,
         Deliver(s) \/ Delivering(s) \/ TakesLate(s) \/ TurnOver(s)
  PROVE  Base'
<1> DEFINE d == delivery[s]
<1>1. /\ delivery \in [Sessions -> Deliveries] /\ d \in Deliveries
      /\ force \in [Sessions -> BOOLEAN] /\ unavail \in [Sessions -> BOOLEAN]
      /\ reg[s] \in PortOrNone /\ proc \in [Sessions -> {"none", "spawned", "dialog", "chat", "ready", "dead", "wedged"}]
      /\ MaxPrompts \in Nat /\ MaxLosses \in Nat
  BY BridgeAssumption DEF Base, TypeInv
<1>2. /\ Counted(d)
      /\ d.pc \notin {"idle", "over"} => life[s] \in {"up", "stopping", "stopped"}
  BY DEF Base, DeliveryInv
<1> USE DEF Deliveries, Outcomes
<1>3. CASE Deliver(s)
  <2> DEFINE e == [NoDelivery EXCEPT !.n = d.n + 1, !.pc = IF force[s] \/ unavail[s] THEN "stdin" ELSE "try"]
  <2>0. /\ d.n + 1 \in 0 .. MaxPrompts /\ None \in PortOrNone
        /\ (IF force[s] \/ unavail[s] THEN "stdin" ELSE "try") \in {"stdin", "try"}
    BY <1>1, <1>3 DEF Deliver, PortOrNone
  <2>3. /\ NoDelivery \in Deliveries /\ NoDelivery.lost = 0 /\ NoDelivery.late = 0 /\ NoDelivery.copies = 0
    BY <1>1 DEF NoDelivery, PortOrNone
  <2> DEFINE pc == IF force[s] \/ unavail[s] THEN "stdin" ELSE "try"
             n == d.n + 1
  <2>4. pc \in {"stdin", "try"} /\ n \in 0 .. MaxPrompts
    BY <2>0
  <2> HIDE DEF pc, n
  <2>5. e = [NoDelivery EXCEPT !.n = n, !.pc = pc]
    BY DEF n, pc
  <2> HIDE DEF e
  <2>1. e \in Deliveries /\ e.lost = 0 /\ e.late = 0 /\ e.copies = 0 /\ e.pc \in {"stdin", "try"}
    BY <2>3, <2>4, <2>5
  <2> USE DEF e, n, pc
  <2>2. delivery' = [delivery EXCEPT ![s] = e] /\ OnlyDelivers /\ life[s] = "up"
        /\ force' \in [Sessions -> BOOLEAN] /\ unavail' \in [Sessions -> BOOLEAN]
    BY <1>1, <1>3 DEF Deliver
  <2> HIDE DEF e, n, pc
  <2>7. Counted(e)
    BY <2>1 DEF Counted
  <2> QED BY <2>1, <2>2, <2>7, DeliveryKeeps
<1>4. CASE LookUp(s)
  <2> DEFINE e == [d EXCEPT !.pc = "post", !.aim = reg[s], !.tried = TRUE]
  <2>1. e \in Deliveries /\ Counted(e) /\ e.pc = "post" /\ d.pc = "try"
    BY <1>1, <1>2, <1>4 DEF LookUp, Counted
  <2>2. delivery' = [delivery EXCEPT ![s] = e] /\ OnlyDelivers /\ UNCHANGED <<force, unavail>>
    BY <1>1, <1>4 DEF LookUp, choice
  <2> HIDE DEF e
  <2> QED BY <1>1, <1>2, <2>1, <2>2, DeliveryKeeps
<1>5. CASE Inject(s)
  <2> DEFINE to == IF d.aim = None THEN NoServer ELSE server[d.aim]
             mixed == d.leaked \/ to.by # s
             c == [d EXCEPT !.pc = "channel", !.copies = d.copies + 1, !.leaked = mixed]
             w == [d EXCEPT !.pc = "wait", !.lost = d.lost + 1, !.late = d.late + 1]
  <2>1. d.pc = "post" /\ OnlyDelivers /\ UNCHANGED <<force, unavail>>
    BY <1>5 DEF Inject, choice
  <2>2. CASE delivery' = [delivery EXCEPT ![s] = c]
    <3>1. mixed \in BOOLEAN /\ d.copies + 1 \in Nat
      BY <1>1
    <3> HIDE DEF mixed
    <3>2. c \in Deliveries /\ c.lost = d.lost /\ c.late = d.late /\ c.copies = d.copies + 1 /\ c.pc = "channel"
      BY <1>1, <3>1
    <3> HIDE DEF c
    <3>3. Counted(c)
      BY <1>1, <1>2, <2>1, <3>2 DEF Counted
    <3> QED BY <1>1, <1>2, <2>1, <2>2, <3>2, <3>3, DeliveryKeeps
  <2>3. CASE delivery' = [delivery EXCEPT ![s] = w] /\ d.lost < MaxLosses
    <3>1. d.lost + 1 \in 0 .. MaxLosses /\ d.late + 1 \in Nat
      BY <1>1, <2>3
    <3>2. w \in Deliveries /\ w.lost = d.lost + 1 /\ w.late = d.late + 1 /\ w.copies = d.copies /\ w.pc = "wait"
      BY <1>1, <3>1
    <3> HIDE DEF w
    <3>3. Counted(w)
      BY <1>1, <1>2, <2>1, <3>2 DEF Counted
    <3> QED BY <1>1, <1>2, <2>1, <2>3, <3>2, <3>3, DeliveryKeeps
  <2>4. CASE Goes(s, "wait")
    <3> DEFINE f == [d EXCEPT !.pc = "wait"]
    <3>1. f \in Deliveries /\ Counted(f) /\ f.pc = "wait"
          /\ delivery' = [delivery EXCEPT ![s] = f]
      BY <1>1, <1>2, <2>1, <2>4 DEF Goes, Counted
    <3> HIDE DEF f
    <3> QED BY <1>1, <1>2, <2>1, <3>1, DeliveryKeeps
  <2>5. \/ delivery' = [delivery EXCEPT ![s] = c]
        \/ delivery' = [delivery EXCEPT ![s] = w] /\ d.lost < MaxLosses
        \/ Goes(s, "wait")
    BY <1>1, <1>5 DEF Inject
  <2> QED BY <2>2, <2>3, <2>4, <2>5
<1>6. ASSUME NEW pc \in {"try", "stdin", "refused", "over"}, Goes(s, pc), OnlyDelivers,
             force' = force, unavail' \in [Sessions -> BOOLEAN],
             d.pc = "wait" \/ pc = "over"
      PROVE  Base'
  <2> DEFINE f == [d EXCEPT !.pc = pc]
  <2>1. f \in Deliveries /\ Counted(f) /\ f.pc = pc
        /\ delivery' = [delivery EXCEPT ![s] = f]
    BY <1>1, <1>2, <1>6 DEF Goes, Counted
  <2> HIDE DEF f
  <2> QED BY <1>1, <1>2, <1>6, <2>1, DeliveryKeeps
<1>7. CASE Retry(s)
  BY <1>1, <1>6, <1>7 DEF Retry, choice
<1>8. CASE FallBack(s)
  BY <1>1, <1>6, <1>8 DEF FallBack
<1>9. CASE TurnOver(s)
  BY <1>1, <1>6, <1>9 DEF TurnOver, choice
<1>10. CASE Paste(s)
  <2> DEFINE f == [d EXCEPT !.pc = IF Alive(s) THEN "pasted" ELSE "raised",
                            !.copies = IF Alive(s) THEN @ + 1 ELSE @,
                            !.blind = proc[s] = "dialog"]
  <2>1. /\ d.pc = "stdin" /\ OnlyDelivers /\ UNCHANGED <<force, unavail>>
        /\ delivery' = [delivery EXCEPT ![s] = f]
    BY <1>1, <1>10 DEF Paste, choice
  <2>2. CASE Alive(s)
    <3> DEFINE g == [d EXCEPT !.pc = "pasted", !.copies = d.copies + 1, !.blind = proc[s] = "dialog"]
    <3>1. f = g /\ d.copies + 1 \in Nat /\ (proc[s] = "dialog") \in BOOLEAN
      BY <1>1, <1>2, <2>1, <2>2
    <3>2. g \in Deliveries /\ g.lost = d.lost /\ g.late = d.late /\ g.copies = d.copies + 1 /\ g.pc = "pasted"
      BY <1>1, <3>1
    <3> HIDE DEF f, g
    <3>3. Counted(g)
      BY <1>1, <1>2, <2>1, <3>2 DEF Counted
    <3> QED BY <1>1, <1>2, <2>1, <3>1, <3>2, <3>3, DeliveryKeeps
  <2>3. CASE ~Alive(s)
    <3> DEFINE g == [d EXCEPT !.pc = "raised", !.blind = proc[s] = "dialog"]
    <3>1. f = g /\ (proc[s] = "dialog") \in BOOLEAN
      BY <1>1, <1>2, <2>1, <2>3
    <3>2. g \in Deliveries /\ g.lost = d.lost /\ g.late = d.late /\ g.copies = d.copies /\ g.pc = "raised"
      BY <1>1, <3>1
    <3> HIDE DEF f, g
    <3>3. Counted(g)
      BY <1>1, <1>2, <2>1, <3>2 DEF Counted
    <3> QED BY <1>1, <1>2, <2>1, <3>1, <3>2, <3>3, DeliveryKeeps
  <2> QED BY <2>2, <2>3
<1>11. CASE TakesLate(s)
  <2> DEFINE mixed == d.leaked \/ server[port[s]].by # s
             f == [d EXCEPT !.late = d.late - 1, !.copies = d.copies + 1, !.leaked = mixed]
  <2>1. /\ d.late > 0 /\ OnlyDelivers /\ UNCHANGED <<force, unavail>>
        /\ delivery' = [delivery EXCEPT ![s] = f]
    BY <1>1, <1>11 DEF TakesLate, choice
  <2>2. mixed \in BOOLEAN /\ d.copies + 1 \in Nat /\ d.late - 1 \in Nat
    BY <1>1, <2>1
  <2> HIDE DEF mixed
  <2>3. f \in Deliveries /\ f.lost = d.lost /\ f.late = d.late - 1 /\ f.copies = d.copies + 1 /\ f.pc = d.pc
    BY <1>1, <2>2
  <2> HIDE DEF f
  <2>4. Counted(f)
    BY <1>1, <1>2, <2>1, <2>3 DEF Counted
  <2> QED BY <1>1, <1>2, <2>1, <2>3, <2>4, DeliveryKeeps
<1> QED BY <1>3, <1>4, <1>5, <1>7, <1>8, <1>9, <1>10, <1>11 DEF Delivering
--------------------------------------------------------------------------------
(* A relay changes its own request and the decision on its way to it. *)
RelayOK(r) ==
    /\ r.pc \in {"none", "posting", "waiting", "expired"} => r.heard = None
    /\ r.result # None => r.result \in r.said
    /\ r.pc = "expired" => r.excuse = "expired"
    /\ r.by # None => r.of # None
    /\ r.told => r.by # None
    /\ r.heard = "allow" => "allow" \in r.said \/ r.excuse = "unforwarded"
    /\ r.heard = "deny"  => "deny" \in r.said \/ r.excuse = "expired"

LEMMA RelayFacts ==
  ASSUME Base
  PROVE  \A q \in Requests : req[q] \in Relays /\ RelayOK(req[q])
BY DEF Base, TypeInv, RelayInv, HeardAsDecided, RelayOK

LEMMA RelayKeeps ==
  ASSUME Base, NEW q \in Requests, NEW r \in Relays, With(q, r), RelayOK(r),
         post' \in [Requests -> Posts]
  PROVE  Base'
<1>1. /\ req' \in [Requests -> Relays] /\ req'[q] = r
      /\ \A u \in Requests : u # q => req'[u] = req[u]
      /\ UNCHANGED <<life, restarts, port, proc, server, cwdLock, mcp, named, reg,
                     delivery, force, unavail, topic>>
  BY RelayTyped DEF Base
<1>2. TypeInv'
  BY <1>1 DEF Base, TypeInv
<1>3. PortInv' /\ RegInv' /\ DeliveryInv'
  BY <1>1 DEF Base, PortInv, RegInv, DeliveryInv
<1>4. \A u \in Requests : RelayOK(req'[u])
  BY <1>1, RelayFacts
<1>5. RelayInv' /\ HeardAsDecided'
  BY <1>4 DEF RelayInv, HeardAsDecided, RelayOK
<1> QED BY <1>2, <1>3, <1>5 DEF Base

LEMMA RelayingBase ==
  ASSUME Base, NEW q \in Requests,
         \/ \E s \in Sessions : Ask(q, s)
         \/ Tell(q) \/ Relaying(q) \/ Arrives(q)
         \/ \E b \in Behaviors : Decide(q, b)
  PROVE  Base'
<1> DEFINE r == req[q]
<1>1. /\ r \in Relays /\ RelayOK(r)
      /\ post \in [Requests -> Posts]
      /\ reg \in [Sessions -> PortOrNone] /\ MaxDecisions \in Nat
  BY RelayFacts, BridgeAssumption DEF Base, TypeInv
<1>2. /\ None \notin Sessions /\ None \notin Behaviors
  BY NobodyElse
<1> USE DEF Relays
<1>3. ASSUME NEW s \in Sessions, Ask(q, s) PROVE Base'
  <2>1. named[s] \in Sessions
    <3>1. proc[s] = "ready"
      BY <1>3 DEF Ask
    <3> QED BY <3>1 DEF Base, TypeInv, PortInv, Somebody
  <2>2. NoRequest \in Relays
    BY BridgeAssumption DEF NoRequest, Somebody
  <2> DEFINE e == [NoRequest EXCEPT !.pc = "posting", !.by = s, !.of = named[s]]
  <2>3. With(q, e) /\ UNCHANGED post
    BY <1>3 DEF Ask
  <2>4. /\ NoRequest.heard = None /\ NoRequest.result = None /\ NoRequest.told = FALSE
    BY DEF NoRequest
  <2> HIDE DEF NoRequest
  <2>5. e \in Relays /\ e.pc = "posting" /\ e.by = s /\ e.of = named[s] /\ e.heard = None
        /\ e.result = None /\ e.told = NoRequest.told
    BY <2>1, <2>2, <2>4 DEF Somebody
  <2> HIDE DEF e
  <2>6. RelayOK(e)
    BY <1>2, <2>1, <2>4, <2>5 DEF RelayOK, Behaviors
  <2> QED BY <1>1, <2>3, <2>5, <2>6, RelayKeeps
<1>4. CASE Tell(q)
  <2> DEFINE e == [r EXCEPT !.told = TRUE]
  <2>1. e \in Relays /\ RelayOK(e) /\ With(q, e) /\ UNCHANGED post
    BY <1>1, <1>4 DEF Tell, RelayOK
  <2> HIDE DEF e
  <2> QED BY <1>1, <2>1, RelayKeeps
<1>5. CASE Unforwarded(q)
  <2> DEFINE e == [r EXCEPT !.pc = "answered", !.heard = "allow", !.excuse = "unforwarded"]
  <2>1. e \in Relays /\ RelayOK(e) /\ With(q, e) /\ UNCHANGED post
    BY <1>1, <1>5 DEF Unforwarded, RelayOK, Behaviors
  <2> HIDE DEF e
  <2> QED BY <1>1, <2>1, RelayKeeps
<1>6. CASE Registers(q)
  <2> DEFINE e == [r EXCEPT !.pc = "waiting"]
  <2>1. e \in Relays /\ RelayOK(e) /\ With(q, e) /\ UNCHANGED post
    BY <1>1, <1>6 DEF Registers, RelayOK
  <2> HIDE DEF e
  <2> QED BY <1>1, <2>1, RelayKeeps
<1>7. ASSUME NEW b \in Behaviors, Decide(q, b) PROVE Base'
  <2> DEFINE e == [r EXCEPT !.n = r.n + 1]
  <2>1. r.n + 1 \in 0 .. MaxDecisions
    BY <1>1, <1>7 DEF Decide
  <2>2. e \in Relays /\ RelayOK(e) /\ With(q, e)
    BY <1>1, <1>7, <2>1 DEF Decide, RelayOK
  <2>3. reg[r.of] \in PortOrNone
    BY <1>1, <1>7 DEF Decide, RelayOK, Somebody
  <2>4. post' \in [Requests -> Posts]
    BY <1>1, <1>7, <2>3 DEF Decide, Posts
  <2> HIDE DEF e
  <2> QED BY <2>2, <2>4, RelayKeeps
<1>8. CASE Arrives(q)
  <2>1. post' = [post EXCEPT ![q] = NoPost] /\ post[q] # NoPost
    BY <1>8 DEF Arrives
  <2>2. post' \in [Requests -> Posts]
    BY <1>1, <2>1 DEF Posts
  <2>3. CASE With(q, r)
    BY <1>1, <2>2, <2>3, RelayKeeps
  <2> DEFINE b == post[q].b
             e == [r EXCEPT !.result = b, !.said = r.said \cup {b}]
  <2>4. ASSUME With(q, e), r.pc \in {"waiting", "expired"}, b \in Behaviors PROVE Base'
    <3>1. e \in Relays /\ RelayOK(e)
      BY <1>1, <2>4 DEF RelayOK
    <3> HIDE DEF e
    <3> QED BY <2>2, <2>4, <3>1, RelayKeeps
  <2>5. b \in Behaviors
    BY <1>1, <2>1 DEF Posts
  <2> QED BY <1>1, <1>8, <2>3, <2>4, <2>5 DEF Arrives
<1>9. CASE Wakes(q)
  <2> DEFINE e == [r EXCEPT !.pc = "answered", !.heard = r.result]
  <2>1. e \in Relays /\ RelayOK(e) /\ With(q, e) /\ UNCHANGED post
    BY <1>1, <1>9 DEF Wakes, RelayOK, Behaviors
  <2> HIDE DEF e
  <2> QED BY <1>1, <2>1, RelayKeeps
<1>10. CASE Expire(q)
  <2> DEFINE e == [r EXCEPT !.pc = "expired", !.excuse = "expired"]
  <2>1. e \in Relays /\ RelayOK(e) /\ With(q, e) /\ UNCHANGED post
    BY <1>1, <1>2, <1>10 DEF Expire, RelayOK, Behaviors
  <2> HIDE DEF e
  <2> QED BY <1>1, <2>1, RelayKeeps
<1>11. CASE GiveUp(q)
  <2> DEFINE e == [r EXCEPT !.pc = "answered", !.heard = "deny"]
  <2>1. e \in Relays /\ RelayOK(e) /\ With(q, e) /\ UNCHANGED post
    BY <1>1, <1>11 DEF GiveUp, RelayOK, Behaviors
  <2> HIDE DEF e
  <2> QED BY <1>1, <2>1, RelayKeeps
<1> QED BY <1>3, <1>4, <1>5, <1>6, <1>7, <1>8, <1>9, <1>10, <1>11 DEF Relaying
--------------------------------------------------------------------------------
(* The life of a Session *)
LEMMA LivingBase ==
  ASSUME Base, NEW s \in Sessions, Living(s)
  PROVE  Base'
<1>1. TypeInv /\ PortInv /\ RegInv /\ DeliveryInv /\ None \notin Sessions /\ None \notin Ports
  BY NobodyElse DEF Base
<1>2. UNCHANGED req => RelayInv' /\ HeardAsDecided'
  BY DEF Base, RelayInv, HeardAsDecided
<1> USE DEF sessions, process, config, choice, relay, Somebody, PortOrNone, NoServer, Servers
<1>3. CASE Create(s)
  <2> USE <1>3 DEF Create
  <2>0. UNCHANGED <<delivery, force, unavail, req, post, topic>>
    OBVIOUS
  <2>1. TypeInv'
    BY <1>1, <2>0 DEF TypeInv
  <2>2. PortInv'
    BY <1>1, <2>0 DEF TypeInv, PortInv
  <2>3. RegInv'
    BY <1>1, <2>0 DEF TypeInv, RegInv, PortInv
  <2>4. DeliveryInv'
    BY <1>1, <2>0 DEF TypeInv, DeliveryInv
  <2>5. RelayInv' /\ HeardAsDecided'
    BY <2>0, <1>2
  <2> QED BY <2>1, <2>2, <2>3, <2>4, <2>5 DEF Base
<1>4. CASE Spawn(s)
  <2> USE <1>4 DEF Spawn, MaySpawn, WritesConfig
  <2>0. UNCHANGED <<delivery, force, unavail, req, post, topic>>
    OBVIOUS
  <2>6. life[s] \in {"created", "up"} /\ delivery[s].pc \in {"idle", "over"}
    BY <1>1 DEF TypeInv, DeliveryInv
  <2>7. restarts' \in [Sessions -> 0 .. MaxRestarts]
    BY <1>1, BridgeAssumption DEF TypeInv
  <2>1. TypeInv'
    BY <1>1, <2>0, <2>6, <2>7 DEF TypeInv
  <2>2. PortInv'
    BY <1>1, <2>0, <2>6, <2>7 DEF TypeInv, PortInv
  <2>3. RegInv'
    BY <1>1, <2>0, <2>6, <2>7 DEF TypeInv, RegInv, PortInv
  <2>4. DeliveryInv'
    BY <1>1, <2>0, <2>6, <2>7 DEF TypeInv, DeliveryInv
  <2>5. RelayInv' /\ HeardAsDecided'
    BY <2>0, <1>2
  <2> QED BY <2>1, <2>2, <2>3, <2>4, <2>5 DEF Base
<1>5. CASE ReadsConfig(s)
  <2> USE <1>5 DEF ReadsConfig
  <2>0. UNCHANGED <<delivery, force, unavail, req, post, topic>>
    OBVIOUS
  <2>1. TypeInv'
    BY <1>1, <2>0 DEF TypeInv
  <2>2. PortInv'
    BY <1>1, <2>0 DEF TypeInv, PortInv
  <2>3. RegInv'
    BY <1>1, <2>0 DEF TypeInv, RegInv, PortInv
  <2>4. DeliveryInv'
    BY <1>1, <2>0 DEF TypeInv, DeliveryInv
  <2>5. RelayInv' /\ HeardAsDecided'
    BY <2>0, <1>2
  <2> QED BY <2>1, <2>2, <2>3, <2>4, <2>5 DEF Base
<1>6. CASE Spawned(s)
  <2> USE <1>6 DEF Spawned
  <2>0. UNCHANGED <<delivery, force, unavail, req, post, topic>>
    OBVIOUS
  <2>1. TypeInv'
    BY <1>1, <2>0 DEF TypeInv
  <2>2. PortInv'
    BY <1>1, <2>0 DEF TypeInv, PortInv
  <2>3. RegInv'
    BY <1>1, <2>0 DEF TypeInv, RegInv, PortInv
  <2>4. DeliveryInv'
    BY <1>1, <2>0 DEF TypeInv, DeliveryInv
  <2>5. RelayInv' /\ HeardAsDecided'
    BY <2>0, <1>2
  <2> QED BY <2>1, <2>2, <2>3, <2>4, <2>5 DEF Base
<1>7. CASE DialogCloses(s)
  <2> USE <1>7 DEF DialogCloses
  <2>0. UNCHANGED <<delivery, force, unavail, req, post, topic>>
    OBVIOUS
  <2>1. TypeInv'
    BY <1>1, <2>0 DEF TypeInv
  <2>2. PortInv'
    BY <1>1, <2>0 DEF TypeInv, PortInv
  <2>3. RegInv'
    BY <1>1, <2>0 DEF TypeInv, RegInv, PortInv
  <2>4. DeliveryInv'
    BY <1>1, <2>0 DEF TypeInv, DeliveryInv
  <2>5. RelayInv' /\ HeardAsDecided'
    BY <2>0, <1>2
  <2> QED BY <2>1, <2>2, <2>3, <2>4, <2>5 DEF Base
<1>8. CASE ServerStarts(s)
  <2> USE <1>8 DEF ServerStarts
  <2>0. UNCHANGED <<delivery, force, unavail, req, post, topic>>
    OBVIOUS
  <2>6. /\ named[s] \in Sessions /\ port[named[s]] \in Ports
    BY <1>1 DEF TypeInv, PortInv
  <2>1. TypeInv'
    BY <1>1, <2>0, <2>6 DEF TypeInv
  <2>7. /\ proc[s] = "chat" /\ proc'[s] = "ready" /\ \A u \in Sessions : u # s => proc'[u] = proc[u]
        /\ UNCHANGED <<life, port, mcp, named, reg>>
    BY <1>1 DEF TypeInv
  <2>8. \A p \in Ports : server'[p] = server[p]
          \/ (p = port[named[s]] /\ server'[p].of = named[s] /\ server'[p].by = s)
    BY <1>1, <2>6 DEF TypeInv
  <2> HIDE <1>8
  <2> HIDE DEF ServerStarts, NoServer, Servers
  <2>9. \A p \in Ports : server'[p] # NoServer =>
          server'[p].of # None /\ server'[p].by # None /\ port[server'[p].of] = p
    BY <1>1, <2>6, <2>8 DEF PortInv
  <2>2. PortInv'
    BY <1>1, <2>6, <2>7, <2>9 DEF PortInv
  <2>3. RegInv'
    BY <1>1, <2>7 DEF RegInv
  <2>4. DeliveryInv'
    BY <1>1, <2>0, <2>7 DEF DeliveryInv
  <2>5. RelayInv' /\ HeardAsDecided'
    BY <2>0, <1>2
  <2> QED BY <2>1, <2>2, <2>3, <2>4, <2>5 DEF Base
<1>9. CASE Started(s)
  <2> USE <1>9 DEF Started
  <2>0. UNCHANGED <<delivery, force, unavail, req, post, topic>>
    OBVIOUS
  <2>1. TypeInv'
    BY <1>1, <2>0 DEF TypeInv
  <2>2. PortInv'
    BY <1>1, <2>0 DEF TypeInv, PortInv
  <2>3. RegInv'
    BY <1>1, <2>0 DEF TypeInv, RegInv, PortInv
  <2>4. DeliveryInv'
    BY <1>1, <2>0 DEF TypeInv, DeliveryInv
  <2>5. RelayInv' /\ HeardAsDecided'
    BY <2>0, <1>2
  <2> QED BY <2>1, <2>2, <2>3, <2>4, <2>5 DEF Base
<1>10. CASE StartFails(s)
  <2> USE <1>10 DEF StartFails
  <2>0. UNCHANGED <<delivery, force, unavail, req, post, topic>>
    OBVIOUS
  <2>1. TypeInv'
    BY <1>1, <2>0 DEF TypeInv
  <2>2. PortInv'
    BY <1>1, <2>0 DEF TypeInv, PortInv
  <2>3. RegInv'
    BY <1>1, <2>0 DEF TypeInv, RegInv, PortInv
  <2>4. DeliveryInv'
    BY <1>1, <2>0 DEF TypeInv, DeliveryInv
  <2>5. RelayInv' /\ HeardAsDecided'
    BY <2>0, <1>2
  <2> QED BY <2>1, <2>2, <2>3, <2>4, <2>5 DEF Base
<1>12. CASE StopBegins(s)
  <2> USE <1>12 DEF StopBegins
  <2>0. UNCHANGED <<delivery, force, unavail, req, post, topic>>
    OBVIOUS
  <2>1. TypeInv'
    BY <1>1, <2>0 DEF TypeInv
  <2>2. PortInv'
    BY <1>1, <2>0 DEF TypeInv, PortInv
  <2>3. RegInv'
    BY <1>1, <2>0 DEF TypeInv, RegInv, PortInv
  <2>4. DeliveryInv'
    BY <1>1, <2>0 DEF TypeInv, DeliveryInv
  <2>5. RelayInv' /\ HeardAsDecided'
    BY <2>0, <1>2
  <2> QED BY <2>1, <2>2, <2>3, <2>4, <2>5 DEF Base
<1>11. ASSUME Die(s) \/ StopEnds(s) PROVE Base'
  <2>0. PICK o \in {FALSE, "orphan" \in Env} : Dies(s, o)
    BY <1>11 DEF Die, StopEnds
  <2>2. /\ UNCHANGED <<restarts, port, reg, force, unavail>>
        /\ life' = life \/ (life[s] = "stopping" /\ life' = [life EXCEPT ![s] = "stopped"])
    BY <1>11 DEF Die, StopEnds
  <2>3. life[s] \in {"new", "created"} => proc[s] = "none" /\ ~Alive(s)
    BY <1>1 DEF Alive, PortInv
  <2>4. life[s] \notin {"new", "created"}
    BY <1>11, <2>3 DEF Die, StopEnds
  <2>5. /\ proc' \in [Sessions -> {"none", "spawned", "dialog", "chat", "ready", "dead", "wedged"}]
        /\ proc'[s] \in {"dead", "wedged"} /\ \A u \in Sessions : u # s => proc'[u] = proc[u]
        /\ server' \in [Ports -> Servers]
        /\ \A p \in Ports : server'[p] # NoServer =>
              server[p] # NoServer /\ server'[p].of = server[p].of /\ server'[p].by = server[p].by
        /\ delivery' \in [Sessions -> Deliveries]
        /\ \A u \in Sessions :
             delivery'[u] = delivery[u] \/ delivery'[u] = [delivery[u] EXCEPT !.late = 0]
        /\ req' \in [Requests -> Relays]
        /\ \A q \in Requests : req'[q] = req[q]
              \/ (req[q].pc # "answered" /\ req'[q] = [req[q] EXCEPT !.pc = "void"])
        /\ UNCHANGED <<cwdLock, mcp, named, post, topic>>
    BY <1>1, <2>0, DiesFacts
  <2> HIDE DEF NoServer, Servers
  <2>6. TypeInv'
    BY <1>1, <2>2, <2>5 DEF TypeInv
  <2>7. PortInv' /\ RegInv' /\ DeliveryInv'
    <3>1. \A u \in Sessions : life'[u] = life[u] \/ (u = s /\ life[s] = "stopping" /\ life'[u] = "stopped")
      BY <1>1, <2>2 DEF TypeInv
    <3>2. PortInv'
      BY <1>1, <2>2, <2>4, <2>5, <3>1 DEF PortInv
    <3>3. RegInv'
      BY <1>1, <2>2, <3>1 DEF RegInv
    <3>4. ASSUME NEW u \in Sessions PROVE Counted(delivery'[u]) /\ delivery'[u].pc = delivery[u].pc
      <4> DEFINE d == delivery[u]
                 e == [d EXCEPT !.late = 0]
      <4>1. d \in Deliveries /\ Counted(d)
        BY <1>1 DEF TypeInv, DeliveryInv
      <4>2. /\ e.pc = d.pc /\ e.copies = d.copies /\ e.lost = d.lost /\ e.late = 0
            /\ d.late \in Nat /\ d.copies \in Nat /\ d.lost \in Nat
        BY <4>1, BridgeAssumption DEF Deliveries
      <4> HIDE DEF e
      <4>3. Counted(e)
        BY <4>1, <4>2 DEF Counted
      <4> QED BY <2>5, <4>1, <4>2, <4>3 DEF e
    <3>5. DeliveryInv'
      BY <1>1, <3>1, <3>4 DEF DeliveryInv
    <3> QED BY <3>2, <3>3, <3>5
  <2>8. RelayInv' /\ HeardAsDecided'
    <3>1. \A q \in Requests : RelayOK(req'[q])
      <4> SUFFICES ASSUME NEW q \in Requests PROVE RelayOK(req'[q])
        OBVIOUS
      <4> DEFINE r == req[q]
                 e == [r EXCEPT !.pc = "void"]
      <4>1. r \in Relays /\ RelayOK(r)
        BY RelayFacts
      <4>2. RelayOK(e)
        BY <4>1 DEF RelayOK, Relays
      <4> HIDE DEF e
      <4>3. req'[q] = r \/ req'[q] = e
        BY <2>5 DEF e
      <4> QED BY <4>1, <4>2, <4>3
    <3> QED BY <3>1 DEF RelayInv, HeardAsDecided, RelayOK
  <2> QED BY <2>6, <2>7, <2>8 DEF Base
<1> QED BY <1>3, <1>4, <1>5, <1>6, <1>7, <1>8, <1>9, <1>10, <1>11, <1>12 DEF Living

LEMMA BaseStep == Base /\ [Next]_vars => Base'
<1> SUFFICES ASSUME Base, [Next]_vars PROVE Base'
  OBVIOUS
<1>1. CASE UNCHANGED vars
  <2>1. UNCHANGED <<life, restarts, port, proc, server, cwdLock, mcp, named, reg, delivery,
                    force, unavail, req, post, topic>>
    BY <1>1 DEF vars, sessions, process, config, choice, relay
  <2>2. TypeInv' /\ PortInv' /\ RegInv'
    BY <2>1 DEF Base, TypeInv, PortInv, RegInv
  <2>3. DeliveryInv' /\ RelayInv' /\ HeardAsDecided'
    BY <2>1 DEF Base, DeliveryInv, RelayInv, HeardAsDecided
  <2> QED BY <2>2, <2>3 DEF Base
<1> QED BY <1>1, LivingBase, DeliveringBase, RelayingBase DEF Next

LEMMA BaseInit == Init => Base
<1> SUFFICES ASSUME Init PROVE Base
  OBVIOUS
<1>1. /\ NoDelivery \in Deliveries /\ NoDelivery.pc = "idle" /\ Counted(NoDelivery)
      /\ NoRequest \in Relays /\ RelayOK(NoRequest)
      /\ NoServer \in Servers /\ NoPost \in Posts
  BY BridgeAssumption DEF NoDelivery, NoRequest, NoServer, Posts, Deliveries, Relays, Servers,
     Somebody, PortOrNone, RelayOK, Behaviors, Counted
<1> HIDE DEF NoDelivery, NoRequest, NoServer, NoPost
<1>2. TypeInv
  BY <1>1, BridgeAssumption DEF Init, TypeInv, Somebody, PortOrNone
<1>3. PortInv /\ RegInv
  BY <1>1 DEF Init, PortInv, RegInv
<1>4. DeliveryInv
  BY <1>1 DEF Init, DeliveryInv
<1>5. RelayInv /\ HeardAsDecided
  BY <1>1 DEF Init, RelayInv, HeardAsDecided, RelayOK
<1> QED BY <1>2, <1>3, <1>4, <1>5 DEF Base

LEMMA BaseInvariant == Spec => []Base
BY BaseInit, BaseStep, PTL DEF Spec

(* Types; a server listens on the port of the Session it belongs to, and the hub
   knows that port or none, of a Session that has stopped none. *)
THEOREM BridgeTypesHold == Spec => []BridgeTypeOK
<1>1. Base => BridgeTypeOK
  <2> SUFFICES ASSUME Base PROVE BridgeTypeOK
    OBVIOUS
  <2>1. \A s \in Sessions : delivery[s] \in Deliveries
    BY DEF Base, TypeInv
  <2>2. \A s \in Sessions : delivery[s].n <= MaxPrompts /\ delivery[s].lost <= MaxLosses
    BY <2>1, BridgeAssumption DEF Deliveries
  <2>3. \A q \in Requests : req[q].said \subseteq Behaviors
    BY DEF Base, TypeInv, Relays
  <2>4. \A p \in Ports : server[p] # NoServer => port[server[p].of] = p
    BY DEF Base, PortInv
  <2> QED BY <2>2, <2>3, <2>4 DEF Base, TypeInv, RegInv, BridgeTypeOK, Somebody, PortOrNone
<1> QED BY <1>1, BaseInvariant, PTL

(* Claude Code is only allowed what the host allowed or could not be asked, and
   denied what it denied or did not decide in time (_run_permission_relay). *)
THEOREM HeardHolds == Spec => []HeardAsDecided
<1>1. Base => HeardAsDecided
  BY DEF Base
<1> QED BY <1>1, BaseInvariant, PTL
--------------------------------------------------------------------------------
(* Where Claude Code has read .mcp.json when the lock is given up *)
NoSlow == "slow" \notin Env

(* A process reads its own configuration, and becomes the only one whose server
   listens for its Session. *)
LEMMA ConfigStep ==
  ASSUME NoSlow, Base, ConfigInv, [Next]_vars
  PROVE  ConfigInv'
<1>1. TypeInv /\ PortInv /\ None \notin Sessions
  BY NobodyElse DEF Base
<1>2. ASSUME UNCHANGED <<life, proc, server, cwdLock, mcp, named>> PROVE ConfigInv'
  BY <1>2 DEF ConfigInv
<1>3. ASSUME NEW s \in Sessions, Deliver(s) \/ Delivering(s) \/ TakesLate(s) \/ TurnOver(s)
      PROVE  ConfigInv'
  BY <1>2, <1>3 DEF Deliver, Delivering, TakesLate, TurnOver, LookUp, Inject, Retry, FallBack, Paste,
     OnlyDelivers, sessions, process, config
<1>4. ASSUME NEW q \in Requests,
             \/ \E s \in Sessions : Ask(q, s)
             \/ Tell(q) \/ Relaying(q) \/ Arrives(q)
             \/ \E b \in Behaviors : Decide(q, b)
      PROVE  ConfigInv'
  BY <1>2, <1>4 DEF Ask, Tell, Relaying, Arrives, Decide, Unforwarded, Registers, Wakes, Expire,
     GiveUp, With, OnlyRelays, sessions, process, config
<1>5. ASSUME NEW s \in Sessions, Living(s) PROVE ConfigInv'
  <2> USE DEF sessions, process, config
  <2>1. CASE Create(s)
    BY <1>1, <2>1 DEF Create, ConfigInv, TypeInv
  <2>2. CASE Spawn(s)
    <3>1. /\ cwdLock = None /\ cwdLock' = s /\ mcp' = s /\ life' = [life EXCEPT ![s] = "starting"]
          /\ proc' = [proc EXCEPT ![s] = "spawned"] /\ UNCHANGED <<server, named>>
          /\ ~Alive(s)
      BY <1>1, <2>2 DEF Spawn, MaySpawn, WritesConfig, PortInv, Alive
    <3>2. /\ life'[s] = "starting" /\ proc'[s] = "spawned"
          /\ \A u \in Sessions : u # s => proc'[u] = proc[u]
      BY <1>1, <3>1 DEF TypeInv
    <3>3. \A u \in Sessions : proc[u] # "spawned"
      BY <1>1, <3>1 DEF ConfigInv
    <3>4. \A p \in Ports : server[p] # NoServer /\ ~server[p].orphan => server[p].by # s
      BY <3>1 DEF ConfigInv, Alive
    <3>5. \A p \in Ports : server[p] # NoServer => server[p].by \in Sessions
      BY <1>1 DEF PortInv, TypeInv, Servers, Somebody
    <3> QED BY <3>1, <3>2, <3>3, <3>4, <3>5 DEF ConfigInv
  <2>3. CASE ReadsConfig(s)
    <3>1. /\ proc[s] = "spawned" /\ proc' = [proc EXCEPT ![s] = "dialog"]
          /\ named' = [named EXCEPT ![s] = mcp] /\ UNCHANGED <<life, server, cwdLock, mcp>>
      BY <2>3 DEF ReadsConfig
    <3>2. mcp = s
      BY <1>1, <3>1 DEF ConfigInv
    <3> QED BY <1>1, <3>1, <3>2 DEF ConfigInv, TypeInv
  <2>4. CASE Spawned(s)
    BY <1>1, <2>4 DEF Spawned, ConfigInv, NoSlow
  <2>5. CASE DialogCloses(s)
    BY <1>1, <2>5 DEF DialogCloses, ConfigInv, TypeInv
  <2>6. CASE ServerStarts(s)
    <3>1. /\ proc[s] = "chat" /\ proc' = [proc EXCEPT ![s] = "ready"]
          /\ UNCHANGED <<life, cwdLock, mcp, named>>
      BY <2>6 DEF ServerStarts
    <3>2. named[s] = s
      BY <3>1 DEF ConfigInv
    <3>3. \A p \in Ports : server'[p] = server[p]
            \/ (server'[p].of = s /\ server'[p].by = s)
      BY <1>1, <2>6, <3>2 DEF ServerStarts, TypeInv
    <3>4. /\ proc'[s] = "ready" /\ \A u \in Sessions : u # s => proc'[u] = proc[u]
      BY <1>1, <3>1 DEF TypeInv
    <3>5. \A p \in Ports : server[p] # NoServer => server[p].by \in Sessions
      BY <1>1 DEF PortInv, TypeInv, Servers, Somebody
    <3> QED BY <3>1, <3>2, <3>3, <3>4, <3>5 DEF ConfigInv
  <2>7. CASE Started(s)
    BY <1>1, <2>7 DEF Started, ConfigInv, TypeInv
  <2>8. CASE StartFails(s)
    BY <1>1, <2>8 DEF StartFails, ConfigInv, TypeInv
  <2>9. CASE StopBegins(s)
    BY <1>1, <2>9 DEF StopBegins, ConfigInv, TypeInv
  <2>10. ASSUME Die(s) \/ StopEnds(s) PROVE ConfigInv'
    <3>1. \E o : Dies(s, o)
      BY <2>10 DEF Die, StopEnds
    <3>2. life' = life \/ (life[s] = "stopping" /\ life' = [life EXCEPT ![s] = "stopped"])
      BY <2>10 DEF Die, StopEnds
    <3>3. \A u \in Sessions : life[u] = "starting" => life'[u] = "starting"
      BY <1>1, <3>2 DEF TypeInv
    <3>4. /\ proc'[s] \in {"dead", "wedged"} /\ \A u \in Sessions : u # s => proc'[u] = proc[u]
          /\ \A p \in Ports : server'[p] # NoServer =>
               /\ server[p] # NoServer
               /\ server'[p].of = server[p].of /\ server'[p].by = server[p].by
               /\ ~server'[p].orphan => ~server[p].orphan /\ server[p].by # s
          /\ UNCHANGED <<cwdLock, mcp, named>>
      BY <1>1, <3>1, DiesFacts
    <3>5. \A p \in Ports : server[p] # NoServer => server[p].by \in Sessions
      BY <1>1 DEF PortInv, TypeInv, Servers, Somebody
    <3>6. cwdLock \in Sessions \cup {None}
      BY <1>1 DEF TypeInv, Somebody
    <3> QED BY <3>3, <3>4, <3>5, <3>6 DEF ConfigInv
  <2> QED BY <1>5, <2>1, <2>2, <2>3, <2>4, <2>5, <2>6, <2>7, <2>8, <2>9, <2>10 DEF Living
<1>6. CASE UNCHANGED vars
  BY <1>2, <1>6 DEF vars, sessions, process, config
<1> QED BY <1>3, <1>4, <1>5, <1>6 DEF Next

(* What is on the screen while a prompt is underway, and whose server takes it *)
ScreenOK(d, pr) ==
    /\ d.pc \in {"try", "post", "wait", "stdin"} /\ d.lost > 0 => pr \in {"ready", "dead"}
    /\ d.pc = "stdin" /\ d.tried => pr \notin {"dialog", "wedged"}
    /\ d.pc = "refused" => d.lost = 0
    /\ d.pc \in {"try", "post", "wait"} \/ d.tried => ~d.blind
    /\ ~d.leaked

LEMMA ScreenKeeps ==
  ASSUME TypeInv, ScreenInv, NEW s \in Sessions, UNCHANGED proc, NEW d,
         delivery' = [delivery EXCEPT ![s] = d], ScreenOK(d, proc[s])
  PROVE  ScreenInv'
BY DeliveryTyped DEF ScreenInv, ScreenOK, Underway

LEMMA ScreenStep ==
  ASSUME Base, ConfigInv, ScreenInv, LateInv, [Next]_vars
  PROVE  ScreenInv'
<1>1. TypeInv /\ PortInv /\ DeliveryInv /\ None \notin Sessions
  BY NobodyElse DEF Base
<1>2. ASSUME UNCHANGED <<proc, delivery>> PROVE ScreenInv'
  BY <1>2 DEF ScreenInv, Underway
<1>3. ASSUME NEW s \in Sessions, Deliver(s) \/ Delivering(s) \/ TakesLate(s) \/ TurnOver(s)
      PROVE  ScreenInv'
  <2> DEFINE d == delivery[s]
  <2>0. d \in Deliveries /\ ScreenOK(d, proc[s]) /\ UNCHANGED proc
    BY <1>1, <1>3 DEF TypeInv, ScreenInv, ScreenOK, Underway, Deliver, Delivering, TakesLate,
       TurnOver, LookUp, Inject, Retry, FallBack, Paste, OnlyDelivers, process
  <2> USE DEF Deliveries
  <2>1. CASE Deliver(s)
    <3> DEFINE n == d.n + 1
               pc == IF force[s] \/ unavail[s] THEN "stdin" ELSE "try"
               e == [NoDelivery EXCEPT !.n = n, !.pc = pc]
    <3>1. delivery' = [delivery EXCEPT ![s] = e]
      BY <2>1 DEF Deliver
    <3>2. NoDelivery.blind = FALSE /\ NoDelivery.lost = 0 /\ NoDelivery.tried = FALSE /\ NoDelivery.leaked = FALSE
      BY DEF NoDelivery
    <3>3. pc \in {"stdin", "try"} /\ DOMAIN NoDelivery = DOMAIN d
      BY <2>0 DEF NoDelivery
    <3> HIDE DEF n, pc, NoDelivery
    <3>4. e.blind = NoDelivery.blind /\ e.lost = NoDelivery.lost /\ e.tried = NoDelivery.tried /\ e.leaked = NoDelivery.leaked
          /\ e.pc = pc
      BY <2>0, <3>3
    <3> HIDE DEF e
    <3>5. ScreenOK(e, proc[s])
      BY <3>2, <3>3, <3>4 DEF ScreenOK
    <3> QED BY <1>1, <2>0, <3>1, <3>5, ScreenKeeps
  <2>2. CASE LookUp(s)
    <3> DEFINE e == [d EXCEPT !.pc = "post", !.aim = reg[s], !.tried = TRUE]
    <3>1. delivery' = [delivery EXCEPT ![s] = e] /\ d.pc = "try"
      BY <2>2 DEF LookUp
    <3>2. ~d.blind
      BY <2>0, <3>1 DEF ScreenOK
    <3>3. ScreenOK(e, proc[s])
      BY <2>0, <3>1, <3>2 DEF ScreenOK
    <3> HIDE DEF e
    <3> QED BY <1>1, <2>0, <3>1, <3>3, ScreenKeeps
  <2>3. ASSUME NEW pc, Goes(s, pc), pc = "stdin" => proc[s] \notin {"dialog", "wedged"},
               pc = "refused" => proc[s] \in {"dialog", "wedged"} /\ d.pc = "wait",
               pc = "over" \/ d.pc \in {"wait", "post"}
        PROVE  ScreenInv'
    <3> DEFINE e == [d EXCEPT !.pc = pc]
    <3>1. delivery' = [delivery EXCEPT ![s] = e]
      BY <2>3 DEF Goes
    <3>2. ScreenOK(e, proc[s])
      BY <2>0, <2>3 DEF ScreenOK
    <3> HIDE DEF e
    <3> QED BY <1>1, <2>0, <3>1, <3>2, ScreenKeeps
  <2>4. CASE Inject(s)
    <3> DEFINE to == IF d.aim = None THEN NoServer ELSE server[d.aim]
    <3>1. d.pc = "post"
      BY <2>4 DEF Inject
    <3>2. ASSUME Accepts(s, to) PROVE to.by = s /\ proc[s] = "ready"
      <4>1. d.aim # None
        BY <1>1, <3>2 DEF Accepts, NoServer
      <4>2. d.aim \in Ports
        BY <2>0, <4>1 DEF PortOrNone
      <4>3. server[d.aim].of = s /\ ~server[d.aim].orphan
        BY <3>2, <4>1 DEF Accepts
      <4>4. server[d.aim] # NoServer
        BY <1>1, <4>3 DEF NoServer
      <4> QED BY <4>1, <4>2, <4>3, <4>4 DEF ConfigInv
    <3> DEFINE mixed == d.leaked \/ to.by # s
               n == d.copies + 1
               c == [d EXCEPT !.pc = "channel", !.copies = n, !.leaked = mixed]
               l == d.lost + 1
               t == d.late + 1
               w == [d EXCEPT !.pc = "wait", !.lost = l, !.late = t]
    <3>3. ASSUME Accepts(s, to), delivery' = [delivery EXCEPT ![s] = c] PROVE ScreenInv'
      <4>1. mixed = FALSE
        BY <2>0, <3>2, <3>3 DEF ScreenOK
      <4> HIDE DEF mixed, n
      <4>2. c.pc = "channel" /\ c.lost = d.lost /\ c.leaked = mixed /\ c.tried = d.tried /\ c.blind = d.blind
        BY <2>0
      <4> HIDE DEF c
      <4>3. ScreenOK(c, proc[s])
        BY <2>0, <3>1, <4>1, <4>2 DEF ScreenOK
      <4> QED BY <1>1, <2>0, <3>3, <4>3, ScreenKeeps
    <3>4. ASSUME Accepts(s, to), delivery' = [delivery EXCEPT ![s] = w] PROVE ScreenInv'
      <4> HIDE DEF l, t
      <4>1. w.pc = "wait" /\ w.leaked = d.leaked /\ w.tried = d.tried /\ w.blind = d.blind
        BY <2>0
      <4> HIDE DEF w
      <4>2. ScreenOK(w, proc[s])
        BY <2>0, <3>1, <3>2, <3>4, <4>1 DEF ScreenOK
      <4> QED BY <1>1, <2>0, <3>4, <4>2, ScreenKeeps
    <3>5. \/ Accepts(s, to) /\ delivery' = [delivery EXCEPT ![s] = c]
          \/ Accepts(s, to) /\ delivery' = [delivery EXCEPT ![s] = w]
          \/ Goes(s, "wait")
      BY <2>4 DEF Inject
    <3> HIDE DEF c, w, to
    <3> QED BY <2>3, <3>1, <3>3, <3>4, <3>5
  <2>5. CASE Retry(s)
    BY <2>3, <2>5 DEF Retry
  <2>6. CASE FallBack(s)
    BY <2>3, <2>6 DEF FallBack
  <2>7. CASE TurnOver(s)
    BY <2>3, <2>7 DEF TurnOver
  <2>8. CASE Paste(s)
    <3> DEFINE pc == IF Alive(s) THEN "pasted" ELSE "raised"
               c == IF Alive(s) THEN d.copies + 1 ELSE d.copies
               b == proc[s] = "dialog"
               e == [d EXCEPT !.pc = pc, !.copies = c, !.blind = b]
    <3>1. d.pc = "stdin" /\ delivery' = [delivery EXCEPT ![s] = e]
      BY <2>8 DEF Paste
    <3>2. pc \in {"pasted", "raised"} /\ b \in BOOLEAN /\ (d.tried => ~b)
      BY <2>0, <3>1 DEF ScreenOK
    <3> HIDE DEF pc, b, c
    <3>3. /\ e.pc = pc /\ e.lost = d.lost /\ e.leaked = d.leaked /\ e.tried = d.tried
          /\ e.blind = b
      BY <2>0
    <3> HIDE DEF e
    <3>4. ScreenOK(e, proc[s])
      BY <2>0, <3>1, <3>2, <3>3 DEF ScreenOK
    <3> QED BY <1>1, <2>0, <3>1, <3>4, ScreenKeeps
  <2>9. CASE TakesLate(s)
    <3> DEFINE mixed == d.leaked \/ server[port[s]].by # s
               t == d.late - 1
               n == d.copies + 1
               e == [d EXCEPT !.late = t, !.copies = n, !.leaked = mixed]
    <3>1. d.late > 0 /\ delivery' = [delivery EXCEPT ![s] = e]
      BY <2>9 DEF TakesLate
    <3>2. mixed = FALSE
      BY <2>0, <3>1 DEF LateInv, ScreenOK
    <3> HIDE DEF mixed, t, n
    <3>3. e.pc = d.pc /\ e.lost = d.lost /\ e.leaked = mixed /\ e.tried = d.tried /\ e.blind = d.blind
      BY <2>0
    <3> HIDE DEF e
    <3>4. ScreenOK(e, proc[s])
      BY <2>0, <3>2, <3>3 DEF ScreenOK
    <3> QED BY <1>1, <2>0, <3>1, <3>4, ScreenKeeps
  <2> QED BY <1>3, <2>1, <2>2, <2>4, <2>5, <2>6, <2>7, <2>8, <2>9 DEF Delivering
<1>4. ASSUME NEW q \in Requests,
             \/ \E s \in Sessions : Ask(q, s)
             \/ Tell(q) \/ Relaying(q) \/ Arrives(q)
             \/ \E b \in Behaviors : Decide(q, b)
      PROVE  ScreenInv'
  BY <1>2, <1>4 DEF Ask, Tell, Relaying, Arrives, Decide, Unforwarded, Registers, Wakes, Expire,
     GiveUp, With, OnlyRelays, process
<1>5. ASSUME NEW s \in Sessions, Living(s) PROVE ScreenInv'
  <2>1. \A u \in Sessions : u # s => proc'[u] = proc[u]
    BY <1>1, <1>5 DEF Living, Create, Spawn, ReadsConfig, Spawned, DialogCloses, ServerStarts,
       Started, StartFails, Die, StopBegins, StopEnds, Dies, process, TypeInv
  <2>3. ASSUME NEW u \in Sessions
        PROVE  /\ delivery'[u].pc = delivery[u].pc /\ delivery'[u].lost = delivery[u].lost
               /\ delivery'[u].tried = delivery[u].tried /\ delivery'[u].blind = delivery[u].blind
               /\ delivery'[u].leaked = delivery[u].leaked
    <3> DEFINE d == delivery[u]
               e == [d EXCEPT !.late = 0]
    <3>1. d \in Deliveries
      BY <1>1 DEF TypeInv
    <3>2. /\ e.pc = d.pc /\ e.lost = d.lost /\ e.tried = d.tried /\ e.blind = d.blind
          /\ e.leaked = d.leaked
      BY <3>1 DEF Deliveries
    <3> HIDE DEF e
    <3>3. CASE \E o : Dies(s, o)
      BY <1>1, <3>2, <3>3, DiesFacts DEF e
    <3> QED BY <1>5, <3>3 DEF Living, Create, Spawn, ReadsConfig, Spawned, DialogCloses,
            ServerStarts, Started, StartFails, Die, StopBegins, StopEnds
  <2>2. ASSUME Underway(s)
        PROVE  /\ proc[s] \in {"ready", "dead"} => proc'[s] \in {"ready", "dead"}
               /\ proc[s] \notin {"dialog", "wedged"} => proc'[s] \notin {"dialog", "wedged"}
    <3>1. life[s] \notin {"created", "starting"} /\ delivery[s].pc \notin {"idle", "over"}
      BY <1>1, <2>2 DEF DeliveryInv, Underway
    <3>2. proc[s] # "spawned"
      BY <1>1, <3>1 DEF ConfigInv
    <3>3. CASE UNCHANGED proc
      BY <3>3
    <3>4. CASE Spawn(s)
      BY <3>1, <3>4 DEF Spawn, MaySpawn
    <3>5. CASE DialogCloses(s) \/ ServerStarts(s) \/ ReadsConfig(s)
      BY <1>1, <3>2, <3>5 DEF DialogCloses, ServerStarts, ReadsConfig, TypeInv
    <3>6. ASSUME \E o : Dies(s, o)
          PROVE  proc'[s] = IF proc[s] \in {"dialog", "wedged"} THEN "wedged" ELSE "dead"
      BY <1>1, <3>6, DiesFacts
    <3>7. CASE \E o : Dies(s, o)
      BY <3>6, <3>7
    <3> QED BY <1>5, <3>3, <3>4, <3>5, <3>7 DEF Living, Create, Spawned, Started, StartFails,
            Die, StopBegins, StopEnds, process
  <2> QED BY <2>1, <2>2, <2>3 DEF ScreenInv, Underway
<1>6. CASE UNCHANGED vars
  BY <1>2, <1>6 DEF vars, process
<1> QED BY <1>3, <1>4, <1>5, <1>6 DEF Next

(* An injection that is taken late is taken by the server that it was sent to. *)
LEMMA LateStep ==
  ASSUME Base, ConfigInv, LateInv, [Next]_vars
  PROVE  LateInv'
<1>1. /\ TypeInv /\ PortInv /\ None \notin Sessions /\ None \notin Ports
      /\ MaxPrompts \in Nat /\ MaxLosses \in Nat
  BY NobodyElse, BridgeAssumption DEF Base
<1>2. ASSUME UNCHANGED <<port, server>>, \A u \in Sessions : delivery'[u].late > 0 => delivery[u].late > 0
      PROVE  LateInv'
  BY <1>2 DEF LateInv
<1>3. ASSUME NEW s \in Sessions, Deliver(s) \/ Delivering(s) \/ TakesLate(s) \/ TurnOver(s)
      PROVE  LateInv'
  <2> DEFINE d == delivery[s]
  <2>0. d \in Deliveries /\ UNCHANGED <<port, server>>
    BY <1>1, <1>3 DEF TypeInv, Deliver, Delivering, TakesLate, TurnOver,
       LookUp, Inject, Retry, FallBack, Paste, OnlyDelivers, process, sessions
  <2>1. ASSUME NEW e, delivery' = [delivery EXCEPT ![s] = e],
               e.late > 0 => d.late > 0 \/ (port[s] \in Ports /\ server[port[s]].by = s)
        PROVE  LateInv'
    <3>1. delivery'[s] = e /\ \A u \in Sessions : u # s => delivery'[u] = delivery[u]
      BY <1>1, <2>1, DeliveryTyped
    <3> QED BY <2>0, <2>1, <3>1 DEF LateInv
  <2> USE DEF Deliveries
  <2>2. CASE Deliver(s)
    <3> DEFINE n == d.n + 1
               pc == IF force[s] \/ unavail[s] THEN "stdin" ELSE "try"
               e == [NoDelivery EXCEPT !.n = n, !.pc = pc]
    <3>1. delivery' = [delivery EXCEPT ![s] = e]
      BY <2>2 DEF Deliver
    <3> HIDE DEF n, pc
    <3>2. e.late = 0
      BY DEF NoDelivery
    <3> HIDE DEF e, d
    <3>3. ~(e.late > 0)
      BY <3>2
    <3> QED BY <2>1, <3>1, <3>3
  <2>3. ASSUME NEW pc, Goes(s, pc) PROVE LateInv'
    <3> DEFINE e == [d EXCEPT !.pc = pc]
    <3>1. delivery' = [delivery EXCEPT ![s] = e] /\ e.late = d.late
      BY <2>0, <2>3 DEF Goes
    <3> HIDE DEF e
    <3> QED BY <2>1, <3>1
  <2>4. CASE LookUp(s)
    <3> DEFINE e == [d EXCEPT !.pc = "post", !.aim = reg[s], !.tried = TRUE]
    <3>1. delivery' = [delivery EXCEPT ![s] = e] /\ e.late = d.late
      BY <2>0, <2>4 DEF LookUp
    <3> HIDE DEF e
    <3> QED BY <2>1, <3>1
  <2>5. CASE Inject(s)
    <3> DEFINE to == IF d.aim = None THEN NoServer ELSE server[d.aim]
               mixed == d.leaked \/ to.by # s
               n == d.copies + 1
               c == [d EXCEPT !.pc = "channel", !.copies = n, !.leaked = mixed]
               l == d.lost + 1
               t == d.late + 1
               w == [d EXCEPT !.pc = "wait", !.lost = l, !.late = t]
    <3>1. ASSUME Accepts(s, to) PROVE port[s] \in Ports /\ server[port[s]].by = s
      <4>1. d.aim # None
        BY <1>1, <3>1 DEF Accepts, NoServer
      <4>2. d.aim \in Ports
        BY <2>0, <4>1 DEF PortOrNone
      <4>3. server[d.aim].of = s /\ ~server[d.aim].orphan
        BY <3>1, <4>1 DEF Accepts
      <4>4. server[d.aim] # NoServer
        BY <1>1, <4>3 DEF NoServer
      <4>5. port[s] = d.aim
        BY <1>1, <4>2, <4>3, <4>4 DEF PortInv
      <4> QED BY <4>2, <4>3, <4>4, <4>5 DEF ConfigInv
    <3>2. CASE delivery' = [delivery EXCEPT ![s] = c]
      <4> HIDE DEF mixed, n
      <4>1. c.late = d.late
        BY <2>0
      <4> HIDE DEF c
      <4> QED BY <2>1, <3>2, <4>1
    <3>3. CASE Accepts(s, to) /\ delivery' = [delivery EXCEPT ![s] = w]
      <4> HIDE DEF w, to
      <4> QED BY <2>1, <3>1, <3>3
    <3>4. \/ delivery' = [delivery EXCEPT ![s] = c]
          \/ Accepts(s, to) /\ delivery' = [delivery EXCEPT ![s] = w]
          \/ Goes(s, "wait")
      BY <2>5 DEF Inject
    <3> HIDE DEF c, w, to
    <3> QED BY <2>3, <3>2, <3>3, <3>4
  <2>6. CASE Retry(s) \/ FallBack(s) \/ TurnOver(s)
    BY <2>3, <2>6 DEF Retry, FallBack, TurnOver
  <2>7. CASE Paste(s)
    <3> DEFINE pc == IF Alive(s) THEN "pasted" ELSE "raised"
               n == IF Alive(s) THEN d.copies + 1 ELSE d.copies
               b == proc[s] = "dialog"
               e == [d EXCEPT !.pc = pc, !.copies = n, !.blind = b]
    <3>1. delivery' = [delivery EXCEPT ![s] = e]
      BY <2>7 DEF Paste
    <3> HIDE DEF pc, n, b
    <3>2. e.late = d.late
      BY <2>0
    <3> HIDE DEF e
    <3> QED BY <2>1, <3>1, <3>2
  <2>8. CASE TakesLate(s)
    <3> DEFINE e == [d EXCEPT !.late = @ - 1, !.copies = @ + 1,
                              !.leaked = @ \/ server[port[s]].by # s]
    <3>1. d.late > 0 /\ delivery' = [delivery EXCEPT ![s] = e]
      BY <2>8 DEF TakesLate
    <3> HIDE DEF e
    <3> QED BY <2>1, <3>1
  <2> QED BY <1>3, <2>2, <2>4, <2>5, <2>6, <2>7, <2>8 DEF Delivering
<1>4. ASSUME NEW q \in Requests,
             \/ \E s \in Sessions : Ask(q, s)
             \/ Tell(q) \/ Relaying(q) \/ Arrives(q)
             \/ \E b \in Behaviors : Decide(q, b)
      PROVE  LateInv'
  BY <1>2, <1>4 DEF Ask, Tell, Relaying, Arrives, Decide, Unforwarded, Registers, Wakes, Expire,
     GiveUp, With, OnlyRelays, process, sessions
<1>5. ASSUME NEW s \in Sessions, Living(s) PROVE LateInv'
  <2>1. CASE Create(s)
    <3>1. /\ port[s] = None /\ UNCHANGED <<server, delivery>>
          /\ \A u \in Sessions : u # s => port'[u] = port[u]
      BY <1>1, <2>1 DEF Create, PortInv, TypeInv, process
    <3> QED BY <1>1, <3>1 DEF LateInv
  <2>2. CASE ServerStarts(s)
    <3>1. /\ UNCHANGED <<port, delivery>>
          /\ \A p \in Ports : server'[p] = server[p] \/ server[p].by = None
      BY <1>1, <2>2 DEF ServerStarts, TypeInv, NoServer, sessions
    <3> QED BY <1>1, <3>1 DEF LateInv
  <2>3. CASE Die(s) \/ StopEnds(s)
    <3>1. \E o : Dies(s, o)
      BY <2>3 DEF Die, StopEnds
    <3>2. UNCHANGED port
      BY <2>3 DEF Die, StopEnds, sessions
    <3>3. /\ \A p \in Ports : server[p].by # s => server'[p] = server[p]
          /\ \A u \in Sessions : delivery'[u].late > 0 => delivery[u].late > 0 /\ server[port[u]].by # s
      BY <1>1, <3>1, DiesFacts
    <3> QED BY <3>2, <3>3 DEF LateInv
  <2> QED BY <1>2, <1>5, <2>1, <2>2, <2>3 DEF Living, Spawn, MaySpawn, ReadsConfig, Spawned, DialogCloses,
          Started, StartFails, StopBegins, sessions, process
<1>6. CASE UNCHANGED vars
  BY <1>2, <1>6 DEF vars, process, sessions
<1> QED BY <1>3, <1>4, <1>5, <1>6 DEF Next

LEMMA QuickInvariant == ASSUME NoSlow PROVE Spec => [](Base /\ Quick)
<1>1. Init => Quick
  BY NobodyElse DEF Init, Quick, ConfigInv, ScreenInv, LateInv, Underway, NoDelivery
<1>2. Base /\ Quick /\ [Next]_vars => Quick'
  BY ConfigStep, ScreenStep, LateStep DEF Quick
<1> QED BY <1>1, <1>2, BaseInit, BaseStep, PTL DEF Spec

(* A prompt never gets into another Session's conversation, although ports collide
   and all Sessions share one .mcp.json (channel_server.py:252, pty_process.py:205):
   provided that Claude Code reads it while the lock of the directory is held. *)
THEOREM StaysInConversation == ASSUME NoSlow PROVE Spec => []NoCrossTalk
<1>1. Base /\ Quick => NoCrossTalk
  BY DEF Quick, ScreenInv, NoCrossTalk
<1> QED BY <1>1, QuickInvariant, PTL

(* What _deliver_prompt reports is what happened, however many answers are lost or
   late: it returns with one copy delivered and at most one more for each of those,
   and raises or refuses without any other (session.py:738-777), under the same
   proviso. *)
THEOREM ReportHolds == ASSUME NoSlow PROVE Spec => []ReportedAsDelivered
<1>1. Base /\ Quick => ReportedAsDelivered
  <2> SUFFICES ASSUME Base, Quick, NEW s \in Sessions
               PROVE  LET d == delivery[s] IN
                        /\ d.pc \in {"channel", "pasted"} => d.copies \in 1 .. d.lost + 1
                        /\ d.pc = "raised"  => d.copies <= d.lost
                        /\ d.pc = "refused" => d.copies + d.late = 0
                        /\ d.tried => ~d.blind
    BY DEF ReportedAsDelivered
  <2> DEFINE d == delivery[s]
  <2>1. Counted(d) /\ d.copies \in Nat /\ d.late \in Nat /\ d.lost \in Nat
    BY BridgeAssumption DEF Base, DeliveryInv, TypeInv, Deliveries
  <2>2. (d.pc = "refused" => d.lost = 0) /\ (d.tried => ~d.blind)
    BY DEF Quick, ScreenInv
  <2> QED BY <2>1, <2>2 DEF Counted
<1> QED BY <1>1, QuickInvariant, PTL
================================================================================
