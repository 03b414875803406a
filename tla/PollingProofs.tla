---------------------------- MODULE PollingProofs ----------------------------
(***************************************************************************)
(* Theorems about the two loops that poll: the watchdog of a node, and the *)
(* monitor behind the dashboard.  They hold for every set of watchdog      *)
(* classes, any ids of the nodes and every bound on what the services and  *)
(* the cluster do.                                                         *)
(***************************************************************************)
EXTENDS Watchdog, ClusterMonitor, TLAPS

------------------------------------------------------------------------------
(* The watchdog.                                                           *)

\* What an answer to a loop leaves alone, whichever it is: the loop either goes on
\* to another request or detects.
Quiet(l, p) ==
  /\ probe[l] = p
  /\ \E next \in AllProbes \cup {"asleep"} : probe' = [probe EXCEPT ![l] = next]
  /\ cached' \in {cached, TRUE} /\ valid' \in {valid, TRUE}
  /\ usable' \in {usable, [usable EXCEPT ![l] = TRUE]}
  /\ UNCHANGED <<control, notices, service>>

LEMMA ProbeNames ==
  AllProbes = {"token", "action", "retoken", "reaction", "preempted", "preempted2",
               "maintenance", "file", "status"}
BY DEF AllProbes, Probes

LEMMA QuietMove ==
  ASSUME NEW l \in Loops, NEW p \in AllProbes, NEW next \in AllProbes \cup {"asleep"},
         Proceed(l, p, next), cached' \in {cached, TRUE}, valid' \in {valid, TRUE},
         usable' \in {usable, [usable EXCEPT ![l] = TRUE]}
  PROVE  Quiet(l, p)
BY DEF Proceed, Quiet

\* Every step of a request is a detection or a quiet step.
LEMMA ResponseKinds ==
  ASSUME NEW l \in Loops, NEW p \in AllProbes, Answered(l, p) \/ Lost(l, p) \/ Odd(l, p)
  PROVE  Quiet(l, p) \/ Detect(l, p)
<1>1. CASE Lost(l, p)
  BY <1>1, QuietMove, ProbeNames DEF Lost, tokens
<1>2. CASE Odd(l, p)
  BY <1>2, QuietMove, ProbeNames DEF Odd, tokens
<1>3. CASE Answered(l, p)
  <2>1. CASE p \in {"token", "retoken"}
    BY <1>3, <2>1, QuietMove, ProbeNames DEF Answered, TokenGranted
  <2>2. CASE p = "action"
    BY <1>3, <2>2, QuietMove, ProbeNames DEF Answered, ActionAnswered, ActionDenied, tokens
  <2>3. CASE p = "reaction"
    BY <1>3, <2>3, QuietMove, ProbeNames DEF Answered, ReactionAnswered, tokens
  <2>4. CASE p \in {"preempted", "preempted2"}
    BY <1>3, <2>4, QuietMove, ProbeNames DEF Answered, PreemptedAnswered, tokens
  <2>5. CASE p = "maintenance"
    BY <1>3, <2>5, QuietMove, ProbeNames DEF Answered, MaintenanceAnswered, tokens
  <2>6. CASE p \in {"file", "status"}
    BY <1>3, <2>6, QuietMove, ProbeNames DEF Answered, FileLookedUp, StatusAnswered, tokens
  <2>7. QED
    BY <2>1, <2>2, <2>3, <2>4, <2>5, <2>6, ProbeNames
<1>4. QED
  BY <1>1, <1>2, <1>3

\* Unless a start came in the middle of a stop, the one loop that is alive is the
\* one the watchdog holds, and it runs.
OneLoop ==
  /\ \A l \in Loops : probe[l] # "over" => running /\ handle = l
  /\ stops # {} => ~running

\* A detection leaves its mark.
LoopInv ==
  /\ polled <= 1
  /\ polled > 0 => detected
  /\ ~overlapped => OneLoop

LEMMA InitLoop == Init => TypeOK /\ LoopInv
<1> SUFFICES ASSUME Init PROVE TypeOK /\ LoopInv
  OBVIOUS
<1>1. 0 \in 0 .. MaxExpiries /\ 0 \in 0 .. MaxWebhooks
  BY WatchdogAssumption
<1>2. OneLoop
  BY DEF Init, OneLoop
<1>3. LoopInv
  BY <1>2 DEF Init, LoopInv
<1>4. /\ hooked \in 0 .. MaxWebhooks /\ expiries \in 0 .. MaxExpiries
      /\ polled \in Nat /\ notified \in Nat
  BY <1>1, SMT DEF Init
<1>5. /\ probe \in [Loops -> AllProbes \cup {"asleep", "over"}]
      /\ usable \in [Loops -> BOOLEAN]
  BY DEF Init
<1>6. TypeOK
  BY <1>4, <1>5 DEF Init, TypeOK
<1>7. QED
  BY <1>3, <1>6

\* A live loop that moves on, or ends, keeps OneLoop.
LEMMA LiveMoves ==
  ASSUME LoopInv, NEW l \in Loops, probe[l] # "over", NEW next,
         probe' = [probe EXCEPT ![l] = next], UNCHANGED control
  PROVE  ~overlapped' => OneLoop'
<1>1. \A k \in Loops : k # l => probe'[k] = probe[k]
  OBVIOUS
<1>2. QED
  BY <1>1 DEF LoopInv, OneLoop, control

LEMMA RespondLoop ==
  ASSUME TypeOK, LoopInv, NEW l \in Loops, Respond(l)
  PROVE  TypeOK' /\ LoopInv'
<1>1. PICK p \in AllProbes : Answered(l, p) \/ Lost(l, p) \/ Odd(l, p)
  BY DEF Respond
<1>2. p # "over"
  BY ProbeNames
<1>3. CASE Quiet(l, p)
  <2>1. PICK next \in AllProbes \cup {"asleep"} : probe' = [probe EXCEPT ![l] = next]
    BY <1>3 DEF Quiet
  <2>2. UNCHANGED <<control, notices, service>> /\ probe[l] # "over"
    BY <1>2, <1>3 DEF Quiet
  <2>3. probe' \in [Loops -> AllProbes \cup {"asleep", "over"}]
    BY <2>1 DEF TypeOK
  <2>4. cached' \in BOOLEAN /\ valid' \in BOOLEAN /\ usable' \in [Loops -> BOOLEAN]
    BY <1>3 DEF Quiet, TypeOK
  <2>5. TypeOK'
    BY <2>2, <2>3, <2>4 DEF TypeOK, control, notices, service
  <2>6. ~overlapped' => OneLoop'
    BY <2>1, <2>2, LiveMoves
  <2>7. QED
    BY <2>2, <2>5, <2>6 DEF LoopInv, notices
<1>4. CASE Detect(l, p)
  <2> DEFINE next == IF detected THEN "asleep" ELSE "over"
  <2>1. /\ probe' = [probe EXCEPT ![l] = next]
        /\ detected' = TRUE /\ polled' = IF detected THEN polled ELSE polled + 1
        /\ UNCHANGED <<control, provider, notified, hooked, tokens, service>>
        /\ probe[l] # "over"
    BY <1>2, <1>4 DEF Detect
  <2>2. next \in {"asleep", "over"}
    OBVIOUS
  <2> HIDE DEF next
  <2>3. probe' \in [Loops -> AllProbes \cup {"asleep", "over"}]
    BY <2>1, <2>2 DEF TypeOK
  <2>4. polled' \in Nat /\ polled' <= 1
    BY <2>1 DEF TypeOK, LoopInv
  <2>5. TypeOK'
    BY <2>1, <2>3, <2>4 DEF TypeOK, control, tokens, service
  <2>6. ~overlapped' => OneLoop'
    BY <2>1, LiveMoves
  <2>7. QED
    BY <2>1, <2>4, <2>5, <2>6 DEF LoopInv
<1>5. QED
  BY <1>1, <1>3, <1>4, ResponseKinds

LEMMA PollLoop ==
  ASSUME TypeOK, LoopInv, NEW l \in Loops, Poll(l) \/ Leave(l)
  PROVE  TypeOK' /\ LoopInv'
<1>1. PICK next \in AllProbes \cup {"over"} : Proceed(l, "asleep", next)
  BY ProbeNames DEF Poll, Leave
<1>2. /\ probe[l] # "over" /\ probe' = [probe EXCEPT ![l] = next]
      /\ UNCHANGED <<control, notices, service>>
  BY <1>1 DEF Proceed
<1>3. UNCHANGED <<cached, valid>> /\ usable' \in [Loops -> BOOLEAN]
  BY DEF Poll, Leave, TypeOK, tokens
<1>4. probe' \in [Loops -> AllProbes \cup {"asleep", "over"}]
  BY <1>2 DEF TypeOK
<1>5. TypeOK'
  BY <1>2, <1>3, <1>4 DEF TypeOK, control, notices, service
<1>6. ~overlapped' => OneLoop'
  BY <1>2, LiveMoves
<1>7. QED
  BY <1>2, <1>5, <1>6 DEF LoopInv, notices

LEMMA StopLoop ==
  ASSUME TypeOK, LoopInv, Stop
  PROVE  TypeOK' /\ LoopInv'
<1>1. running' = FALSE /\ UNCHANGED <<overlapped, notices, tokens, service>>
  BY DEF Stop
<1>2. CASE handle \in Loops /\ probe[handle] # "over"
  <2>1. /\ probe' = [probe EXCEPT ![handle] = "over"] /\ stops' = stops \cup {handle}
        /\ handle' = handle
    BY <1>2 DEF Stop
  <2>2. TypeOK'
    BY <1>1, <1>2, <2>1 DEF TypeOK, notices, tokens, service
  <2>3. ASSUME ~overlapped' PROVE OneLoop'
    <3>1. OneLoop
      BY <1>1, <2>3 DEF LoopInv
    <3>2. \A l \in Loops : probe'[l] = "over"
      BY <2>1, <3>1 DEF OneLoop, TypeOK
    <3>3. QED
      BY <1>1, <3>2 DEF OneLoop
  <2>4. QED
    BY <1>1, <2>2, <2>3 DEF LoopInv, notices
<1>3. CASE ~(handle \in Loops /\ probe[handle] # "over")
  <2>1. handle' = 0 /\ UNCHANGED <<probe, stops>>
    BY <1>3 DEF Stop
  <2>2. TypeOK'
    BY <1>1, <2>1 DEF TypeOK, notices, tokens, service
  <2>3. ASSUME ~overlapped' PROVE OneLoop'
    <3>1. OneLoop
      BY <1>1, <2>3 DEF LoopInv
    <3>2. \A l \in Loops : probe'[l] = "over"
      BY <1>3, <2>1, <3>1 DEF OneLoop
    <3>3. QED
      BY <1>1, <3>2 DEF OneLoop
  <2>4. QED
    BY <1>1, <2>2, <2>3 DEF LoopInv, notices
<1>4. QED
  BY <1>2, <1>3

LEMMA StartLoop ==
  ASSUME TypeOK, LoopInv, NEW l \in Loops, Start(l) \/ StopReturns(l)
  PROVE  TypeOK' /\ LoopInv'
<1>1. CASE Start(l)
  <2>1. /\ ~running /\ running' = TRUE /\ handle' = l
        /\ probe' = [probe EXCEPT ![l] = "asleep"]
        /\ overlapped' = (overlapped \/ stops # {})
        /\ UNCHANGED <<stops, notices, tokens, service>>
    BY <1>1 DEF Start
  <2>2. TypeOK'
    BY <2>1 DEF TypeOK, notices, tokens, service
  <2>3. ASSUME ~overlapped' PROVE OneLoop'
    <3>1. OneLoop /\ stops = {}
      BY <2>1, <2>3 DEF LoopInv
    <3>2. \A k \in Loops : probe[k] = "over"
      BY <2>1, <3>1 DEF OneLoop
    <3>3. QED
      BY <2>1, <3>1, <3>2 DEF OneLoop
  <2>4. QED
    BY <2>1, <2>2, <2>3 DEF LoopInv, notices
<1>2. CASE StopReturns(l)
  <2>1. /\ l \in stops /\ stops' = stops \ {l} /\ handle' = 0
        /\ UNCHANGED <<running, overlapped, notices, probe, tokens, service>>
    BY <1>2 DEF StopReturns
  <2>2. TypeOK'
    BY <2>1 DEF TypeOK, notices, tokens, service
  <2>3. ~overlapped' => OneLoop'
    BY <2>1 DEF LoopInv, OneLoop
  <2>4. QED
    BY <2>1, <2>2, <2>3 DEF LoopInv, notices
<1>3. QED
  BY <1>1, <1>2

LEMMA NextLoop == TypeOK /\ LoopInv /\ [Next]_vars => TypeOK' /\ LoopInv'
<1> SUFFICES ASSUME TypeOK, LoopInv, [Next]_vars
             PROVE  TypeOK' /\ LoopInv'
  OBVIOUS
<1>0. UNCHANGED <<control, probe>> => (OneLoop <=> OneLoop')
  BY DEF OneLoop, control
<1>1. ASSUME NEW l \in Loops,
             Start(l) \/ StopReturns(l) \/ Poll(l) \/ Leave(l) \/ Respond(l)
      PROVE  TypeOK' /\ LoopInv'
  BY <1>1, StartLoop, PollLoop, RespondLoop
<1>2. CASE Stop
  BY <1>2, StopLoop
<1>3. CASE Webhook
  <2>1. hooked' \in 0 .. MaxWebhooks
    BY <1>3, WatchdogAssumption DEF Webhook, TypeOK
  <2>2. QED
    BY <1>0, <1>3, <2>1 DEF Webhook, TypeOK, LoopInv, control, tokens, service
<1>4. CASE Notify
  BY <1>0, <1>4 DEF Notify, TypeOK, LoopInv, control, tokens, service
<1>5. ASSUME NEW kind \in {"spot", "other"}, GiveNotice(kind)
      PROVE  TypeOK' /\ LoopInv'
  BY <1>0, <1>5 DEF GiveNotice, TypeOK, LoopInv, control, notices, tokens
<1>6. CASE Forget
  <2>1. expiries' \in 0 .. MaxExpiries
    BY <1>6, WatchdogAssumption DEF Forget, TypeOK
  <2>2. /\ notice' \in {"none", "spot", "other"} /\ valid' \in BOOLEAN
        /\ usable' \in [Loops -> BOOLEAN]
    BY <1>6 DEF Forget, TypeOK
  <2>3. UNCHANGED <<control, notices, probe, cached>>
    BY <1>6 DEF Forget
  <2>4. QED
    BY <1>0, <2>1, <2>2, <2>3 DEF TypeOK, LoopInv, control, notices
<1>7. CASE UNCHANGED vars
  BY <1>0, <1>7 DEF vars, control, notices, tokens, service, TypeOK, LoopInv
<1>8. QED
  BY <1>1, <1>2, <1>3, <1>4, <1>5, <1>6, <1>7 DEF Next

\* The invariant behind the theorems below.
THEOREM LoopInvariant == Spec => [](TypeOK /\ LoopInv)
BY InitLoop, NextLoop, PTL DEF Spec

\* The watchdog and the service keep their types.
THEOREM TypeCorrect == Spec => []TypeOK
BY LoopInvariant, PTL

\* However often the watchdog is started and stopped, and whatever loops outlive
\* their stop and webhooks arrive in between, polling notifies the daemon once at
\* most.
THEOREM PollsNotifyOnce == Spec => []PolledOnce
<1>1. TypeOK /\ LoopInv => PolledOnce
  BY DEF LoopInv, PolledOnce
<1>2. QED
  BY <1>1, LoopInvariant, PTL

\* An answer that was under way when the watchdog was stopped is not acted upon, as
\* long as no start came in the middle of a stop.
THEOREM StoppedIsSilent == Spec => SilentWhenStopped
<1>1. TypeOK /\ LoopInv /\ [Next]_vars => [polled' # polled => running \/ overlapped]_vars
  <2> SUFFICES ASSUME TypeOK, LoopInv, Next, polled' # polled
               PROVE  running \/ overlapped
    OBVIOUS
  <2>1. PICK l \in Loops : Respond(l)
    BY DEF Next, Start, Stop, StopReturns, Webhook, Notify, Poll, Leave, Proceed,
           GiveNotice, Forget, notices
  <2>2. PICK p \in AllProbes : Answered(l, p) \/ Lost(l, p) \/ Odd(l, p)
    BY <2>1 DEF Respond
  <2>3. probe[l] # "over"
    BY <2>2, ResponseKinds, ProbeNames DEF Quiet, Detect
  <2>4. QED
    BY <2>3 DEF LoopInv, OneLoop
<1>2. QED
  BY <1>1, LoopInvariant, PTL DEF Spec, SilentWhenStopped

------------------------------------------------------------------------------
(* The monitor.                                                            *)

\* A table of nodes each of which has an id of its role, one for each role.
Proper(table) ==
  /\ \A n \in table : /\ n.role \in Roles
                       /\ n.id \in NodeIds[n.role] \cup {DemoNode[n.role]}
  /\ \A r \in Roles :
       \E n \in table : n.role = r /\ \A o \in table : o.role = r => o = n

\* What is answered, or not, where the daemon of role r is asked: by its own kind.
Own(f) == \A r \in Roles : f[r] = NoNode \/ f[r] \in Answers(r)

\* What a poll has seen: one record of telemetry, and one answer for each role.
SeenTyped(s) ==
  /\ s = [ proxyOnline |-> s.proxyOnline, statusRead |-> s.statusRead,
           preemption |-> s.preemption, found |-> s.found ]
  /\ DOMAIN s.found = Roles

\* The strengthening.  The daemons keep to their roles; and unless the urls have led
\* to the wrong daemon, so do the answers of the poll under way, and the table is
\* proper.
TableInv ==
  /\ DOMAIN daemon = Roles /\ Own(daemon)
  /\ DOMAIN url = Roles
  /\ SeenTyped(seen)
  /\ Straight => Own(seen.found) /\ Proper(nodes)

\* A node that enters a proper table in the place of its role leaves it proper:
\* whether it meets its own id or its role's, it is one and the same node.
LEMMA EnterKeepsProper ==
  ASSUME NEW table, Proper(table),
         NEW r \in Roles, NEW n, n.role = r, n.id \in NodeIds[r],
         NEW T \in Enter(table, n, r)
  PROVE  Proper(T)
<1>1. \A o \in table : o.id = n.id => o.role = r
  BY MonitorAssumption DEF Proper
<1>2. PICK own \in table : own.role = r /\ \A o \in table : o.role = r => o = own
  BY DEF Proper
<1>3. T = (table \ {own}) \cup {n}
  <2>1. CASE \E o \in table : o.id = n.id
    <3>1. \A o \in table : o.id = n.id <=> o = own
      BY <1>1, <1>2, <2>1
    <3>2. T = {o \in table : o.id # n.id} \cup {n}
      BY <2>1 DEF Enter
    <3>3. QED
      BY <3>1, <3>2
  <2>2. CASE ~ \E o \in table : o.id = n.id
    <3> DEFINE old == {o \in table : o.role = r}
    <3>1. old = {own}
      BY <1>2
    <3>2. T \in {(table \ {o}) \cup {n} : o \in old}
      BY <2>2, <3>1 DEF Enter
    <3>3. QED
      BY <3>1, <3>2
  <2>3. QED
    BY <2>1, <2>2
<1>4. ASSUME NEW o \in T
      PROVE  o.role \in Roles /\ o.id \in NodeIds[o.role] \cup {DemoNode[o.role]}
  BY <1>3, <1>4 DEF Proper
<1>5. ASSUME NEW q \in Roles
      PROVE  \E m \in T : m.role = q /\ \A o \in T : o.role = q => o = m
  <2>1. CASE q = r
    BY <1>2, <1>3, <2>1
  <2>2. CASE q # r
    <3>1. PICK m \in table : m.role = q /\ \A o \in table : o.role = q => o = m
      BY DEF Proper
    <3>2. m \in T
      BY <1>2, <1>3, <2>2, <3>1
    <3>3. \A o \in T : o.role = q => o = m
      BY <1>3, <2>2, <3>1
    <3>4. QED
      BY <3>2, <3>1, <3>3
  <2>3. QED
    BY <2>1, <2>2
<1>6. QED
  BY <1>4, <1>5 DEF Proper

\* Guesses are made once: urls that lead astray after a guess did so, or will, and
\* urls that do not never did.
LEMMA GuessedOnce ==
  ASSUME DOMAIN url = Roles, url' = Infer
  PROVE  /\ DOMAIN url' = Roles
         /\ Straight' => Straight
<1>1. \A r \in Roles : url[r] # "unset" => url'[r] = url[r]
  BY DEF Infer
<1>2. QED
  BY <1>1 DEF Infer, Straight

LEMMA TableInit == MonitorInit => TableInv
<1> SUFFICES ASSUME MonitorInit PROVE TableInv
  OBVIOUS
<1>1. nodes = {Node(DemoNode[r], r, "HEALTHY") : r \in Roles}
  BY DEF MonitorInit
<1>2. Proper(nodes)
  <2>1. \A n \in nodes : /\ n.role \in Roles
                         /\ n = Node(DemoNode[n.role], n.role, "HEALTHY")
                         /\ n.id = DemoNode[n.role]
    BY <1>1 DEF Node
  <2>2. ASSUME NEW r \in Roles PROVE \E n \in nodes : n.role = r
    <3>1. Node(DemoNode[r], r, "HEALTHY") \in nodes
      BY <1>1
    <3>2. QED
      BY <3>1 DEF Node
  <2>3. QED
    BY <2>1, <2>2 DEF Proper
<1>3. DOMAIN daemon = Roles /\ Own(daemon)
  BY DEF MonitorInit, Own
<1>4. DOMAIN url = Roles
  BY DEF MonitorInit, Right
<1>5. seen = Nothing
  BY DEF MonitorInit
<1>6. SeenTyped(seen) /\ Own(seen.found)
  BY <1>5 DEF Nothing, SeenTyped, Own
<1>7. QED
  BY <1>2, <1>3, <1>4, <1>6 DEF TableInv

\* Requests and their answers: only what the poll under way has seen changes, and the
\* urls when they are guessed.
LEMMA TableAsked ==
  ASSUME TableInv,
         ReadStatus \/ MissStatus \/ ReadHealth \/ \E r \in Roles : ReadDaemon(r)
  PROVE  TableInv'
<1>1. UNCHANGED <<nodes, daemon>>
  BY DEF ReadStatus, MissStatus, ReadHealth, ReadDaemon, Asks, cluster, shown
<1>2. CASE ReadStatus \/ MissStatus
  <2>1. url' = url
    BY <1>2 DEF ReadStatus, MissStatus
  <2>2. \/ seen' = Nothing
        \/ seen' = [Nothing EXCEPT !.proxyOnline = TRUE, !.statusRead = TRUE,
                                   !.preemption = preempting]
    BY <1>2 DEF ReadStatus, MissStatus
  <2>3. SeenTyped(seen') /\ seen'.found = [r \in Roles |-> NoNode]
    <3> DEFINE none == [r \in Roles |-> NoNode]
    <3>1. PICK a, b, c : seen' = [ proxyOnline |-> a, statusRead |-> b,
                                   preemption |-> c, found |-> none ]
      <4>1. CASE seen' = Nothing
        BY <4>1 DEF Nothing
      <4>2. CASE seen' # Nothing
        BY <2>2, <4>2 DEF Nothing
      <4>3. QED
        BY <4>1, <4>2
    <3>2. DOMAIN none = Roles
      OBVIOUS
    <3> HIDE DEF none
    <3>3. SeenTyped(seen') /\ seen'.found = none
      BY <3>1, <3>2 DEF SeenTyped
    <3>4. QED
      BY <3>3 DEF none
  <2>4. Own(seen'.found)
    BY <2>3 DEF Own
  <2>5. QED
    BY <1>1, <2>1, <2>3, <2>4 DEF TableInv, Straight, Own, SeenTyped, Proper
<1>3. CASE ReadHealth
  <2>1. seen' = seen \/ seen' = [seen EXCEPT !.proxyOnline = TRUE]
    BY <1>3 DEF ReadHealth
  <2>2. SeenTyped(seen') /\ seen'.found = seen.found
    BY <2>1 DEF TableInv, SeenTyped
  <2>3. DOMAIN url' = Roles /\ (Straight' => Straight)
    BY <1>3, GuessedOnce DEF ReadHealth, TableInv
  <2>4. Straight' => Own(seen.found) /\ Proper(nodes)
    BY <2>3 DEF TableInv
  <2>5. QED
    BY <1>1, <2>2, <2>3, <2>4 DEF TableInv, Own, SeenTyped, Proper
<1>4. ASSUME NEW r \in Roles, ReadDaemon(r) PROVE TableInv'
  <2>1. url' = url /\ Straight' = Straight
    BY <1>4 DEF ReadDaemon, Straight
  <2>2. \/ seen' = seen
        \/ Reached(r) /\ seen' = [seen EXCEPT !.found[r] = daemon[url[r]]]
    BY <1>4 DEF ReadDaemon
  <2>3. CASE seen' = seen
    BY <1>1, <2>1, <2>3 DEF TableInv, Own, SeenTyped, Proper
  <2>4. CASE Reached(r) /\ seen' = [seen EXCEPT !.found[r] = daemon[url[r]]]
    <3>1. SeenTyped(seen') /\ seen'.found = [seen.found EXCEPT ![r] = daemon[url[r]]]
      BY <2>4 DEF TableInv, SeenTyped
    <3>2. ASSUME Straight PROVE Own(seen'.found)
      <4>1. url[r] = r
        BY <2>4, <3>2 DEF Reached, Straight, Roles
      <4>2. Own(seen.found) /\ DOMAIN seen.found = Roles /\ Own(daemon)
        BY <3>2 DEF TableInv, SeenTyped
      <4>3. \A q \in Roles : seen'.found[q] = IF q = r THEN daemon[r] ELSE seen.found[q]
        BY <3>1, <4>1, <4>2
      <4>4. QED
        BY <4>2, <4>3 DEF Own
    <3>3. QED
      BY <1>1, <2>1, <3>1, <3>2 DEF TableInv, Own, SeenTyped, Proper
  <2>5. QED
    BY <2>2, <2>3, <2>4
<1>5. QED
  BY <1>2, <1>3, <1>4

\* The end of a poll: offline, every node keeps its place; online, the nodes found
\* for the two roles enter one after the other.
LEMMA TableApplied ==
  ASSUME TableInv, Apply
  PROVE  TableInv'
<1>1. UNCHANGED <<daemon, url, seen>>
  BY DEF Apply, cluster
<1>2. ASSUME GoOffline, Proper(nodes) PROVE Proper(nodes')
  <2>1. nodes' = {Node(n.id, n.role, "OFFLINE") : n \in nodes}
    BY <1>2 DEF GoOffline
  <2>2. \A m \in nodes' : \E n \in nodes :
          /\ m = Node(n.id, n.role, "OFFLINE")
          /\ m.id = n.id /\ m.role = n.role
    BY <2>1 DEF Node
  <2>3. ASSUME NEW n \in nodes PROVE \E m \in nodes' : m.id = n.id /\ m.role = n.role
    <3>1. Node(n.id, n.role, "OFFLINE") \in nodes'
      BY <2>1
    <3>2. QED
      BY <3>1 DEF Node
  <2>4. QED
    BY <1>2, <2>2, <2>3 DEF Proper
<1>3. ASSUME GoOnline, Own(seen.found), Proper(nodes) PROVE Proper(nodes')
  <2>1. ASSUME NEW r \in Roles PROVE Found(r).role = r /\ Found(r).id \in NodeIds[r]
    <3>1. CASE seen.found[r] \in Answers(r)
      <4>1. seen.found[r].role = r /\ seen.found[r].id \in NodeIds[r]
        BY <3>1 DEF Answers, Node
      <4>2. seen.found[r] # NoNode
        BY <4>1, MonitorAssumption
      <4>3. QED
        BY <4>1, <4>2 DEF Found
    <3>2. CASE seen.found[r] = NoNode
      BY <3>2, MonitorAssumption DEF Found, Node
    <3>3. QED
      BY <1>3, <3>1, <3>2 DEF Own
  <2>2. "ACTIVE" \in Roles /\ "STANDBY" \in Roles
    BY DEF Roles
  <2>3. PICK table \in Enter(nodes, Found("ACTIVE"), "ACTIVE") :
          nodes' \in Enter(table, Found("STANDBY"), "STANDBY")
    BY <1>3 DEF GoOnline, Tables
  <2>4. Proper(table)
    BY <1>3, <2>1, <2>2, <2>3, EnterKeepsProper
  <2>5. QED
    BY <2>1, <2>2, <2>3, <2>4, EnterKeepsProper
<1>4. Straight' = Straight
  BY <1>1 DEF Straight
<1>5. GoOffline \/ GoOnline
  BY DEF Apply
<1>6. Straight => Proper(nodes')
  BY <1>2, <1>3, <1>5 DEF TableInv
<1>7. QED
  BY <1>1, <1>4, <1>6 DEF TableInv, Own, SeenTyped, Proper

LEMMA TableNext ==
  ASSUME TableInv, [MonitorNext]_monitorVars
  PROVE  TableInv'
<1>1. ASSUME UNCHANGED <<nodes, url, seen>>, DOMAIN daemon' = Roles, Own(daemon')
      PROVE  TableInv'
  BY <1>1 DEF TableInv, Straight, Own, SeenTyped, Proper
<1>2. CASE \/ ProxyStops \/ ProxyAlerted \/ ProxyStarts
           \/ UNCHANGED monitorVars
  <2>1. UNCHANGED <<nodes, url, seen, daemon>>
    BY <1>2 DEF ProxyStops, ProxyAlerted, ProxyStarts, Event, shown, cluster, monitorVars
  <2>2. QED
    BY <1>1, <2>1 DEF TableInv
<1>3. ASSUME NEW r \in Roles, NEW n, n = NoNode \/ n \in Answers(r),
             daemon' = [daemon EXCEPT ![r] = n], UNCHANGED <<nodes, url, seen>>
      PROVE  TableInv'
  <2>1. DOMAIN daemon' = Roles /\ Own(daemon')
    BY <1>3 DEF TableInv, Own
  <2>2. QED
    BY <1>1, <1>3, <2>1
<1>4. ASSUME NEW r \in Roles, DaemonStops(r) PROVE TableInv'
  BY <1>3, <1>4 DEF DaemonStops, Event, shown
<1>5. ASSUME NEW r \in Roles, DaemonPreempted(r) PROVE TableInv'
  <2> DEFINE n == Node(daemon[r].id, r, "PREEMPTED")
  <2>1. PICK id \in NodeIds[r], state \in {"HEALTHY", "PREEMPTED"} :
          daemon[r] = Node(id, r, state)
    BY <1>5 DEF DaemonPreempted, TableInv, Own, Answers
  <2>2. daemon[r].id = id
    BY <2>1 DEF Node
  <2>3. n \in Answers(r)
    BY <2>2 DEF Answers
  <2>4. daemon' = [daemon EXCEPT ![r] = n] /\ UNCHANGED <<nodes, url, seen>>
    BY <1>5 DEF DaemonPreempted, Event, shown
  <2> HIDE DEF n
  <2>5. QED
    BY <1>3, <2>3, <2>4
<1>6. ASSUME NEW r \in Roles, NEW id \in NodeIds[r], DaemonStarts(r, id)
      PROVE  TableInv'
  <2> DEFINE n == Node(id, r, "HEALTHY")
  <2>1. n \in Answers(r)
    BY DEF Answers
  <2>2. daemon' = [daemon EXCEPT ![r] = n] /\ UNCHANGED <<nodes, url, seen>>
    BY <1>6 DEF DaemonStarts, Event, shown
  <2> HIDE DEF n
  <2>3. QED
    BY <1>3, <2>1, <2>2
<1>7. QED
  BY <1>2, <1>4, <1>5, <1>6, TableAsked, TableApplied DEF MonitorNext, MonitorStep

\* The node table of the dashboard has one node of each role, whatever ids the
\* daemons come, go and come back with (_apply_telemetry), as long as no url was
\* guessed to be the other role's daemon (_infer_daemon_urls).
THEOREM NodesAreReplaced == MonitorSpec => []OneNodePerRole
<1>1. TableInv /\ [MonitorNext]_monitorVars => TableInv'
  BY TableNext
<1>2. TableInv => OneNodePerRole
  BY DEF TableInv, Proper, OneNodePerRole
<1>3. QED
  BY TableInit, <1>1, <1>2, PTL DEF MonitorSpec
==============================================================================
