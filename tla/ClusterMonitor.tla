--------------------------- MODULE ClusterMonitor ----------------------------
(***************************************************************************)
(* ClusterMonitor, which polls the proxy and both node daemons and keeps   *)
(* the state that the dashboard shows.  A poll asks one endpoint after the *)
(* other, so what it puts together was never true at one instant.          *)
(*                                                                         *)
(* The proxy and the daemons are reduced to what they answer.  The proxy   *)
(* never clears is_preemption_active; it starts with it cleared.  Left out *)
(* are the logs, the countdown and the figures, the order of the node      *)
(* table, and of the urls all but whose daemon is reached under them.      *)
(*                                                                         *)
(* An operator marked "Mutant" is a plausible bug of the one below it; no  *)
(* specification uses it.                                                  *)
(***************************************************************************)
EXTENDS Integers

CONSTANTS
  NodeIds,      \* node ids of each role's daemons, the monitor's stand-in among them
  StandIn,      \* the id a role's node is given while its daemon is not reached
  DemoNode,     \* the id it has on the dashboard at first
  MaxEvents,    \* bound on starts and stops of the proxy and the daemons
  MaxMisses     \* bound on the requests that fail although they are served

Roles == {"ACTIVE", "STANDBY"}

Node(id, role, state) == [id |-> id, role |-> role, state |-> state]
NoNode == Node("none", "none", "none")

\* What a daemon of role r says of itself: its id, its role and its state, which is
\* HEALTHY or a later one of its lifecycle.
Answers(r) == {Node(id, r, state) : id \in NodeIds[r], state \in {"HEALTHY", "PREEMPTED"}}

\* Whose daemon is reached under a url guessed for each role: its own, the other's,
\* or nobody's.
Nobody == [r \in Roles |-> "nobody"]
Right == [r \in Roles |-> r]

\* Where the engines are, with their daemons: on the proxy's host; on a host of its
\* own each; both on one host other than the proxy's, where the standby is given the
\* port of the active daemon; or under names that mean another host, or none, to
\* the monitor (127.0.0.1, the services of docker-compose.yml).
Layouts ==
  { [byStatus |-> Right, byHost |-> Right],
    [byStatus |-> Right, byHost |-> Nobody],
    [byStatus |-> [r \in Roles |-> "ACTIVE"], byHost |-> Nobody],
    [byStatus |-> Nobody, byHost |-> Right] }

\* The roles share no id: a daemon may be started under the id its own role has
\* on the dashboard, as the demo of the command line does, not under the other's.
ASSUME MonitorAssumption ==
  /\ \A r \in Roles : StandIn[r] \in NodeIds[r]
  /\ \A r, q \in Roles : r # q =>
       NodeIds[r] \cap NodeIds[q] = {} /\ DemoNode[r] \notin NodeIds[q]
  /\ \A r \in Roles : NoNode.id \notin NodeIds[r]
  /\ MaxEvents \in Nat /\ MaxMisses \in Nat

VARIABLES
  proxy,        \* "up" or "down"
  preempting,   \* the proxy's is_preemption_active
  daemon,       \* what the daemon of each role answers, or NoNode
  layout,       \* whom the urls guessed would reach
  events,       \* starts and stops so far
  misses,       \* requests missed so far
  at,           \* the endpoint that poll_once asks next
  seen,         \* results of the poll under way
  url,          \* whom the url for each role reaches, or "unset"
  prev,         \* _prev_preemption_active
  status,       \* cluster_status
  isPreempting, \* preemption.is_preempting
  verified,     \* preemption.zero_loss_verified
  nodes,        \* the node table
  nodesCount    \* financial.nodes_count

cluster == <<proxy, preempting, daemon, layout, events>>
shown   == <<prev, status, isPreempting, verified, nodes, nodesCount>>
monitorVars == <<cluster, misses, at, seen, url, shown>>

Nothing ==
  [ proxyOnline |-> FALSE,               \* results["proxy_online"]
    statusRead |-> FALSE,                \* proxy_status_data is there
    preemption |-> FALSE,                \* results["preemption"]
    found |-> [r \in Roles |-> NoNode] ] \* what was answered under the role's url

MonitorInit ==
  /\ proxy \in {"up", "down"} /\ preempting = FALSE
  /\ daemon \in [Roles -> {NoNode} \cup UNION {Answers(r) : r \in Roles}]
  /\ \A r \in Roles :
       daemon[r] \in {NoNode} \cup {n \in Answers(r) : n.state = "HEALTHY"}
  /\ layout \in Layouts
  /\ events = 0 /\ misses = 0
  /\ at = "status" /\ seen = Nothing
  /\ url \in {[r \in Roles |-> "unset"], Right}
  /\ prev = FALSE /\ status = "OPERATIONAL"
  /\ isPreempting = FALSE /\ verified = FALSE
  /\ nodes = {Node(DemoNode[r], r, "HEALTHY") : r \in Roles}
  /\ nodesCount = 1

------------------------------------------------------------------------------
(* The cluster.                                                            *)

Event ==
  /\ events < MaxEvents
  /\ events' = events + 1
  /\ UNCHANGED <<layout, misses, at, seen, url, shown>>

ProxyStops ==
  /\ Event
  /\ proxy = "up" /\ proxy' = "down"
  /\ preempting' = FALSE
  /\ UNCHANGED daemon

ProxyStarts ==
  /\ Event
  /\ proxy = "down" /\ proxy' = "up"
  /\ UNCHANGED <<preempting, daemon>>

ProxyAlerted ==
  /\ Event
  /\ proxy = "up"
  /\ preempting' = TRUE
  /\ UNCHANGED <<proxy, daemon>>

DaemonStops(r) ==
  /\ Event
  /\ daemon[r] # NoNode
  /\ daemon' = [daemon EXCEPT ![r] = NoNode]
  /\ UNCHANGED <<proxy, preempting>>

DaemonPreempted(r) ==
  /\ Event
  /\ daemon[r] # NoNode /\ daemon[r].state = "HEALTHY"
  /\ daemon' = [daemon EXCEPT ![r] = Node(daemon[r].id, r, "PREEMPTED")]
  /\ UNCHANGED <<proxy, preempting>>

DaemonStarts(r, id) ==
  /\ Event
  /\ daemon[r] = NoNode
  /\ daemon' = [daemon EXCEPT ![r] = Node(id, r, "HEALTHY")]
  /\ UNCHANGED <<proxy, preempting>>

------------------------------------------------------------------------------
(* poll_once.                                                              *)

Asks(now, next) == at = now /\ at' = next /\ UNCHANGED <<cluster, shown>>

\* The request fails: nobody answers it, or not in time.
Fails(served) ==
  IF served THEN misses < MaxMisses /\ misses' = misses + 1 ELSE UNCHANGED misses

ReadStatus ==
  /\ Asks("status", "health")
  /\ proxy = "up"
  /\ seen' = [Nothing EXCEPT !.proxyOnline = TRUE, !.statusRead = TRUE,
                             !.preemption = preempting]
  /\ UNCHANGED <<misses, url>>

MissStatus ==
  /\ Asks("status", "health")
  /\ Fails(proxy = "up")
  /\ seen' = Nothing
  /\ UNCHANGED url

\* _infer_daemon_urls: once and for all, from the upstreams in the proxy's status
\* or, without it, from the host of the proxy.
Infer ==
  [r \in Roles |-> IF url[r] # "unset" THEN url[r]
                   ELSE IF seen.statusRead THEN layout.byStatus[r]
                   ELSE layout.byHost[r]]

ReadHealth ==
  /\ Asks("health", "ACTIVE")
  /\ \/ /\ proxy = "up"
        /\ seen' = [seen EXCEPT !.proxyOnline = TRUE]
        /\ UNCHANGED misses
     \/ /\ Fails(proxy = "up")
        /\ UNCHANGED seen
  /\ url' = Infer

Reached(r) == url[r] \in Roles /\ daemon[url[r]] # NoNode

ReadDaemon(r) ==
  /\ Asks(r, IF r = "ACTIVE" THEN "STANDBY" ELSE "apply")
  /\ \/ /\ Reached(r)
        /\ seen' = [seen EXCEPT !.found[r] = daemon[url[r]]]
        /\ UNCHANGED misses
     \/ /\ Fails(Reached(r))
        /\ UNCHANGED seen
  /\ UNCHANGED url

------------------------------------------------------------------------------
(* _apply_telemetry.                                                       *)

AllOffline == ~seen.proxyOnline /\ \A r \in Roles : seen.found[r] = NoNode

\* Nothing answered: the node table stays, and so does _prev_preemption_active.
GoOffline ==
  /\ status' = "OFFLINE"
  /\ nodesCount' = 0
  /\ nodes' = {Node(n.id, n.role, "OFFLINE") : n \in nodes}
  /\ UNCHANGED <<prev, isPreempting, verified>>

\* The node of a role as this poll found it, with the role and the state it answered.
Found(r) ==
  IF seen.found[r] # NoNode THEN seen.found[r]
  ELSE Node(StandIn[r], r, IF seen.proxyOnline THEN "READY" ELSE "DISCONNECTED")

\* Mutant: the node takes its place in the table, and nothing is removed.
EnterBeside(table, n, r) == {{o \in table : o.id # n.id} \cup {n}}

\* The tables in which a node found for role r replaces the one with its id or, if
\* there is none, one that has role r.  Of several, it is the oldest that goes.
Enter(table, n, r) ==
  LET old == {o \in table : o.role = r}
  IN  IF \E o \in table : o.id = n.id THEN {{o \in table : o.id # n.id} \cup {n}}
      ELSE IF old = {} THEN {table \cup {n}}
      ELSE {(table \ {o}) \cup {n} : o \in old}

Tables ==
  UNION {Enter(table, Found("STANDBY"), "STANDBY") :
           table \in Enter(nodes, Found("ACTIVE"), "ACTIVE")}

OnlineCount ==
  (IF seen.proxyOnline \/ seen.found["ACTIVE"] # NoNode THEN 1 ELSE 0)
  + (IF seen.found["STANDBY"] # NoNode THEN 1 ELSE 0)

\* trigger_preemption on a rise and verify_zero_loss(0, 0) on a fall of the flag.
Transition ==
  /\ isPreempting' = (isPreempting \/ (seen.preemption /\ ~prev))
  /\ verified' = IF seen.preemption = prev THEN verified ELSE prev

\* Mutant: an outage in which nothing was reached leaves its mark.
BannerOffline ==
  IF seen.preemption THEN "PREEMPTING"
  ELSE IF prev THEN "RESUMED"
  ELSE status

Banner ==
  IF seen.preemption THEN "PREEMPTING"
  ELSE IF prev \/ status = "RESUMED" THEN "RESUMED"
  ELSE "OPERATIONAL"

GoOnline ==
  /\ nodes' \in Tables
  /\ nodesCount' = IF OnlineCount > 1 THEN OnlineCount ELSE 1
  /\ Transition
  /\ status' = Banner
  /\ prev' = seen.preemption

Apply ==
  /\ at = "apply" /\ at' = "status"
  /\ IF AllOffline THEN GoOffline ELSE GoOnline
  /\ UNCHANGED <<cluster, misses, seen, url>>

MonitorStep ==
  \/ ReadStatus \/ MissStatus \/ ReadHealth
  \/ (\E r \in Roles : ReadDaemon(r))
  \/ Apply

MonitorNext ==
  \/ MonitorStep
  \/ ProxyStops \/ ProxyStarts \/ ProxyAlerted
  \/ \E r \in Roles :
       \/ DaemonStops(r) \/ DaemonPreempted(r)
       \/ \E id \in NodeIds[r] : DaemonStarts(r, id)

MonitorSpec == MonitorInit /\ [][MonitorNext]_monitorVars

\* run polls for ever.
MonitorFairSpec == MonitorSpec /\ WF_monitorVars(MonitorStep)

------------------------------------------------------------------------------
(* Properties.                                                             *)

\* No url leads to the daemon of the other role.
Straight == \A r \in Roles : url[r] \in {"unset", "nobody", r}

\* The table has one node of each role, whatever ids the daemons come, go and
\* come back with and whichever of them are reached: no dead node stays beside
\* the one that replaced it, and none is lost, unless the standby was guessed to
\* be where the active daemon is.
OneNodePerRole ==
  Straight =>
    \A r \in Roles : \E n \in nodes : n.role = r /\ \A o \in nodes : o.role = r => o = n

\* Once the cluster settles and no request is missed any more, so does the
\* dashboard, on what is the case, although each poll is put together from
\* answers of different times: the preemption, the outage or normal operation,
\* and each daemon under its id and in its state, unless its url was guessed wrong.
MonitorSettles ==
  /\ <>[](proxy = "up" /\ preempting) => <>[](status = "PREEMPTING" /\ ~verified)
  /\ <>[](proxy = "up" /\ ~preempting) => <>[](status \in {"OPERATIONAL", "RESUMED"})
  /\ <>[](proxy = "down" /\ \A r \in Roles : daemon[r] = NoNode) =>
       <>[](status = "OFFLINE" /\ nodesCount = 0)
  /\ \A r \in Roles : \A n \in Answers(r) :
       <>[](daemon[r] = n /\ url[r] = r) => <>[](n \in nodes)

==============================================================================
