----------------------------- MODULE EchoRegistry -----------------------------
(***************************************************************************)
(* examples/backend-websocket: EchoRegistry, which admits WebSocket        *)
(* upgrades, serves the sockets and ends them.  A reservation is charged   *)
(* before the upgrade and bound when its socket opens; logins, logouts,    *)
(* failed upgrades, deadlines and the application's shutdown may end it    *)
(* meanwhile, each on a thread of its own.                                 *)
(*                                                                         *)
(* A synchronized block is one action; what its thread does after it is a  *)
(* later one, and what is read outside of a monitor may be stale by then.  *)
(* A connection's monitor is taken before the registry's, never after it.  *)
(* Time is the set of deadlines that have passed.  Left out are close      *)
(* codes, evidence, the bytes of a message (four of the longest fit the    *)
(* queue) and the ids of echoes, since an id that is unknown or repeated   *)
(* ends a connection as anything malformed does.                           *)
(***************************************************************************)
EXTENDS Integers, FiniteSets

CONSTANTS
  Reservations,    \* bound: the upgrades that will be asked for, numbers
  Principals, Sessions,
  Nobody,
  SessionLimit, GlobalLimit, PrincipalLimit, AckLimit, MessageLimit

ASSUME RegistryAssumption ==
  /\ Reservations \subseteq Nat
  /\ Nobody \notin Principals
  /\ Nobody \notin [principal : Principals, session : Sessions]
  /\ {SessionLimit, GlobalLimit, PrincipalLimit, AckLimit, MessageLimit} \subseteq Nat \ {0}

VARIABLES
  authenticated,   \* session -> its principal, or Nobody
  closed,
  owner,           \* reservation -> its principal and session, Nobody until it is given out
  reservations,    \* those that count against the limits: given out and not released
  conn,            \* reservation -> its connection
  pass,            \* the timer's pass: what is left of its snapshot, what was late at its
                   \* `now' (<<reservation, deadline>>), what it has seen unconnected
  rejecting,       \* reservations some thread has set out to reject
  closing,         \* what is left of close's snapshot
  releasing        \* what close has seen without a connection

vars == <<authenticated, closed, owner, reservations, conn, pass,
          rejecting, closing, releasing>>

NoConnection == [state |-> "none", late |-> {}, awaiting |-> 0, outbound |-> 0,
                 sending |-> FALSE, messages |-> 0]
NewConnection == [NoConnection EXCEPT !.state = "open"]

Bound(r) == conn[r].state # "none"
Serving(r) == conn[r].state = "open"

IdlePass == [todo |-> {}, late |-> {}, unbound |-> {}]

Init ==
  /\ authenticated = [s \in Sessions |-> Nobody] /\ closed = FALSE
  /\ owner = [r \in Reservations |-> Nobody] /\ reservations = {}
  /\ conn = [r \in Reservations |-> NoConnection]
  /\ pass = IdlePass
  /\ rejecting = {} /\ closing = {} /\ releasing = {}

-----------------------------------------------------------------------------
(* What the threads share: release and stop.                               *)

Release(r) == reservations' = reservations \ {r}

\* stop and finished: nothing of the connection is read again but what its last send asks.
\* The thread that stopped it then releases the reservation, in StoppedReleases.
Stopped(c) == [NoConnection EXCEPT !.state = "stopped", !.sending = c.sending]
Stop(r) == conn' = IF Serving(r) THEN [conn EXCEPT ![r] = Stopped(@)] ELSE conn

StoppedReleases(r) ==
  /\ conn[r].state = "stopped" /\ r \in reservations
  /\ Release(r)
  /\ UNCHANGED <<authenticated, closed, owner, conn, pass, rejecting, closing, releasing>>

-----------------------------------------------------------------------------
(* Sessions.  Whether a session is valid is the container's to say: a      *)
(* login of an invalid one does nothing.                                   *)

OfSession(s) == {r \in reservations : owner[r].session = s}
Rejects(R) == rejecting' = rejecting \cup R

Known == {s \in Sessions : authenticated[s] # Nobody}

Login(s, p) ==
  /\ ~closed
  /\ s \in Known \/ Cardinality(Known) < SessionLimit
  /\ authenticated' = [authenticated EXCEPT ![s] = p]
  /\ Rejects(OfSession(s))
  /\ UNCHANGED <<closed, owner, reservations, conn, pass, closing, releasing>>

\* A logout, the end of a session, or the change of its id.
Invalidate(s) ==
  /\ authenticated' = [authenticated EXCEPT ![s] = Nobody]
  /\ Rejects(OfSession(s))
  /\ UNCHANGED <<closed, owner, reservations, conn, pass, closing, releasing>>

Reject(r) ==
  /\ r \in rejecting
  /\ rejecting' = rejecting \ {r}
  /\ Stop(r)
  /\ IF Bound(r) THEN UNCHANGED reservations ELSE Release(r)
  /\ UNCHANGED <<authenticated, closed, owner, pass, closing, releasing>>

-----------------------------------------------------------------------------
(* The upgrade.                                                            *)

OfPrincipal(p) == {r \in reservations : owner[r].principal = p}

HasRoom(p) == /\ Cardinality(reservations) < GlobalLimit
              /\ Cardinality(OfPrincipal(p)) < PrincipalLimit

\* Reservations are numbered as they are given out.
Unused == {r \in Reservations : owner[r] = Nobody}

Reserve(r, p, s) ==
  /\ r \in Unused /\ \A q \in Unused : r <= q
  /\ ~closed /\ authenticated[s] = p /\ HasRoom(p)
  /\ owner' = [owner EXCEPT ![r] = [principal |-> p, session |-> s]]
  /\ reservations' = reservations \cup {r}
  /\ UNCHANGED <<authenticated, closed, conn, pass, rejecting, closing, releasing>>

Pending(r) == r \in reservations /\ ~Bound(r)

\* afterHandshake: the upgrade failed or did not switch protocols.
UpgradeFails(r) ==
  /\ Pending(r)
  /\ Rejects({r})
  /\ UNCHANGED <<authenticated, closed, owner, reservations, conn, pass, closing, releasing>>

Entitled(r) == ~closed /\ authenticated[owner[r].session] = owner[r].principal

\* A socket whose reservation was released before it opened is closed again and changes
\* nothing here; one that opens without its principal is, and leaves the place to expire.
Open(r) ==
  /\ Pending(r)
  /\ IF Entitled(r)
     THEN /\ conn' = [conn EXCEPT ![r] = NewConnection]
          /\ UNCHANGED reservations
     ELSE Release(r) /\ UNCHANGED conn
  /\ UNCHANGED <<authenticated, closed, owner, pass, rejecting, closing, releasing>>

\* The native session does not keep its configuration.
OpenFails(r) ==
  /\ Pending(r)
  /\ Release(r)
  /\ UNCHANGED <<authenticated, closed, owner, conn, pass, rejecting, closing, releasing>>

-----------------------------------------------------------------------------
(* The protocol of one connection, under its monitor.                      *)

SendNext(c) ==
  IF c.sending \/ c.outbound = 0 THEN c
  ELSE [c EXCEPT !.outbound = @ - 1, !.sending = TRUE]

Takes(r) == Serving(r) /\ conn[r].messages < MessageLimit

Queued(c) == [c EXCEPT !.messages = @ + 1, !.awaiting = @ + 1, !.outbound = @ + 1]
Acknowledged(c) == [c EXCEPT !.messages = @ + 1, !.awaiting = @ - 1]

\* A command restarts the idle time, and to a pass under way the new deadline lies ahead;
\* but the oldest unacknowledged echo, if there is one, may be late.
Becomes(r, c) ==
  \/ /\ conn' = [conn EXCEPT ![r] = [c EXCEPT !.late = @ \ {"speak"}]]
     /\ pass' = [pass EXCEPT !.late = @ \ {<<r, "speak">>}]
  \/ /\ conn[r].awaiting > 0 /\ c.awaiting > 0
     /\ conn' = [conn EXCEPT ![r] = c]
     /\ UNCHANGED pass

ReceiveEcho(r) ==
  /\ Takes(r)
  /\ conn[r].awaiting < AckLimit /\ conn[r].outbound < AckLimit
  /\ Becomes(r, SendNext(Queued(conn[r])))
  /\ UNCHANGED <<authenticated, closed, owner, reservations, rejecting, closing, releasing>>

ReceiveAck(r) ==
  /\ Takes(r)
  /\ conn[r].awaiting > 0
  /\ Becomes(r, Acknowledged(conn[r]))
  /\ UNCHANGED <<authenticated, closed, owner, reservations, rejecting, closing, releasing>>

\* The completion of a send, which may come when the connection has stopped.
SendCompletes(r) ==
  /\ conn[r].sending
  /\ conn' = [conn EXCEPT ![r] = SendNext([@ EXCEPT !.sending = FALSE])]
  /\ UNCHANGED <<authenticated, closed, owner, reservations, pass, rejecting, closing, releasing>>

\* Whatever else arrives ends it: a message too many, too long, malformed or binary, an
\* unknown acknowledgement, a repeated id, an echo beyond the credits, a failed send, an
\* error of the transport, the peer's close.
Ends(r) ==
  /\ Serving(r)
  /\ Stop(r)
  /\ UNCHANGED <<authenticated, closed, owner, reservations, pass, rejecting, closing, releasing>>

-----------------------------------------------------------------------------
(* The timer.  A pass takes its snapshot and its `now' first.              *)

\* To open; to acknowledge the oldest echo or say anything at all; to come back.
Deadlines == {"bind", "speak", "lease"}
\* Slip: only what has a socket expires.
SocketRuns(r, which) == which # "bind" /\ Serving(r)
Runs(r, which) == IF which = "bind" THEN Pending(r) ELSE Serving(r)

DeadlinePasses(r, which) ==
  /\ Runs(r, which) /\ which \notin conn[r].late
  /\ conn' = [conn EXCEPT ![r].late = @ \cup {which}]
  /\ UNCHANGED <<authenticated, closed, owner, reservations, pass, rejecting, closing, releasing>>

Late == UNION {{r} \X conn[r].late : r \in reservations}

StartPass ==
  /\ ~closed
  /\ pass.todo = {} /\ pass.unbound = {}
  /\ pass' = [todo |-> reservations, late |-> Late, unbound |-> {}]
  /\ UNCHANGED <<authenticated, closed, owner, reservations, conn, rejecting, closing, releasing>>

Others(r) == pass.late \ ({r} \X Deadlines)
Expired(r) == \E which \in {"speak", "lease"} : <<r, which>> \in pass.late

\* The connection is read outside of the registry's monitor.
Look(r) ==
  /\ r \in pass.todo /\ pass.unbound = {}
  /\ IF Bound(r)
     THEN /\ pass' = [pass EXCEPT !.todo = @ \ {r}, !.late = Others(r)]
          /\ IF Expired(r) THEN Stop(r) ELSE UNCHANGED conn
     ELSE pass' = [pass EXCEPT !.todo = @ \ {r}, !.unbound = {r}] /\ UNCHANGED conn
  /\ UNCHANGED <<authenticated, closed, owner, reservations, rejecting, closing, releasing>>

SeenUnbound(r) == TRUE                 \* slip: what Look has seen is not checked again
StillUnbound(r) == ~Bound(r)

ExpirePending(r) ==
  /\ r \in pass.unbound
  /\ pass' = [pass EXCEPT !.unbound = {}, !.late = Others(r)]
  /\ IF StillUnbound(r) /\ <<r, "bind">> \in pass.late
     THEN Release(r) ELSE UNCHANGED reservations
  /\ UNCHANGED <<authenticated, closed, owner, conn, rejecting, closing, releasing>>

-----------------------------------------------------------------------------
(* Shutdown.  The snapshot is taken a little later than here, without what *)
(* was released meanwhile; a second close finds what the first has left.   *)

Close ==
  /\ ~closed
  /\ closed' = TRUE /\ authenticated' = [s \in Sessions |-> Nobody]
  /\ closing' = reservations
  /\ UNCHANGED <<owner, reservations, conn, pass, rejecting, releasing>>

\* Here too the connection is read outside of the monitor, and not read again.
CloseNext(r) ==
  /\ r \in closing
  /\ closing' = closing \ {r}
  /\ Stop(r)
  /\ releasing' = IF Bound(r) THEN releasing ELSE releasing \cup {r}
  /\ UNCHANGED <<authenticated, closed, owner, reservations, pass, rejecting>>

CloseReleases(r) ==
  /\ r \in releasing
  /\ releasing' = releasing \ {r}
  /\ Release(r)
  /\ UNCHANGED <<authenticated, closed, owner, conn, pass, rejecting, closing>>

-----------------------------------------------------------------------------

Upgrade(r) == \/ \E p \in Principals, s \in Sessions : Reserve(r, p, s)
              \/ UpgradeFails(r) \/ Open(r) \/ OpenFails(r)
Message(r) == \/ ReceiveEcho(r) \/ ReceiveAck(r) \/ SendCompletes(r) \/ Ends(r)
Timer == StartPass \/ \E r \in Reservations : Look(r) \/ ExpirePending(r)
Closer == \E r \in Reservations : CloseNext(r) \/ CloseReleases(r)

Next ==
  \/ \E s \in Sessions : Invalidate(s) \/ \E p \in Principals : Login(s, p)
  \/ \E r \in Reservations :
       \/ Upgrade(r) \/ Message(r) \/ Reject(r) \/ StoppedReleases(r)
       \/ \E which \in Deadlines : DeadlinePasses(r, which)
  \/ Timer \/ Close \/ Closer

\* Time passes, the timer's thread keeps running, and a thread that has set out to reject,
\* to release or to close does.  Nothing is expected of the clients.
Fairness ==
  /\ WF_vars(Timer) /\ WF_vars(Closer)
  /\ \A r \in Reservations :
       /\ WF_vars(Reject(r)) /\ WF_vars(StoppedReleases(r))
       /\ WF_vars(DeadlinePasses(r, "bind") \/ DeadlinePasses(r, "lease"))

Spec == Init /\ [][Next]_vars /\ Fairness

-----------------------------------------------------------------------------
(* Properties.                                                             *)

Connection ==
  [state : {"none", "open", "stopped"}, late : SUBSET Deadlines,
   awaiting : 0..AckLimit, outbound : 0..AckLimit, sending : BOOLEAN, messages : 0..MessageLimit]

TypeOK ==
  /\ authenticated \in [Sessions -> Principals \cup {Nobody}]
  /\ closed \in BOOLEAN
  /\ owner \in [Reservations -> [principal : Principals, session : Sessions] \cup {Nobody}]
  /\ reservations \subseteq {r \in Reservations : owner[r] # Nobody}
  /\ conn \in [Reservations -> Connection]
  /\ pass \in [todo : SUBSET Reservations, late : SUBSET (Reservations \X Deadlines),
               unbound : SUBSET Reservations]
  /\ {rejecting, closing, releasing} \subseteq SUBSET Reservations

Served == {r \in Reservations : Serving(r)}

\* A socket that is served is charged, so that a deadline or a shutdown that meets its
\* opening does not orphan it and no more are served than the limits allow.
ServedAreCharged ==
  /\ Served \subseteq reservations
  /\ Cardinality(Served) <= GlobalLimit
  /\ \A p \in Principals : Cardinality({r \in Served : owner[r].principal = p}) <= PrincipalLimit

\* It speaks for the principal its session was authenticated as, unless a thread is on
\* its way to end it; and once close has been through there is none.
ServedAreEntitled ==
  \A r \in Served : /\ Entitled(r) \/ r \in rejecting \cup closing
                    /\ closed => r \in closing

\* No echo waits in a queue that nobody is emptying.
QueuesAreDriven == \A r \in Reservations : conn[r].outbound > 0 => conn[r].sending

SocketsAreLawful == TypeOK /\ ServedAreCharged /\ ServedAreEntitled /\ QueuesAreDriven

\* Every place given out returns, whatever its client does: a client that never opens its
\* socket, never acknowledges, or never falls silent gives it back no later than the lease.
AllReturned == reservations = {}
=============================================================================
