------------------------------ MODULE Presence ------------------------------
(***************************************************************************)
(* Who is looking at which process: browsers that open and close           *)
(* processes and lose their connection, the gateway that handles their     *)
(* messages, and the registry's two maps.                                  *)
(*                                                                         *)
(* The messages of a socket are handled in the order they were sent, but   *)
(* a join waits for its access check and may finish after the messages     *)
(* behind it, or after the socket is gone. A browser reconnects with a     *)
(* new socket, which first sends what was emitted while it was offline;    *)
(* the server notices the loss of the old one at any time.                 *)
(* Joins are modelled from the moment the socket is authenticated.         *)
(***************************************************************************)
EXTENDS Naturals, Sequences, FiniteSets

CONSTANTS
  Browsers,
  Procs,
  Allowed,    \* the processes their users may see
  None,
  MaxSockets, \* bound on the sockets one browser ever opens
  MaxViews    \* bound on the processes one browser ever opens

Sockets == Browsers \X (1..MaxSockets)

VARIABLES
  view,     \* per browser, the process it shows, None for none
  views,    \* per browser, how many processes it has opened
  socket,   \* per browser, the number of its current socket
  online,   \* per browser, whether that socket is connected
  inbox,    \* per socket, messages not yet handled
  checks,   \* per socket and process, joins waiting for the access check
  closed,   \* sockets whose disconnect the server has handled
  rooms,    \* per socket, the rooms it is in
  bucket,   \* byProcess: per process, the sockets present
  index,    \* socketToProcess: per socket, its process or None
  late      \* per socket, processes whose join finished out of turn

browser == <<view, views, socket, online>>
server == <<inbox, checks, closed, rooms, bucket, index, late>>
vars == <<browser, server>>

Msgs == [type : {"join", "leave"}, proc : Procs]

TypeOK ==
  /\ view \in [Browsers -> Procs \cup {None}]
  /\ views \in [Browsers -> 0..MaxViews]
  /\ socket \in [Browsers -> 1..MaxSockets]
  /\ online \in [Browsers -> BOOLEAN]
  /\ inbox \in [Sockets -> Seq(Msgs)]
  /\ checks \in [Sockets -> [Procs -> 0..(2 * MaxViews + 1)]] /\ closed \subseteq Sockets
  /\ rooms \in [Sockets -> SUBSET Procs]
  /\ bucket \in [Procs -> SUBSET Sockets]
  /\ index \in [Sockets -> Procs \cup {None}]
  /\ late \in [Sockets -> SUBSET Procs]

Init ==
  /\ view = [b \in Browsers |-> None] /\ views = [b \in Browsers |-> 0]
  /\ socket = [b \in Browsers |-> 1] /\ online = [b \in Browsers |-> TRUE]
  /\ inbox = [s \in Sockets |-> <<>>] /\ checks = [s \in Sockets |-> [p \in Procs |-> 0]]
  /\ closed = {} /\ rooms = [s \in Sockets |-> {}]
  /\ bucket = [p \in Procs |-> {}] /\ index = [s \in Sockets |-> None]
  /\ late = [s \in Sockets |-> {}]

\* Without a connection the messages wait for the next one.
Emit(b, msgs) ==
  LET s == IF online[b] THEN <<b, socket[b]>> ELSE <<b, socket[b] + 1>>
  IN inbox' = [inbox EXCEPT ![s] = @ \o msgs]

\* Mutant: a message is also sent for no process.
MsgAlways(type, p) == <<[type |-> type, proc |-> p]>>

Msg(type, p) == IF p = None THEN <<>> ELSE <<[type |-> type, proc |-> p]>>

\* useRealtime's effect: the process changes, the old one is left first.
Open(b, p) ==
  /\ p # view[b] /\ views[b] < MaxViews
  /\ view' = [view EXCEPT ![b] = p] /\ views' = [views EXCEPT ![b] = @ + 1]
  /\ Emit(b, Msg("leave", view[b]) \o Msg("join", p))
  /\ UNCHANGED <<socket, online, checks, closed, rooms, bucket, index, late>>

\* The connection breaks; what the server has not received is lost.
Drop(b) ==
  /\ online[b] /\ socket[b] < MaxSockets
  /\ online' = [online EXCEPT ![b] = FALSE]
  /\ \E n \in 0..Len(inbox[<<b, socket[b]>>]) :
       inbox' = [inbox EXCEPT ![<<b, socket[b]>>] = SubSeq(@, 1, n)]
  /\ UNCHANGED <<view, views, socket, checks, closed, rooms, bucket, index, late>>

\* Mutant: the connect handler does not join again.
ReconnectOnly(b) ==
  /\ ~online[b]
  /\ online' = [online EXCEPT ![b] = TRUE] /\ socket' = [socket EXCEPT ![b] = @ + 1]
  /\ UNCHANGED <<view, views, inbox, checks, closed, rooms, bucket, index, late>>

\* Socket.IO reconnects and sends what has waited; the connect handler joins
\* again.
Reconnect(b) ==
  /\ ~online[b]
  /\ online' = [online EXCEPT ![b] = TRUE] /\ socket' = [socket EXCEPT ![b] = @ + 1]
  /\ inbox' = [inbox EXCEPT ![<<b, socket'[b]>>] = @ \o Msg("join", view[b])]
  /\ UNCHANGED <<view, views, checks, closed, rooms, bucket, index, late>>

Received(s, type) ==
  /\ inbox[s] # <<>> /\ Head(inbox[s]).type = type
  /\ s[2] <= socket[s[1]] /\ s \notin closed

\* onPresenceJoin up to its await.
BeginJoin(s) ==
  /\ Received(s, "join") /\ inbox' = [inbox EXCEPT ![s] = Tail(@)]
  /\ checks' = [checks EXCEPT ![s][Head(inbox[s]).proc] = @ + 1]
  /\ UNCHANGED <<browser, closed, rooms, bucket, index, late>>

\* The rest of onPresenceJoin, after the check. socket.join on a socket that
\* is gone joins nothing; the registry does not know.
FinishJoin(s, p) ==
  /\ p \in Allowed /\ checks[s][p] > 0
  /\ checks' = [checks EXCEPT ![s][p] = @ - 1]
  /\ rooms' = IF s \in closed THEN rooms ELSE [rooms EXCEPT ![s] = @ \cup {p}]
  /\ bucket' = [bucket EXCEPT ![p] = @ \cup {s}]
  /\ index' = [index EXCEPT ![s] = p]
  /\ late' = IF s \in closed \/ index[s] \notin {None, p}
               THEN [late EXCEPT ![s] = (@ \cup {p, index[s]}) \ {None}] ELSE late
  /\ UNCHANGED <<browser, inbox, closed>>

\* The access check refuses: nothing is joined.
RefuseJoin(s, p) ==
  /\ p \notin Allowed /\ checks[s][p] > 0
  /\ checks' = [checks EXCEPT ![s][p] = @ - 1]
  /\ UNCHANGED <<browser, inbox, closed, rooms, bucket, index, late>>

\* Mutant: the index entry is dropped, the bucket is left to the next snapshot.
UnregisterIndexOnly(s) ==
  /\ index' = [index EXCEPT ![s] = None] /\ UNCHANGED bucket

\* PresenceRegistry.leave: out of the bucket of the process it is indexed under.
Unregister(s) ==
  /\ bucket' = [p \in Procs |-> IF index[s] = p THEN bucket[p] \ {s} ELSE bucket[p]]
  /\ index' = [index EXCEPT ![s] = None]

\* onPresenceLeave: out of the named room, and out of the registry.
Leave(s) ==
  /\ Received(s, "leave") /\ inbox' = [inbox EXCEPT ![s] = Tail(@)]
  /\ rooms' = [rooms EXCEPT ![s] = @ \ {Head(inbox[s]).proc}]
  /\ Unregister(s)
  /\ late' = [late EXCEPT ![s] = @ \cup {p \in Procs : checks[s][p] > 0}]
  /\ UNCHANGED <<browser, checks, closed>>

\* handleDisconnect, once the socket is lost.
Disconnect(s) ==
  /\ s \notin closed
  /\ s[2] < socket[s[1]] \/ (s[2] = socket[s[1]] /\ ~online[s[1]])
  /\ inbox[s] = <<>>
  /\ closed' = closed \cup {s} /\ rooms' = [rooms EXCEPT ![s] = {}]
  /\ Unregister(s)
  /\ UNCHANGED <<browser, inbox, checks, late>>

Serve(s) ==
  \/ BeginJoin(s) \/ Leave(s) \/ Disconnect(s)
  \/ \E p \in Procs : FinishJoin(s, p) \/ RefuseJoin(s, p)

Next ==
  \/ \E b \in Browsers :
       Drop(b) \/ Reconnect(b) \/ \E p \in Procs \cup {None} : Open(b, p)
  \/ \E s \in Sockets : Serve(s)

\* Socket.IO keeps trying to reconnect, messages are handled, access checks
\* and disconnects complete.
Fairness ==
  /\ \A b \in Browsers : WF_vars(Reconnect(b))
  /\ \A s \in Sockets : WF_vars(Serve(s))

Spec == Init /\ [][Next]_vars
FairSpec == Spec /\ Fairness

-----------------------------------------------------------------------------

\* The two maps agree one way: a socket indexed under a process is in its
\* bucket, and in its room while it is connected.
IndexedIsPresent ==
  \A s \in Sockets : index[s] # None =>
    /\ s \in bucket[index[s]]
    /\ s \notin closed => index[s] \in rooms[s]

\* The other way only where joins finish in turn: a socket stays in the bucket
\* of a process it has left, or after it is gone, only if the access check of
\* one of its joins was overtaken by a later message or by the disconnect.
GhostsWereLate ==
  \A p \in Procs : \A s \in bucket[p] : (index[s] # p \/ s \in closed) => p \in late[s]

\* Together: index, buckets and rooms tell the same story but for late joins.
PresenceIsConsistent == IndexedIsPresent /\ GhostsWereLate

\* Whoever stays on a process is in the end present there, across reconnects
\* and however late the checks of earlier joins finish.
ViewerIsPresent ==
  \A b \in Browsers, p \in Allowed :
    <>[](view[b] = p) => <>[](<<b, socket[b]>> \in bucket[p] /\ p \in rooms[<<b, socket[b]>>])

\* Does not hold: presence.registry.spec.ts says that disconnecting a socket also
\* removes it from its process bucket; a late access check brings it back.
NoGhosts == \A p \in Procs : bucket[p] \cap closed = {}
=============================================================================
