----------------------------- MODULE RunnerLink -----------------------------
(***************************************************************************)
(* The connection between the daemon and one session of a runner: the      *)
(* output spool of the session (RuntimeOutput in runner-output.ts), its    *)
(* channel server (open in runner-host.ts) and the client of the daemon    *)
(* (connect in runner-transport.ts).                                       *)
(*                                                                         *)
(* The spool is a file of lines. It is sent in chunks that need not end    *)
(* with a line, waits for the socket to drain, and is truncated once every *)
(* line is acknowledged. A socket may fail at any time, and then loses the *)
(* end of what is under way in either direction; the daemon may be         *)
(* replaced by one that knows no cursor.                                   *)
(*                                                                         *)
(* A line is a sequence of units <<number, rest>>, rest of which are still *)
(* to come: two for an event, whose number is positive, and one for the    *)
(* frames the runner answers itself.                                       *)
(***************************************************************************)
EXTENDS Integers, Sequences

CONSTANTS
  Chunk,        \* units that one read of the spool takes (64 KiB)
  MaxEvents,    \* bound: events produced
  MaxCommands,  \* bound: commands sent
  MaxConns,     \* bound: connections opened; the last one does not fail
  MaxDaemons    \* bound: daemons, one after another

ASSUME LinkAssumption ==
  /\ Chunk \in Nat \ {0}
  /\ MaxEvents \in Nat /\ MaxCommands \in Nat /\ MaxConns \in Nat /\ MaxDaemons \in Nat

Attached == 0
Exit == -1

EventLine(n) == <<<<n, 1>>, <<n, 0>>>>
Frame(n) == <<<<n, 0>>>>

VARIABLES
  output,    \* RuntimeOutput: its fields, and the bytes of its file as units
  accepted,  \* the connections the channel server accepted are 1..accepted
  hostOpen,  \* whether the last of them is open in the runner
  client,    \* connect(): cursor, partial line, state of its socket
  opened,    \* the connections opened by daemons are 1..opened
  up,        \* frames under way to the runner, by connection
  down,      \* units under way to the daemon on its connection
  unsent,    \* commands that wait for the attachment
  sent,      \* number of commands the daemons were asked to send
  executed,  \* commands that reached the session, in order
  high,      \* history: the last event handed to any daemon
  daemons    \* number of daemons so far

vars == <<output, accepted, hostOpen, client, opened, up, down, unsent, sent, executed, high, daemons>>

\* No connection has number 0: no client.
NewOutput == [sequence |-> 0, acknowledged |-> 0, acknowledgedOffset |-> 0,
              ends |-> <<>>, spool |-> <<>>, conn |-> 0, offset |-> 0,
              pumping |-> FALSE, closed |-> FALSE]

\* "idle" before connect(), "open" with a socket, "retry" before the timer, "ended" and "failed".
NewClient == [phase |-> "idle", attached |-> FALSE, connected |-> FALSE, cursor |-> 0, partial |-> <<>>]

Init ==
  /\ output = NewOutput
  /\ accepted = 0 /\ hostOpen = FALSE
  /\ client = NewClient /\ opened = 0
  /\ up = [c \in 1..MaxConns |-> <<>>] /\ down = <<>>
  /\ unsent = <<>> /\ sent = 0 /\ executed = <<>>
  /\ high = 0 /\ daemons = 1

\* What is written to a socket the daemon has left goes nowhere.
Watching(c) == client.phase = "open" /\ c = opened
Written(c, units) == IF Watching(c) THEN down \o units ELSE down

-----------------------------------------------------------------------------
(* The spool. Each operator takes the fields of the object and returns     *)
(* them changed.                                                           *)

End(o) == Len(o.spool)

\* Mutant: what was written to the socket is taken for received.
CompactWritten(o) ==
  IF o.closed \/ o.offset # End(o) \/ (o.conn # 0 /\ o.pumping) THEN o
  ELSE [o EXCEPT !.spool = <<>>, !.acknowledgedOffset = 0, !.offset = 0]

Compact(o) ==
  IF o.closed \/ o.acknowledged # o.sequence \/ (o.conn # 0 /\ o.pumping)
  THEN o
  ELSE [o EXCEPT !.spool = <<>>, !.acknowledgedOffset = 0, !.offset = 0]

\* The socket of the client is gone: its pump ends and compacts.
Unclient(o) == Compact([o EXCEPT !.conn = 0, !.pumping = FALSE, !.offset = 0])

\* Where a read of whole chunks may leave the offset.
Stops(o) == {s \in (o.offset + 1)..End(o) : s = End(o) \/ (s - o.offset) % Chunk = 0}

Unread(o, s) == SubSeq(o.spool, o.offset + 1, s)

\* The rest is written at once, or a write reports a full socket and waits.
Pump(o) ==
  IF o.conn = 0 \/ o.pumping \/ o.closed \/ o.offset = End(o)
  THEN output' = o /\ UNCHANGED down
  ELSE \/ /\ output' = Compact([o EXCEPT !.offset = End(o)])
          /\ down' = Written(o.conn, Unread(o, End(o)))
       \/ \E s \in Stops(o) :
            /\ output' = [o EXCEPT !.offset = s, !.pumping = TRUE]
            /\ down' = Written(o.conn, Unread(o, s))

PublishLine ==
  /\ ~output.closed /\ output.sequence < MaxEvents
  /\ LET n == output.sequence + 1
         spool == output.spool \o EventLine(n)
     IN Pump([output EXCEPT !.sequence = n, !.spool = spool, !.ends = Append(@, Len(spool))])
  /\ UNCHANGED <<accepted, hostOpen, client, opened, up, unsent, sent, executed, high, daemons>>

\* Mutant: the drained socket only ends the pump.
DrainOnce ==
  /\ output.conn # 0 /\ output.pumping /\ ~output.closed
  /\ output' = Compact([output EXCEPT !.pumping = FALSE]) /\ UNCHANGED down
  /\ UNCHANGED <<accepted, hostOpen, client, opened, up, unsent, sent, executed, high, daemons>>

\* The socket drained: the loop reads on, or ends and compacts.
Drain ==
  /\ output.conn # 0 /\ output.pumping /\ ~output.closed
  /\ IF output.offset < End(output)
     THEN Pump([output EXCEPT !.pumping = FALSE])
     ELSE output' = Compact([output EXCEPT !.pumping = FALSE]) /\ UNCHANGED down
  /\ UNCHANGED <<accepted, hostOpen, client, opened, up, unsent, sent, executed, high, daemons>>

\* "ends" holds a boundary for each line that is not acknowledged.
EndOf(o, n) == o.ends[n - o.acknowledged]

Start(o, after) == IF after > o.acknowledged THEN after ELSE o.acknowledged

StartOffset(o, after) ==
  LET s == Start(o, after) IN IF s = o.acknowledged THEN o.acknowledgedOffset ELSE EndOf(o, s)

\* A cursor from nowhere is refused; the connection is ended with an error line.
ValidCursor(o, after) == after <= o.sequence

Acknowledged(o, n) ==
  IF n <= o.acknowledged \/ n > o.sequence THEN o
  ELSE Compact([o EXCEPT !.acknowledged = n, !.acknowledgedOffset = EndOf(o, n),
                         !.ends = SubSeq(@, n - o.acknowledged + 1, Len(@))])

-----------------------------------------------------------------------------
(* The channel server.                                                     *)

\* A new connection destroys the one before it, and what that had not read.
Accept ==
  /\ ~output.closed /\ accepted < opened
  /\ accepted' = accepted + 1 /\ hostOpen' = TRUE
  /\ up' = IF hostOpen THEN [up EXCEPT ![accepted] = <<>>] ELSE up
  /\ output' = IF output.conn # 0 THEN Unclient(output) ELSE output
  /\ UNCHANGED <<client, opened, down, unsent, sent, executed, high, daemons>>

Received(f) == hostOpen /\ up[accepted] # <<>> /\ Head(up[accepted]) = f
               /\ up' = [up EXCEPT ![accepted] = Tail(@)]

Attach(after) ==
  /\ Received(<<"attach", after>>)
  /\ ValidCursor(output, after)
  /\ LET o == [output EXCEPT !.conn = accepted, !.offset = StartOffset(output, after)]
         frame == Written(accepted, Frame(Attached))
     IN IF o.closed \/ o.offset = End(o) THEN output' = o /\ down' = frame
        ELSE \/ /\ output' = Compact([o EXCEPT !.offset = End(o)])
                /\ down' = IF Watching(accepted) THEN frame \o Unread(o, End(o)) ELSE down
             \/ \E s \in Stops(o) :
                  /\ output' = [o EXCEPT !.offset = s, !.pumping = TRUE]
                  /\ down' = IF Watching(accepted) THEN frame \o Unread(o, s) ELSE down
  /\ UNCHANGED <<accepted, hostOpen, client, opened, unsent, sent, executed, high, daemons>>

Acknowledge(n) ==
  /\ Received(<<"ack", n>>)
  /\ output' = Acknowledged(output, n)
  /\ UNCHANGED <<accepted, hostOpen, client, opened, down, unsent, sent, executed, high, daemons>>

Command(n) ==
  /\ Received(<<"command", n>>)
  /\ executed' = Append(executed, n)
  /\ UNCHANGED <<output, accepted, hostOpen, client, opened, down, unsent, sent, high, daemons>>

\* The daemon has left this connection and everything it sent is read.
SocketClosed ==
  /\ hostOpen /\ up[accepted] = <<>> /\ ~Watching(accepted)
  /\ hostOpen' = FALSE
  /\ output' = IF output.conn # 0 THEN Unclient(output) ELSE output
  /\ UNCHANGED <<accepted, client, opened, up, down, unsent, sent, executed, high, daemons>>

\* The session ends: an exit frame, whatever the pump has not written is dropped.
Finish ==
  /\ ~output.closed
  /\ output' = [output EXCEPT !.closed = TRUE, !.conn = 0, !.offset = 0, !.pumping = FALSE]
  /\ down' = IF hostOpen THEN Written(accepted, Frame(Exit)) ELSE down
  /\ hostOpen' = FALSE
  /\ UNCHANGED <<accepted, client, opened, up, unsent, sent, executed, high, daemons>>

-----------------------------------------------------------------------------
(* The client.                                                             *)

\* Connect for the first time or, 25 ms after a failure, again with the cursor.
Open ==
  /\ client.phase \in {"idle", "retry"} /\ ~output.closed /\ opened < MaxConns
  /\ opened' = opened + 1
  /\ client' = [client EXCEPT !.phase = "open", !.connected = FALSE, !.partial = <<>>]
  /\ up' = [up EXCEPT ![opened + 1] = <<<<"attach", client.cursor>>>>]
  /\ down' = <<>>
  /\ UNCHANGED <<output, accepted, hostOpen, unsent, sent, executed, high, daemons>>

\* The socket of the session is absent: after an attachment that is its exit.
OpenAbsent ==
  /\ client.phase = "retry" /\ output.closed
  /\ client' = [client EXCEPT !.phase = "ended"]
  /\ UNCHANGED <<output, accepted, hostOpen, opened, up, down, unsent, sent, executed, high, daemons>>

\* What the failure of a socket leaves of the frames to the runner.
Cut == \E k \in 0..Len(up[opened]) : up' = [up EXCEPT ![opened] = SubSeq(@, 1, k)]

\* A connection that was never attached is given up; a new one starts afresh.
Disconnect ==
  /\ client.phase = "open"
  /\ opened < MaxConns \/ output.closed
  /\ client' = IF client.attached THEN [client EXCEPT !.phase = "retry", !.connected = FALSE] ELSE NewClient
  /\ unsent' = IF client.attached THEN unsent ELSE <<>>
  /\ down' = <<>>
  /\ Cut
  /\ UNCHANGED <<output, accepted, hostOpen, opened, sent, executed, high, daemons>>

\* The daemon stops or dies; the next one knows no cursor.
Replaced ==
  /\ daemons < MaxDaemons /\ opened < MaxConns
  /\ daemons' = daemons + 1
  /\ client' = NewClient /\ unsent' = <<>> /\ down' = <<>>
  /\ IF client.phase = "open" THEN Cut ELSE UNCHANGED up
  /\ UNCHANGED <<output, accepted, hostOpen, opened, sent, executed, high>>

Sent(frames) == up' = [up EXCEPT ![opened] = @ \o frames]

Partial == Append(client.partial, Head(down))

\* One unit is read from the socket. All but the last of a line are kept.
Read ==
  /\ client.phase = "open" /\ down # <<>> /\ down' = Tail(down)
  /\ UNCHANGED <<output, accepted, hostOpen, opened, sent, executed, daemons>>

ReadPartial ==
  /\ Read /\ Head(down)[2] # 0
  /\ client' = [client EXCEPT !.partial = Partial]
  /\ UNCHANGED <<up, unsent, high>>

ReadAttached ==
  /\ Read /\ Partial = Frame(Attached)
  /\ client' = [client EXCEPT !.attached = TRUE, !.connected = TRUE, !.partial = <<>>]
  /\ Sent([i \in 1..Len(unsent) |-> <<"command", unsent[i]>>])
  /\ unsent' = <<>>
  /\ UNCHANGED high

\* Only a new event is handed over and acknowledged.
ReadOutput ==
  LET n == Head(down)[1] IN
  /\ Read /\ n > 0 /\ Partial = EventLine(n)
  /\ IF n <= client.cursor
     THEN client' = [client EXCEPT !.partial = <<>>] /\ UNCHANGED <<up, high>>
     ELSE /\ client' = [client EXCEPT !.partial = <<>>, !.cursor = n]
          /\ high' = IF n > high THEN n ELSE high
          /\ Sent(<<<<"ack", n>>>>)
  /\ UNCHANGED unsent

ReadExit ==
  /\ Read /\ Partial = Frame(Exit)
  /\ client' = [client EXCEPT !.phase = "ended", !.partial = <<>>]
  /\ UNCHANGED <<up, unsent, high>>

WellFormed(l) == l \in {Frame(Attached), Frame(Exit)} \/ (l[1][1] > 0 /\ l = EventLine(l[1][1]))

\* Any other line is a protocol failure and ends the connection.
ReadTorn ==
  /\ Read /\ Head(down)[2] = 0 /\ ~WellFormed(Partial)
  /\ client' = [client EXCEPT !.phase = "failed", !.partial = <<>>]
  /\ UNCHANGED <<up, unsent, high>>

\* Mutant: a command is written to any open socket.
SendAtOnce ==
  /\ sent < MaxCommands /\ client.phase \in {"open", "retry"} /\ client.attached
  /\ sent' = sent + 1
  /\ IF client.phase = "open" THEN Sent(<<<<"command", sent + 1>>>>) /\ UNCHANGED unsent
     ELSE unsent' = Append(unsent, sent + 1) /\ UNCHANGED up
  /\ UNCHANGED <<output, accepted, hostOpen, client, opened, down, executed, high, daemons>>

Send ==
  /\ sent < MaxCommands /\ client.phase \in {"open", "retry"} /\ client.attached
  /\ sent' = sent + 1
  /\ IF client.connected THEN Sent(<<<<"command", sent + 1>>>>) /\ UNCHANGED unsent
     ELSE unsent' = Append(unsent, sent + 1) /\ UNCHANGED up
  /\ UNCHANGED <<output, accepted, hostOpen, client, opened, down, executed, high, daemons>>

-----------------------------------------------------------------------------

Receive == \/ \E n \in 0..MaxEvents : Attach(n) \/ Acknowledge(n)
           \/ \E n \in 1..MaxCommands : Command(n)

ReadLine == ReadPartial \/ ReadAttached \/ ReadOutput \/ ReadExit \/ ReadTorn

Next ==
  \/ PublishLine \/ Drain \/ Finish
  \/ Accept \/ Receive \/ SocketClosed
  \/ Open \/ OpenAbsent \/ Disconnect \/ Replaced \/ ReadLine \/ Send

Spec == Init /\ [][Next]_vars

\* The event loops run what is ready, the socket drains, and the daemon comes
\* back; nothing makes the session produce, end or be sent a command.
Fairness ==
  /\ WF_vars(Drain) /\ WF_vars(Accept) /\ WF_vars(Receive) /\ WF_vars(SocketClosed)
  /\ WF_vars(Open \/ OpenAbsent) /\ WF_vars(ReadLine)

FairSpec == Spec /\ Fairness

-----------------------------------------------------------------------------
(* Properties.                                                             *)

\* The link implements the stream of events: the daemon is handed each event
\* once and in order, over truncations of the spool, chunks that end inside a
\* line and connections that fail; one that comes later misses none.
Stream == INSTANCE EventStream WITH
  produced <- output.sequence, handed <- client.cursor

KeepsOrder == Stream!Spec

\* Every event produced reaches a daemon unless the session ends first: no
\* pump stops for good with lines unread, no reconnection starts too late.
Arrives == \A n \in 1..MaxEvents : output.sequence >= n ~> (high >= n \/ output.closed)

\* Commands reach the session in the order they were sent, at most once each,
\* although some are lost with a socket and others wait for the attachment.
CommandsInOrder == \A i \in 1..Len(executed) - 1 : executed[i] < executed[i + 1]
=============================================================================
