------------------------- MODULE RunnerLink_proofs --------------------------
(***************************************************************************)
(* The link between the daemon and a session, for any chunk, any number of *)
(* events, commands, connections and daemons: each event is handed over    *)
(* once and in order, and commands are executed in the order they were     *)
(* sent.                                                                   *)
(*                                                                         *)
(* Units are counted from the first event of the session on: Unit(k) is    *)
(* the k-th. Wherever the spool was truncated and whatever chunks it was   *)
(* read in, a part of the stream is known by where it begins and ends.     *)
(***************************************************************************)
EXTENDS RunnerLink, SequenceTheorems, TLAPS

Unit(k) == <<(k + 1) \div 2, k % 2>>

Units == Int \X Nat
Frames == {"attach", "ack", "command"} \X Nat

Outputs ==
  [sequence : Nat, acknowledged : Nat, acknowledgedOffset : Nat, ends : Seq(Nat),
   spool : Seq(Units), conn : Nat, offset : Nat, pumping : BOOLEAN, closed : BOOLEAN]

Clients ==
  [phase : {"idle", "open", "retry", "ended", "failed"}, attached : BOOLEAN,
   connected : BOOLEAN, cursor : Nat, partial : Seq(Units)]

TypeOK ==
  /\ output \in Outputs /\ client \in Clients
  /\ accepted \in 0..MaxConns /\ opened \in 0..MaxConns /\ accepted <= opened
  /\ hostOpen \in BOOLEAN
  /\ up \in [1..MaxConns -> Seq(Frames)] /\ down \in Seq(Units)
  /\ unsent \in Seq(Nat) /\ executed \in Seq(Nat)
  /\ sent \in Nat /\ high \in Nat /\ daemons \in Nat

\* The units before the spool: those of the events that were truncated.
Before(o) == 2 * o.sequence - Len(o.spool)

\* The units the socket was given, on this connection or before.
Position(o) == Before(o) + o.offset

\* The spool is the rest of the stream, and its boundaries are where they say.
Spooled(o) ==
  /\ o.acknowledged <= o.sequence
  /\ 0 <= Before(o) /\ Before(o) <= 2 * o.acknowledged
  /\ \A i \in 1..Len(o.spool) : o.spool[i] = Unit(Before(o) + i)
  /\ o.acknowledgedOffset = 2 * o.acknowledged - Before(o)
  /\ Len(o.ends) = o.sequence - o.acknowledged
  /\ \A j \in 1..Len(o.ends) : o.ends[j] = 2 * (o.acknowledged + j) - Before(o)
  /\ o.offset <= Len(o.spool)
  /\ o.conn = 0 => o.offset = 0 /\ ~o.pumping
  /\ o.closed => o.conn = 0

\* A pump stops only when it has written everything.
Pumped(o) == o.conn # 0 /\ ~o.pumping => o.offset = Len(o.spool)

\* What no operation of the spool changes but those that are for it.
Same(o, p) ==
  p.sequence = o.sequence /\ p.conn = o.conn /\ p.pumping = o.pumping /\ p.closed = o.closed

-----------------------------------------------------------------------------
(* The spool.                                                              *)

LEMMA UnitsOfLine ==
  ASSUME NEW n \in Nat
  PROVE  Unit(2 * n + 1) = <<n + 1, 1>> /\ Unit(2 * n + 2) = <<n + 1, 0>>
  <1>1. (2 * n + 1 + 1) \div 2 = n + 1 /\ (2 * n + 2 + 1) \div 2 = n + 1
    OBVIOUS
  <1>2. (2 * n + 1) % 2 = 1 /\ (2 * n + 2) % 2 = 0
    OBVIOUS
  <1> QED
    BY <1>1, <1>2 DEF Unit

LEMMA NextLine ==
  ASSUME NEW n \in Nat
  PROVE  2 * (n + 1) = 2 * n + 2
  OBVIOUS

LEMMA UnitIsUnit ==
  ASSUME NEW k \in Nat
  PROVE  Unit(k) \in Units
  <1>1. (k + 1) \div 2 \in Int /\ k % 2 \in Nat
    OBVIOUS
  <1> QED
    BY <1>1 DEF Unit, Units

\* Truncating the file moves no position of the stream.
LEMMA CompactKeeps ==
  ASSUME NEW o \in Outputs, Spooled(o), Pumped(o)
  PROVE  /\ Compact(o) \in Outputs /\ Spooled(Compact(o)) /\ Pumped(Compact(o))
         /\ Same(o, Compact(o)) /\ Compact(o).acknowledged = o.acknowledged
         /\ o.conn # 0 => Position(Compact(o)) = Position(o)
  <1>1. CASE o.closed \/ o.acknowledged # o.sequence \/ (o.conn # 0 /\ o.pumping)
    BY <1>1 DEF Compact, Same
  <1>2. CASE ~o.closed /\ o.acknowledged = o.sequence /\ ~(o.conn # 0 /\ o.pumping)
    <2> DEFINE p == [o EXCEPT !.spool = <<>>, !.acknowledgedOffset = 0, !.offset = 0]
    <2>1. Compact(o) = p
      BY <1>2 DEF Compact
    <2>2. <<>> \in Seq(Units) /\ Len(<<>>) = 0
      OBVIOUS
    <2>3. /\ p.spool = <<>> /\ p.acknowledgedOffset = 0 /\ p.offset = 0
          /\ p.sequence = o.sequence /\ p.acknowledged = o.acknowledged /\ p.ends = o.ends
          /\ p.conn = o.conn /\ p.pumping = o.pumping /\ p.closed = o.closed /\ p \in Outputs
      BY <2>2 DEF Outputs
    <2> HIDE DEF p
    <2>4. o.sequence \in Nat /\ o.acknowledged \in Nat /\ o.ends \in Seq(Nat) /\ Len(o.ends) = 0
          /\ Len(o.spool) \in Nat /\ o.offset \in Nat
      BY <1>2 DEF Spooled, Outputs
    <2>5. Before(p) = 2 * o.sequence /\ Position(p) = 2 * o.sequence
      BY <2>2, <2>3, <2>4 DEF Before, Position
    <2>6. Spooled(p) /\ Pumped(p)
      BY <1>2, <2>2, <2>3, <2>4, <2>5 DEF Spooled, Pumped
    <2>7. o.conn # 0 => Position(o) = 2 * o.sequence
      BY <1>2, <2>4 DEF Pumped, Position, Before
    <2> QED
      BY <2>1, <2>3, <2>5, <2>6, <2>7 DEF Same
  <1> QED
    BY <1>1, <1>2

LEMMA UnclientKeeps ==
  ASSUME NEW o \in Outputs, Spooled(o)
  PROVE  /\ Unclient(o) \in Outputs /\ Spooled(Unclient(o)) /\ Pumped(Unclient(o))
         /\ Unclient(o).sequence = o.sequence /\ Unclient(o).acknowledged = o.acknowledged
         /\ Unclient(o).closed = o.closed /\ Unclient(o).conn = 0
  <1> DEFINE p == [o EXCEPT !.conn = 0, !.pumping = FALSE, !.offset = 0]
  <1>1. /\ p \in Outputs /\ p.conn = 0 /\ p.pumping = FALSE /\ p.offset = 0
        /\ p.sequence = o.sequence /\ p.acknowledged = o.acknowledged /\ p.ends = o.ends
        /\ p.spool = o.spool /\ p.acknowledgedOffset = o.acknowledgedOffset /\ p.closed = o.closed
    BY DEF Outputs
  <1>2. Unclient(o) = Compact(p)
    BY DEF Unclient
  <1> HIDE DEF p
  <1>3. Spooled(p) /\ Pumped(p)
    <2>1. Before(p) = Before(o) /\ Len(o.spool) \in Nat
      BY <1>1 DEF Before, Outputs
    <2> QED
      BY <1>1, <2>1 DEF Spooled, Pumped
  <1> QED
    BY <1>1, <1>2, <1>3, CompactKeeps DEF Same

\* A boundary is found by the number of its line.
LEMMA AcknowledgedKeeps ==
  ASSUME NEW o \in Outputs, Spooled(o), Pumped(o), NEW n \in Nat
  PROVE  LET p == Acknowledged(o, n) IN
         /\ p \in Outputs /\ Spooled(p) /\ Pumped(p) /\ Same(o, p)
         /\ p.acknowledged \in {o.acknowledged, n}
         /\ o.conn # 0 => Position(p) = Position(o)
  <1>1. CASE n <= o.acknowledged \/ n > o.sequence
    BY <1>1 DEF Acknowledged, Same
  <1>2. CASE ~(n <= o.acknowledged \/ n > o.sequence)
    <2> DEFINE k == n - o.acknowledged
               rest == SubSeq(o.ends, k + 1, Len(o.ends))
               p == [o EXCEPT !.acknowledged = n, !.acknowledgedOffset = EndOf(o, n), !.ends = rest]
    <2>1. /\ o.acknowledged \in Nat /\ o.sequence \in Nat /\ o.ends \in Seq(Nat)
          /\ Len(o.ends) = o.sequence - o.acknowledged /\ Len(o.spool) \in Nat /\ o.offset \in Nat
          /\ o.spool \in Seq(Units)
      BY DEF Outputs, Spooled
    <2>2. k \in 1..Len(o.ends) /\ n = o.acknowledged + k /\ Len(o.ends) \in Nat /\ k \in Nat
      BY <1>2, <2>1
    <2>3. EndOf(o, n) = 2 * n - Before(o) /\ EndOf(o, n) \in Nat
      <3>1. o.ends[k] = 2 * (o.acknowledged + k) - Before(o) /\ o.ends[k] \in Nat
        BY <2>1, <2>2, ElementOfSeq DEF Spooled
      <3> QED
        BY <2>1, <3>1 DEF EndOf
    <2>4. /\ rest \in Seq(Nat) /\ Len(rest) = Len(o.ends) - k
          /\ \A j \in 1..Len(rest) : rest[j] = o.ends[k + j]
      <3> HIDE DEF k
      <3>1. \A i \in 1..Len(o.ends) : o.ends[i] \in Nat
        BY <2>1, ElementOfSeq
      <3>2. \A i \in (k + 1)..Len(o.ends) : o.ends[i] \in Nat
        BY <2>2, <3>1
      <3>3. /\ rest \in Seq(Nat)
            /\ Len(rest) = IF k + 1 <= Len(o.ends) THEN Len(o.ends) - (k + 1) + 1 ELSE 0
            /\ \A i \in 1..(Len(o.ends) - (k + 1) + 1) : rest[i] = o.ends[(k + 1) + i - 1]
        <4>1. k + 1 \in Int /\ Len(o.ends) \in Int
          BY <2>2
        <4> QED
          BY <3>2, <4>1, SubSeqProperties
      <3> HIDE DEF rest
      <3>4. Len(rest) = Len(o.ends) - k
        BY <2>2, <3>3
      <3>5. \A j \in 1..Len(rest) : rest[j] = o.ends[k + j]
        <4> TAKE j \in 1..Len(rest)
        <4>1. j \in 1..(Len(o.ends) - (k + 1) + 1)
          BY <2>2, <3>4
        <4>2. (k + 1) + j - 1 = k + j
          BY <2>2
        <4> QED
          BY <3>3, <4>1, <4>2
      <3> QED
        BY <3>3, <3>4, <3>5
    <2> HIDE DEF k, rest
    <2>5. Acknowledged(o, n) = Compact(p)
      BY <1>2 DEF Acknowledged, k, rest
    <2>6. /\ p.acknowledged = n /\ p.acknowledgedOffset = EndOf(o, n) /\ p.ends = rest
          /\ p.sequence = o.sequence /\ p.spool = o.spool /\ p.offset = o.offset
          /\ p.conn = o.conn /\ p.pumping = o.pumping /\ p.closed = o.closed /\ p \in Outputs
      BY <2>3, <2>4 DEF Outputs
    <2> HIDE DEF p
    <2>7. Before(p) = Before(o) /\ Position(p) = Position(o) /\ Before(o) \in Int
      BY <2>1, <2>6 DEF Before, Position
    <2>8. \A j \in 1..Len(rest) : rest[j] = 2 * (n + j) - Before(o)
      <3> TAKE j \in 1..Len(rest)
      <3>1. k + j \in 1..Len(o.ends) /\ o.acknowledged + (k + j) = n + j
        <4>1. j \in Nat /\ 1 <= j /\ j <= Len(o.ends) - k
          BY <2>2, <2>4
        <4>2. o.acknowledged \in Nat /\ n = o.acknowledged + k /\ k \in Nat /\ Len(o.ends) \in Nat
          BY <2>1, <2>2
        <4> QED
          BY <4>1, <4>2
      <3>2. o.ends[k + j] = 2 * (o.acknowledged + (k + j)) - Before(o)
        BY <3>1 DEF Spooled
      <3> QED
        BY <2>4, <3>1, <3>2
    <2>9. Spooled(p) /\ Pumped(p)
      <3>1. Len(p.ends) = p.sequence - p.acknowledged
        BY <2>1, <2>2, <2>4, <2>6
      <3>2. p.acknowledged <= p.sequence /\ Before(p) <= 2 * p.acknowledged
        <4>1. Before(o) <= 2 * o.acknowledged /\ o.acknowledged < n /\ n <= o.sequence
          BY <1>2, <2>1 DEF Spooled
        <4>2. p.acknowledged = n /\ p.sequence = o.sequence /\ Before(p) = Before(o)
              /\ Before(o) \in Int /\ o.acknowledged \in Nat
          BY <2>1, <2>6, <2>7
        <4> QED
          BY <4>1, <4>2
      <3>3. p.acknowledgedOffset = 2 * p.acknowledged - Before(p)
        BY <2>3, <2>6, <2>7
      <3>4. \A j \in 1..Len(p.ends) : p.ends[j] = 2 * (p.acknowledged + j) - Before(p)
        BY <2>6, <2>7, <2>8
      <3> QED
        BY <2>6, <2>7, <3>1, <3>2, <3>3, <3>4 DEF Spooled, Pumped
    <2> QED
      BY <2>5, <2>6, <2>7, <2>9, CompactKeeps DEF Same
  <1> QED
    BY <1>1, <1>2

\* A sequence of units is the part of the stream after the a-th unit up to the
\* b-th.
Carries(q, a, b) ==
  Len(q) = b - a /\ \A i \in 1..(b - a) : q[i] = Unit(a + i)

LEMMA UnreadCarries ==
  ASSUME NEW o \in Outputs, Spooled(o), NEW s \in o.offset..End(o)
  PROVE  /\ Unread(o, s) \in Seq(Units)
         /\ Carries(Unread(o, s), Position(o), Before(o) + s)
         /\ Position(o) \in Nat /\ Before(o) \in Nat
         /\ Position(o) <= Before(o) + s /\ Before(o) + s <= 2 * o.sequence
  <1>1. o.spool \in Seq(Units) /\ Len(o.spool) \in Nat /\ o.offset \in Nat /\ o.sequence \in Nat
    BY DEF Outputs
  <1>2. s \in Nat /\ o.offset <= s /\ s <= Len(o.spool)
    BY <1>1 DEF End
  <1>3. Before(o) \in Nat /\ Position(o) \in Nat /\ Position(o) = Before(o) + o.offset
        /\ Before(o) + Len(o.spool) = 2 * o.sequence
    <2>1. 0 <= Before(o)
      BY DEF Spooled
    <2>2. Before(o) = 2 * o.sequence - Len(o.spool)
      BY DEF Before
    <2> QED
      BY <1>1, <2>1, <2>2 DEF Position
  <1>4. \A i \in (o.offset + 1)..s : o.spool[i] \in Units
    BY <1>1, <1>2, ElementOfSeq
  <1>5. /\ Unread(o, s) \in Seq(Units)
        /\ Len(Unread(o, s)) = IF o.offset + 1 <= s THEN s - (o.offset + 1) + 1 ELSE 0
        /\ \A i \in 1..(s - (o.offset + 1) + 1) : Unread(o, s)[i] = o.spool[(o.offset + 1) + i - 1]
    <2>1. o.offset + 1 \in Int /\ s \in Int
      BY <1>1, <1>2
    <2> QED
      BY <1>4, <2>1, SubSeqProperties DEF Unread
  <1>6. Len(Unread(o, s)) = s - o.offset
    BY <1>1, <1>2, <1>5
  <1>7. \A i \in 1..(s - o.offset) : Unread(o, s)[i] = Unit(Position(o) + i)
    <2> TAKE i \in 1..(s - o.offset)
    <2>1. i \in 1..(s - (o.offset + 1) + 1) /\ (o.offset + 1) + i - 1 = o.offset + i
          /\ o.offset + i \in 1..Len(o.spool) /\ Before(o) + (o.offset + i) = Position(o) + i
      <3> DEFINE b == Before(o)
                 g == o.offset
                 l == Len(o.spool)
      <3>1. b \in Nat /\ g \in Nat /\ l \in Nat /\ s \in Nat /\ s <= l /\ i \in 1..(s - g)
            /\ Position(o) = b + g
        BY <1>1, <1>2, <1>3
      <3> HIDE DEF b, g, l
      <3>2. i \in 1..(s - (g + 1) + 1) /\ (g + 1) + i - 1 = g + i
            /\ g + i \in 1..l /\ b + (g + i) = (b + g) + i
        BY <3>1
      <3> QED
        BY <3>1, <3>2 DEF b, g, l
    <2>2. o.spool[o.offset + i] = Unit(Before(o) + (o.offset + i))
      BY <2>1 DEF Spooled
    <2> QED
      BY <1>5, <2>1, <2>2
  <1>8. (Before(o) + s) - Position(o) = s - o.offset /\ Position(o) <= Before(o) + s
        /\ Before(o) + s <= 2 * o.sequence
    BY <1>1, <1>2, <1>3
  <1> QED
    BY <1>3, <1>5, <1>6, <1>7, <1>8 DEF Carries

LEMMA NothingUnread ==
  ASSUME NEW o \in Outputs, NEW q \in Seq(Units)
  PROVE  q \o Unread(o, o.offset) = q
  <1>1. o.offset + 1 \in Int /\ o.offset \in Int /\ o.offset < o.offset + 1
    BY DEF Outputs
  <1>2. Unread(o, o.offset) = <<>>
    BY <1>1, SubSeqEmpty DEF Unread
  <1> QED
    BY <1>2, ConcatEmptySeq

\* What a loop of the pump does to the spool, up to where it stops.
LEMMA WrittenKeeps ==
  ASSUME NEW o \in Outputs, Spooled(o), o.conn # 0, NEW s \in o.offset..End(o),
         \/ s = o.offset /\ output' = o /\ (o.offset = End(o) \/ o.pumping)
         \/ s = End(o) /\ output' = Compact([o EXCEPT !.offset = End(o)])
         \/ output' = [o EXCEPT !.offset = s, !.pumping = TRUE]
  PROVE  /\ output' \in Outputs /\ Spooled(output') /\ Pumped(output')
         /\ output'.sequence = o.sequence /\ output'.acknowledged = o.acknowledged
         /\ output'.conn = o.conn /\ output'.closed = o.closed
         /\ Position(output') = Before(o) + s
  <1>1. Len(o.spool) \in Nat /\ o.offset \in Nat /\ s \in Nat /\ s <= Len(o.spool)
    BY DEF Outputs, End
  <1>2. CASE s = o.offset /\ output' = o /\ (o.offset = End(o) \/ o.pumping)
    BY <1>2 DEF Pumped, Position, End
  <1>3. CASE s = End(o) /\ output' = Compact([o EXCEPT !.offset = End(o)])
    <2> DEFINE p == [o EXCEPT !.offset = End(o)]
    <2>1. /\ p.offset = s /\ p.sequence = o.sequence /\ p.acknowledged = o.acknowledged
          /\ p.ends = o.ends /\ p.spool = o.spool /\ p.acknowledgedOffset = o.acknowledgedOffset
          /\ p.conn = o.conn /\ p.pumping = o.pumping /\ p.closed = o.closed /\ p \in Outputs
      BY <1>1, <1>3 DEF Outputs, End
    <2> HIDE DEF p
    <2>2. Before(p) = Before(o) /\ Position(p) = Before(o) + s
      BY <2>1 DEF Before, Position
    <2>3. Spooled(p) /\ Pumped(p)
      BY <1>1, <1>3, <2>1, <2>2 DEF Spooled, Pumped, End
    <2>4. output' = Compact(p)
      BY <1>3 DEF p
    <2> QED
      BY <2>1, <2>2, <2>3, <2>4, CompactKeeps DEF Same
  <1>4. CASE output' = [o EXCEPT !.offset = s, !.pumping = TRUE]
    <2>1. /\ output'.offset = s /\ output'.sequence = o.sequence
          /\ output'.acknowledged = o.acknowledged /\ output'.ends = o.ends
          /\ output'.spool = o.spool /\ output'.acknowledgedOffset = o.acknowledgedOffset
          /\ output'.conn = o.conn /\ output'.pumping = TRUE /\ output'.closed = o.closed
          /\ output' \in Outputs
      BY <1>1, <1>4 DEF Outputs
    <2>2. Before(output') = Before(o) /\ Position(output') = Before(o) + s
      BY <2>1 DEF Before, Position
    <2> QED
      BY <1>1, <2>1, <2>2 DEF Spooled, Pumped
  <1> QED
    BY <1>2, <1>3, <1>4

LEMMA PumpKeeps ==
  ASSUME NEW o \in Outputs, Spooled(o), down \in Seq(Units), Pump(o)
  PROVE  /\ output' \in Outputs /\ Spooled(output') /\ Pumped(output')
         /\ output'.sequence = o.sequence /\ output'.acknowledged = o.acknowledged
         /\ output'.conn = o.conn /\ output'.closed = o.closed
         /\ o.conn = 0 => down' = down
         /\ o.conn # 0 => \E s \in o.offset..End(o) :
              /\ Position(output') = Before(o) + s
              /\ down' = IF Watching(o.conn) THEN down \o Unread(o, s) ELSE down
  <1>1. CASE o.conn = 0
    BY <1>1 DEF Pump, Pumped
  <1>2. CASE o.conn # 0
    <2>1. ~o.closed /\ o.offset \in o.offset..End(o) /\ End(o) \in o.offset..End(o)
          /\ Stops(o) \in SUBSET (o.offset..End(o))
      <3>1. o.offset \in Nat /\ End(o) \in Nat /\ o.offset <= End(o)
        BY DEF Outputs, Spooled, End
      <3> QED
        BY <1>2, <3>1 DEF Stops, Spooled
    <2>2. CASE o.pumping \/ o.offset = End(o)
      <3>1. output' = o /\ down' = down
        BY <2>2 DEF Pump
      <3>2. down \o Unread(o, o.offset) = down
        BY NothingUnread
      <3> QED
        BY <1>2, <2>1, <2>2, <3>1, <3>2, WrittenKeeps
    <2>3. CASE ~(o.pumping \/ o.offset = End(o))
      <3>1. \/ /\ output' = Compact([o EXCEPT !.offset = End(o)])
               /\ down' = Written(o.conn, Unread(o, End(o)))
            \/ \E s \in Stops(o) : /\ output' = [o EXCEPT !.offset = s, !.pumping = TRUE]
                                   /\ down' = Written(o.conn, Unread(o, s))
        BY <1>2, <2>1, <2>3 DEF Pump
      <3>2. CASE /\ output' = Compact([o EXCEPT !.offset = End(o)])
                 /\ down' = Written(o.conn, Unread(o, End(o)))
        BY <1>2, <2>1, <3>2, WrittenKeeps DEF Written
      <3>3. ASSUME NEW s \in Stops(o), output' = [o EXCEPT !.offset = s, !.pumping = TRUE],
                   down' = Written(o.conn, Unread(o, s))
            PROVE  /\ output' \in Outputs /\ Spooled(output') /\ Pumped(output')
                   /\ output'.sequence = o.sequence /\ output'.acknowledged = o.acknowledged
                   /\ output'.conn = o.conn /\ output'.closed = o.closed
                   /\ \E r \in o.offset..End(o) :
                        /\ Position(output') = Before(o) + r
                        /\ down' = IF Watching(o.conn) THEN down \o Unread(o, r) ELSE down
        <4>1. s \in o.offset..End(o)
          BY <2>1
        <4> QED
          BY <1>2, <3>3, <4>1, WrittenKeeps DEF Written
      <3> QED
        BY <1>2, <3>1, <3>2, <3>3
    <2> QED
      BY <2>2, <2>3
  <1> QED
    BY <1>1, <1>2

LEMMA DownGrows ==
  ASSUME down \in Seq(Units), NEW o \in Outputs, Spooled(o), NEW c,
         \/ down' = down
         \/ \E s \in o.offset..End(o) :
              down' = IF Watching(c) THEN down \o Unread(o, s) ELSE down
  PROVE  down' \in Seq(Units)
  <1>1. \A s \in o.offset..End(o) : down \o Unread(o, s) \in Seq(Units)
    BY UnreadCarries, ConcatProperties
  <1> QED
    BY <1>1

-----------------------------------------------------------------------------
(* What is on its way to the daemon.                                       *)

\* Perhaps the attachment frame, units of the stream, perhaps the exit frame.
Rest(q, d, a, b, x) ==
  /\ Len(q) = d + (b - a) + x
  /\ d = 1 => q[1] = <<Attached, 0>>
  /\ \A i \in 1..(b - a) : q[d + i] = Unit(a + i)
  /\ x = 1 => q[d + (b - a) + 1] = <<Exit, 0>>

LEMMA RestGrows ==
  ASSUME NEW q \in Seq(Units), NEW r \in Seq(Units), NEW d \in {0, 1},
         NEW a \in Nat, NEW b \in Nat, NEW c \in Nat, a <= b, b <= c,
         Rest(q, d, a, b, 0), Carries(r, b, c)
  PROVE  q \o r \in Seq(Units) /\ Rest(q \o r, d, a, c, 0)
  <1>1. /\ q \o r \in Seq(Units) /\ Len(q \o r) = Len(q) + Len(r)
        /\ \A i \in 1..Len(q) + Len(r) :
             (q \o r)[i] = IF i <= Len(q) THEN q[i] ELSE r[i - Len(q)]
    BY ConcatProperties
  <1> DEFINE e == q \o r
  <1> HIDE DEF e
  <1>2. Len(q) = d + (b - a) /\ Len(r) = c - b
    BY DEF Rest, Carries
  <1>3. \A i \in 1..(c - a) : e[d + i] = Unit(a + i)
    <2> TAKE i \in 1..(c - a)
    <2>1. d + i \in 1..Len(q) + Len(r)
      BY <1>2
    <2>2. CASE i <= b - a
      <3>1. d + i <= Len(q) /\ i \in 1..(b - a)
        BY <1>2, <2>2
      <3> QED
        BY <1>1, <2>1, <3>1 DEF Rest, e
    <2>3. CASE i > b - a
      <3>1. ~(d + i <= Len(q)) /\ d + i - Len(q) = i - (b - a) /\ i - (b - a) \in 1..(c - b)
            /\ b + (i - (b - a)) = a + i
        BY <1>2, <2>3
      <3>2. r[i - (b - a)] = Unit(b + (i - (b - a)))
        BY <3>1 DEF Carries
      <3> QED
        BY <1>1, <2>1, <3>1, <3>2 DEF e
    <2>4. i <= b - a \/ i > b - a
      OBVIOUS
    <2> QED
      BY <2>2, <2>3, <2>4
  <1>4. d = 1 => e[1] = <<Attached, 0>>
    <2> SUFFICES ASSUME d = 1 PROVE e[1] = <<Attached, 0>>
      OBVIOUS
    <2>1. 1 \in 1..Len(q) + Len(r) /\ 1 <= Len(q)
      BY <1>2
    <2> QED
      BY <1>1, <2>1 DEF Rest, e
  <1>5. Len(e) = d + (c - a) + 0
    BY <1>1, <1>2 DEF e
  <1>6. e \in Seq(Units)
    BY <1>1 DEF e
  <1>7. Rest(e, d, a, c, 0)
    BY <1>3, <1>4, <1>5 DEF Rest
  <1> QED
    BY <1>6, <1>7 DEF e

LEMMA RestEnds ==
  ASSUME NEW q \in Seq(Units), NEW d \in {0, 1}, NEW a \in Nat, NEW b \in Nat, a <= b,
         Rest(q, d, a, b, 0)
  PROVE  q \o Frame(Exit) \in Seq(Units) /\ Rest(q \o Frame(Exit), d, a, b, 1)
  <1>1. Frame(Exit) \in Seq(Units) /\ Len(Frame(Exit)) = 1 /\ Frame(Exit)[1] = <<Exit, 0>>
    BY DEF Frame, Units, Exit
  <1>2. /\ q \o Frame(Exit) \in Seq(Units) /\ Len(q \o Frame(Exit)) = Len(q) + 1
        /\ \A i \in 1..Len(q) + 1 :
             (q \o Frame(Exit))[i] = IF i <= Len(q) THEN q[i] ELSE Frame(Exit)[i - Len(q)]
    <2> DEFINE f == Frame(Exit)
    <2>1. f \in Seq(Units) /\ Len(f) = 1
      BY <1>1
    <2> HIDE DEF f
    <2>2. /\ q \o f \in Seq(Units) /\ Len(q \o f) = Len(q) + Len(f)
          /\ \A i \in 1..Len(q) + Len(f) : (q \o f)[i] = IF i <= Len(q) THEN q[i] ELSE f[i - Len(q)]
      BY <2>1, ConcatProperties
    <2> QED
      BY <2>1, <2>2 DEF f
  <1> DEFINE e == q \o Frame(Exit)
  <1> HIDE DEF e
  <1>3. Len(q) = d + (b - a) /\ Len(q) \in Nat
    BY DEF Rest
  <1>4. \A i \in 1..Len(q) : e[i] = q[i]
    <2> TAKE i \in 1..Len(q)
    <2>1. i \in 1..Len(q) + 1 /\ i <= Len(q)
      BY <1>3
    <2> QED
      BY <1>2, <2>1 DEF e
  <1>5. e[Len(q) + 1] = <<Exit, 0>>
    <2>1. Len(q) + 1 \in 1..Len(q) + 1 /\ ~(Len(q) + 1 <= Len(q)) /\ Len(q) + 1 - Len(q) = 1
      BY <1>3
    <2> QED
      BY <1>1, <1>2, <2>1 DEF e
  <1>6. \A i \in 1..(b - a) : e[d + i] = Unit(a + i)
    <2> TAKE i \in 1..(b - a)
    <2>1. d + i \in 1..Len(q)
      BY <1>3
    <2> QED
      BY <1>4, <2>1 DEF Rest
  <1>7. d = 1 => e[1] = <<Attached, 0>>
    <2>1. d = 1 => 1 \in 1..Len(q)
      BY <1>3
    <2> QED
      BY <1>4, <2>1 DEF Rest
  <1>8. Len(e) = d + (b - a) + 1 /\ e \in Seq(Units)
    BY <1>2, <1>3 DEF e
  <1> QED
    BY <1>3, <1>5, <1>6, <1>7, <1>8 DEF Rest, e

\* What one read takes.
LEMMA RestRead ==
  ASSUME NEW q \in Seq(Units), q # <<>>, NEW d \in {0, 1}, NEW x \in {0, 1},
         NEW a \in Nat, NEW b \in Nat, a <= b, Rest(q, d, a, b, x)
  PROVE  /\ Tail(q) \in Seq(Units) /\ Head(q) \in Units
         /\ \/ d = 1 /\ Head(q) = <<Attached, 0>> /\ Rest(Tail(q), 0, a, b, x)
            \/ d = 0 /\ a < b /\ Head(q) = Unit(a + 1) /\ Rest(Tail(q), 0, a + 1, b, x)
            \/ d = 0 /\ a = b /\ x = 1 /\ Head(q) = <<Exit, 0>>
  <1>1. /\ Head(q) = q[1] /\ Head(q) \in Units /\ Tail(q) \in Seq(Units)
        /\ Len(Tail(q)) = Len(q) - 1
        /\ \A i \in 1..Len(Tail(q)) : Tail(q)[i] = q[i + 1]
    BY HeadTailProperties
  <1> DEFINE r == Tail(q)
  <1> HIDE DEF r
  <1>2. Len(q) = d + (b - a) + x /\ Len(q) # 0 /\ Len(r) = Len(q) - 1
        /\ \A i \in 1..(Len(q) - 1) : r[i] = q[i + 1]
    BY <1>1, EmptySeq DEF Rest, r
  <1>3. CASE d = 1
    <2>1. Len(r) = 0 + (b - a) + x
      BY <1>2, <1>3
    <2>2. \A i \in 1..(b - a) : r[0 + i] = Unit(a + i)
      <3> TAKE i \in 1..(b - a)
      <3>1. i \in 1..(Len(q) - 1) /\ 0 + i = i /\ i + 1 = d + i
        BY <1>2, <1>3
      <3> QED
        BY <1>2, <3>1 DEF Rest
    <2>3. x = 1 => r[0 + (b - a) + 1] = <<Exit, 0>>
      <3> SUFFICES ASSUME x = 1 PROVE r[0 + (b - a) + 1] = <<Exit, 0>>
        OBVIOUS
      <3>1. (b - a) + 1 \in 1..(Len(q) - 1) /\ 0 + (b - a) + 1 = (b - a) + 1
            /\ ((b - a) + 1) + 1 = d + (b - a) + 1
        BY <1>2, <1>3
      <3> QED
        BY <1>2, <3>1 DEF Rest
    <2> QED
      BY <1>1, <1>3, <2>1, <2>2, <2>3 DEF Rest, r
  <1>4. CASE d = 0 /\ a < b
    <2>1. Len(r) = 0 + (b - (a + 1)) + x
      BY <1>2, <1>4
    <2>2. \A i \in 1..(b - (a + 1)) : r[0 + i] = Unit((a + 1) + i)
      <3> TAKE i \in 1..(b - (a + 1))
      <3>1. i \in 1..(Len(q) - 1) /\ 0 + i = i /\ i + 1 = d + (i + 1) /\ i + 1 \in 1..(b - a)
            /\ a + (i + 1) = (a + 1) + i
        BY <1>2, <1>4
      <3>2. q[d + (i + 1)] = Unit(a + (i + 1))
        BY <3>1 DEF Rest
      <3> QED
        BY <1>2, <3>1, <3>2
    <2>3. x = 1 => r[0 + (b - (a + 1)) + 1] = <<Exit, 0>>
      <3> SUFFICES ASSUME x = 1 PROVE r[0 + (b - (a + 1)) + 1] = <<Exit, 0>>
        OBVIOUS
      <3>1. b - a \in 1..(Len(q) - 1) /\ 0 + (b - (a + 1)) + 1 = b - a
            /\ (b - a) + 1 = d + (b - a) + 1
        BY <1>2, <1>4
      <3>2. q[d + (b - a) + 1] = <<Exit, 0>>
        BY DEF Rest
      <3> QED
        BY <1>2, <3>1, <3>2
    <2>4. Head(q) = Unit(a + 1)
      <3>1. 1 \in 1..(b - a) /\ d + 1 = 1
        BY <1>4
      <3> QED
        BY <1>1, <3>1 DEF Rest
    <2> QED
      BY <1>1, <1>4, <2>1, <2>2, <2>3, <2>4 DEF Rest, r
  <1>5. CASE d = 0 /\ a = b
    <2>1. x = 1 /\ d + (b - a) + 1 = 1
      BY <1>2, <1>5
    <2> QED
      BY <1>1, <1>5, <2>1 DEF Rest
  <1> QED
    BY <1>3, <1>4, <1>5

-----------------------------------------------------------------------------
(* The invariant.                                                          *)

\* The runner serves one connection of those the daemons opened, the last it
\* accepted, until the session ends.
Connections ==
  /\ output.conn \in {0, accepted}
  /\ output.conn # 0 => hostOpen
  /\ output.closed => output.conn = 0 /\ ~hostOpen
  /\ hostOpen => accepted # 0
  /\ client.phase = "open" => opened # 0
  /\ client.phase = "open" /\ accepted = opened => hostOpen \/ output.closed
  /\ client.phase = "retry" => ~client.connected

\* A connection begins with its attachment, with the cursor of the daemon.
Attachments ==
  \A c \in 1..MaxConns : \A i \in 1..Len(up[c]) :
    /\ c <= opened
    /\ c > accepted => i = 1 /\ up[c][i][1] = "attach"
    /\ c = accepted /\ up[c][i][1] = "attach" => i = 1 /\ output.conn = 0
    /\ c = opened /\ client.phase = "open" /\ ~output.closed /\ up[c][i][1] = "attach"
         => up[c][i][2] = client.cursor

\* Nothing is acknowledged that was not handed over; and what a daemon was
\* handed it may have acknowledged, but nothing later.
Handed ==
  /\ client.cursor <= high /\ high <= output.sequence
  /\ output.acknowledged <= high
  /\ client.cursor # 0 => output.acknowledged <= client.cursor

Acknowledgements ==
  \A c \in 1..MaxConns : \A i \in 1..Len(up[c]) :
    c \in {accepted, opened} /\ up[c][i][1] = "ack" =>
      /\ 0 < up[c][i][2] /\ up[c][i][2] <= high
      /\ client.cursor # 0 \/ (c = opened /\ client.phase = "open")
           => up[c][i][2] <= client.cursor

Silent == down = <<>> /\ client.partial = <<>> /\ ~client.connected

\* The daemon has read s events and h units of the next on this connection, and
\* the stream is under way to it up to the unit t: from where it was attached,
\* which is right behind its cursor or, for a new daemon, behind what others
\* acknowledged.
Flowing(s, h, t, d, x) ==
  /\ 2 * s + h <= t /\ t <= 2 * output.sequence
  /\ Rest(down, d, 2 * s + h, t, x)
  /\ d = 1 => ~client.connected /\ h = 0
  /\ x = 1 => output.closed
  /\ client.partial = IF h = 1 THEN <<<<s + 1, 1>>>> ELSE <<>>
  /\ d = 1 \/ client.connected =>
       /\ client.cursor <= s /\ s <= high /\ output.acknowledged <= s
       /\ client.cursor # 0 => s = client.cursor
  /\ ~(d = 1 \/ client.connected) => output.conn = 0 /\ t = 2 * s /\ h = 0
  /\ output.conn # 0 => t = Position(output)

Unattached == accepted < opened \/ (output.conn = 0 /\ ~output.closed)

Flow ==
  client.phase = "open" =>
    /\ Unattached => Silent
    /\ ~Unattached => \E s \in Nat, h \in {0, 1}, t \in Nat, d \in {0, 1}, x \in {0, 1} :
                        Flowing(s, h, t, d, x)

LinkInv ==
  /\ TypeOK /\ Spooled(output) /\ Pumped(output) /\ Connections
  /\ Attachments /\ Handed /\ Acknowledgements /\ Flow

-----------------------------------------------------------------------------
(* What is on its way to the runner.                                       *)

\* Some frames are lost, from the end.
Less ==
  /\ up' \in [1..MaxConns -> Seq(Frames)]
  /\ \A c \in 1..MaxConns :
       /\ Len(up'[c]) <= Len(up[c])
       /\ \A i \in 1..Len(up'[c]) : up'[c][i] = up[c][i]

LEMMA UnchangedLess ==
  ASSUME TypeOK, up' = up
  PROVE  Less
  <1>1. \A c \in 1..MaxConns : Len(up[c]) \in Nat
    BY DEF TypeOK
  <1> QED
    BY <1>1 DEF TypeOK, Less

LEMMA ClearedLess ==
  ASSUME TypeOK, NEW k \in 1..MaxConns, up' = [up EXCEPT ![k] = <<>>]
  PROVE  Less
  <1>1. \A c \in 1..MaxConns : up[c] \in Seq(Frames) /\ Len(up[c]) \in Nat
    BY DEF TypeOK
  <1>2. <<>> \in Seq(Frames) /\ Len(<<>>) = 0
    OBVIOUS
  <1>3. up' \in [1..MaxConns -> Seq(Frames)]
    BY <1>2 DEF TypeOK
  <1>4. ASSUME NEW c \in 1..MaxConns
        PROVE  Len(up'[c]) <= Len(up[c]) /\ \A i \in 1..Len(up'[c]) : up'[c][i] = up[c][i]
    <2>1. CASE c = k
      <3>1. up'[c] = <<>>
        BY <2>1 DEF TypeOK
      <3> QED
        BY <1>1, <1>2, <3>1
    <2>2. CASE c # k
      <3>1. up'[c] = up[c]
        BY <2>2 DEF TypeOK
      <3> QED
        BY <1>1, <3>1
    <2> QED
      BY <2>1, <2>2
  <1> QED
    BY <1>3, <1>4 DEF Less

LEMMA CutLess ==
  ASSUME TypeOK, opened # 0, Cut
  PROVE  Less
  <1>1. \A c \in 1..MaxConns : up[c] \in Seq(Frames) /\ Len(up[c]) \in Nat
    <2>1. up \in [1..MaxConns -> Seq(Frames)]
      BY DEF TypeOK
    <2> QED
      BY <2>1
  <1>2. opened \in 1..MaxConns
    BY LinkAssumption DEF TypeOK
  <1>3. PICK k \in 0..Len(up[opened]) : up' = [up EXCEPT ![opened] = SubSeq(up[opened], 1, k)]
    BY DEF Cut
  <1> DEFINE q == SubSeq(up[opened], 1, k)
  <1>4. /\ q \in Seq(Frames) /\ Len(q) = k /\ \A i \in 1..k : q[i] = up[opened][i]
    <2>1. 1 \in Int /\ k \in Int /\ \A i \in 1..k : up[opened][i] \in Frames
      BY <1>1, <1>2, ElementOfSeq
    <2>2. /\ q \in Seq(Frames) /\ Len(q) = (IF 1 <= k THEN k - 1 + 1 ELSE 0)
          /\ \A i \in 1..(k - 1 + 1) : q[i] = up[opened][1 + i - 1]
      BY <2>1, SubSeqProperties
    <2> HIDE DEF q
    <2>3. k \in Nat /\ k - 1 + 1 = k
      BY <1>1, <1>2
    <2>4. ASSUME NEW i \in 1..k PROVE q[i] = up[opened][i]
      <3>1. 1 + i - 1 = i
        OBVIOUS
      <3> QED
        BY <2>2, <2>3, <3>1
    <2>5. Len(q) = k
      BY <2>2, <2>3
    <2> QED
      BY <2>2, <2>4, <2>5
  <1>5. up' = [up EXCEPT ![opened] = q]
    BY <1>3
  <1> HIDE DEF q
  <1>6. up' \in [1..MaxConns -> Seq(Frames)]
    BY <1>4, <1>5 DEF TypeOK
  <1>7. ASSUME NEW c \in 1..MaxConns
        PROVE  Len(up'[c]) <= Len(up[c]) /\ \A i \in 1..Len(up'[c]) : up'[c][i] = up[c][i]
    <2>1. CASE c = opened
      <3>1. up'[c] = q /\ Len(q) = k /\ k <= Len(up[c])
        BY <1>1, <1>2, <1>4, <1>5, <2>1 DEF TypeOK
      <3> QED
        BY <1>4, <2>1, <3>1
    <2>2. CASE c # opened
      <3>1. up'[c] = up[c]
        BY <1>5, <2>2 DEF TypeOK
      <3> QED
        BY <1>1, <3>1
    <2> QED
      BY <2>1, <2>2
  <1> QED
    BY <1>6, <1>7 DEF Less

LEMMA ReceivedRest ==
  ASSUME TypeOK, Connections, NEW f, Received(f)
  PROVE  /\ accepted \in 1..MaxConns /\ f \in Frames /\ up' \in [1..MaxConns -> Seq(Frames)]
         /\ 1 \in 1..Len(up[accepted]) /\ up[accepted][1] = f
         /\ Len(up'[accepted]) = Len(up[accepted]) - 1
         /\ \A i \in 1..Len(up'[accepted]) :
              i + 1 \in 1..Len(up[accepted]) /\ up'[accepted][i] = up[accepted][i + 1]
         /\ \A c \in 1..MaxConns \ {accepted} : up'[c] = up[c]
  <1>1. accepted \in 1..MaxConns
    BY LinkAssumption DEF TypeOK, Connections, Received
  <1>2. up[accepted] \in Seq(Frames) /\ up[accepted] # <<>> /\ Head(up[accepted]) = f
        /\ up' = [up EXCEPT ![accepted] = Tail(up[accepted])]
    BY <1>1 DEF TypeOK, Received
  <1> DEFINE q == up[accepted]
  <1>3. /\ Head(q) \in Frames /\ Tail(q) \in Seq(Frames) /\ Len(Tail(q)) = Len(q) - 1
        /\ \A i \in 1..Len(Tail(q)) : Tail(q)[i] = q[i + 1]
    BY <1>2, HeadTailProperties
  <1>4. Len(q) \in Nat \ {0} /\ Head(q) = q[1]
    BY <1>2, EmptySeq
  <1>5. /\ up'[accepted] = Tail(q) /\ up' \in [1..MaxConns -> Seq(Frames)]
        /\ \A c \in 1..MaxConns \ {accepted} : up'[c] = up[c]
    BY <1>1, <1>2, <1>3 DEF TypeOK
  <1> HIDE DEF q
  <1>6. ASSUME NEW i \in 1..Len(up'[accepted])
        PROVE  i + 1 \in 1..Len(q) /\ up'[accepted][i] = q[i + 1]
    BY <1>3, <1>4, <1>5, <1>6
  <1>7. 1 \in 1..Len(q)
    BY <1>4
  <1>8. Len(up'[accepted]) = Len(q) - 1 /\ f \in Frames /\ q[1] = f
    BY <1>2, <1>3, <1>4, <1>5 DEF q
  <1> QED
    BY <1>1, <1>5, <1>6, <1>7, <1>8 DEF q

LEMMA SentMore ==
  ASSUME TypeOK, opened # 0, NEW fs \in Seq(Frames), Sent(fs)
  PROVE  /\ opened \in 1..MaxConns /\ up' \in [1..MaxConns -> Seq(Frames)]
         /\ \A c \in 1..MaxConns \ {opened} : up'[c] = up[c]
         /\ \A i \in 1..Len(up'[opened]) :
              \/ i \in 1..Len(up[opened]) /\ up'[opened][i] = up[opened][i]
              \/ /\ i > Len(up[opened]) /\ i - Len(up[opened]) \in 1..Len(fs)
                 /\ up'[opened][i] = fs[i - Len(up[opened])]
  <1>1. opened \in 1..MaxConns
    BY LinkAssumption DEF TypeOK
  <1> DEFINE q == up[opened]
             e == q \o fs
  <1>2. q \in Seq(Frames) /\ up' = [up EXCEPT ![opened] = e]
    BY <1>1 DEF TypeOK, Sent
  <1>3. /\ e \in Seq(Frames) /\ Len(e) = Len(q) + Len(fs)
        /\ \A i \in 1..Len(q) + Len(fs) : e[i] = IF i <= Len(q) THEN q[i] ELSE fs[i - Len(q)]
    <2> HIDE DEF q
    <2> QED
      BY <1>2, ConcatProperties
  <1>4. Len(q) \in Nat /\ Len(fs) \in Nat
    BY <1>2
  <1> HIDE DEF e
  <1>5. /\ up'[opened] = e /\ up' \in [1..MaxConns -> Seq(Frames)]
        /\ \A c \in 1..MaxConns \ {opened} : up'[c] = up[c]
    BY <1>1, <1>2, <1>3 DEF TypeOK
  <1> HIDE DEF q
  <1>6. ASSUME NEW i \in 1..Len(up'[opened])
        PROVE  \/ i \in 1..Len(q) /\ up'[opened][i] = q[i]
               \/ /\ i > Len(q) /\ i - Len(q) \in 1..Len(fs)
                  /\ up'[opened][i] = fs[i - Len(q)]
    BY <1>3, <1>4, <1>5, <1>6
  <1> QED
    BY <1>1, <1>5, <1>6 DEF q

-----------------------------------------------------------------------------
(* The frames that remain, and those that are added.                       *)

\* Frames that were lost, and a daemon that keeps its cursor or leaves.
LEMMA LessKeeps ==
  ASSUME TypeOK, TypeOK', Connections, Attachments, Acknowledgements, Less,
         accepted' = accepted, opened' = opened,
         output'.conn \in {output.conn, 0}, output.closed => output'.closed,
         high <= high', client'.phase = "open" => client.phase = "open",
         \/ client'.cursor = client.cursor
         \/ client'.cursor = 0 /\ client'.phase # "open"
  PROVE  Attachments' /\ Acknowledgements'
  <1>1. ASSUME NEW c \in 1..MaxConns, NEW i \in 1..Len(up'[c])
        PROVE  i \in 1..Len(up[c]) /\ up'[c][i] = up[c][i]
    <2>1. Len(up[c]) \in Nat /\ Len(up'[c]) \in Nat
      BY DEF TypeOK, Less
    <2> QED
      BY <2>1 DEF Less
  <1>2. Attachments'
    BY <1>1 DEF Attachments
  <1>3. ASSUME NEW c \in 1..MaxConns, NEW i \in 1..Len(up'[c]), c \in {accepted, opened},
               up'[c][i][1] = "ack"
        PROVE  /\ 0 < up'[c][i][2] /\ up'[c][i][2] <= high'
               /\ client'.cursor # 0 \/ (c = opened /\ client'.phase = "open")
                    => up'[c][i][2] <= client'.cursor
    <2>1. up'[c][i][2] \in Nat
      <3>1. up'[c] \in Seq(Frames)
        BY DEF Less
      <3>2. up'[c][i] \in Frames
        BY <3>1, ElementOfSeq
      <3> QED
        BY <3>2 DEF Frames
    <2>2. high \in Nat /\ high' \in Nat
      BY DEF TypeOK
    <2>3. /\ 0 < up'[c][i][2] /\ up'[c][i][2] <= high
          /\ client.cursor # 0 \/ (c = opened /\ client.phase = "open")
               => up'[c][i][2] <= client.cursor
      BY <1>1, <1>3 DEF Acknowledgements
    <2> QED
      BY <2>1, <2>2, <2>3
  <1> QED
    BY <1>2, <1>3 DEF Acknowledgements

\* A frame that was received, and nothing the daemon did.
LEMMA ReceivedKeeps ==
  ASSUME TypeOK, Connections, Attachments, Acknowledgements, NEW f, Received(f),
         accepted' = accepted, opened' = opened, output.closed => output'.closed,
         UNCHANGED <<client, high>>
  PROVE  Attachments' /\ Acknowledgements'
  <1>1. /\ \A i \in 1..Len(up'[accepted]) :
             i + 1 \in 1..Len(up[accepted]) /\ up'[accepted][i] = up[accepted][i + 1]
        /\ \A c \in 1..MaxConns \ {accepted} : up'[c] = up[c]
        /\ accepted \in 1..MaxConns /\ up' \in [1..MaxConns -> Seq(Frames)]
    BY ReceivedRest
  <1>2. Attachments'
    <2>1. ASSUME NEW i \in 1..Len(up'[accepted])
          PROVE  up'[accepted][i][1] # "attach" /\ accepted <= opened
      <3>1. i + 1 # 1
        <4>1. Len(up'[accepted]) \in Nat
          BY <1>1
        <4> QED
          BY <4>1
      <3>2. up[accepted][i + 1][1] # "attach"
        BY <1>1, <3>1 DEF Attachments
      <3> QED
        BY <1>1, <3>2 DEF Attachments
    <2>2. ASSUME NEW c \in 1..MaxConns, c # accepted, NEW i \in 1..Len(up'[c])
          PROVE  /\ c <= opened
                 /\ c > accepted => i = 1 /\ up'[c][i][1] = "attach"
                 /\ c = opened /\ client.phase = "open" /\ ~output'.closed
                      /\ up'[c][i][1] = "attach" => up'[c][i][2] = client.cursor
      BY <1>1, <2>2 DEF Attachments
    <2>3. ~(accepted > accepted)
      BY <1>1
    <2> QED
      BY <2>1, <2>2, <2>3 DEF Attachments
  <1>3. Acknowledgements'
    <2>1. ASSUME NEW c \in 1..MaxConns, NEW i \in 1..Len(up'[c])
          PROVE  \E j \in 1..Len(up[c]) : up'[c][i] = up[c][j]
      <3>1. CASE c = accepted
        BY <1>1, <3>1
      <3>2. CASE c # accepted
        BY <1>1, <3>2
      <3> QED
        BY <3>1, <3>2
    <2> QED
      BY <2>1 DEF Acknowledgements
  <1> QED
    BY <1>2, <1>3

\* What an attached daemon adds are commands, and the acknowledgement of its
\* cursor.
LEMMA SentKeeps ==
  ASSUME TypeOK, TypeOK', Connections, Attachments, Acknowledgements,
         opened # 0, accepted = opened, output.conn # 0 \/ output.closed,
         NEW fs \in Seq(Frames), Sent(fs),
         \A i \in 1..Len(fs) :
           fs[i][1] = "command" \/ (fs[i][1] = "ack" /\ fs[i][2] = client'.cursor),
         client.phase = "open", client.cursor <= client'.cursor, client'.cursor <= high',
         client'.cursor # client.cursor => client'.cursor # 0,
         \A i \in 1..Len(fs) : fs[i][1] = "ack" => client'.cursor # 0,
         high <= high', UNCHANGED <<accepted, opened, output>>
  PROVE  Attachments' /\ Acknowledgements'
  <1>1. /\ opened \in 1..MaxConns /\ up' \in [1..MaxConns -> Seq(Frames)]
        /\ \A c \in 1..MaxConns \ {opened} : up'[c] = up[c]
        /\ \A i \in 1..Len(up'[opened]) :
             \/ i \in 1..Len(up[opened]) /\ up'[opened][i] = up[opened][i]
             \/ \E j \in 1..Len(fs) : up'[opened][i] = fs[j]
    BY SentMore
  <1>2. Attachments'
    <2>1. ASSUME NEW i \in 1..Len(up'[opened]), up'[opened][i][1] = "attach"
          PROVE  i = 1 /\ output.conn = 0 /\ output.closed
      <3>1. CASE i \in 1..Len(up[opened]) /\ up'[opened][i] = up[opened][i]
        BY <1>1, <2>1, <3>1 DEF Attachments
      <3>2. CASE \E j \in 1..Len(fs) : up'[opened][i] = fs[j]
        BY <2>1, <3>2
      <3> QED
        BY <1>1, <3>1, <3>2
    <2>2. ASSUME NEW c \in 1..MaxConns, c # opened, NEW i \in 1..Len(up'[c])
          PROVE  /\ c <= opened
                 /\ c > accepted => i = 1 /\ up'[c][i][1] = "attach"
                 /\ c = accepted /\ up'[c][i][1] = "attach" => i = 1 /\ output.conn = 0
      BY <1>1, <2>2 DEF Attachments
    <2>3. opened <= opened /\ ~(opened > opened)
      BY <1>1
    <2> QED
      BY <2>1, <2>2, <2>3 DEF Attachments
  <1>3. Acknowledgements'
    <2> SUFFICES ASSUME NEW i \in 1..Len(up'[opened]), up'[opened][i][1] = "ack"
                 PROVE  /\ 0 < up'[opened][i][2] /\ up'[opened][i][2] <= high'
                        /\ up'[opened][i][2] <= client'.cursor
      BY <1>1 DEF Acknowledgements
    <2>1. client.cursor \in Nat /\ client'.cursor \in Nat /\ high \in Nat /\ high' \in Nat
      BY DEF TypeOK, Clients
    <2>2. CASE i \in 1..Len(up[opened]) /\ up'[opened][i] = up[opened][i]
      <3>1. up[opened][i][2] \in Nat
        <4>1. up[opened] \in Seq(Frames)
          BY <1>1 DEF TypeOK
        <4>2. up[opened][i] \in Frames
          BY <2>2, <4>1, ElementOfSeq
        <4> QED
          BY <4>2 DEF Frames
      <3>2. 0 < up[opened][i][2] /\ up[opened][i][2] <= high /\ up[opened][i][2] <= client.cursor
        BY <1>1, <2>2 DEF Acknowledgements
      <3> QED
        BY <2>1, <2>2, <3>1, <3>2
    <2>3. CASE \E j \in 1..Len(fs) : up'[opened][i] = fs[j]
      BY <2>1, <2>3
    <2> QED
      BY <1>1, <2>2, <2>3
  <1> QED
    BY <1>2, <1>3

\* The frames of the connection before are gone, and the new one has its
\* attachment.
LEMMA AcceptKeeps ==
  ASSUME TypeOK, Attachments, Acknowledgements, Less, accepted < opened,
         accepted' = accepted + 1, output'.conn = 0, output'.closed = output.closed,
         UNCHANGED <<client, opened, high>>
  PROVE  Attachments' /\ Acknowledgements'
  <1>1. ASSUME NEW c \in 1..MaxConns, NEW i \in 1..Len(up'[c])
        PROVE  i \in 1..Len(up[c]) /\ up'[c][i] = up[c][i]
    <2>1. Len(up[c]) \in Nat /\ Len(up'[c]) \in Nat
      BY DEF TypeOK, Less
    <2> QED
      BY <2>1 DEF Less
  <1>2. accepted \in Nat /\ opened \in Nat
    BY DEF TypeOK
  <1>3. Attachments'
    <2>1. ASSUME NEW c \in 1..MaxConns, NEW i \in 1..Len(up'[c])
          PROVE  /\ c <= opened
                 /\ c > accepted + 1 => i = 1 /\ up'[c][i][1] = "attach"
                 /\ c = accepted + 1 => i = 1
                 /\ c = opened /\ client.phase = "open" /\ ~output.closed
                      /\ up'[c][i][1] = "attach" => up'[c][i][2] = client.cursor
      BY <1>1, <1>2 DEF Attachments
    <2> QED
      BY <2>1 DEF Attachments
  <1>4. Acknowledgements'
    <2>1. ASSUME NEW c \in 1..MaxConns, NEW i \in 1..Len(up'[c]), c = accepted + 1
          PROVE  up'[c][i][1] # "ack"
      BY <1>1, <1>2, <2>1 DEF Attachments
    <2>2. ASSUME NEW c \in 1..MaxConns, NEW i \in 1..Len(up'[c]), c = opened,
                 up'[c][i][1] = "ack"
          PROVE  /\ 0 < up'[c][i][2] /\ up'[c][i][2] <= high
                 /\ client.cursor # 0 \/ (c = opened /\ client.phase = "open")
                      => up'[c][i][2] <= client.cursor
      BY <1>1, <2>2 DEF Acknowledgements
    <2> QED
      BY <2>1, <2>2 DEF Acknowledgements
  <1> QED
    BY <1>3, <1>4

\* A connection begins with its attachment.
LEMMA OpenKeeps ==
  ASSUME TypeOK, Attachments, Acknowledgements, Open
  PROVE  /\ up' \in [1..MaxConns -> Seq(Frames)]
         /\ Attachments' /\ Acknowledgements'
  <1>1. opened + 1 \in 1..MaxConns /\ opened \in Nat /\ accepted \in Nat /\ accepted <= opened
    BY LinkAssumption DEF TypeOK, Open
  <1>2. client.cursor \in Nat /\ client'.cursor = client.cursor /\ client'.phase = "open"
    BY DEF TypeOK, Clients, Open
  <1> DEFINE q == <<<<"attach", client.cursor>>>>
  <1>3. q \in Seq(Frames) /\ Len(q) = 1 /\ q[1] = <<"attach", client.cursor>>
    BY <1>2 DEF Frames
  <1>4. up' = [up EXCEPT ![opened + 1] = q]
    BY DEF Open
  <1> HIDE DEF q
  <1>5. /\ up'[opened + 1] = q /\ up' \in [1..MaxConns -> Seq(Frames)]
        /\ \A c \in 1..MaxConns \ {opened + 1} : up'[c] = up[c]
    BY <1>1, <1>3, <1>4 DEF TypeOK
  <1>6. UNCHANGED <<output, accepted, high>> /\ opened' = opened + 1
    BY DEF Open
  <1>7. ASSUME NEW c \in 1..MaxConns, NEW i \in 1..Len(up'[c]), c # opened + 1
        PROVE  c <= opened /\ c # opened' /\ i \in 1..Len(up[c]) /\ up'[c][i] = up[c][i]
    <2>1. c <= opened
      BY <1>5, <1>7 DEF Attachments
    <2> QED
      BY <1>1, <1>5, <1>6, <1>7, <2>1
  <1>8. ASSUME NEW i \in 1..Len(up'[opened + 1])
        PROVE  i = 1 /\ up'[opened + 1][i] = <<"attach", client.cursor>>
    BY <1>3, <1>5
  <1>9. Attachments'
    <2>1. ASSUME NEW c \in 1..MaxConns, NEW i \in 1..Len(up'[c]), c # opened + 1
          PROVE  /\ c <= opened + 1
                 /\ c > accepted => i = 1 /\ up'[c][i][1] = "attach"
                 /\ c = accepted /\ up'[c][i][1] = "attach" => i = 1 /\ output.conn = 0
                 /\ c # opened'
      <3>1. c <= opened /\ c # opened' /\ i \in 1..Len(up[c]) /\ up'[c][i] = up[c][i]
        BY <1>7, <2>1
      <3>2. c <= opened + 1
        BY <1>1, <3>1
      <3> QED
        BY <3>1, <3>2 DEF Attachments
    <2>2. opened + 1 <= opened + 1 /\ opened + 1 # accepted
      BY <1>1
    <2> QED
      BY <1>2, <1>6, <1>8, <2>1, <2>2 DEF Attachments
  <1>10. Acknowledgements'
    <2>1. ASSUME NEW i \in 1..Len(up'[opened + 1])
          PROVE  up'[opened + 1][i][1] # "ack"
      BY <1>8
    <2>2. ASSUME NEW c \in 1..MaxConns, NEW i \in 1..Len(up'[c]), c # opened + 1,
                 c = accepted, up'[c][i][1] = "ack"
          PROVE  /\ 0 < up'[c][i][2] /\ up'[c][i][2] <= high
                 /\ client.cursor # 0 => up'[c][i][2] <= client.cursor
                 /\ c # opened'
      <3>1. i \in 1..Len(up[c]) /\ up'[c][i] = up[c][i] /\ c # opened'
        BY <1>7, <2>2
      <3> QED
        BY <2>2, <3>1 DEF Acknowledgements
    <2> QED
      BY <1>2, <1>6, <2>1, <2>2 DEF Acknowledgements
  <1> QED
    BY <1>5, <1>9, <1>10

-----------------------------------------------------------------------------
(* What is on its way to the daemon, through each part of the link.        *)

\* The pump writes what comes next in the stream.
LEMMA FlowPumps ==
  ASSUME TypeOK, Connections, Flow, ~output.closed,
         NEW o \in Outputs, Spooled(o), o.conn = output.conn, output.sequence <= o.sequence,
         Position(o) = Position(output),
         output'.sequence = o.sequence, output'.conn = o.conn, output'.closed = output.closed,
         output'.acknowledged = output.acknowledged,
         o.conn = 0 => down' = down,
         o.conn # 0 => \E r \in o.offset..End(o) :
           /\ Position(output') = Before(o) + r
           /\ down' = IF Watching(o.conn) THEN down \o Unread(o, r) ELSE down,
         UNCHANGED <<accepted, client, opened, high>>
  PROVE  Flow'
  <1> SUFFICES ASSUME client.phase = "open"
               PROVE  /\ Unattached' => Silent'
                      /\ ~Unattached' => \E s \in Nat, h \in {0, 1}, t \in Nat, d \in {0, 1}, x \in {0, 1} :
                                           Flowing(s, h, t, d, x)'
    BY DEF Flow
  <1>1. Unattached' <=> Unattached
    BY DEF Unattached
  <1>2. CASE Unattached
    <2>1. down' = down
      <3>1. CASE o.conn = 0
        BY <3>1
      <3>2. CASE o.conn # 0
        <4>1. o.conn = accepted /\ accepted < opened /\ accepted \in Nat /\ opened \in Nat
          BY <1>2, <3>2 DEF Unattached, Connections, TypeOK
        <4>2. ~Watching(o.conn)
          BY <4>1 DEF Watching
        <4> QED
          BY <3>2, <4>2
      <3> QED
        BY <3>1, <3>2
    <2> QED
      BY <1>1, <1>2, <2>1 DEF Flow, Silent
  <1>3. CASE ~Unattached
    <2>1. o.conn # 0 /\ o.conn = opened
      BY <1>3 DEF Unattached, Connections, TypeOK
    <2>2. PICK r \in o.offset..End(o) :
            Position(output') = Before(o) + r /\ down' = down \o Unread(o, r)
      BY <2>1 DEF Watching
    <2>3. PICK s \in Nat, h \in {0, 1}, t \in Nat, d \in {0, 1}, x \in {0, 1} :
            Flowing(s, h, t, d, x)
      BY <1>3 DEF Flow
    <2> DEFINE u == Before(o) + r
    <2>4. /\ Unread(o, r) \in Seq(Units) /\ Carries(Unread(o, r), t, u)
          /\ u \in Nat /\ t <= u /\ u <= 2 * o.sequence /\ x = 0
      <3>1. t = Position(o) /\ x = 0
        BY <2>1, <2>3 DEF Flowing
      <3>2. /\ Unread(o, r) \in Seq(Units) /\ Carries(Unread(o, r), Position(o), u)
            /\ Position(o) \in Nat /\ Before(o) \in Nat /\ Position(o) <= u /\ u <= 2 * o.sequence
        BY UnreadCarries
      <3>3. r \in Nat
        BY DEF Outputs, End
      <3>4. u \in Nat
        BY <3>2, <3>3
      <3> QED
        BY <3>1, <3>2, <3>4
    <2>5. Position(output') = u /\ down' = down \o Unread(o, r)
      BY <2>2
    <2> HIDE DEF u
    <2>6. Rest(down', d, 2 * s + h, u, 0)
      <3>1. 2 * s + h \in Nat /\ 2 * s + h <= t
        BY <2>3 DEF Flowing
      <3>2. Rest(down, d, 2 * s + h, t, 0) /\ down \in Seq(Units)
        BY <2>3, <2>4 DEF Flowing, TypeOK
      <3> DEFINE a == 2 * s + h
      <3> HIDE DEF a
      <3>3. Rest(down, d, a, t, 0) /\ a \in Nat /\ a <= t
        BY <3>1, <3>2 DEF a
      <3>4. Rest(down \o Unread(o, r), d, a, u, 0)
        BY <2>4, <3>2, <3>3, RestGrows
      <3> QED
        BY <2>5, <3>4 DEF a
    <2>7. 2 * s + h <= u
      <3>1. 2 * s + h <= t
        BY <2>3 DEF Flowing
      <3> QED
        BY <2>4, <3>1
    <2>8. d = 1 \/ client.connected
      BY <2>1, <2>3 DEF Flowing
    <2>9. Flowing(s, h, u, d, 0)'
      BY <2>1, <2>3, <2>4, <2>5, <2>6, <2>7, <2>8 DEF Flowing
    <2> QED
      BY <1>1, <1>3, <2>4, <2>9
  <1> QED
    BY <1>2, <1>3

\* Nothing that concerns the daemon happened.
LEMMA FlowRests ==
  ASSUME TypeOK, Flow,
         output'.sequence = output.sequence, output'.conn = output.conn,
         output'.closed = output.closed,
         output.conn # 0 => Position(output') = Position(output),
         \/ output'.acknowledged = output.acknowledged
         \/ /\ output'.acknowledged \in Nat
            /\ client.phase = "open" /\ accepted = opened =>
                 output'.acknowledged <= client.cursor,
         UNCHANGED <<accepted, client, opened, high, down>>
  PROVE  Flow'
  <1> SUFFICES ASSUME client.phase = "open"
               PROVE  /\ Unattached' => Silent'
                      /\ ~Unattached' => \E s \in Nat, h \in {0, 1}, t \in Nat, d \in {0, 1}, x \in {0, 1} :
                                           Flowing(s, h, t, d, x)'
    BY DEF Flow
  <1>1. (Unattached' <=> Unattached) /\ (Silent' <=> Silent)
    BY DEF Unattached, Silent
  <1>2. CASE Unattached
    BY <1>1, <1>2 DEF Flow
  <1>3. CASE ~Unattached
    <2>1. PICK s \in Nat, h \in {0, 1}, t \in Nat, d \in {0, 1}, x \in {0, 1} :
            Flowing(s, h, t, d, x)
      BY <1>3 DEF Flow
    <2>2. accepted = opened
      BY <1>3 DEF Unattached, TypeOK
    <2>3. client.cursor \in Nat
      BY DEF TypeOK, Clients
    <2>4. (d = 1 \/ client.connected) => output'.acknowledged <= s
      BY <2>1, <2>2, <2>3 DEF Flowing
    <2>5. Flowing(s, h, t, d, x)'
      BY <2>1, <2>4 DEF Flowing
    <2> QED
      BY <1>1, <1>3, <2>5
  <1> QED
    BY <1>2, <1>3

-----------------------------------------------------------------------------
(* The steps of the spool.                                                 *)

LEMMA PublishLineKeeps ==
  ASSUME LinkInv, PublishLine
  PROVE  LinkInv' /\ output'.sequence = output.sequence + 1 /\ UNCHANGED <<client, high>>
  <1> USE DEF LinkInv
  <1> DEFINE n == output.sequence + 1
             spool == output.spool \o EventLine(n)
             o == [output EXCEPT !.sequence = n, !.spool = spool, !.ends = Append(@, Len(spool))]
  <1>1. ~output.closed /\ Pump(o) /\ UNCHANGED <<accepted, hostOpen, client, opened, up, unsent, sent, executed, high, daemons>>
    BY DEF PublishLine
  <1>2. /\ output \in Outputs /\ output.sequence \in Nat /\ output.acknowledged \in Nat
        /\ output.spool \in Seq(Units) /\ output.ends \in Seq(Nat) /\ output.offset \in Nat
        /\ Len(output.spool) \in Nat /\ Len(output.ends) \in Nat
    BY DEF TypeOK, Outputs
  <1>20. /\ output.sequence \in Nat /\ output.acknowledged \in Nat /\ output.offset \in Nat
         /\ Len(output.spool) \in Nat /\ Len(output.ends) \in Nat /\ n \in Nat
    BY <1>2
  <1>3. /\ EventLine(n) \in Seq(Units) /\ Len(EventLine(n)) = 2
        /\ EventLine(n)[1] = <<n, 1>> /\ EventLine(n)[2] = <<n, 0>>
    BY <1>2 DEF EventLine, Units
  <1>4. /\ spool \in Seq(Units) /\ Len(spool) = Len(output.spool) + 2
        /\ \A i \in 1..Len(output.spool) + 2 :
             spool[i] = IF i <= Len(output.spool) THEN output.spool[i]
                        ELSE EventLine(n)[i - Len(output.spool)]
    <2> DEFINE l == EventLine(n)
               q == output.spool
    <2>1. l \in Seq(Units) /\ q \in Seq(Units) /\ Len(l) = 2
      BY <1>2, <1>3
    <2> HIDE DEF l, q
    <2>2. /\ q \o l \in Seq(Units) /\ Len(q \o l) = Len(q) + Len(l)
          /\ \A i \in 1..Len(q) + Len(l) : (q \o l)[i] = IF i <= Len(q) THEN q[i] ELSE l[i - Len(q)]
      BY <2>1, ConcatProperties
    <2> QED
      BY <2>1, <2>2 DEF l, q
  <1> HIDE DEF spool
  <1> DEFINE ends == Append(output.ends, Len(spool))
  <1>5. /\ ends \in Seq(Nat) /\ Len(ends) = Len(output.ends) + 1
        /\ \A i \in 1..Len(output.ends) : ends[i] = output.ends[i]
        /\ ends[Len(output.ends) + 1] = Len(spool)
    <2>1. Len(spool) \in Nat
      BY <1>2, <1>4
    <2> QED
      BY <1>2, <2>1, AppendProperties
  <1> HIDE DEF ends
  <1>21. Len(spool) = Len(output.spool) + 2 /\ Len(ends) = Len(output.ends) + 1
    BY <1>4, <1>5
  <1>6. /\ o.sequence = n /\ o.spool = spool /\ o.ends = ends /\ o.acknowledged = output.acknowledged
        /\ o.acknowledgedOffset = output.acknowledgedOffset /\ o.offset = output.offset
        /\ o.conn = output.conn /\ o.pumping = output.pumping /\ o.closed = output.closed
        /\ o \in Outputs
    BY <1>2, <1>4, <1>5, <1>20 DEF Outputs, ends
  <1> HIDE DEF o
  <1>7. Before(o) = Before(output) /\ Position(o) = Position(output) /\ Before(output) \in Nat
        /\ Before(output) + Len(output.spool) = 2 * output.sequence
    <2>1. Before(o) = Before(output)
      <3>1. Before(o) = 2 * n - Len(spool) /\ Before(output) = 2 * output.sequence - Len(output.spool)
        BY <1>6 DEF Before
      <3>2. 2 * n - Len(spool) = 2 * output.sequence - Len(output.spool)
        <4>1. 2 * n = 2 * output.sequence + 2 /\ 2 * output.sequence \in Nat
          BY <1>20, NextLine
        <4> DEFINE x == 2 * n
                   y == 2 * output.sequence
                   l == Len(output.spool)
                   m == Len(spool)
        <4>2. x = y + 2 /\ y \in Nat /\ l \in Nat /\ m = l + 2
          BY <1>20, <1>21, <4>1
        <4> HIDE DEF x, y, l, m
        <4>3. x - m = y - l
          BY <4>2
        <4> QED
          BY <4>3 DEF x, y, l, m
      <3> QED
        BY <3>1, <3>2
    <2>2. 0 <= Before(output)
      BY DEF Spooled
    <2> QED
      BY <1>6, <1>20, <2>1, <2>2 DEF Before, Position
  <1>8. Spooled(o)
    <2>1. \A i \in 1..Len(spool) : spool[i] = Unit(Before(o) + i)
      <3> TAKE i \in 1..Len(spool)
      <3>1. CASE i <= Len(output.spool)
        <4>1. i \in 1..Len(output.spool) /\ i \in 1..Len(output.spool) + 2
          BY <1>2, <1>4, <3>1
        <4> QED
          BY <1>4, <1>7, <3>1, <4>1 DEF Spooled
      <3>2. CASE i = Len(output.spool) + 1
        <4>1. i \in 1..Len(output.spool) + 2 /\ ~(i <= Len(output.spool)) /\ i - Len(output.spool) = 1
              /\ Before(o) + i = 2 * output.sequence + 1
          BY <1>7, <1>20, <3>2
        <4>2. Unit(2 * output.sequence + 1) = <<n, 1>>
          BY <1>2, UnitsOfLine
        <4> QED
          BY <1>3, <1>4, <4>1, <4>2
      <3>3. CASE i = Len(output.spool) + 2
        <4>1. i \in 1..Len(output.spool) + 2 /\ ~(i <= Len(output.spool)) /\ i - Len(output.spool) = 2
              /\ Before(o) + i = 2 * output.sequence + 2
          BY <1>7, <1>20, <3>3
        <4>2. Unit(2 * output.sequence + 2) = <<n, 0>>
          BY <1>2, UnitsOfLine
        <4> QED
          BY <1>3, <1>4, <4>1, <4>2
      <3>4. i <= Len(output.spool) \/ i = Len(output.spool) + 1 \/ i = Len(output.spool) + 2
        BY <1>20, <1>21
      <3> QED
        BY <3>1, <3>2, <3>3, <3>4
    <2>2. \A j \in 1..Len(ends) : ends[j] = 2 * (output.acknowledged + j) - Before(o)
      <3> TAKE j \in 1..Len(ends)
      <3>1. CASE j <= Len(output.ends)
        <4>1. j \in 1..Len(output.ends)
          BY <1>2, <1>5, <3>1
        <4> QED
          BY <1>5, <1>7, <4>1 DEF Spooled
      <3>2. CASE j = Len(output.ends) + 1
        <4>1. Len(output.ends) = output.sequence - output.acknowledged
          BY DEF Spooled
        <4>2. Len(spool) = 2 * (output.acknowledged + j) - Before(o)
          <5> DEFINE b == Before(output)
                     l == Len(output.spool)
          <5>1. b \in Nat /\ l \in Nat /\ b + l = 2 * output.sequence /\ Before(o) = b
            BY <1>7, <1>20
          <5>2. output.acknowledged + j = n
            BY <1>20, <3>2, <4>1
          <5> HIDE DEF b, l
          <5>3. l + 2 = 2 * n - b
            <6>1. 2 * n = 2 * output.sequence + 2 /\ 2 * output.sequence \in Nat
              BY <1>20, NextLine
            <6> HIDE DEF n
            <6> QED
              BY <5>1, <6>1
          <5> QED
            BY <1>21, <5>1, <5>2, <5>3 DEF l
        <4> QED
          BY <1>5, <3>2, <4>2
      <3>3. j <= Len(output.ends) \/ j = Len(output.ends) + 1
        BY <1>2, <1>5
      <3> QED
        BY <3>1, <3>2, <3>3
    <2>3. output.acknowledged <= n /\ Len(ends) = n - output.acknowledged
          /\ output.offset <= Len(spool)
      <3>1. output.acknowledged <= output.sequence /\ Len(output.ends) = output.sequence - output.acknowledged
            /\ output.offset <= Len(output.spool)
        BY DEF Spooled
      <3> QED
        BY <1>2, <1>4, <1>5, <3>1
    <2>4. /\ 0 <= Before(o) /\ Before(o) <= 2 * o.acknowledged
          /\ o.acknowledgedOffset = 2 * o.acknowledged - Before(o)
      BY <1>6, <1>7 DEF Spooled
    <2> QED
      BY <1>6, <2>1, <2>2, <2>3, <2>4 DEF Spooled
  <1>9. /\ output' \in Outputs /\ Spooled(output') /\ Pumped(output')
        /\ output'.sequence = o.sequence /\ output'.acknowledged = o.acknowledged
        /\ output'.conn = o.conn /\ output'.closed = o.closed
        /\ o.conn = 0 => down' = down
        /\ o.conn # 0 => \E s \in o.offset..End(o) :
             /\ Position(output') = Before(o) + s
             /\ down' = IF Watching(o.conn) THEN down \o Unread(o, s) ELSE down
    BY <1>1, <1>6, <1>8, PumpKeeps DEF TypeOK
  <1>10. down' \in Seq(Units)
    <2>1. o \in Outputs /\ down \in Seq(Units)
      BY <1>6 DEF TypeOK
    <2>2. \/ down' = down
          \/ \E s \in o.offset..End(o) :
               down' = IF Watching(o.conn) THEN down \o Unread(o, s) ELSE down
      BY <1>9
    <2> QED
      BY <1>8, <2>1, <2>2, DownGrows
  <1>11. TypeOK'
    BY <1>1, <1>9, <1>10 DEF TypeOK
  <1>12. Connections'
    BY <1>1, <1>6, <1>9 DEF Connections
  <1>13. Handed'
    <2>1. high \in Nat /\ high <= output.sequence
      BY DEF TypeOK, Handed
    <2> QED
      BY <1>1, <1>2, <1>6, <1>9, <2>1 DEF Handed
  <1>14. Attachments' /\ Acknowledgements'
    <2>1. Less
      BY <1>1, UnchangedLess
    <2>2. high <= high' /\ high \in Nat
      BY <1>1 DEF TypeOK
    <2> QED
      BY <1>1, <1>6, <1>9, <1>11, <2>1, <2>2, LessKeeps
  <1>15. Flow'
    <2>1. output.sequence <= o.sequence
      BY <1>2, <1>6
    <2> QED
      BY <1>1, <1>6, <1>7, <1>8, <1>9, <2>1, FlowPumps
  <1> QED
    BY <1>1, <1>6, <1>9, <1>11, <1>12, <1>13, <1>14, <1>15

LEMMA DrainKeeps ==
  ASSUME LinkInv, Drain
  PROVE  LinkInv' /\ output'.sequence = output.sequence
  <1> USE DEF LinkInv
  <1> DEFINE o == [output EXCEPT !.pumping = FALSE]
  <1>1. /\ output.conn # 0 /\ ~output.closed
        /\ UNCHANGED <<accepted, hostOpen, client, opened, up, unsent, sent, executed, high, daemons>>
        /\ output \in Outputs
    BY DEF Drain, TypeOK
  <1>2. IF output.offset < End(output) THEN Pump(o) ELSE output' = Compact(o) /\ down' = down
    BY DEF Drain
  <1>3. /\ o.sequence = output.sequence /\ o.spool = output.spool /\ o.ends = output.ends
        /\ o.acknowledged = output.acknowledged
        /\ o.acknowledgedOffset = output.acknowledgedOffset /\ o.offset = output.offset
        /\ o.conn = output.conn /\ o.pumping = FALSE /\ o.closed = output.closed
        /\ o \in Outputs
    BY <1>1 DEF Outputs
  <1> HIDE DEF o
  <1>4. Before(o) = Before(output) /\ Position(o) = Position(output) /\ End(o) = End(output)
    BY <1>3 DEF Before, Position, End
  <1>5. Spooled(o)
    BY <1>3, <1>4 DEF Spooled
  <1>6. /\ output' \in Outputs /\ Spooled(output') /\ Pumped(output')
        /\ output'.sequence = o.sequence /\ output'.acknowledged = o.acknowledged
        /\ output'.conn = o.conn /\ output'.closed = o.closed
        /\ \E s \in o.offset..End(o) :
             /\ Position(output') = Before(o) + s
             /\ down' = IF Watching(o.conn) THEN down \o Unread(o, s) ELSE down
    <2>1. CASE output.offset < End(output)
      BY <1>1, <1>2, <1>3, <1>5, <2>1, PumpKeeps DEF TypeOK
    <2>2. CASE ~(output.offset < End(output))
      <3>1. o.offset = End(o) /\ o.offset \in o.offset..End(o) /\ o.offset = Len(o.spool)
        <4>1. output.offset <= End(output) /\ output.offset \in Nat /\ End(output) \in Nat
          BY <1>1 DEF Spooled, End, Outputs
        <4> QED
          BY <1>3, <2>2, <4>1 DEF End
      <3>2. Pumped(o)
        BY <3>1 DEF Pumped
      <3>3. output' = Compact(o) /\ down' = down
        BY <1>2, <2>2
      <3>4. /\ output' \in Outputs /\ Spooled(output') /\ Pumped(output') /\ Same(o, output')
            /\ output'.acknowledged = o.acknowledged /\ Position(output') = Position(o)
        BY <1>1, <1>3, <1>5, <3>2, <3>3, CompactKeeps
      <3>5. down = down \o Unread(o, o.offset)
        BY <1>3, NothingUnread DEF TypeOK
      <3> QED
        BY <3>1, <3>3, <3>4, <3>5 DEF Same, Position
    <2> QED
      BY <2>1, <2>2
  <1>7. down' \in Seq(Units)
    <2>1. \/ down' = down
          \/ \E s \in o.offset..End(o) :
               down' = IF Watching(o.conn) THEN down \o Unread(o, s) ELSE down
      BY <1>6
    <2> QED
      BY <1>3, <1>5, <2>1, DownGrows DEF TypeOK
  <1>8. TypeOK'
    BY <1>1, <1>6, <1>7 DEF TypeOK
  <1>9. Connections' /\ Handed'
    BY <1>1, <1>3, <1>6 DEF Connections, Handed
  <1>10. Attachments' /\ Acknowledgements'
    <2>1. Less
      BY <1>1, UnchangedLess
    <2>2. high <= high' /\ high \in Nat
      BY <1>1 DEF TypeOK
    <2> QED
      BY <1>1, <1>3, <1>6, <1>8, <2>1, <2>2, LessKeeps
  <1>11. Flow'
    <2>1. output.sequence <= o.sequence
      BY <1>1, <1>3 DEF Outputs
    <2> QED
      BY <1>1, <1>3, <1>4, <1>5, <1>6, <2>1, FlowPumps
  <1> QED
    BY <1>3, <1>6, <1>8, <1>9, <1>10, <1>11

\* What was written goes on to the daemon, and the exit frame after it.
LEMMA FinishKeeps ==
  ASSUME LinkInv, Finish
  PROVE  LinkInv' /\ output'.sequence = output.sequence
  <1> USE DEF LinkInv
  <1>1. /\ ~output.closed /\ output \in Outputs /\ hostOpen' = FALSE
        /\ down' = IF hostOpen THEN Written(accepted, Frame(Exit)) ELSE down
        /\ UNCHANGED <<accepted, client, opened, up, unsent, sent, executed, high, daemons>>
    BY DEF Finish, TypeOK
  <1>2. /\ output'.sequence = output.sequence /\ output'.spool = output.spool
        /\ output'.ends = output.ends /\ output'.acknowledged = output.acknowledged
        /\ output'.acknowledgedOffset = output.acknowledgedOffset /\ output'.offset = 0
        /\ output'.conn = 0 /\ output'.pumping = FALSE /\ output'.closed = TRUE
        /\ output' \in Outputs
    BY <1>1 DEF Outputs, Finish
  <1>3. Spooled(output') /\ Pumped(output')
    <2>1. Before(output') = Before(output) /\ Len(output.spool) \in Nat
      BY <1>1, <1>2 DEF Before, Outputs
    <2> QED
      BY <1>2, <2>1 DEF Spooled, Pumped
  <1>4. Frame(Exit) \in Seq(Units)
    BY DEF Frame, Units, Exit
  <1>5. down' \in Seq(Units)
    <2>1. down \in Seq(Units) /\ down \o Frame(Exit) \in Seq(Units)
      BY <1>4, ConcatProperties DEF TypeOK
    <2> QED
      BY <1>1, <2>1 DEF Written
  <1>6. TypeOK'
    BY <1>1, <1>2, <1>5 DEF TypeOK
  <1>7. Connections' /\ Handed'
    BY <1>1, <1>2 DEF Connections, Handed
  <1>8. Attachments' /\ Acknowledgements'
    <2>1. Less
      BY <1>1, UnchangedLess
    <2>2. high <= high' /\ high \in Nat
      BY <1>1 DEF TypeOK
    <2> QED
      BY <1>1, <1>2, <1>6, <2>1, <2>2, LessKeeps
  <1>9. Flow'
    <2> SUFFICES ASSUME client.phase = "open"
                 PROVE  /\ Unattached' => Silent'
                        /\ ~Unattached' => \E s \in Nat, h \in {0, 1}, t \in Nat, d \in {0, 1}, x \in {0, 1} :
                                             Flowing(s, h, t, d, x)'
      BY <1>1 DEF Flow
    <2>1. Unattached' <=> accepted < opened
      BY <1>1, <1>2 DEF Unattached
    <2>2. CASE accepted < opened
      <3>1. ~Watching(accepted)
        BY <2>2 DEF Watching, TypeOK
      <3>2. down' = down
        BY <1>1, <3>1 DEF Written
      <3> QED
        BY <1>1, <2>1, <2>2, <3>2 DEF Flow, Unattached, Silent
    <2>3. CASE ~(accepted < opened)
      <3>1. accepted = opened /\ hostOpen /\ Watching(accepted)
        BY <1>1, <2>3 DEF Connections, Watching, TypeOK
      <3>2. down' = down \o Frame(Exit)
        BY <1>1, <3>1 DEF Written
      <3>3. CASE output.conn = 0
        <4>1. down = <<>> /\ client.partial = <<>> /\ ~client.connected
          BY <1>1, <3>3 DEF Flow, Unattached, Silent
        <4>2. Len(down') = 1 /\ down'[1] = <<Exit, 0>>
          BY <3>2, <4>1 DEF Frame
        <4>3. Rest(down', 0, 2 * 0 + 0, 0, 1)
          BY <4>2 DEF Rest
        <4>4. output.sequence \in Nat
          BY <1>1 DEF Outputs
        <4>5. Flowing(0, 0, 0, 0, 1)'
          <5>1. 2 * 0 + 0 <= 0 /\ 0 <= 2 * output.sequence /\ 0 = 2 * 0
            BY <4>4
          <5> QED
            BY <1>1, <1>2, <4>1, <4>3, <5>1 DEF Flowing
        <4> QED
          BY <2>1, <2>3, <4>5
      <3>4. CASE output.conn # 0
        <4>1. PICK s \in Nat, h \in {0, 1}, t \in Nat, d \in {0, 1}, x \in {0, 1} :
                Flowing(s, h, t, d, x)
          BY <2>3, <3>4 DEF Flow, Unattached
        <4>2. x = 0 /\ (d = 1 \/ client.connected)
          BY <1>1, <3>4, <4>1 DEF Flowing
        <4>3. Rest(down', d, 2 * s + h, t, 1)
          <5> DEFINE a == 2 * s + h
          <5>1. a \in Nat /\ a <= t /\ Rest(down, d, a, t, 0) /\ down \in Seq(Units)
            BY <4>1, <4>2 DEF Flowing, TypeOK
          <5> HIDE DEF a
          <5>2. Rest(down \o Frame(Exit), d, a, t, 1)
            BY <5>1, RestEnds
          <5> QED
            BY <3>2, <5>2 DEF a
        <4>4. Flowing(s, h, t, d, 1)'
          BY <1>1, <1>2, <4>1, <4>2, <4>3 DEF Flowing
        <4> QED
          BY <2>1, <2>3, <4>4
      <3> QED
        BY <3>3, <3>4
    <2> QED
      BY <2>2, <2>3
  <1> QED
    BY <1>2, <1>3, <1>6, <1>7, <1>8, <1>9

-----------------------------------------------------------------------------
(* The steps of the channel server.                                        *)

LEMMA AcceptStepKeeps ==
  ASSUME LinkInv, Accept
  PROVE  LinkInv' /\ output'.sequence = output.sequence
  <1> USE DEF LinkInv
  <1>1. /\ ~output.closed /\ output \in Outputs /\ accepted < opened /\ accepted' = accepted + 1
        /\ hostOpen' = TRUE
        /\ up' = (IF hostOpen THEN [up EXCEPT ![accepted] = <<>>] ELSE up)
        /\ output' = (IF output.conn # 0 THEN Unclient(output) ELSE output)
        /\ UNCHANGED <<client, opened, down, unsent, sent, executed, high, daemons>>
    BY DEF Accept, TypeOK
  <1>2. accepted \in Nat /\ opened \in Nat /\ opened <= MaxConns /\ MaxConns \in Nat
    BY LinkAssumption DEF TypeOK
  <1>3. /\ output' \in Outputs /\ Spooled(output') /\ Pumped(output')
        /\ output'.sequence = output.sequence /\ output'.acknowledged = output.acknowledged
        /\ output'.closed = output.closed /\ output'.conn = 0
    BY <1>1, UnclientKeeps
  <1>4. Less
    <2>1. CASE hostOpen
      <3>1. accepted \in 1..MaxConns
        BY <1>1, <1>2, <2>1 DEF Connections
      <3> QED
        BY <1>1, <2>1, <3>1, ClearedLess
    <2>2. CASE ~hostOpen
      BY <1>1, <2>2, UnchangedLess
    <2> QED
      BY <2>1, <2>2
  <1>5. TypeOK'
    <2>1. accepted + 1 \in 0..MaxConns /\ accepted + 1 <= opened
      BY <1>1, <1>2
    <2> QED
      BY <1>1, <1>3, <1>4, <2>1 DEF TypeOK, Less
  <1>6. Connections' /\ Handed'
    <2>1. accepted + 1 # 0
      BY <1>2
    <2> QED
      BY <1>1, <1>3, <2>1 DEF Connections, Handed
  <1>7. Attachments' /\ Acknowledgements'
    BY <1>1, <1>3, <1>4, AcceptKeeps
  <1>8. Flow'
    <2>1. Unattached /\ Unattached'
      BY <1>1, <1>3 DEF Unattached
    <2> QED
      BY <1>1, <2>1 DEF Flow, Silent
  <1> QED
    BY <1>3, <1>5, <1>6, <1>7, <1>8

LEMMA SocketClosedKeeps ==
  ASSUME LinkInv, SocketClosed
  PROVE  LinkInv' /\ output'.sequence = output.sequence
  <1> USE DEF LinkInv
  <1>1. /\ output \in Outputs /\ ~Watching(accepted) /\ hostOpen /\ hostOpen' = FALSE
        /\ output' = (IF output.conn # 0 THEN Unclient(output) ELSE output)
        /\ UNCHANGED <<accepted, client, opened, up, down, unsent, sent, executed, high, daemons>>
    BY DEF SocketClosed, TypeOK
  <1>2. /\ output' \in Outputs /\ Spooled(output') /\ Pumped(output')
        /\ output'.sequence = output.sequence /\ output'.acknowledged = output.acknowledged
        /\ output'.closed = output.closed /\ output'.conn = 0
    BY <1>1, UnclientKeeps
  <1>3. TypeOK'
    BY <1>1, <1>2 DEF TypeOK
  <1>4. client.phase = "open" => accepted # opened
    BY <1>1 DEF Watching
  <1>5. Connections' /\ Handed'
    BY <1>1, <1>2, <1>4 DEF Connections, Handed
  <1>6. Attachments' /\ Acknowledgements'
    <2>1. Less
      BY <1>1, UnchangedLess
    <2>2. high <= high' /\ high \in Nat
      BY <1>1 DEF TypeOK
    <2> QED
      BY <1>1, <1>2, <1>3, <2>1, <2>2, LessKeeps
  <1>7. Flow'
    <2>1. client.phase = "open" => accepted < opened
      BY <1>4 DEF TypeOK
    <2> QED
      BY <1>1, <1>2, <2>1 DEF Flow, Unattached, Silent
  <1> QED
    BY <1>2, <1>3, <1>5, <1>6, <1>7

\* The spool is read from behind the last line that is not needed again.
LEMMA StartKeeps ==
  ASSUME LinkInv, output.conn = 0, hostOpen, NEW after \in Nat, ValidCursor(output, after)
  PROVE  LET o == [output EXCEPT !.conn = accepted, !.offset = StartOffset(output, after)]
             s == Start(output, after) IN
         /\ o \in Outputs /\ Spooled(o) /\ Position(o) = 2 * s /\ o.conn # 0 /\ ~o.closed
         /\ o.sequence = output.sequence /\ o.acknowledged = output.acknowledged /\ ~o.pumping
         /\ o.conn = accepted
         /\ s \in Nat /\ s \in {after, output.acknowledged}
         /\ after <= s /\ output.acknowledged <= s /\ s <= output.sequence
  <1> DEFINE s == Start(output, after)
             o == [output EXCEPT !.conn = accepted, !.offset = StartOffset(output, after)]
  <1> USE DEF LinkInv
  <1>1. /\ output \in Outputs /\ output.sequence \in Nat /\ output.acknowledged \in Nat
        /\ output.ends \in Seq(Nat) /\ Len(output.ends) \in Nat /\ Len(output.spool) \in Nat
        /\ output.acknowledged <= output.sequence
        /\ Len(output.ends) = output.sequence - output.acknowledged
    BY DEF TypeOK, Outputs, Spooled
  <1>2. /\ s \in Nat /\ s \in {after, output.acknowledged}
        /\ after <= s /\ output.acknowledged <= s /\ s <= output.sequence
    BY <1>1 DEF Start, ValidCursor
  <1>3. Before(output) \in Nat /\ Before(output) + Len(output.spool) = 2 * output.sequence
        /\ Before(output) <= 2 * output.acknowledged
    <2>1. 0 <= Before(output) /\ Before(output) <= 2 * output.acknowledged
      BY DEF Spooled
    <2> QED
      BY <1>1, <2>1 DEF Before
  <1>4. StartOffset(output, after) = 2 * s - Before(output)
    <2>1. CASE s = output.acknowledged
      BY <2>1 DEF StartOffset, Spooled
    <2>2. CASE s # output.acknowledged
      <3> DEFINE k == s - output.acknowledged
      <3> HIDE DEF s
      <3>1. k \in 1..Len(output.ends) /\ output.acknowledged + k = s
        BY <1>1, <1>2, <2>2
      <3> HIDE DEF k
      <3>2. output.ends[k] = 2 * (output.acknowledged + k) - Before(output)
        BY <3>1 DEF Spooled
      <3> QED
        BY <2>2, <3>1, <3>2 DEF StartOffset, EndOf, k, s
    <2> QED
      BY <2>1, <2>2
  <1> HIDE DEF s
  <1>5. 2 * s - Before(output) \in Nat /\ 2 * s - Before(output) <= Len(output.spool)
    <2> DEFINE b == Before(output)
               l == Len(output.spool)
    <2>1. b \in Nat /\ l \in Nat /\ b + l = 2 * output.sequence /\ b <= 2 * output.acknowledged
      BY <1>1, <1>3
    <2> HIDE DEF b, l
    <2>2. 2 * s \in Nat /\ 2 * output.acknowledged <= 2 * s /\ 2 * s <= 2 * output.sequence
      BY <1>1, <1>2
    <2>3. 2 * s - b \in Nat /\ 2 * s - b <= l
      <3> DEFINE x == 2 * s
                 y == 2 * output.acknowledged
                 z == 2 * output.sequence
      <3>1. x \in Nat /\ y <= x /\ x <= z /\ b <= y /\ b + l = z /\ y \in Int /\ z \in Int
        BY <1>1, <2>1, <2>2
      <3> HIDE DEF x, y, z
      <3>2. x - b \in Nat /\ x - b <= l
        BY <2>1, <3>1
      <3> QED
        BY <3>2 DEF x
    <2> QED
      BY <2>3 DEF b, l
  <1>6. accepted # 0 /\ accepted \in Nat /\ ~output.closed /\ ~output.pumping
    BY DEF Connections, TypeOK, Spooled
  <1>7. /\ o.sequence = output.sequence /\ o.spool = output.spool /\ o.ends = output.ends
        /\ o.acknowledged = output.acknowledged
        /\ o.acknowledgedOffset = output.acknowledgedOffset
        /\ o.offset = 2 * s - Before(output)
        /\ o.conn = accepted /\ o.pumping = output.pumping /\ o.closed = output.closed
        /\ o \in Outputs
    BY <1>1, <1>4, <1>5, <1>6 DEF Outputs
  <1> HIDE DEF o
  <1>8. Before(o) = Before(output)
    BY <1>7 DEF Before
  <1>9. Spooled(o)
    BY <1>5, <1>6, <1>7, <1>8 DEF Spooled
  <1>10. Position(o) = 2 * s
    BY <1>2, <1>3, <1>7, <1>8 DEF Position
  <1> QED
    BY <1>2, <1>6, <1>7, <1>9, <1>10 DEF s, o

LEMMA AttachKeeps ==
  ASSUME LinkInv, NEW after, Attach(after)
  PROVE  LinkInv' /\ output'.sequence = output.sequence
  <1> USE DEF LinkInv
  <1> DEFINE o == [output EXCEPT !.conn = accepted, !.offset = StartOffset(output, after)]
             s == Start(output, after)
             frame == Written(accepted, Frame(Attached))
  <1>1. /\ Received(<<"attach", after>>) /\ ValidCursor(output, after)
        /\ UNCHANGED <<accepted, hostOpen, client, opened, unsent, sent, executed, high, daemons>>
    BY DEF Attach
  <1>2. IF o.closed \/ o.offset = End(o) THEN output' = o /\ down' = frame
        ELSE \/ /\ output' = Compact([o EXCEPT !.offset = End(o)])
                /\ down' = IF Watching(accepted) THEN frame \o Unread(o, End(o)) ELSE down
             \/ \E r \in Stops(o) :
                  /\ output' = [o EXCEPT !.offset = r, !.pumping = TRUE]
                  /\ down' = IF Watching(accepted) THEN frame \o Unread(o, r) ELSE down
    BY DEF Attach
  <1>3. /\ accepted \in 1..MaxConns /\ after \in Nat /\ up' \in [1..MaxConns -> Seq(Frames)]
        /\ 1 \in 1..Len(up[accepted]) /\ up[accepted][1] = <<"attach", after>> /\ hostOpen
    <2>1. <<"attach", after>> \in Frames => after \in Nat
      BY DEF Frames
    <2> QED
      BY <1>1, <2>1, ReceivedRest DEF Received
  <1>4. output.conn = 0 /\ ~output.closed /\ output \in Outputs
        /\ (client.phase = "open" /\ accepted = opened => after = client.cursor)
    BY <1>3 DEF Attachments, Connections, TypeOK
  <1>5. /\ o \in Outputs /\ Spooled(o) /\ Position(o) = 2 * s /\ o.conn # 0 /\ ~o.closed
        /\ o.sequence = output.sequence /\ o.acknowledged = output.acknowledged /\ ~o.pumping
        /\ o.conn = accepted /\ s \in Nat /\ s \in {after, output.acknowledged}
        /\ after <= s /\ output.acknowledged <= s /\ s <= output.sequence
    BY <1>1, <1>3, <1>4, StartKeeps
  <1> HIDE DEF o, s
  <1>6. PICK r \in o.offset..End(o) :
          /\ \/ r = o.offset /\ output' = o /\ o.offset = End(o)
             \/ r = End(o) /\ output' = Compact([o EXCEPT !.offset = End(o)])
             \/ output' = [o EXCEPT !.offset = r, !.pumping = TRUE]
          /\ down' = IF Watching(accepted) THEN frame \o Unread(o, r) ELSE down
    <2>1. o.offset \in Nat /\ End(o) \in Nat /\ o.offset <= End(o)
      BY <1>5 DEF Outputs, Spooled, End
    <2>2. o.offset \in o.offset..End(o) /\ End(o) \in o.offset..End(o)
          /\ \A r \in Stops(o) : r \in o.offset..End(o)
      BY <2>1 DEF Stops
    <2>3. frame = IF Watching(accepted) THEN frame \o Unread(o, o.offset) ELSE down
      <3>1. down \o Frame(Attached) \in Seq(Units)
        <4>1. Frame(Attached) \in Seq(Units)
          BY DEF Frame, Units, Attached
        <4> QED
          BY <4>1, ConcatProperties DEF TypeOK
      <3> QED
        BY <1>5, <3>1, NothingUnread DEF Written
    <2>4. CASE o.offset = End(o)
      BY <1>2, <2>2, <2>3, <2>4
    <2>5. CASE o.offset # End(o)
      <3> HIDE DEF frame
      <3> QED
        BY <1>2, <1>5, <2>2, <2>5
    <2> QED
      BY <2>4, <2>5
  <1>7. /\ output' \in Outputs /\ Spooled(output') /\ Pumped(output')
        /\ output'.sequence = output.sequence /\ output'.acknowledged = output.acknowledged
        /\ output'.conn = accepted /\ output'.closed = output.closed
        /\ Position(output') = Before(o) + r
    <2>1. \/ r = o.offset /\ output' = o /\ (o.offset = End(o) \/ o.pumping)
          \/ r = End(o) /\ output' = Compact([o EXCEPT !.offset = End(o)])
          \/ output' = [o EXCEPT !.offset = r, !.pumping = TRUE]
      BY <1>6
    <2> HIDE DEF frame
    <2>2. /\ output' \in Outputs /\ Spooled(output') /\ Pumped(output')
          /\ output'.sequence = o.sequence /\ output'.acknowledged = o.acknowledged
          /\ output'.conn = o.conn /\ output'.closed = o.closed
          /\ Position(output') = Before(o) + r
      BY <1>5, <2>1, WrittenKeeps
    <2>3. o.closed = output.closed
      BY <1>4, <1>5 DEF Outputs
    <2> QED
      BY <1>4, <1>5, <2>2, <2>3
  <1>8. /\ Unread(o, r) \in Seq(Units) /\ Carries(Unread(o, r), 2 * s, Before(o) + r)
        /\ Before(o) + r \in Nat /\ 2 * s <= Before(o) + r /\ Before(o) + r <= 2 * output.sequence
    <2>1. /\ Unread(o, r) \in Seq(Units) /\ Carries(Unread(o, r), Position(o), Before(o) + r)
          /\ Before(o) \in Nat /\ Position(o) <= Before(o) + r
          /\ Before(o) + r <= 2 * o.sequence
      BY <1>5, <1>6, UnreadCarries
    <2>2. r \in Nat
      BY <1>5, <1>6 DEF Outputs, End
    <2>3. Before(o) + r \in Nat
      BY <2>1, <2>2
    <2> QED
      BY <1>5, <2>1, <2>3
  <1>9. /\ Frame(Attached) \in Seq(Units) /\ Len(Frame(Attached)) = 1
        /\ Frame(Attached)[1] = <<Attached, 0>>
    BY DEF Frame, Units, Attached
  <1>10. down' \in Seq(Units)
    <2>1. down \in Seq(Units) /\ down \o Frame(Attached) \in Seq(Units)
      BY <1>9, ConcatProperties DEF TypeOK
    <2> DEFINE q == down \o Frame(Attached)
    <2>2. q \in Seq(Units)
      BY <2>1
    <2> HIDE DEF q
    <2>3. q \o Unread(o, r) \in Seq(Units)
      BY <1>8, <2>2, ConcatProperties
    <2> QED
      BY <1>6, <2>1, <2>3 DEF Written, q
  <1>11. TypeOK'
    BY <1>1, <1>3, <1>7, <1>10 DEF TypeOK
  <1>12. Connections' /\ Handed'
    BY <1>1, <1>3, <1>4, <1>7 DEF Connections, Handed
  <1>13. Attachments' /\ Acknowledgements'
    BY <1>1, <1>4, ReceivedKeeps
  <1>14. Flow'
    <2> SUFFICES ASSUME client.phase = "open"
                 PROVE  /\ Unattached' => Silent'
                        /\ ~Unattached' => \E e \in Nat, h \in {0, 1}, t \in Nat, d \in {0, 1}, x \in {0, 1} :
                                             Flowing(e, h, t, d, x)'
      BY <1>1 DEF Flow
    <2>1. Silent
      BY <1>4 DEF Flow, Unattached
    <2>2. Unattached' <=> accepted < opened
      BY <1>1, <1>3, <1>7 DEF Unattached
    <2>3. CASE accepted < opened
      <3>1. ~Watching(accepted)
        BY <2>3 DEF Watching, TypeOK
      <3> QED
        BY <1>1, <1>6, <2>1, <2>2, <2>3, <3>1 DEF Silent
    <2>4. CASE ~(accepted < opened)
      <3>1. accepted = opened /\ Watching(accepted) /\ after = client.cursor
        BY <1>4, <2>4 DEF Watching, TypeOK
      <3>2. down' = Frame(Attached) \o Unread(o, r)
        <4>1. down \o Frame(Attached) = Frame(Attached)
          BY <1>9, <2>1, ConcatEmptySeq DEF Silent
        <4> QED
          BY <1>6, <3>1, <4>1 DEF Written
      <3>10. PICK e \in Nat, u \in Nat : e = s /\ u = Before(o) + r
        BY <1>5, <1>8
      <3> DEFINE a == 2 * e
      <3>3. a \in Nat /\ a <= u /\ Carries(Unread(o, r), a, u)
        BY <1>5, <1>8, <3>10
      <3>4. Rest(down', 1, 2 * e + 0, u, 0)
        <4> HIDE DEF a
        <4> DEFINE f == Frame(Attached)
        <4>1. f \in Seq(Units) /\ Len(f) = 1 /\ f[1] = <<Attached, 0>>
          BY <1>9
        <4> HIDE DEF f
        <4>2. Rest(f, 1, a, a, 0)
          BY <3>3, <4>1 DEF Rest
        <4>3. Rest(f \o Unread(o, r), 1, a, u, 0)
          BY <1>8, <3>3, <4>1, <4>2, RestGrows
        <4>4. 2 * e + 0 = a
          BY DEF a
        <4> QED
          BY <3>2, <4>3, <4>4 DEF f
      <3>5. 2 * e + 0 <= u /\ u <= 2 * output.sequence
        BY <1>5, <1>8, <3>10
      <3>6. /\ client.cursor <= e /\ e <= high /\ output.acknowledged <= e
            /\ client.cursor # 0 => e = client.cursor
        <4>1. client.cursor \in Nat /\ high \in Nat /\ output.acknowledged \in Nat
          BY DEF TypeOK, Clients, Outputs
        <4> QED
          BY <1>5, <3>1, <3>10, <4>1 DEF Handed
      <3>7. u = Position(output')
        BY <1>7, <3>10
      <3>8. Flowing(e, 0, u, 1, 0)'
        BY <1>1, <1>7, <2>1, <3>4, <3>5, <3>6, <3>7 DEF Flowing, Silent
      <3> QED
        BY <2>2, <2>4, <3>8
    <2> QED
      BY <2>3, <2>4
  <1> QED
    BY <1>7, <1>11, <1>12, <1>13, <1>14

LEMMA AcknowledgeKeeps ==
  ASSUME LinkInv, NEW n, Acknowledge(n)
  PROVE  LinkInv' /\ output'.sequence = output.sequence
  <1> USE DEF LinkInv
  <1>1. /\ Received(<<"ack", n>>) /\ output' = Acknowledged(output, n) /\ output \in Outputs
        /\ UNCHANGED <<accepted, hostOpen, client, opened, down, unsent, sent, executed, high, daemons>>
    BY DEF Acknowledge, TypeOK
  <1>2. /\ accepted \in 1..MaxConns /\ n \in Nat /\ up' \in [1..MaxConns -> Seq(Frames)]
        /\ 1 \in 1..Len(up[accepted]) /\ up[accepted][1] = <<"ack", n>> /\ hostOpen
    <2>1. <<"ack", n>> \in Frames => n \in Nat
      BY DEF Frames
    <2> QED
      BY <1>1, <2>1, ReceivedRest DEF Received
  <1>3. /\ 0 < n /\ n <= high
        /\ client.cursor # 0 \/ (accepted = opened /\ client.phase = "open") => n <= client.cursor
    BY <1>2 DEF Acknowledgements
  <1>4. /\ output' \in Outputs /\ Spooled(output') /\ Pumped(output') /\ Same(output, output')
        /\ output'.acknowledged \in {output.acknowledged, n}
        /\ output.conn # 0 => Position(output') = Position(output)
    BY <1>1, <1>2, AcknowledgedKeeps
  <1>5. TypeOK'
    BY <1>1, <1>2, <1>4 DEF TypeOK
  <1>6. Connections' /\ Handed'
    BY <1>1, <1>3, <1>4 DEF Connections, Handed, Same
  <1>7. Attachments' /\ Acknowledgements'
    <2>1. output.closed => output'.closed
      BY <1>4 DEF Same
    <2> QED
      BY <1>1, <2>1, ReceivedKeeps
  <1>8. Flow'
    <2>1. \/ output'.acknowledged = output.acknowledged
          \/ /\ output'.acknowledged \in Nat
             /\ client.phase = "open" /\ accepted = opened => output'.acknowledged <= client.cursor
      BY <1>2, <1>3, <1>4
    <2> QED
      BY <1>1, <1>4, <2>1, FlowRests DEF Same
  <1> QED
    BY <1>4, <1>5, <1>6, <1>7, <1>8 DEF Same

LEMMA CommandKeeps ==
  ASSUME LinkInv, NEW n, Command(n)
  PROVE  LinkInv'
  <1> USE DEF LinkInv
  <1>1. /\ Received(<<"command", n>>) /\ executed' = Append(executed, n)
        /\ UNCHANGED <<output, accepted, hostOpen, client, opened, down, unsent, sent, high, daemons>>
    BY DEF Command
  <1>2. /\ n \in Nat /\ up' \in [1..MaxConns -> Seq(Frames)]
    <2>1. <<"command", n>> \in Frames => n \in Nat
      BY DEF Frames
    <2> QED
      BY <1>1, <2>1, ReceivedRest
  <1>3. TypeOK'
    <2>1. executed' \in Seq(Nat)
      BY <1>1, <1>2 DEF TypeOK
    <2> QED
      BY <1>1, <1>2, <2>1 DEF TypeOK
  <1>4. Connections' /\ Handed' /\ Spooled(output') /\ Pumped(output')
    BY <1>1 DEF Connections, Handed, Spooled, Pumped
  <1>5. Attachments' /\ Acknowledgements'
    BY <1>1, ReceivedKeeps
  <1>6. Flow'
    BY <1>1, FlowRests
  <1> QED
    BY <1>3, <1>4, <1>5, <1>6

-----------------------------------------------------------------------------
(* The steps of the client.                                                *)

LEMMA OpenStepKeeps ==
  ASSUME LinkInv, Open
  PROVE  LinkInv'
  <1> USE DEF LinkInv
  <1>1. /\ ~output.closed /\ opened < MaxConns /\ opened' = opened + 1 /\ down' = <<>>
        /\ client' = [client EXCEPT !.phase = "open", !.connected = FALSE, !.partial = <<>>]
        /\ UNCHANGED <<output, accepted, hostOpen, unsent, sent, executed, high, daemons>>
    BY DEF Open
  <1>2. accepted \in Nat /\ opened \in Nat /\ accepted <= opened /\ MaxConns \in Nat
    BY LinkAssumption DEF TypeOK
  <1>3. /\ client'.phase = "open" /\ client'.connected = FALSE /\ client'.partial = <<>>
        /\ client'.cursor = client.cursor /\ client' \in Clients
    <2>1. client \in Clients /\ <<>> \in Seq(Units)
      BY DEF TypeOK
    <2> QED
      BY <1>1, <2>1 DEF Clients
  <1>4. up' \in [1..MaxConns -> Seq(Frames)] /\ Attachments' /\ Acknowledgements'
    BY OpenKeeps
  <1>5. TypeOK'
    <2>1. opened + 1 \in 0..MaxConns /\ accepted <= opened + 1 /\ <<>> \in Seq(Units)
      BY <1>1, <1>2
    <2> QED
      BY <1>1, <1>3, <1>4, <2>1 DEF TypeOK
  <1>6. accepted < opened + 1 /\ opened + 1 # 0 /\ accepted # opened + 1
    BY <1>2
  <1>7. Connections' /\ Handed' /\ Spooled(output') /\ Pumped(output')
    BY <1>1, <1>3, <1>6 DEF Connections, Handed, Spooled, Pumped
  <1>8. Flow'
    BY <1>1, <1>3, <1>6 DEF Flow, Unattached, Silent
  <1> QED
    BY <1>4, <1>5, <1>7, <1>8

\* The daemon leaves the connection, with its cursor or without.
LEMMA LeavingKeeps ==
  ASSUME LinkInv, Less, client' \in Clients, client'.phase # "open",
         client'.phase = "retry" => ~client'.connected,
         client'.cursor \in {client.cursor, 0},
         unsent' \in Seq(Nat), down' \in Seq(Units), daemons' \in Nat,
         UNCHANGED <<output, accepted, hostOpen, opened, sent, executed, high>>
  PROVE  LinkInv'
  <1> USE DEF LinkInv
  <1>1. TypeOK'
    BY DEF TypeOK, Less
  <1>2. high \in Nat /\ client.cursor \in Nat
    BY DEF TypeOK, Clients
  <1>3. Connections' /\ Handed' /\ Spooled(output') /\ Pumped(output')
    <2>1. Connections' /\ Spooled(output') /\ Pumped(output')
      BY DEF Connections
    <2>2. 0 <= high
      BY <1>2
    <2>3. Handed'
      BY <1>2, <2>2 DEF Handed
    <2> QED
      BY <2>1, <2>3
  <1>4. Attachments' /\ Acknowledgements'
    <2>1. high <= high'
      BY <1>2
    <2> QED
      BY <1>1, <2>1, LessKeeps
  <1>5. Flow'
    BY DEF Flow
  <1> QED
    BY <1>1, <1>3, <1>4, <1>5

LEMMA NewClientIsClient ==
  NewClient \in Clients /\ NewClient.cursor = 0 /\ NewClient.phase = "idle"
  <1>1. <<>> \in Seq(Units)
    OBVIOUS
  <1> QED
    BY <1>1 DEF NewClient, Clients

LEMMA OpenAbsentKeeps ==
  ASSUME LinkInv, OpenAbsent
  PROVE  LinkInv'
  <1>1. TypeOK /\ client \in Clients
    BY DEF LinkInv, TypeOK
  <1>2. /\ client' = [client EXCEPT !.phase = "ended"]
        /\ UNCHANGED <<output, accepted, hostOpen, opened, up, down, unsent, sent, executed, high, daemons>>
    BY DEF OpenAbsent
  <1>3. client' \in Clients /\ client'.phase = "ended" /\ client'.cursor = client.cursor
    BY <1>1, <1>2 DEF Clients
  <1>4. Less
    BY <1>1, <1>2, UnchangedLess
  <1> QED
    BY <1>1, <1>2, <1>3, <1>4, LeavingKeeps DEF TypeOK

LEMMA DisconnectKeeps ==
  ASSUME LinkInv, Disconnect
  PROVE  LinkInv'
  <1>1. TypeOK /\ client \in Clients /\ Connections /\ <<>> \in Seq(Nat) /\ <<>> \in Seq(Units)
    BY DEF LinkInv, TypeOK
  <1>2. /\ client' = (IF client.attached THEN [client EXCEPT !.phase = "retry", !.connected = FALSE]
                      ELSE NewClient)
        /\ unsent' = (IF client.attached THEN unsent ELSE <<>>) /\ down' = <<>> /\ Cut
        /\ client.phase = "open"
        /\ UNCHANGED <<output, accepted, hostOpen, opened, sent, executed, high, daemons>>
    BY DEF Disconnect
  <1>3. Less
    BY <1>1, <1>2, CutLess DEF Connections
  <1>4. /\ client' \in Clients /\ client'.phase # "open" /\ client'.cursor \in {client.cursor, 0}
        /\ client'.phase = "retry" => ~client'.connected
    <2>1. CASE client.attached
      BY <1>1, <1>2, <2>1 DEF Clients
    <2>2. CASE ~client.attached
      BY <1>2, <2>2, NewClientIsClient
    <2> QED
      BY <2>1, <2>2
  <1> QED
    BY <1>1, <1>2, <1>3, <1>4, LeavingKeeps DEF TypeOK

LEMMA ReplacedKeeps ==
  ASSUME LinkInv, Replaced
  PROVE  LinkInv'
  <1>1. TypeOK /\ client \in Clients /\ Connections /\ <<>> \in Seq(Nat) /\ <<>> \in Seq(Units)
    BY DEF LinkInv, TypeOK
  <1>2. /\ client' = NewClient /\ unsent' = <<>> /\ down' = <<>> /\ daemons' = daemons + 1
        /\ IF client.phase = "open" THEN Cut ELSE UNCHANGED up
        /\ UNCHANGED <<output, accepted, hostOpen, opened, sent, executed, high>>
    BY DEF Replaced
  <1>3. Less
    <2>1. CASE client.phase = "open"
      BY <1>1, <1>2, <2>1, CutLess DEF Connections
    <2>2. CASE client.phase # "open"
      BY <1>1, <1>2, <2>2, UnchangedLess
    <2> QED
      BY <2>1, <2>2
  <1>4. daemons' \in Nat
    BY <1>1, <1>2 DEF TypeOK
  <1> QED
    BY <1>1, <1>2, <1>3, <1>4, NewClientIsClient, LeavingKeeps

\* What the daemon reads is where it is in the stream.
LEMMA ReadFlow ==
  ASSUME LinkInv, Read
  PROVE  /\ accepted = opened /\ opened # 0 /\ (output.conn # 0 \/ output.closed)
         /\ down' \in Seq(Units) /\ Head(down) \in Units
         /\ \E s \in Nat, h \in {0, 1}, t \in Nat, d \in {0, 1}, x \in {0, 1} :
              /\ Flowing(s, h, t, d, x)
              /\ \/ d = 1 /\ Head(down) = <<Attached, 0>> /\ Rest(down', 0, 2 * s + h, t, x)
                 \/ /\ d = 0 /\ 2 * s + h < t /\ Head(down) = <<s + 1, 1 - h>>
                    /\ Rest(down', 0, 2 * s + h + 1, t, x) /\ client.connected
                 \/ d = 0 /\ Head(down) = <<Exit, 0>>
  <1> USE DEF LinkInv
  <1>1. client.phase = "open" /\ down # <<>> /\ down' = Tail(down) /\ down \in Seq(Units)
    BY DEF Read, TypeOK
  <1>2. ~Unattached
    BY <1>1 DEF Flow, Silent
  <1>3. accepted = opened /\ opened # 0 /\ (output.conn # 0 \/ output.closed)
    BY <1>1, <1>2 DEF Unattached, Connections, TypeOK
  <1>4. PICK s \in Nat, h \in {0, 1}, t \in Nat, d \in {0, 1}, x \in {0, 1} : Flowing(s, h, t, d, x)
    BY <1>1, <1>2 DEF Flow
  <1> DEFINE a == 2 * s + h
  <1>5. a \in Nat /\ a <= t /\ Rest(down, d, a, t, x)
    BY <1>4 DEF Flowing
  <1>6. a + 1 = 2 * s + h + 1 /\ Unit(a + 1) = <<s + 1, 1 - h>>
    <2>1. CASE h = 0
      <3>1. a + 1 = 2 * s + 1 /\ 1 - h = 1
        BY <2>1
      <3> QED
        BY <2>1, <3>1, UnitsOfLine
    <2>2. CASE h = 1
      <3>1. a + 1 = 2 * s + 2 /\ 1 - h = 0
        BY <2>2
      <3> QED
        BY <2>2, <3>1, UnitsOfLine
    <2> QED
      BY <2>1, <2>2
  <1> HIDE DEF a
  <1>7. /\ Tail(down) \in Seq(Units) /\ Head(down) \in Units
        /\ \/ d = 1 /\ Head(down) = <<Attached, 0>> /\ Rest(Tail(down), 0, a, t, x)
           \/ d = 0 /\ a < t /\ Head(down) = Unit(a + 1) /\ Rest(Tail(down), 0, a + 1, t, x)
           \/ d = 0 /\ a = t /\ x = 1 /\ Head(down) = <<Exit, 0>>
    BY <1>1, <1>5, RestRead
  <1>8. d = 0 /\ a < t => client.connected
    <2> SUFFICES ASSUME d = 0, a < t, ~client.connected PROVE FALSE
      OBVIOUS
    <2>1. t = 2 * s /\ h = 0
      BY <1>4 DEF Flowing
    <2> QED
      BY <2>1 DEF a
  <1>9. \/ d = 1 /\ Head(down) = <<Attached, 0>> /\ Rest(down', 0, 2 * s + h, t, x)
        \/ /\ d = 0 /\ 2 * s + h < t /\ Head(down) = <<s + 1, 1 - h>>
           /\ Rest(down', 0, 2 * s + h + 1, t, x) /\ client.connected
        \/ d = 0 /\ Head(down) = <<Exit, 0>>
    BY <1>1, <1>6, <1>7, <1>8 DEF a
  <1> QED
    BY <1>1, <1>3, <1>4, <1>7, <1>9

\* A line that is only begun, whole or anything else.
LEMMA ReadPartialKeeps ==
  ASSUME LinkInv, ReadPartial
  PROVE  LinkInv'
  <1> USE DEF LinkInv
  <1>1. /\ Read /\ Head(down)[2] # 0 /\ client' = [client EXCEPT !.partial = Partial]
        /\ UNCHANGED <<output, accepted, hostOpen, opened, up, unsent, sent, executed, high, daemons>>
    BY DEF ReadPartial, Read
  <1>2. PICK s \in Nat, h \in {0, 1}, t \in Nat, d \in {0, 1}, x \in {0, 1} :
          /\ Flowing(s, h, t, d, x)
          /\ \/ d = 1 /\ Head(down) = <<Attached, 0>> /\ Rest(down', 0, 2 * s + h, t, x)
             \/ /\ d = 0 /\ 2 * s + h < t /\ Head(down) = <<s + 1, 1 - h>>
                /\ Rest(down', 0, 2 * s + h + 1, t, x) /\ client.connected
             \/ d = 0 /\ Head(down) = <<Exit, 0>>
    BY <1>1, ReadFlow
  <1>3. d = 0 /\ h = 0 /\ Head(down) = <<s + 1, 1>> /\ Rest(down', 0, 2 * s + 1, t, x)
        /\ 2 * s + 1 <= t /\ client.connected
    <2>1. 1 - h # 0 => h = 0 /\ 2 * s + h + 1 = 2 * s + 1 /\ 1 - h = 1
      OBVIOUS
    <2>2. d = 0 /\ 2 * s + h < t /\ Head(down) = <<s + 1, 1 - h>>
          /\ Rest(down', 0, 2 * s + h + 1, t, x) /\ client.connected
      BY <1>1, <1>2
    <2>3. 1 - h # 0
      BY <1>1, <2>2
    <2>4. 2 * s + 1 <= t
      BY <2>1, <2>2, <2>3
    <2> QED
      BY <2>1, <2>2, <2>3, <2>4
  <1>4. Partial = <<<<s + 1, 1>>>>
    <2>1. client.partial = <<>>
      BY <1>2, <1>3 DEF Flowing
    <2> QED
      BY <1>3, <2>1 DEF Partial
  <1>5. /\ client'.partial = <<<<s + 1, 1>>>> /\ client'.phase = client.phase
        /\ client'.connected = client.connected /\ client'.cursor = client.cursor
        /\ client' \in Clients
    <2>1. client \in Clients /\ <<<<s + 1, 1>>>> \in Seq(Units)
      BY DEF TypeOK, Units
    <2> QED
      BY <1>1, <1>4, <2>1 DEF Clients
  <1>6. /\ accepted = opened /\ (output.conn # 0 \/ output.closed) /\ down' \in Seq(Units)
    BY <1>1, ReadFlow
  <1>7. TypeOK'
    BY <1>1, <1>5, <1>6 DEF TypeOK
  <1>8. Connections' /\ Handed' /\ Spooled(output') /\ Pumped(output')
    BY <1>1, <1>5 DEF Connections, Handed, Spooled, Pumped
  <1>9. Attachments' /\ Acknowledgements'
    <2>1. Less
      BY <1>1, UnchangedLess
    <2>2. high <= high' /\ high \in Nat
      BY <1>1 DEF TypeOK
    <2> QED
      BY <1>1, <1>5, <1>7, <2>1, <2>2, LessKeeps
  <1>10. Flow'
    <2>1. ~Unattached'
      BY <1>1, <1>6 DEF Unattached, TypeOK
    <2>2. Rest(down', 0, 2 * s + 1, t, x) /\ 2 * s + 1 <= t
      BY <1>3
    <2>3. Flowing(s, 1, t, 0, x)'
      BY <1>1, <1>2, <1>3, <1>5, <2>2 DEF Flowing
    <2> QED
      BY <2>1, <2>3 DEF Flow
  <1> QED
    BY <1>7, <1>8, <1>9, <1>10

LEMMA ReadAttachedKeeps ==
  ASSUME LinkInv, ReadAttached
  PROVE  LinkInv'
  <1> USE DEF LinkInv
  <1> DEFINE fs == [i \in 1..Len(unsent) |-> <<"command", unsent[i]>>]
  <1>1. /\ Read /\ Partial = Frame(Attached) /\ Sent(fs) /\ unsent' = <<>>
        /\ client' = [client EXCEPT !.attached = TRUE, !.connected = TRUE, !.partial = <<>>]
        /\ client.phase = "open"
        /\ UNCHANGED <<output, accepted, hostOpen, opened, sent, executed, high, daemons>>
    BY DEF ReadAttached, Read
  <1>2. PICK s \in Nat, h \in {0, 1}, t \in Nat, d \in {0, 1}, x \in {0, 1} :
          /\ Flowing(s, h, t, d, x)
          /\ \/ d = 1 /\ Head(down) = <<Attached, 0>> /\ Rest(down', 0, 2 * s + h, t, x)
             \/ /\ d = 0 /\ 2 * s + h < t /\ Head(down) = <<s + 1, 1 - h>>
                /\ Rest(down', 0, 2 * s + h + 1, t, x) /\ client.connected
             \/ d = 0 /\ Head(down) = <<Exit, 0>>
    BY <1>1, ReadFlow
  <1>3. Head(down) = <<Attached, 0>>
    <2>1. client.partial = (IF h = 1 THEN <<<<s + 1, 1>>>> ELSE <<>>)
      BY <1>2 DEF Flowing
    <2>2. CASE h = 1
      <3>1. Len(Partial) = 2 /\ Len(Frame(Attached)) = 1
        BY <2>1, <2>2 DEF Partial, Frame
      <3>2. Partial = Frame(Attached)
        BY <1>1
      <3>3. Len(Partial) # Len(Frame(Attached))
        BY <3>1
      <3> QED
        BY <3>2, <3>3
    <2>3. CASE h # 1
      BY <1>1, <2>1, <2>3 DEF Partial, Frame
    <2> QED
      BY <2>2, <2>3
  <1>4. d = 1 /\ h = 0 /\ Rest(down', 0, 2 * s + 0, t, x)
    <2>1. s + 1 # 0 /\ Attached # Exit
      BY DEF Attached, Exit
    <2>2. d = 1 /\ Rest(down', 0, 2 * s + h, t, x)
      BY <1>2, <1>3, <2>1 DEF Attached
    <2>3. h = 0
      BY <1>2, <2>2 DEF Flowing
    <2> QED
      BY <2>2, <2>3
  <1>5. /\ client'.partial = <<>> /\ client'.phase = "open"
        /\ client'.connected = TRUE /\ client'.cursor = client.cursor
        /\ client' \in Clients
    <2>1. client \in Clients /\ <<>> \in Seq(Units)
      BY DEF TypeOK
    <2> QED
      BY <1>1, <2>1 DEF Clients
  <1>6. accepted = opened /\ opened # 0 /\ (output.conn # 0 \/ output.closed)
        /\ down' \in Seq(Units)
    BY <1>1, ReadFlow
  <1>7. /\ fs \in Seq(Frames) /\ Len(fs) = Len(unsent)
        /\ \A i \in 1..Len(fs) : fs[i] = <<"command", unsent[i]>>
    <2>1. unsent \in Seq(Nat) /\ \A i \in 1..Len(unsent) : unsent[i] \in Nat
      BY DEF TypeOK
    <2>2. \A i \in 1..Len(unsent) : <<"command", unsent[i]>> \in Frames
      BY <2>1 DEF Frames
    <2> QED
      BY <2>1, <2>2
  <1> HIDE DEF fs
  <1>8. TypeOK'
    <2>1. up' \in [1..MaxConns -> Seq(Frames)]
      BY <1>1, <1>6, <1>7, SentMore
    <2> QED
      BY <1>1, <1>5, <1>6, <2>1 DEF TypeOK
  <1>9. Connections' /\ Handed' /\ Spooled(output') /\ Pumped(output')
    BY <1>1, <1>5, <1>6 DEF Connections, Handed, Spooled, Pumped
  <1>10. Attachments' /\ Acknowledgements'
    <2>1. high <= high' /\ client.cursor <= client'.cursor /\ client'.cursor <= high'
      <3>1. high \in Nat /\ client.cursor \in Nat
        BY DEF TypeOK, Clients
      <3> QED
        BY <1>1, <1>5, <3>1 DEF Handed
    <2>2. \A i \in 1..Len(fs) : fs[i][1] = "command"
      BY <1>7
    <2> QED
      BY <1>1, <1>5, <1>6, <1>7, <1>8, <2>1, <2>2, SentKeeps
  <1>11. Flow'
    <2>1. ~Unattached'
      BY <1>1, <1>6 DEF Unattached, TypeOK
    <2>2. Flowing(s, 0, t, 0, x)'
      BY <1>1, <1>2, <1>4, <1>5 DEF Flowing
    <2> QED
      BY <2>1, <2>2 DEF Flow
  <1> QED
    BY <1>8, <1>9, <1>10, <1>11

\* A whole event is the one behind those that were read, and it is new.
LEMMA OutputIsNext ==
  ASSUME LinkInv, ReadOutput
  PROVE  \E s \in Nat, t \in Nat, x \in {0, 1} :
           /\ Flowing(s, 1, t, 0, x) /\ client.connected
           /\ Head(down)[1] = s + 1 /\ Rest(down', 0, 2 * (s + 1) + 0, t, x)
           /\ 2 * (s + 1) + 0 <= t /\ s + 1 <= output.sequence
           /\ client'.cursor = s + 1 /\ client.cursor < s + 1
           /\ client' = [client EXCEPT !.partial = <<>>, !.cursor = s + 1]
           /\ high' = (IF s + 1 > high THEN s + 1 ELSE high)
           /\ Sent(<<<<"ack", s + 1>>>>)
  <1> USE DEF LinkInv
  <1> DEFINE n == Head(down)[1]
  <1>1. /\ Read /\ n > 0 /\ Partial = EventLine(n)
        /\ n > client.cursor =>
             /\ client' = [client EXCEPT !.partial = <<>>, !.cursor = n]
             /\ high' = (IF n > high THEN n ELSE high)
             /\ Sent(<<<<"ack", n>>>>)
    <2>1. client.cursor \in Nat /\ Head(down) \in Units
      BY ReadFlow DEF TypeOK, Clients, ReadOutput
    <2>2. n \in Int
      BY <2>1 DEF Units
    <2>3. n > client.cursor => ~(n <= client.cursor)
      BY <2>1, <2>2
    <2> QED
      BY <2>3 DEF ReadOutput
  <1>2. PICK s \in Nat, h \in {0, 1}, t \in Nat, d \in {0, 1}, x \in {0, 1} :
          /\ Flowing(s, h, t, d, x)
          /\ \/ d = 1 /\ Head(down) = <<Attached, 0>> /\ Rest(down', 0, 2 * s + h, t, x)
             \/ /\ d = 0 /\ 2 * s + h < t /\ Head(down) = <<s + 1, 1 - h>>
                /\ Rest(down', 0, 2 * s + h + 1, t, x) /\ client.connected
             \/ d = 0 /\ Head(down) = <<Exit, 0>>
    BY <1>1, ReadFlow
  <1>3. /\ d = 0 /\ 2 * s + h < t /\ Head(down) = <<s + 1, 1 - h>>
        /\ Rest(down', 0, 2 * s + h + 1, t, x) /\ client.connected /\ n = s + 1
    <2>1. Head(down) # <<Attached, 0>> /\ Head(down) # <<Exit, 0>>
      BY <1>1 DEF Attached, Exit
    <2> QED
      BY <1>2, <2>1
  <1>4. h = 1
    <2> SUFFICES ASSUME h = 0 PROVE FALSE
      OBVIOUS
    <2>1. client.partial = <<>>
      BY <1>2 DEF Flowing
    <2>2. Len(Partial) = 1
      BY <2>1 DEF Partial
    <2>3. Len(EventLine(n)) = 2
      BY DEF EventLine
    <2> QED
      BY <1>1, <2>2, <2>3
  <1>5. 2 * (s + 1) + 0 <= t /\ 2 * s + h + 1 = 2 * (s + 1) + 0
    BY <1>3, <1>4
  <1>6. client.cursor <= s /\ client.cursor \in Nat /\ t <= 2 * output.sequence
        /\ output.sequence \in Nat
    BY <1>2, <1>3 DEF Flowing, TypeOK, Clients, Outputs
  <1>7. n > client.cursor /\ client.cursor < s + 1 /\ s + 1 <= output.sequence
    BY <1>3, <1>5, <1>6
  <1>8. client' = [client EXCEPT !.partial = <<>>, !.cursor = s + 1] /\ client'.cursor = s + 1
    <2>1. client \in Clients
      BY DEF TypeOK
    <2> QED
      BY <1>1, <1>3, <1>7, <2>1 DEF Clients
  <1>9. high' = (IF s + 1 > high THEN s + 1 ELSE high) /\ Sent(<<<<"ack", s + 1>>>>)
    BY <1>1, <1>3, <1>7
  <1> QED
    BY <1>2, <1>3, <1>4, <1>5, <1>7, <1>8, <1>9

LEMMA ReadOutputKeeps ==
  ASSUME LinkInv, ReadOutput
  PROVE  LinkInv'
  <1> USE DEF LinkInv
  <1>1. PICK s \in Nat, t \in Nat, x \in {0, 1} :
           /\ Flowing(s, 1, t, 0, x) /\ client.connected
           /\ Head(down)[1] = s + 1 /\ Rest(down', 0, 2 * (s + 1) + 0, t, x)
           /\ 2 * (s + 1) + 0 <= t /\ s + 1 <= output.sequence
           /\ client'.cursor = s + 1 /\ client.cursor < s + 1
           /\ client' = [client EXCEPT !.partial = <<>>, !.cursor = s + 1]
           /\ high' = (IF s + 1 > high THEN s + 1 ELSE high)
           /\ Sent(<<<<"ack", s + 1>>>>)
    BY OutputIsNext
  <1>2. /\ Read /\ client.phase = "open" /\ unsent' = unsent
        /\ UNCHANGED <<output, accepted, hostOpen, opened, sent, executed, daemons>>
    BY DEF ReadOutput, Read
  <1>3. accepted = opened /\ opened # 0 /\ (output.conn # 0 \/ output.closed)
        /\ down' \in Seq(Units)
    BY <1>2, ReadFlow
  <1>4. /\ client'.partial = <<>> /\ client'.phase = "open"
        /\ client'.connected = client.connected /\ client' \in Clients
    <2>1. client \in Clients /\ <<>> \in Seq(Units) /\ s + 1 \in Nat
      BY DEF TypeOK
    <2> QED
      BY <1>1, <1>2, <2>1 DEF Clients
  <1>5. /\ high \in Nat /\ high' \in Nat /\ high <= high' /\ s + 1 <= high' /\ high' <= output.sequence
        /\ output.acknowledged <= s /\ output.acknowledged <= high' /\ output.acknowledged <= s + 1
    <2>1. high \in Nat /\ high <= output.sequence /\ output.sequence \in Nat
          /\ output.acknowledged \in Nat
      BY DEF TypeOK, Handed, Outputs
    <2>2. output.acknowledged <= s
      BY <1>1 DEF Flowing
    <2> QED
      BY <1>1, <2>1, <2>2
  <1> DEFINE fs == <<<<"ack", s + 1>>>>
  <1>6. fs \in Seq(Frames) /\ Len(fs) = 1 /\ fs[1] = <<"ack", s + 1>>
    BY DEF Frames
  <1> HIDE DEF fs
  <1>7. Sent(fs)
    BY <1>1 DEF fs
  <1>8. TypeOK'
    <2>1. up' \in [1..MaxConns -> Seq(Frames)]
      BY <1>3, <1>6, <1>7, SentMore
    <2> QED
      BY <1>2, <1>3, <1>4, <1>5, <2>1 DEF TypeOK
  <1>9. Connections' /\ Handed' /\ Spooled(output') /\ Pumped(output')
    BY <1>1, <1>2, <1>3, <1>4, <1>5 DEF Connections, Handed, Spooled, Pumped
  <1>10. Attachments' /\ Acknowledgements'
    <2>1. \A i \in 1..Len(fs) : fs[i][1] = "ack" /\ fs[i][2] = client'.cursor
      BY <1>1, <1>6
    <2>2. client.cursor <= client'.cursor /\ client'.cursor <= high' /\ client'.cursor # 0
      <3>1. client.cursor \in Nat
        BY DEF TypeOK, Clients
      <3> QED
        BY <1>1, <1>5, <3>1
    <2> QED
      BY <1>2, <1>3, <1>5, <1>6, <1>7, <1>8, <2>1, <2>2, SentKeeps
  <1>11. Flow'
    <2>1. ~Unattached'
      BY <1>2, <1>3 DEF Unattached, TypeOK
    <2>2. s + 1 \in Nat
      OBVIOUS
    <2>3. Flowing(s + 1, 0, t, 0, x)'
      BY <1>1, <1>2, <1>4, <1>5 DEF Flowing
    <2> QED
      BY <2>1, <2>2, <2>3 DEF Flow
  <1> QED
    BY <1>8, <1>9, <1>10, <1>11

LEMMA ReadEndKeeps ==
  ASSUME LinkInv, ReadExit \/ ReadTorn
  PROVE  LinkInv'
  <1>1. TypeOK /\ client \in Clients /\ <<>> \in Seq(Units)
    BY DEF LinkInv, TypeOK
  <1>2. /\ client' \in {[client EXCEPT !.phase = "ended", !.partial = <<>>],
                        [client EXCEPT !.phase = "failed", !.partial = <<>>]}
        /\ Read /\ UNCHANGED <<output, accepted, hostOpen, opened, up, unsent, sent, executed, high, daemons>>
    BY DEF ReadExit, ReadTorn, Read
  <1>3. client' \in Clients /\ client'.phase \in {"ended", "failed"} /\ client'.cursor = client.cursor
    BY <1>1, <1>2 DEF Clients
  <1>4. Less
    BY <1>1, <1>2, UnchangedLess
  <1>5. down' \in Seq(Units)
    BY <1>2, ReadFlow
  <1> QED
    BY <1>1, <1>2, <1>3, <1>4, <1>5, LeavingKeeps DEF TypeOK

LEMMA SendKeeps ==
  ASSUME LinkInv, Send
  PROVE  LinkInv'
  <1> USE DEF LinkInv
  <1>1. /\ client.phase \in {"open", "retry"} /\ sent' = sent + 1
        /\ IF client.connected THEN Sent(<<<<"command", sent + 1>>>>) /\ UNCHANGED unsent
           ELSE unsent' = Append(unsent, sent + 1) /\ UNCHANGED up
        /\ UNCHANGED <<output, accepted, hostOpen, client, opened, down, executed, high, daemons>>
        /\ sent \in Nat /\ sent + 1 \in Nat
    BY DEF Send, TypeOK
  <1>2. Connections' /\ Handed' /\ Spooled(output') /\ Pumped(output')
    BY <1>1 DEF Connections, Handed, Spooled, Pumped
  <1>3. Flow'
    BY <1>1, FlowRests
  <1>4. CASE client.connected
    <2> DEFINE fs == <<<<"command", sent + 1>>>>
    <2>1. fs \in Seq(Frames) /\ Len(fs) = 1 /\ fs[1] = <<"command", sent + 1>>
      BY <1>1 DEF Frames
    <2> HIDE DEF fs
    <2>2. Sent(fs) /\ unsent' = unsent
      BY <1>1, <1>4 DEF fs
    <2>3. client.phase = "open" /\ ~Unattached
      BY <1>1, <1>4 DEF Connections, Flow, Silent
    <2>4. accepted = opened /\ opened # 0 /\ (output.conn # 0 \/ output.closed)
      BY <2>3 DEF Unattached, Connections, TypeOK
    <2>5. TypeOK'
      <3>1. up' \in [1..MaxConns -> Seq(Frames)]
        BY <2>1, <2>2, <2>4, SentMore
      <3> QED
        BY <1>1, <2>2, <3>1 DEF TypeOK
    <2>6. Attachments' /\ Acknowledgements'
      <3>1. high <= high' /\ client.cursor <= client'.cursor /\ client'.cursor <= high'
        <4>1. high \in Nat /\ client.cursor \in Nat
          BY DEF TypeOK, Clients
        <4> QED
          BY <1>1, <4>1 DEF Handed
      <3>2. \A i \in 1..Len(fs) : fs[i][1] = "command"
        BY <2>1
      <3> QED
        BY <1>1, <2>1, <2>2, <2>3, <2>4, <2>5, <3>1, <3>2, SentKeeps
    <2> QED
      BY <1>2, <1>3, <2>5, <2>6
  <1>5. CASE ~client.connected
    <2>1. unsent' \in Seq(Nat) /\ up' = up
      <3>1. unsent \in Seq(Nat) /\ unsent' = Append(unsent, sent + 1) /\ up' = up
        BY <1>1, <1>5 DEF TypeOK
      <3> QED
        BY <1>1, <3>1, AppendProperties
    <2>2. TypeOK'
      BY <1>1, <2>1 DEF TypeOK
    <2>3. Attachments' /\ Acknowledgements'
      <3>1. Less
        BY <2>1, UnchangedLess
      <3>2. high <= high' /\ high \in Nat
        BY <1>1 DEF TypeOK
      <3> QED
        BY <1>1, <2>2, <3>1, <3>2, LessKeeps
    <2> QED
      BY <1>2, <1>3, <2>2, <2>3
  <1> QED
    BY <1>4, <1>5

-----------------------------------------------------------------------------
(* The invariant of every state.                                           *)

LEMMA InitInv ==
  ASSUME Init
  PROVE  LinkInv
  <1>1. /\ output = NewOutput /\ client = NewClient /\ accepted = 0 /\ opened = 0
        /\ hostOpen = FALSE /\ down = <<>> /\ unsent = <<>> /\ executed = <<>>
        /\ sent = 0 /\ high = 0 /\ daemons = 1 /\ up = [c \in 1..MaxConns |-> <<>>]
    BY DEF Init
  <1>2. /\ output.sequence = 0 /\ output.acknowledged = 0 /\ output.acknowledgedOffset = 0
        /\ output.ends = <<>> /\ output.spool = <<>> /\ output.conn = 0 /\ output.offset = 0
        /\ output.pumping = FALSE /\ output.closed = FALSE /\ output \in Outputs
    <2>1. <<>> \in Seq(Nat) /\ <<>> \in Seq(Units)
      OBVIOUS
    <2> QED
      BY <1>1, <2>1 DEF NewOutput, Outputs
  <1>3. client \in Clients /\ client.phase = "idle" /\ client.cursor = 0
    BY <1>1, NewClientIsClient
  <1>4. up \in [1..MaxConns -> Seq(Frames)] /\ \A c \in 1..MaxConns : Len(up[c]) = 0
    <2>1. <<>> \in Seq(Frames) /\ Len(<<>>) = 0
      OBVIOUS
    <2> QED
      BY <1>1, <2>1
  <1>5. TypeOK
    <2>1. <<>> \in Seq(Nat) /\ <<>> \in Seq(Units) /\ 0 \in 0..MaxConns /\ 0 <= 0
      BY LinkAssumption
    <2> QED
      BY <1>1, <1>2, <1>3, <1>4, <2>1 DEF TypeOK
  <1>6. Spooled(output) /\ Pumped(output)
    <2>1. Len(output.spool) = 0 /\ Len(output.ends) = 0
      BY <1>2
    <2>2. Before(output) = 0
      <3>1. 2 * 0 - 0 = 0
        OBVIOUS
      <3> QED
        BY <1>2, <2>1, <3>1 DEF Before
    <2> QED
      BY <1>2, <2>1, <2>2 DEF Spooled, Pumped
  <1>7. Connections /\ Handed /\ Flow
    BY <1>1, <1>2, <1>3 DEF Connections, Handed, Flow
  <1>8. Attachments /\ Acknowledgements
    BY <1>4 DEF Attachments, Acknowledgements
  <1> QED
    BY <1>5, <1>6, <1>7, <1>8 DEF LinkInv

LEMMA StutterKeeps ==
  ASSUME LinkInv, UNCHANGED vars
  PROVE  LinkInv'
  BY DEF LinkInv, vars, TypeOK, Spooled, Pumped, Connections, Attachments, Handed,
         Acknowledgements, Flow, Unattached, Silent, Flowing, Position, Before

LEMMA NextKeeps ==
  ASSUME LinkInv, [Next]_vars
  PROVE  LinkInv'
  <1>1. CASE PublishLine
    BY <1>1, PublishLineKeeps
  <1>2. CASE Drain
    BY <1>2, DrainKeeps
  <1>3. CASE Finish
    BY <1>3, FinishKeeps
  <1>4. CASE Accept
    BY <1>4, AcceptStepKeeps
  <1>5. CASE Receive
    BY <1>5, AttachKeeps, AcknowledgeKeeps, CommandKeeps DEF Receive
  <1>6. CASE SocketClosed
    BY <1>6, SocketClosedKeeps
  <1>7. CASE Open
    BY <1>7, OpenStepKeeps
  <1>8. CASE OpenAbsent
    BY <1>8, OpenAbsentKeeps
  <1>9. CASE Disconnect
    BY <1>9, DisconnectKeeps
  <1>10. CASE Replaced
    BY <1>10, ReplacedKeeps
  <1>11. CASE ReadLine
    BY <1>11, ReadPartialKeeps, ReadAttachedKeeps, ReadOutputKeeps, ReadEndKeeps DEF ReadLine
  <1>12. CASE Send
    BY <1>12, SendKeeps
  <1>13. CASE UNCHANGED vars
    BY <1>13, StutterKeeps
  <1> QED
    BY <1>1, <1>2, <1>3, <1>4, <1>5, <1>6, <1>7, <1>8, <1>9, <1>10, <1>11, <1>12, <1>13 DEF Next

LEMMA Invariance == Spec => []LinkInv
  <1>1. Init => LinkInv
    BY InitInv
  <1>2. LinkInv /\ [Next]_vars => LinkInv'
    BY NextKeeps
  <1> QED
    BY <1>1, <1>2, PTL DEF Spec

\* Every variable keeps its type: the fields of the spool of runner-output.ts,
\* the client of runner-transport.ts, and the lines under way between them.
THEOREM TypeCorrect == Spec => []TypeOK
  <1>1. LinkInv => TypeOK
    BY DEF LinkInv
  <1> QED
    BY <1>1, Invariance, PTL

-----------------------------------------------------------------------------
(* The stream of events.                                                   *)

LEMMA StreamInit ==
  ASSUME Init
  PROVE  Stream!Init
  <1>1. output.sequence = 0 /\ high = 0 /\ client.cursor = 0
    BY DEF Init, NewOutput, NewClient
  <1> QED
    BY <1>1 DEF Stream!Init

\* What a step does to the stream: an event more, a new daemon, the next event
\* handed over, or nothing.
LEMMA StreamStep ==
  ASSUME LinkInv, [Next]_vars
  PROVE  \/ UNCHANGED <<output.sequence, client.cursor, high>>
         \/ output'.sequence = output.sequence + 1 /\ UNCHANGED <<client, high>>
         \/ client'.cursor = 0 /\ UNCHANGED <<output, high>>
         \/ ReadOutput
  <1>1. CASE PublishLine
    BY <1>1, PublishLineKeeps
  <1>2. CASE Drain
    BY <1>2, DrainKeeps DEF Drain
  <1>3. CASE Finish
    BY <1>3, FinishKeeps DEF Finish
  <1>4. CASE Accept
    BY <1>4, AcceptStepKeeps DEF Accept
  <1>5. CASE Receive
    <2>1. ASSUME NEW n, Attach(n)
          PROVE  output'.sequence = output.sequence /\ UNCHANGED <<client, high>>
      BY <2>1, AttachKeeps DEF Attach
    <2>2. ASSUME NEW n, Acknowledge(n)
          PROVE  output'.sequence = output.sequence /\ UNCHANGED <<client, high>>
      BY <2>2, AcknowledgeKeeps DEF Acknowledge
    <2>3. ASSUME NEW n, Command(n)
          PROVE  output'.sequence = output.sequence /\ UNCHANGED <<client, high>>
      BY <2>3 DEF Command
    <2> QED
      BY <1>5, <2>1, <2>2, <2>3 DEF Receive
  <1>6. CASE SocketClosed
    BY <1>6, SocketClosedKeeps DEF SocketClosed
  <1>7. CASE Open \/ OpenAbsent \/ ReadPartial \/ ReadAttached \/ ReadExit \/ ReadTorn
    <2>1. client \in Clients
      BY DEF LinkInv, TypeOK
    <2>2. UNCHANGED <<output, high>>
      BY <1>7 DEF Open, OpenAbsent, ReadPartial, ReadAttached, ReadExit, ReadTorn, Read
    <2>3. client'.cursor = client.cursor
      <3>1. \/ client' = [client EXCEPT !.phase = "open", !.connected = FALSE, !.partial = <<>>]
            \/ client' = [client EXCEPT !.phase = "ended"]
            \/ client' = [client EXCEPT !.partial = Partial]
            \/ client' = [client EXCEPT !.attached = TRUE, !.connected = TRUE, !.partial = <<>>]
            \/ client' = [client EXCEPT !.phase = "ended", !.partial = <<>>]
            \/ client' = [client EXCEPT !.phase = "failed", !.partial = <<>>]
        BY <1>7 DEF Open, OpenAbsent, ReadPartial, ReadAttached, ReadExit, ReadTorn
      <3> QED
        BY <2>1, <3>1 DEF Clients
    <2> QED
      BY <2>2, <2>3
  <1>8. CASE Disconnect
    <2>1. client \in Clients /\ UNCHANGED <<output, high>>
      BY <1>8 DEF LinkInv, TypeOK, Disconnect
    <2>2. CASE client.attached
      BY <1>8, <2>1, <2>2 DEF Disconnect, Clients
    <2>3. CASE ~client.attached
      BY <1>8, <2>1, <2>3, NewClientIsClient DEF Disconnect
    <2> QED
      BY <2>2, <2>3
  <1>9. CASE Replaced
    BY <1>9, NewClientIsClient DEF Replaced
  <1>10. CASE Send
    BY <1>10 DEF Send
  <1>11. CASE UNCHANGED vars
    BY <1>11 DEF vars
  <1> QED
    BY <1>1, <1>2, <1>3, <1>4, <1>5, <1>6, <1>7, <1>8, <1>9, <1>10, <1>11 DEF Next, ReadLine

LEMMA StreamNext ==
  ASSUME LinkInv, [Next]_vars
  PROVE  [Stream!Next]_(Stream!vars)
  <1>1. CASE UNCHANGED <<output.sequence, client.cursor, high>>
    BY <1>1 DEF Stream!vars
  <1>2. CASE output'.sequence = output.sequence + 1 /\ UNCHANGED <<client, high>>
    BY <1>2 DEF Stream!Next, Stream!Produce
  <1>3. CASE client'.cursor = 0 /\ UNCHANGED <<output, high>>
    BY <1>3 DEF Stream!Next, Stream!Replace
  <1>4. CASE ReadOutput
    <2>1. PICK s \in Nat, t \in Nat, x \in {0, 1} :
            /\ Flowing(s, 1, t, 0, x) /\ client.connected /\ s + 1 <= output.sequence
            /\ client'.cursor = s + 1
            /\ high' = (IF s + 1 > high THEN s + 1 ELSE high)
      BY <1>4, OutputIsNext
    <2>2. s <= high /\ (client.cursor # 0 => s = client.cursor) /\ high \in Nat
          /\ output.sequence \in Nat
      BY <2>1 DEF Flowing, LinkInv, TypeOK, Outputs
    <2>3. s + 1 \in 1..output.sequence /\ s + 1 <= high + 1
      BY <2>1, <2>2
    <2>4. output' = output
      BY <1>4 DEF ReadOutput, Read
    <2>5. Stream!Hand(s + 1)
      BY <2>1, <2>2, <2>3, <2>4 DEF Stream!Hand
    <2> QED
      BY <2>3, <2>5 DEF Stream!Next
  <1> QED
    BY <1>1, <1>2, <1>3, <1>4, StreamStep

\* KeepsOrder: over truncations of the spool (compact), chunks that end inside a
\* line, connections that fail and daemons that come later, every event is
\* handed to the daemon once, in order and without a gap (accept in
\* runner-transport.ts).
THEOREM EventsInOrder == Spec => KeepsOrder
  <1>1. Init => Stream!Init
    BY StreamInit
  <1>2. LinkInv /\ [Next]_vars => [Stream!Next]_(Stream!vars)
    BY StreamNext
  <1> QED
    BY <1>1, <1>2, Invariance, PTL DEF Spec, KeepsOrder, Stream!Spec

-----------------------------------------------------------------------------
(* The order of the commands.                                              *)

Ascending(q) == \A i, j \in 1..Len(q) : i < j => q[i] < q[j]

\* The commands of a connection are later than those that were executed and
\* earlier than those that wait for the attachment.
Between(q, done, waiting, last) ==
  \A i \in 1..Len(q) : q[i][1] = "command" =>
    /\ q[i][2] <= last
    /\ \A j \in 1..Len(done) : done[j] < q[i][2]
    /\ \A j \in 1..Len(waiting) : q[i][2] < waiting[j]
    /\ \A j \in 1..Len(q) : i < j /\ q[j][1] = "command" => q[i][2] < q[j][2]

\* Of the connections only the one the runner reads has commands that will be
\* executed: the ones it has not accepted have none yet (Attachments).
Ordered ==
  /\ Ascending(executed) /\ Ascending(unsent)
  /\ client.connected => unsent = <<>>
  /\ \A i \in 1..Len(executed) : executed[i] <= sent
  /\ \A i \in 1..Len(unsent) : unsent[i] <= sent
  /\ \A i \in 1..Len(executed), j \in 1..Len(unsent) : executed[i] < unsent[j]
  /\ accepted # 0 => Between(up[accepted], executed, unsent, sent)

\* What is left of a connection, k frames further on, has no new command.
Part(q, p, k) ==
  \A i \in 1..Len(q) : q[i][1] = "command" => i + k \in 1..Len(p) /\ q[i] = p[i + k]

LEMMA PartIsBetween ==
  ASSUME NEW p, NEW q, NEW k \in {0, 1}, NEW done, NEW waiting, NEW last,
         Between(p, done, waiting, last), Part(q, p, k),
         Len(p) \in Nat, Len(q) \in Nat
  PROVE  Between(q, done, waiting, last)
  <1> SUFFICES ASSUME NEW i \in 1..Len(q), q[i][1] = "command"
               PROVE  /\ q[i][2] <= last
                      /\ \A j \in 1..Len(done) : done[j] < q[i][2]
                      /\ \A j \in 1..Len(waiting) : q[i][2] < waiting[j]
                      /\ \A j \in 1..Len(q) : i < j /\ q[j][1] = "command" => q[i][2] < q[j][2]
    BY DEF Between
  <1>1. i + k \in 1..Len(p) /\ q[i] = p[i + k]
    BY DEF Part
  <1>2. /\ q[i][2] <= last
        /\ \A j \in 1..Len(done) : done[j] < q[i][2]
        /\ \A j \in 1..Len(waiting) : q[i][2] < waiting[j]
    BY <1>1 DEF Between
  <1>3. ASSUME NEW j \in 1..Len(q), i < j, q[j][1] = "command"
        PROVE  q[i][2] < q[j][2]
    <2>1. j + k \in 1..Len(p) /\ q[j] = p[j + k]
      BY <1>3 DEF Part
    <2>2. i + k < j + k
      BY <1>3
    <2> QED
      BY <1>1, <1>3, <2>1, <2>2 DEF Between
  <1> QED
    BY <1>2, <1>3

LEMMA NoneWaits ==
  ASSUME NEW q, NEW done, NEW waiting, NEW last, Between(q, done, waiting, last)
  PROVE  Between(q, done, <<>>, last)
  BY DEF Between

\* Nothing was sent and nothing executed; frames may be lost.
LEMMA PartOrdered ==
  ASSUME TypeOK, TypeOK', Ordered, NEW k \in {0, 1},
         accepted # 0 => Part(up'[accepted], up[accepted], k),
         unsent' \in {unsent, <<>>}, client'.connected => client.connected,
         UNCHANGED <<accepted, sent, executed>>
  PROVE  Ordered'
  <1>1. accepted # 0 => Between(up'[accepted], executed, unsent', sent)
    <2> SUFFICES ASSUME accepted # 0 PROVE Between(up'[accepted], executed, unsent', sent)
      OBVIOUS
    <2>1. accepted \in 1..MaxConns
      BY LinkAssumption DEF TypeOK
    <2>2. Len(up[accepted]) \in Nat /\ Len(up'[accepted]) \in Nat
      BY <2>1 DEF TypeOK
    <2>3. Between(up'[accepted], executed, unsent, sent)
      BY <2>2, PartIsBetween DEF Ordered
    <2> QED
      BY <2>3, NoneWaits
  <1>2. CASE unsent' = unsent
    BY <1>1, <1>2 DEF Ordered
  <1>3. CASE unsent' = <<>>
    <2>1. Len(unsent') = 0
      BY <1>3
    <2> QED
      BY <1>1, <1>3, <2>1 DEF Ordered, Ascending
  <1> QED
    BY <1>2, <1>3

LEMMA LessPart ==
  ASSUME TypeOK, Less
  PROVE  accepted # 0 => Part(up'[accepted], up[accepted], 0)
  <1> SUFFICES ASSUME accepted # 0 PROVE Part(up'[accepted], up[accepted], 0)
    OBVIOUS
  <1>1. accepted \in 1..MaxConns
    BY LinkAssumption DEF TypeOK
  <1>2. Len(up[accepted]) \in Nat /\ Len(up'[accepted]) \in Nat
    BY <1>1 DEF TypeOK, Less
  <1>3. ASSUME NEW i \in 1..Len(up'[accepted])
        PROVE  i + 0 \in 1..Len(up[accepted]) /\ up'[accepted][i] = up[accepted][i + 0]
    <2>1. i + 0 = i /\ i \in 1..Len(up[accepted])
      BY <1>1, <1>2 DEF Less
    <2> QED
      BY <1>1, <2>1 DEF Less
  <1> QED
    BY <1>3 DEF Part

LEMMA LessOrdered ==
  ASSUME TypeOK, TypeOK', Ordered, Less,
         unsent' \in {unsent, <<>>}, client'.connected => client.connected,
         UNCHANGED <<accepted, sent, executed>>
  PROVE  Ordered'
  BY LessPart, PartOrdered

LEMMA ReceivedPart ==
  ASSUME TypeOK, Connections, NEW f, Received(f)
  PROVE  accepted # 0 => Part(up'[accepted], up[accepted], 1)
  BY ReceivedRest DEF Part

\* Commands that are sent in order behind those that wait.
LEMMA MoreBetween ==
  ASSUME NEW p, NEW q, NEW fs, NEW done, NEW waiting, NEW last \in Nat, NEW now \in Nat,
         Len(p) \in Nat, Len(q) \in Nat, Len(fs) \in Nat, last <= now,
         \A i \in 1..Len(p) : p[i][2] \in Nat,
         Between(p, done, waiting, last),
         \A i \in 1..Len(q) :
           \/ i \in 1..Len(p) /\ q[i] = p[i]
           \/ i > Len(p) /\ i - Len(p) \in 1..Len(fs) /\ q[i] = fs[i - Len(p)],
         \A i \in 1..Len(fs) :
           /\ fs[i][2] <= now
           /\ \A j \in 1..Len(done) : done[j] < fs[i][2]
           /\ \A j \in 1..Len(p) : p[j][1] = "command" => p[j][2] < fs[i][2]
           /\ \A j \in 1..Len(fs) : i < j => fs[i][2] < fs[j][2]
  PROVE  Between(q, done, <<>>, now)
  <1> SUFFICES ASSUME NEW i \in 1..Len(q), q[i][1] = "command"
               PROVE  /\ q[i][2] <= now
                      /\ \A j \in 1..Len(done) : done[j] < q[i][2]
                      /\ \A j \in 1..Len(q) : i < j /\ q[j][1] = "command" => q[i][2] < q[j][2]
    BY DEF Between
  <1>1. CASE i \in 1..Len(p) /\ q[i] = p[i]
    <2>1. q[i][2] <= last /\ \A j \in 1..Len(done) : done[j] < q[i][2]
      BY <1>1 DEF Between
    <2>2. q[i][2] \in Nat
      BY <1>1
    <2>3. q[i][2] <= now
      BY <2>1, <2>2
    <2>4. ASSUME NEW j \in 1..Len(q), i < j, q[j][1] = "command" PROVE q[i][2] < q[j][2]
      <3>1. CASE j \in 1..Len(p) /\ q[j] = p[j]
        BY <1>1, <2>4, <3>1 DEF Between
      <3>2. CASE j > Len(p) /\ j - Len(p) \in 1..Len(fs) /\ q[j] = fs[j - Len(p)]
        BY <1>1, <3>2
      <3> QED
        BY <3>1, <3>2
    <2> QED
      BY <2>1, <2>3, <2>4
  <1>2. CASE i > Len(p) /\ i - Len(p) \in 1..Len(fs) /\ q[i] = fs[i - Len(p)]
    <2>1. ASSUME NEW j \in 1..Len(q), i < j, q[j][1] = "command" PROVE q[i][2] < q[j][2]
      <3>1. ~(j \in 1..Len(p))
        BY <1>2, <2>1
      <3>2. j - Len(p) \in 1..Len(fs) /\ q[j] = fs[j - Len(p)]
        BY <3>1
      <3>3. i - Len(p) < j - Len(p)
        BY <2>1
      <3> QED
        BY <1>2, <3>2, <3>3
    <2> QED
      BY <1>2, <2>1
  <1> QED
    BY <1>1, <1>2

LEMMA NumbersAreNat ==
  ASSUME TypeOK, NEW c \in 1..MaxConns
  PROVE  Len(up[c]) \in Nat /\ \A i \in 1..Len(up[c]) : up[c][i][2] \in Nat
  <1>1. up[c] \in Seq(Frames)
    BY DEF TypeOK
  <1>2. \A i \in 1..Len(up[c]) : up[c][i] \in Frames
    BY <1>1, ElementOfSeq
  <1> QED
    BY <1>1, <1>2 DEF Frames

LEMMA ReadAttachedOrdered ==
  ASSUME LinkInv, LinkInv', Ordered, ReadAttached
  PROVE  Ordered'
  <1> USE DEF LinkInv
  <1> DEFINE fs == [i \in 1..Len(unsent) |-> <<"command", unsent[i]>>]
  <1>1. Read /\ Sent(fs) /\ unsent' = <<>> /\ UNCHANGED <<accepted, opened, sent, executed>>
    BY DEF ReadAttached, Read
  <1>2. accepted = opened /\ opened # 0 /\ accepted \in 1..MaxConns
    BY <1>1, ReadFlow, LinkAssumption DEF TypeOK
  <1>3. fs \in Seq(Frames) /\ Len(fs) = Len(unsent) /\ Len(unsent) \in Nat
        /\ \A i \in 1..Len(fs) : fs[i] = <<"command", unsent[i]>>
    <2>1. unsent \in Seq(Nat) /\ \A i \in 1..Len(unsent) : unsent[i] \in Nat
      BY DEF TypeOK
    <2>2. \A i \in 1..Len(unsent) : <<"command", unsent[i]>> \in Frames
      BY <2>1 DEF Frames
    <2> QED
      BY <2>1, <2>2
  <1> HIDE DEF fs
  <1>4. \A i \in 1..Len(up'[accepted]) :
           \/ i \in 1..Len(up[accepted]) /\ up'[accepted][i] = up[accepted][i]
           \/ /\ i > Len(up[accepted]) /\ i - Len(up[accepted]) \in 1..Len(fs)
              /\ up'[accepted][i] = fs[i - Len(up[accepted])]
    BY <1>1, <1>2, <1>3, SentMore
  <1>5. \A i \in 1..Len(fs) :
           /\ fs[i][2] <= sent
           /\ \A j \in 1..Len(executed) : executed[j] < fs[i][2]
           /\ \A j \in 1..Len(up[accepted]) :
                up[accepted][j][1] = "command" => up[accepted][j][2] < fs[i][2]
           /\ \A j \in 1..Len(fs) : i < j => fs[i][2] < fs[j][2]
    BY <1>2, <1>3 DEF Ordered, Between, Ascending
  <1>6. sent \in Nat /\ sent <= sent /\ Len(up'[accepted]) \in Nat
    BY <1>2 DEF TypeOK
  <1>7. Between(up'[accepted], executed, <<>>, sent)
    <2>1. Between(up[accepted], executed, unsent, sent) /\ Len(fs) \in Nat
      BY <1>2, <1>3 DEF Ordered
    <2> QED
      BY <1>2, <1>4, <1>5, <1>6, <2>1, NumbersAreNat, MoreBetween
  <1>8. Len(unsent') = 0
    BY <1>1
  <1> QED
    BY <1>1, <1>7, <1>8 DEF Ordered, Ascending

LEMMA ReadOutputOrdered ==
  ASSUME LinkInv, LinkInv', Ordered, ReadOutput
  PROVE  Ordered'
  <1> USE DEF LinkInv
  <1>1. PICK s \in Nat : Sent(<<<<"ack", s + 1>>>>)
           /\ client' = [client EXCEPT !.partial = <<>>, !.cursor = s + 1]
    BY OutputIsNext
  <1>2. Read /\ UNCHANGED <<accepted, opened, sent, executed, unsent>>
    BY DEF ReadOutput, Read
  <1>3. accepted = opened /\ opened # 0
    BY <1>2, ReadFlow
  <1> DEFINE fs == <<<<"ack", s + 1>>>>
  <1>4. fs \in Seq(Frames) /\ \A i \in 1..Len(fs) : fs[i][1] = "ack"
    BY DEF Frames
  <1> HIDE DEF fs
  <1>5. Sent(fs)
    BY <1>1 DEF fs
  <1>6. \A i \in 1..Len(up'[accepted]) :
           \/ i \in 1..Len(up[accepted]) /\ up'[accepted][i] = up[accepted][i]
           \/ up'[accepted][i][1] = "ack"
    <2>1. \A i \in 1..Len(up'[opened]) :
             \/ i \in 1..Len(up[opened]) /\ up'[opened][i] = up[opened][i]
             \/ /\ i > Len(up[opened]) /\ i - Len(up[opened]) \in 1..Len(fs)
                /\ up'[opened][i] = fs[i - Len(up[opened])]
      BY <1>3, <1>4, <1>5, SentMore
    <2> QED
      BY <1>3, <1>4, <2>1
  <1>7. accepted # 0 => Part(up'[accepted], up[accepted], 0)
    <2>1. \A i \in 1..Len(up[accepted]) : i + 0 = i
      OBVIOUS
    <2> QED
      BY <1>6, <2>1 DEF Part
  <1>8. client'.connected = client.connected
    <2>1. client \in Clients
      BY DEF TypeOK
    <2> QED
      BY <1>1, <2>1 DEF Clients
  <1> QED
    BY <1>2, <1>7, <1>8, PartOrdered

LEMMA SendOrdered ==
  ASSUME LinkInv, LinkInv', Ordered, Send
  PROVE  Ordered'
  <1> USE DEF LinkInv
  <1>1. /\ client.phase \in {"open", "retry"} /\ sent' = sent + 1
        /\ IF client.connected THEN Sent(<<<<"command", sent + 1>>>>) /\ UNCHANGED unsent
           ELSE unsent' = Append(unsent, sent + 1) /\ UNCHANGED up
        /\ UNCHANGED <<client, accepted, opened, executed>>
        /\ sent \in Nat /\ sent + 1 \in Nat /\ sent <= sent + 1 /\ executed \in Seq(Nat)
        /\ unsent \in Seq(Nat)
    BY DEF Send, TypeOK
  <1>2. \A i \in 1..Len(executed) : executed[i] < sent + 1 /\ executed[i] <= sent + 1
    <2>1. \A i \in 1..Len(executed) : executed[i] \in Nat /\ executed[i] <= sent
      BY <1>1, ElementOfSeq DEF Ordered
    <2> QED
      BY <1>1, <2>1
  <1>3. CASE client.connected
    <2> DEFINE fs == <<<<"command", sent + 1>>>>
    <2>1. fs \in Seq(Frames) /\ Len(fs) = 1 /\ fs[1] = <<"command", sent + 1>>
      BY <1>1 DEF Frames
    <2> HIDE DEF fs
    <2>2. Sent(fs) /\ unsent' = <<>> /\ unsent = <<>>
      BY <1>1, <1>3 DEF fs, Ordered
    <2>3. client.phase = "open" /\ ~Unattached
      BY <1>1, <1>3 DEF Connections, Flow, Silent
    <2>4. accepted = opened /\ opened # 0 /\ accepted \in 1..MaxConns
      BY <2>3, LinkAssumption DEF Unattached, Connections, TypeOK
    <2>5. \A i \in 1..Len(up'[accepted]) :
             \/ i \in 1..Len(up[accepted]) /\ up'[accepted][i] = up[accepted][i]
             \/ /\ i > Len(up[accepted]) /\ i - Len(up[accepted]) \in 1..Len(fs)
                /\ up'[accepted][i] = fs[i - Len(up[accepted])]
      BY <2>1, <2>2, <2>4, SentMore
    <2>6. \A j \in 1..Len(up[accepted]) :
            up[accepted][j][1] = "command" => up[accepted][j][2] < sent + 1
      <3>1. \A j \in 1..Len(up[accepted]) : up[accepted][j][2] \in Nat
        BY <2>4, NumbersAreNat
      <3>2. \A j \in 1..Len(up[accepted]) :
              up[accepted][j][1] = "command" => up[accepted][j][2] <= sent
        BY <2>4 DEF Ordered, Between
      <3> QED
        BY <1>1, <3>1, <3>2
    <2>7. \A i \in 1..Len(fs) :
             /\ fs[i][2] <= sent + 1
             /\ \A j \in 1..Len(executed) : executed[j] < fs[i][2]
             /\ \A j \in 1..Len(up[accepted]) :
                  up[accepted][j][1] = "command" => up[accepted][j][2] < fs[i][2]
             /\ \A j \in 1..Len(fs) : i < j => fs[i][2] < fs[j][2]
      <3>1. \A i \in 1..Len(fs) : fs[i][2] = sent + 1 /\ \A j \in 1..Len(fs) : ~(i < j)
        BY <2>1
      <3> QED
        BY <1>1, <1>2, <2>6, <3>1
    <2>8. Between(up'[accepted], executed, <<>>, sent + 1)
      <3>1. Between(up[accepted], executed, unsent, sent) /\ Len(fs) \in Nat
        BY <2>1, <2>4 DEF Ordered
      <3>2. Len(up'[accepted]) \in Nat /\ Len(up[accepted]) \in Nat
            /\ \A i \in 1..Len(up[accepted]) : up[accepted][i][2] \in Nat
        BY <2>4, NumbersAreNat DEF TypeOK
      <3> QED
        BY <1>1, <2>5, <2>7, <3>1, <3>2, MoreBetween
    <2>9. Len(unsent') = 0
      BY <2>2
    <2> QED
      BY <1>1, <1>2, <2>2, <2>8, <2>9 DEF Ordered, Ascending
  <1>4. CASE ~client.connected
    <2>1. unsent' = Append(unsent, sent + 1) /\ up' = up
      BY <1>1, <1>4
    <2>2. /\ Len(unsent') = Len(unsent) + 1 /\ Len(unsent) \in Nat
          /\ \A i \in 1..Len(unsent) : unsent'[i] = unsent[i] /\ unsent[i] \in Nat
          /\ unsent'[Len(unsent) + 1] = sent + 1
      BY <1>1, <2>1, AppendProperties, ElementOfSeq
    <2>3. \A i \in 1..Len(unsent') : i \in 1..Len(unsent) \/ i = Len(unsent) + 1
      BY <2>2
    <2>4. \A i \in 1..Len(unsent) : unsent[i] < sent + 1 /\ unsent[i] <= sent + 1
      BY <1>1, <2>2 DEF Ordered
    <2>5. Ascending(unsent')
      <3> SUFFICES ASSUME NEW i \in 1..Len(unsent'), NEW j \in 1..Len(unsent'), i < j
                   PROVE  unsent'[i] < unsent'[j]
        BY DEF Ascending
      <3>1. i \in 1..Len(unsent)
        BY <2>2
      <3>2. CASE j \in 1..Len(unsent)
        BY <2>2, <3>1, <3>2 DEF Ordered, Ascending
      <3>3. CASE j = Len(unsent) + 1
        BY <2>2, <2>4, <3>1, <3>3
      <3> QED
        BY <2>3, <3>2, <3>3
    <2>6. /\ \A i \in 1..Len(unsent') : unsent'[i] <= sent + 1
          /\ \A i \in 1..Len(executed), j \in 1..Len(unsent') : executed[i] < unsent'[j]
      <3>1. sent + 1 <= sent + 1
        BY <1>1
      <3> QED
        BY <1>2, <2>2, <2>3, <2>4, <3>1 DEF Ordered
    <2>7. accepted # 0 => Between(up[accepted], executed, unsent', sent + 1)
      <3> SUFFICES ASSUME accepted # 0
                   PROVE  Between(up[accepted], executed, unsent', sent + 1)
        OBVIOUS
      <3>0. accepted \in 1..MaxConns
        BY LinkAssumption DEF TypeOK
      <3>1. \A j \in 1..Len(up[accepted]) : up[accepted][j][2] \in Nat
        BY <3>0, NumbersAreNat
      <3>2. ASSUME NEW i \in 1..Len(up[accepted]), up[accepted][i][1] = "command"
            PROVE  /\ up[accepted][i][2] <= sent + 1
                   /\ \A j \in 1..Len(unsent') : up[accepted][i][2] < unsent'[j]
        <4>1. up[accepted][i][2] <= sent /\ \A j \in 1..Len(unsent) : up[accepted][i][2] < unsent[j]
          BY <3>2 DEF Ordered, Between
        <4>2. up[accepted][i][2] <= sent + 1 /\ up[accepted][i][2] < sent + 1
          BY <1>1, <3>1, <4>1
        <4> QED
          BY <2>2, <2>3, <4>1, <4>2
      <3>3. Between(up[accepted], executed, unsent, sent)
        BY DEF Ordered
      <3> QED
        BY <3>2, <3>3 DEF Between
    <2> QED
      BY <1>1, <1>2, <1>4, <2>1, <2>5, <2>6, <2>7 DEF Ordered, Ascending
  <1> QED
    BY <1>3, <1>4

LEMMA CommandOrdered ==
  ASSUME LinkInv, LinkInv', Ordered, NEW n, Command(n)
  PROVE  Ordered'
  <1> USE DEF LinkInv
  <1>1. /\ Received(<<"command", n>>) /\ executed' = Append(executed, n)
        /\ UNCHANGED <<accepted, client, unsent, sent>> /\ executed \in Seq(Nat)
    BY DEF Command, TypeOK
  <1>2. /\ accepted \in 1..MaxConns /\ accepted # 0
        /\ 1 \in 1..Len(up[accepted]) /\ up[accepted][1] = <<"command", n>> /\ n \in Nat
        /\ \A i \in 1..Len(up'[accepted]) :
             i + 1 \in 1..Len(up[accepted]) /\ up'[accepted][i] = up[accepted][i + 1]
    <2>1. <<"command", n>> \in Frames => n \in Nat
      BY DEF Frames
    <2> QED
      BY <1>1, <2>1, ReceivedRest
  <1>3. Between(up[accepted], executed, unsent, sent)
    BY <1>2 DEF Ordered
  <1>4. /\ n <= sent
        /\ \A j \in 1..Len(executed) : executed[j] < n
        /\ \A j \in 1..Len(unsent) : n < unsent[j]
        /\ \A j \in 1..Len(up[accepted]) :
             1 < j /\ up[accepted][j][1] = "command" => n < up[accepted][j][2]
    BY <1>2, <1>3 DEF Between
  <1>5. /\ Len(executed') = Len(executed) + 1 /\ Len(executed) \in Nat
        /\ \A i \in 1..Len(executed) : executed'[i] = executed[i]
        /\ executed'[Len(executed) + 1] = n
    BY <1>1, <1>2, AppendProperties
  <1>6. \A i \in 1..Len(executed') : i \in 1..Len(executed) \/ i = Len(executed) + 1
    BY <1>5
  <1>7. Ascending(executed')
    <2> SUFFICES ASSUME NEW i \in 1..Len(executed'), NEW j \in 1..Len(executed'), i < j
                 PROVE  executed'[i] < executed'[j]
      BY DEF Ascending
    <2>1. i \in 1..Len(executed)
      BY <1>5
    <2>2. CASE j \in 1..Len(executed)
      BY <1>5, <2>1, <2>2 DEF Ordered, Ascending
    <2>3. CASE j = Len(executed) + 1
      BY <1>4, <1>5, <2>1, <2>3
    <2> QED
      BY <1>6, <2>2, <2>3
  <1>8. /\ \A i \in 1..Len(executed') : executed'[i] <= sent
        /\ \A i \in 1..Len(executed'), j \in 1..Len(unsent) : executed'[i] < unsent[j]
    BY <1>4, <1>5, <1>6 DEF Ordered
  <1>9. Between(up'[accepted], executed', unsent, sent)
    <2>1. Between(up'[accepted], executed, unsent, sent)
      <3>1. Len(up[accepted]) \in Nat /\ Len(up'[accepted]) \in Nat
        BY <1>2 DEF TypeOK
      <3>2. Part(up'[accepted], up[accepted], 1)
        BY <1>2 DEF Part
      <3> QED
        BY <1>3, <3>1, <3>2, PartIsBetween
    <2>2. ASSUME NEW i \in 1..Len(up'[accepted]), up'[accepted][i][1] = "command"
          PROVE  \A j \in 1..Len(executed') : executed'[j] < up'[accepted][i][2]
      <3>1. 1 < i + 1
        <4>1. Len(up'[accepted]) \in Nat
          BY <1>2 DEF TypeOK
        <4> QED
          BY <4>1
      <3>2. n < up'[accepted][i][2]
        BY <1>2, <1>4, <2>2, <3>1
      <3>3. \A j \in 1..Len(executed) : executed[j] < up'[accepted][i][2]
        BY <2>1, <2>2 DEF Between
      <3> QED
        BY <1>5, <1>6, <3>2, <3>3
    <2> QED
      BY <2>1, <2>2 DEF Between
  <1> QED
    BY <1>1, <1>7, <1>8, <1>9 DEF Ordered, Ascending

LEMMA AcceptOrdered ==
  ASSUME LinkInv, LinkInv', Ordered, Accept
  PROVE  Ordered'
  <1> USE DEF LinkInv
  <1>1. /\ accepted < opened /\ accepted' = accepted + 1
        /\ up' = (IF hostOpen THEN [up EXCEPT ![accepted] = <<>>] ELSE up)
        /\ UNCHANGED <<client, opened, unsent, sent, executed>>
    BY DEF Accept
  <1>2. accepted \in Nat /\ accepted + 1 \in 1..MaxConns /\ accepted + 1 > accepted
        /\ accepted # accepted + 1
    BY <1>1, LinkAssumption DEF TypeOK
  <1>3. up'[accepted + 1] = up[accepted + 1]
    <2>1. up \in [1..MaxConns -> Seq(Frames)]
      BY DEF TypeOK
    <2> QED
      BY <1>1, <1>2, <2>1
  <1>4. Between(up'[accepted + 1], executed, unsent, sent)
    <2>1. \A i \in 1..Len(up[accepted + 1]) : up[accepted + 1][i][1] = "attach"
      BY <1>2 DEF Attachments
    <2> QED
      BY <1>3, <2>1 DEF Between
  <1> QED
    BY <1>1, <1>4 DEF Ordered, Ascending

LEMMA OpenOrdered ==
  ASSUME LinkInv, LinkInv', Ordered, Open
  PROVE  Ordered'
  <1> USE DEF LinkInv
  <1>1. /\ client' = [client EXCEPT !.phase = "open", !.connected = FALSE, !.partial = <<>>]
        /\ up' = [up EXCEPT ![opened + 1] = <<<<"attach", client.cursor>>>>]
        /\ UNCHANGED <<accepted, unsent, sent, executed>>
    BY DEF Open
  <1>2. accepted # opened + 1
    BY DEF TypeOK
  <1>3. client'.connected = FALSE
    <2>1. client \in Clients
      BY DEF TypeOK
    <2> QED
      BY <1>1, <2>1 DEF Clients
  <1>4. accepted # 0 => up'[accepted] = up[accepted]
    <2>1. accepted # 0 => accepted \in 1..MaxConns
      BY LinkAssumption DEF TypeOK
    <2>2. up \in [1..MaxConns -> Seq(Frames)]
      BY DEF TypeOK
    <2> QED
      BY <1>1, <1>2, <2>1, <2>2
  <1> QED
    BY <1>1, <1>3, <1>4 DEF Ordered, Ascending

LEMMA NextOrdered ==
  ASSUME LinkInv, LinkInv', Ordered, [Next]_vars
  PROVE  Ordered'
  <1>1. TypeOK /\ TypeOK' /\ Connections /\ client \in Clients
    BY DEF LinkInv, TypeOK
  <1>2. CASE PublishLine \/ Drain \/ Finish \/ SocketClosed
    <2>1. UNCHANGED <<accepted, client, up, unsent, sent, executed>>
      BY <1>2 DEF PublishLine, Drain, Finish, SocketClosed
    <2> QED
      BY <1>1, <2>1, UnchangedLess, LessOrdered
  <1>3. CASE Accept
    BY <1>3, AcceptOrdered
  <1>4. CASE Receive
    <2>1. ASSUME NEW f, Received(f), UNCHANGED <<accepted, client, unsent, sent, executed>>
          PROVE  Ordered'
      BY <1>1, <2>1, ReceivedPart, PartOrdered
    <2>2. ASSUME NEW n, Attach(n) PROVE Ordered'
      BY <2>1, <2>2 DEF Attach
    <2>3. ASSUME NEW n, Acknowledge(n) PROVE Ordered'
      BY <2>1, <2>3 DEF Acknowledge
    <2> QED
      BY <1>4, <2>2, <2>3, CommandOrdered DEF Receive
  <1>5. CASE Open
    BY <1>5, OpenOrdered
  <1>6. CASE OpenAbsent \/ ReadPartial \/ ReadExit \/ ReadTorn
    <2>1. \/ client' = [client EXCEPT !.phase = "ended"]
          \/ client' = [client EXCEPT !.partial = Partial]
          \/ client' = [client EXCEPT !.phase = "ended", !.partial = <<>>]
          \/ client' = [client EXCEPT !.phase = "failed", !.partial = <<>>]
      BY <1>6 DEF OpenAbsent, ReadPartial, ReadExit, ReadTorn
    <2>2. client'.connected = client.connected
      BY <1>1, <2>1 DEF Clients
    <2>3. UNCHANGED <<accepted, up, unsent, sent, executed>>
      BY <1>6 DEF OpenAbsent, ReadPartial, ReadExit, ReadTorn, Read
    <2> QED
      BY <1>1, <2>2, <2>3, UnchangedLess, LessOrdered
  <1>7. CASE Disconnect
    <2>1. /\ client' = (IF client.attached THEN [client EXCEPT !.phase = "retry", !.connected = FALSE]
                        ELSE NewClient)
          /\ unsent' \in {unsent, <<>>} /\ Cut /\ client.phase = "open"
          /\ UNCHANGED <<accepted, sent, executed>>
      BY <1>7 DEF Disconnect
    <2>2. ~client'.connected
      BY <1>1, <2>1 DEF Clients, NewClient
    <2>3. Less
      BY <1>1, <2>1, CutLess DEF Connections
    <2> QED
      BY <1>1, <2>1, <2>2, <2>3, LessOrdered
  <1>8. CASE Replaced
    <2>1. /\ ~client'.connected /\ unsent' = <<>> /\ UNCHANGED <<accepted, sent, executed>>
          /\ IF client.phase = "open" THEN Cut ELSE UNCHANGED up
      BY <1>8 DEF Replaced, NewClient
    <2>2. Less
      BY <1>1, <2>1, CutLess, UnchangedLess DEF Connections
    <2> QED
      BY <1>1, <2>1, <2>2, LessOrdered
  <1>9. CASE ReadAttached
    BY <1>9, ReadAttachedOrdered
  <1>10. CASE ReadOutput
    BY <1>10, ReadOutputOrdered
  <1>11. CASE Send
    BY <1>11, SendOrdered
  <1>12. CASE UNCHANGED vars
    BY <1>12 DEF vars, Ordered, Ascending
  <1> QED
    BY <1>2, <1>3, <1>4, <1>5, <1>6, <1>7, <1>8, <1>9, <1>10, <1>11, <1>12 DEF Next, ReadLine

LEMMA OrderedSequence ==
  ASSUME TypeOK, Ordered
  PROVE  CommandsInOrder
  <1>1. Len(executed) \in Nat
    BY DEF TypeOK
  <1>2. \A i \in 1..Len(executed) - 1 :
           i \in 1..Len(executed) /\ i + 1 \in 1..Len(executed) /\ i < i + 1
    BY <1>1
  <1> QED
    BY <1>2 DEF Ordered, Ascending, CommandsInOrder

\* CommandsInOrder: commands reach the session in the order the daemons were
\* asked to send them and at most once each, although some are lost with a
\* socket and others wait for the attachment (send in runner-transport.ts).
THEOREM CommandsKeepOrder == Spec => []CommandsInOrder
  <1>1. Init => Ordered
    <2> SUFFICES ASSUME Init PROVE Ordered
      OBVIOUS
    <2>1. Len(executed) = 0 /\ Len(unsent) = 0 /\ accepted = 0 /\ unsent = <<>>
      BY DEF Init
    <2> QED
      BY <2>1 DEF Ordered, Ascending
  <1>2. LinkInv /\ LinkInv' /\ Ordered /\ [Next]_vars => Ordered'
    BY NextOrdered
  <1>3. LinkInv /\ Ordered => CommandsInOrder
    BY OrderedSequence DEF LinkInv
  <1> QED
    BY <1>1, <1>2, <1>3, Invariance, PTL DEF Spec
=============================================================================
