---------------------------- MODULE StreamProxy ----------------------------
(***************************************************************************)
(* The session proxy as a middlebox on one reliable stream.                *)
(* (src/iag/stellaris/execution/session_proxy.py, run, and StreamTranslator *)
(* of packet/iag_stream_command_injector.py.)                              *)
(*                                                                         *)
(* The game sends its commands on a stream of bytes whose offsets wrap at  *)
(* 24 bits.  The proxy inserts the records of its own requests into that   *)
(* stream and from then on moves the sender offsets of the game, hides the *)
(* inserted bytes from the acknowledgements the game sees, and shifts the  *)
(* serials of the game's commands.  Neither end may notice.                *)
(*                                                                         *)
(* One byte stands for one command of the game, and for one part of a      *)
(* request's record.  The network loses, repeats and reorders; the game    *)
(* and its worker are on one machine and hand packets over in order.       *)
(***************************************************************************)
EXTENDS Integers, Sequences, SequencesExt, FiniteSets

CONSTANTS
  Modulus,        \* offsets are taken modulo this (2^24)
  RecordLengths,  \* lengths an inserted record may have
  Capacity,       \* stream bytes that fit in one UDP payload
  MaxCommands,    \* bound: commands the game writes
  MaxInjections,  \* bound: requests armed
  MaxHeard,       \* bound: times the game's own acknowledgement moves
  MaxLosses,      \* bound: packets the network loses
  MaxEvents,      \* bound: commands, requests and losses together
  LosesRecords,   \* what the network loses may be an inserted record
  Retransmits,    \* the game sends a command again
  MayRaise,       \* handling a packet may raise
  MayEnd          \* the worker may reach session_seconds in the room

ASSUME StreamAssumption ==
  /\ Modulus \in Nat /\ Modulus > 1
  /\ RecordLengths \subseteq Nat \ {0}
  /\ Capacity \in Nat \ {0}
  /\ {MaxCommands, MaxInjections, MaxHeard, MaxLosses, MaxEvents} \subseteq Nat
  /\ {LosesRecords, Retransmits, MayRaise, MayEnd} \subseteq BOOLEAN

VARIABLES
  written,      \* commands the game has written
  acked,        \* bytes the game believes acknowledged
  heard,        \* what the game acknowledges to the host
  flight,       \* packets with stream bytes under way to the host
  acks,         \* acknowledgements under way to the game
  received,     \* the stream as the host has it
  lost,         \* packets lost so far
  request,      \* the worker's arm_request: its stage and record length
  translators,  \* stream_translators
  carriers,     \* carrier_rewrites
  lastSerial,   \* last_serials of the actor, outbound
  lastSynthetic,\* last_synthetic_serial
  translating,  \* the worker still has its WinDivert handle
  armedSoFar,   \* requests armed, for the bound
  log,          \* history: the parts written and inserted, in order
  disturbed     \* history: what has happened that the mapping does not cover

gameVars == <<written, acked, heard>>
netVars == <<flight, acks, lost>>
proxyVars == <<request, translators, carriers, lastSynthetic>>
streamVars == <<gameVars, netVars, received, proxyVars, lastSerial, translating,
                armedSoFar, log, disturbed>>

Count == Len(translators)            \* synthetic_serial_count
Idle == [stage |-> "none", length |-> 0]
Half == Modulus \div 2
WithinBound == written + armedSoFar + lost < MaxEvents

\* --------------------------------------------------------------- translation

Distance(value, origin) == (value - origin) % Modulus

IsAtOrAfter(value, origin) == Distance(value, origin) < Half

\* Defect: the boundary itself is taken to lie before the inserted record.
OutboundAfter(offset, t) ==
  IF Distance(offset, t.offset) \in 1 .. Half - 1
  THEN (offset + t.length) % Modulus
  ELSE offset

TranslateOutbound(offset, t) ==
  IF IsAtOrAfter(offset, t.offset)
  THEN (offset + t.length) % Modulus
  ELSE offset

\* Defect: only acknowledgements of the whole record are hidden.
InboundWhole(ack, t) ==
  LET d == Distance(ack, t.offset)
  IN IF d < t.length \/ d >= Half THEN ack ELSE (ack - t.length) % Modulus

TranslateInbound(ack, t) ==
  LET d == Distance(ack, t.offset)
  IN IF d = 0 \/ d >= Half THEN ack
     ELSE IF d < t.length THEN t.offset
     ELSE (ack - t.length) % Modulus

\* Outbound the translations are made in the order of the insertions, inbound
\* the newest is undone first.
SenderVia(ts, offset) ==
  LET moved[k \in 0 .. Len(ts)] ==
        IF k = 0 THEN offset ELSE TranslateOutbound(moved[k - 1], ts[k])
  IN moved[Len(ts)]

LocalVia(ts, ack) ==
  LET moved[k \in 0 .. Len(ts)] ==
        IF k = 0 THEN ack ELSE TranslateInbound(moved[k - 1], Reverse(ts)[k])
  IN moved[Len(ts)]

SenderOffset(offset) == SenderVia(translators, offset)

LocalAck(ack) == LocalVia(translators, ack)

ShiftSerials(body) ==
  [i \in DOMAIN body |-> [body[i] EXCEPT !.serial = @ + Count]]

Translated(p) ==
  [offset |-> SenderOffset(p.offset), ack |-> p.ack, body |-> ShiftSerials(p.body)]

\* Defect: serials already given to earlier requests are not reserved.
SerialUnreserved == lastSerial + 1

\* The serial a request takes; the configured floor is its default, zero.
NextActorSerial ==
  LET previous == lastSerial + Count
  IN (IF previous >= lastSynthetic THEN previous ELSE lastSynthetic) + 1

\* ------------------------------------------------------------------- packets

GameUnit(i) == [owner |-> "game", number |-> i, part |-> 1, serial |-> i]

DataPacket(i) ==
  [offset |-> (i - 1) % Modulus, ack |-> heard, body |-> <<GameUnit(i)>>]

PureAck == [offset |-> written % Modulus, ack |-> heard, body |-> <<>>]

RequestUnits ==
  [j \in 1 .. request.length |->
     [owner |-> "proxy", number |-> Count + 1, part |-> j,
      serial |-> NextActorSerial]]

\* Defect: every fragment goes out at the offset of the first.
FragmentsAtOnce(p) ==
  {[offset |-> SenderOffset(p.offset), ack |-> p.ack,
    body |-> SubSeq(RequestUnits, s + 1,
                    IF s + Capacity < request.length
                    THEN s + Capacity ELSE request.length)] :
     s \in {n \in 0 .. request.length - 1 : n % Capacity = 0}}

\* The record cut into reliable-stream fragments at consecutive offsets.
Fragments(p) ==
  {[offset |-> (SenderOffset(p.offset) + s) % Modulus, ack |-> p.ack,
    body |-> SubSeq(RequestUnits, s + 1,
                    IF s + Capacity < request.length
                    THEN s + Capacity ELSE request.length)] :
     s \in {n \in 0 .. request.length - 1 : n % Capacity = 0}}

\* A packet's parts without the serials they carry.
Names(units) ==
  [i \in DOMAIN units |-> <<units[i].owner, units[i].number, units[i].part>>]

\* ------------------------------------------------------------ outbound packet

\* The same carrier again: its cached rewrite is sent again.
Replay(p) ==
  /\ flight' = flight \union carriers[p]
  /\ UNCHANGED <<proxyVars, log>>

\* An armed request takes a pure acknowledgement as its carrier.
InjectRecord(p) ==
  /\ flight' = flight \union Fragments(p)
  /\ carriers' = [c \in DOMAIN carriers \union {p} |->
                    IF c = p THEN Fragments(p) ELSE carriers[c]]
  /\ translators' = Append(translators, [offset |-> SenderOffset(p.offset),
                                         length |-> request.length])
  /\ lastSynthetic' = NextActorSerial
  /\ request' = [request EXCEPT !.stage = "injected"]
  /\ log' = log \o Names(RequestUnits)

\* A packet without bytes for the stream leaves no trace on the wire.
Forward(p) ==
  /\ flight' = IF p.body = <<>> THEN flight ELSE flight \union {p}
  /\ UNCHANGED <<proxyVars, log>>

IsCarrier(p) == p \in DOMAIN carriers

Injectable(p) == request.stage = "armed" /\ p.body = <<>>

\* The worker's loop body for one packet of the game.
Outbound(p) ==
  /\ lastSerial' = IF p.body = <<>> \/ ~translating THEN lastSerial
                   ELSE p.body[1].serial
  /\ \/ ~translating /\ Forward(p)
     \/ translating /\ IsCarrier(p) /\ Replay(p)
     \/ translating /\ ~IsCarrier(p) /\ Injectable(p) /\ InjectRecord(p)
     \/ translating /\ ~IsCarrier(p) /\ ~Injectable(p) /\ Forward(Translated(p))

\* What of a record was sent when sending its fragment g raised.
SentBefore(g, record) == {f \in record : f.body[1].part < g.body[1].part}

\* Handling an outbound packet with bytes raised: it goes out as the game sent
\* it, at its own offset and with its own serial.
ForwardRaised(p) ==
  /\ MayRaise /\ translating
  /\ Count > 0
  /\ lastSerial' = p.body[1].serial
  /\ flight' = flight \union {p}
  /\ UNCHANGED proxyVars

\* Sending a cached record again raised.
ReplayRaised(p) ==
  /\ IsCarrier(p)
  /\ \E g \in carriers[p] : flight' = flight \union SentBefore(g, carriers[p])
  /\ UNCHANGED disturbed

\* Sending a record raised before it was registered: the request stays armed,
\* and nobody knows of what went out.
InjectRaised(p) ==
  /\ ~IsCarrier(p) /\ Injectable(p)
  /\ \E g \in Fragments(p) :
       /\ flight' = flight \union SentBefore(g, Fragments(p))
       /\ disturbed' = IF SentBefore(g, Fragments(p)) = {} THEN disturbed
                       ELSE disturbed \union {"untranslated"}

\* ------------------------------------------------------------------- the game

\* A new command at the end of the stream; it is never a carrier.
Write ==
  /\ written < MaxCommands /\ WithinBound
  /\ written' = written + 1
  /\ LET p == DataPacket(written + 1)
     IN /\ lastSerial' = IF translating THEN written + 1 ELSE lastSerial
        /\ flight' = flight \union {IF translating THEN Translated(p) ELSE p}
  /\ log' = Append(log, <<"game", written + 1, 1>>)
  /\ UNCHANGED <<acked, heard, acks, lost, received, proxyVars, translating,
                 armedSoFar, disturbed>>

WriteRaised ==
  /\ written < MaxCommands /\ WithinBound
  /\ written' = written + 1
  /\ ForwardRaised(DataPacket(written + 1))
  /\ log' = Append(log, <<"game", written + 1, 1>>)
  /\ disturbed' = disturbed \union {"untranslated"}
  /\ UNCHANGED <<acked, heard, acks, lost, received, translating, armedSoFar>>

\* A command that is not acknowledged yet is sent once more.
Retransmit(i) ==
  /\ Retransmits
  /\ i \in acked + 1 .. written
  /\ Outbound(DataPacket(i))
  /\ disturbed' = IF i < written \/ Count > 0 THEN disturbed \union {"resent"}
                                            ELSE disturbed
  /\ UNCHANGED <<gameVars, acks, lost, received, translating, armedSoFar>>

RetransmitRaised(i) ==
  /\ Retransmits
  /\ i \in acked + 1 .. written
  /\ ForwardRaised(DataPacket(i))
  /\ disturbed' = disturbed \union {"resent", "untranslated"}
  /\ UNCHANGED <<gameVars, acks, lost, received, translating, armedSoFar, log>>

\* A packet that only acknowledges what the host sent.
KeepAlive ==
  /\ Outbound(PureAck)
  /\ UNCHANGED <<gameVars, acks, lost, received, translating, armedSoFar,
                 disturbed>>

KeepAliveRaised ==
  /\ MayRaise /\ translating
  /\ ReplayRaised(PureAck) \/ InjectRaised(PureAck)
  /\ UNCHANGED <<gameVars, acks, lost, received, proxyVars, lastSerial,
                 translating, armedSoFar, log>>

\* Something of the host's own stream arrived: the acknowledgement moves.
HearHost ==
  /\ heard < MaxHeard
  /\ heard' = heard + 1
  /\ UNCHANGED <<written, acked, netVars, received, proxyVars, lastSerial,
                 translating, armedSoFar, log, disturbed>>

\* The game takes an acknowledgement that lies ahead of the last one.
Hear(local) ==
  /\ acked' = IF Distance(local, acked) < Half
              THEN acked + Distance(local, acked) ELSE acked
  /\ UNCHANGED <<written, heard, netVars, received, proxyVars, lastSerial,
                 translating, armedSoFar, log>>

\* An acknowledgement of the host passes the worker.
HearAck(a) ==
  /\ a \in acks
  /\ Hear(IF translating THEN LocalAck(a) ELSE a)
  /\ UNCHANGED disturbed

\* Handling an inbound packet raised: the original packet is sent on.
HearAckRaised(a) ==
  /\ MayRaise
  /\ translating /\ translators # <<>> /\ request.stage # "none"
  /\ a \in acks
  /\ Hear(a)
  /\ disturbed' = disturbed \union {"raised"}

\* ------------------------------------------------------------------- the host

\* The host takes the next bytes of the stream and acknowledges them.
HostReceive(p) ==
  /\ p \in flight
  /\ p.offset = Len(received) % Modulus
  /\ received' = received \o p.body
  /\ acks' = acks \union {Len(received') % Modulus}
  /\ UNCHANGED <<gameVars, flight, lost, proxyVars, lastSerial, translating,
                 armedSoFar, log, disturbed>>

HostRepeatsAck ==
  /\ acks' = acks \union {Len(received) % Modulus}
  /\ UNCHANGED <<gameVars, flight, lost, received, proxyVars, lastSerial,
                 translating, armedSoFar, log, disturbed>>

Lose ==
  /\ lost < MaxLosses /\ WithinBound
  /\ lost' = lost + 1
  /\ \/ \E p \in flight :
          /\ LosesRecords \/ p.body[1].owner = "game"
          /\ flight' = flight \ {p}
          /\ UNCHANGED acks
     \/ \E a \in acks : acks' = acks \ {a} /\ UNCHANGED flight
  /\ UNCHANGED <<gameVars, received, proxyVars, lastSerial, translating,
                 armedSoFar, log, disturbed>>

\* ----------------------------------------------------------------- the worker

Arm ==
  /\ translating
  /\ request = Idle
  /\ armedSoFar < MaxInjections /\ WithinBound
  /\ armedSoFar' = armedSoFar + 1
  /\ \E n \in RecordLengths : request' = [stage |-> "armed", length |-> n]
  /\ UNCHANGED <<gameVars, netVars, received, translators, carriers,
                 lastSynthetic, lastSerial, translating, log, disturbed>>

\* finish_request: confirmed, timed out on the carrier, or on the response.
\* The mapping of the stream stays.
FinishRequest ==
  /\ translating
  /\ request # Idle
  /\ request' = Idle
  /\ UNCHANGED <<gameVars, netVars, received, translators, carriers,
                 lastSynthetic, lastSerial, translating, armedSoFar, log, disturbed>>

\* session_seconds have passed: the worker returns and packets pass by.
SessionEnds ==
  /\ MayEnd
  /\ translating
  /\ translating' = FALSE
  /\ disturbed' = IF Count > 0 THEN disturbed \union {"ended"} ELSE disturbed
  /\ UNCHANGED <<gameVars, netVars, received, proxyVars, lastSerial,
                 armedSoFar, log>>

StreamInit ==
  /\ written = 0 /\ acked = 0 /\ heard = 0
  /\ flight = {} /\ acks = {} /\ lost = 0
  /\ received = <<>>
  /\ request = Idle
  /\ translators = <<>> /\ carriers = <<>>
  /\ lastSerial = 0 /\ lastSynthetic = 0
  /\ translating = TRUE
  /\ armedSoFar = 0
  /\ log = <<>>
  /\ disturbed = {}

StreamNext ==
  \/ Write
  \/ WriteRaised
  \/ \E i \in 1 .. MaxCommands : Retransmit(i)
  \/ \E i \in 1 .. MaxCommands : RetransmitRaised(i)
  \/ KeepAlive
  \/ KeepAliveRaised
  \/ HearHost
  \/ \E a \in acks : HearAck(a)
  \/ \E a \in acks : HearAckRaised(a)
  \/ \E p \in flight : HostReceive(p)
  \/ HostRepeatsAck
  \/ Lose
  \/ Arm
  \/ FinishRequest
  \/ SessionEnds

StreamSpec == StreamInit /\ [][StreamNext]_streamVars

\* The game goes on sending what is not acknowledged and its acknowledgement,
\* handling them does not raise every time, packets that are not lost arrive,
\* and the host answers what it receives.
Fairness ==
  /\ WF_streamVars(Write)
  /\ \A i \in 1 .. MaxCommands : WF_streamVars(Retransmit(i))
  /\ WF_streamVars(KeepAlive)
  /\ WF_streamVars(\E p \in flight : HostReceive(p))
  /\ WF_streamVars(HostRepeatsAck)
  /\ WF_streamVars(HearAck(Len(received) % Modulus))

StreamFairSpec == StreamSpec /\ Fairness

-----------------------------------------------------------------------------
(* Properties *)

Units == [owner : {"game", "proxy"}, number : Nat, part : Nat, serial : Nat]
Packets == [offset : 0 .. Modulus - 1, ack : 0 .. MaxHeard, body : Seq(Units)]

\* Offsets tell early from late within half of their range only, so what is
\* promised is promised for a stream that has not grown beyond that.
\* (forward_distance_uint24 and is_at_or_after_uint24.)
WithinHalf == Len(log) < Half

\* The host's stream is at every moment a beginning of what the game wrote and
\* the proxy inserted, in that order: nothing is lost, doubled, torn apart or
\* put into bytes that were already used, whatever the network does and
\* whatever is sent again.  It holds until the worker leaves a room whose
\* stream it has changed, or handling an outbound packet raises: a command of
\* the game is then forwarded as it was, or the first fragments of a record are
\* out that no translator covers.
\* (run, outbound branch: carrier_rewrites, translate_existing_outbound_stream.)
GameStreamIntact ==
  WithinHalf /\ disturbed \intersect {"untranslated", "ended"} = {} =>
    IsPrefix(Names(received), log)

\* The game never takes more for acknowledged than the host has of its stream;
\* an acknowledgement that counts inserted bytes would make it drop commands
\* nobody has.  It holds until handling a packet raises, which lets an
\* acknowledgement through unmapped or puts bytes on the wire that no translator
\* counts.  (StreamTranslator.translate_inbound.)
AckSound ==
  WithinHalf /\ disturbed \intersect {"raised", "untranslated", "ended"} = {} =>
    /\ acked <= written
    /\ \A i \in 1 .. acked : <<"game", i, 1>> \in ToSet(Names(received))

\* The commands of the actor, the game's and the inserted ones, reach the host
\* with serials that count one by one, for as long as the game sends no earlier
\* command again, and none after an insertion: a command sent again is shifted
\* by today's count and lowers the serial seen last.  Where handling an outbound
\* packet raised, a command goes out with the serial the game gave it.
\* (next_actor_serial and translate_outbound_command_serials.)
SerialsDense ==
  WithinHalf /\ disturbed \intersect {"resent", "untranslated", "ended"} = {} =>
    \A j \in DOMAIN received :
      received[j].part = 1 =>
        received[j].serial = Cardinality({k \in 1 .. j : received[k].part = 1})

\* The stream comes to rest again and again: every command the game has
\* written is acknowledged to it and every request that was put on the wire has
\* reached the host, though packets are lost, until handling a packet raises or
\* the worker leaves a stream it has changed.  (run, the whole mapping.)
StreamMovesOn ==
  []<>(\/ disturbed \intersect {"raised", "untranslated", "ended"} # {}
       \/ /\ acked = written
          /\ \A k \in 1 .. Count :
               \E j \in DOMAIN received :
                 received[j].owner = "proxy" /\ received[j].number = k)
=============================================================================
