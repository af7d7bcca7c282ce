---------------------------- MODULE RecordLayer -----------------------------
(***************************************************************************)
(* One direction of a session: the sealer of the peer, the opener with    *)
(* its replay window, and a network that loses, repeats, reorders and     *)
(* damages records and also carries those of the opposite direction back. *)
(* The window moves in one step, as ReplayWindow has it; beside it the    *)
(* loops of shift_left run one iteration at a time, as ReplayShift has    *)
(* them, before the next record is opened.                                *)
(***************************************************************************)
EXTENDS ReplayWindow

CONSTANTS MaxPacketNumber,  \* u64::MAX
          MaxReflected      \* bound: records of the opposite direction

ASSUME RecordAssumption ==
    /\ {MaxPacketNumber, MaxReflected} \subseteq Nat
    /\ PacketNumbers = 0 .. MaxPacketNumber

VARIABLES next_packet_number, \* direction -> that of its sealer
          sealed,             \* direction -> history: how many records it sealed
          net,                \* every record sent
          bits, amount, phase, index, original    \* the last call of shift_left

sealing == <<next_packet_number, sealed, net>>
shift == <<bits, amount, phase, index, original>>
recordVars == <<vars, sealing, shift>>

Directions == {"peer", "own"}
Loop == INSTANCE ReplayShift WITH words <- bits
-----------------------------------------------------------------------------
\* The frame format.
Types == {"ClientHello", "Data", "Close", "HandshakeAck", "MtuProbe"}
IsProtected(type) == type \in {"Data", "Close", "HandshakeAck"}

Header(type, epoch, session_id, packet_number, handle) ==
    [type |-> type, epoch |-> epoch, session_id |-> session_id,
     packet_number |-> packet_number, handle |-> handle]

ValidateFields(header) ==
    /\ header.type = "Data" => header.handle # None
    /\ header.type \in {"ClientHello", "HandshakeAck"} => header.handle = None

\* The keys of a direction cover the header, the direction and the message.
Frame(header, direction, message) ==
    [header |-> header, body |-> [covers |-> header, key |-> direction, message |-> message]]

\* A frame as it may arrive: intact, or with one wrong field in the header.
Arrivals(frame) ==
    {frame}
    \cup {[frame EXCEPT !.header.packet_number = n] : n \in PacketNumbers}
    \cup {[frame EXCEPT !.header.type = t] : t \in Types}
    \cup {[frame EXCEPT !.header.epoch = 1], [frame EXCEPT !.header.session_id = 2],
          [frame EXCEPT !.header.handle = None]}
-----------------------------------------------------------------------------
RecordInit ==
    /\ Init
    /\ next_packet_number = [d \in Directions |-> 0]
    /\ sealed = [d \in Directions |-> 0]
    /\ net = {}
    /\ bits = Loop!EmptyWords /\ original = Loop!EmptyWords
    /\ amount = 1 /\ phase = "done" /\ index = 0

\* Mutant: the number wraps around.
AdvanceWrapping(packet_number) == (packet_number + 1) % (MaxPacketNumber + 1)

\* checked_add: None when the number does not fit.
Advance(packet_number) ==
    IF packet_number = MaxPacketNumber THEN None ELSE packet_number + 1

\* What the host may ask for; only some of it is a protected frame.
Requests == {"Data", "MtuProbe"} \X {None, 1}

Seal(direction, type, handle) ==
    LET number == next_packet_number[direction]
        header == Header(type, 0, 1, number, handle)
    IN  /\ direction = "own" => sealed["own"] < MaxReflected
        /\ sealed[direction] <= MaxPacketNumber + 1    \* bound, if numbers were reused
        /\ IsProtected(type)
        /\ Advance(number) # None
        /\ ValidateFields(header)
        /\ net' = net \cup {Frame(header, direction, sealed[direction])}
        /\ next_packet_number' = [next_packet_number EXCEPT ![direction] = Advance(number)]
        /\ sealed' = [sealed EXCEPT ![direction] = @ + 1]
        /\ UNCHANGED <<vars, shift>>

\* The checks of open before the tag.
Decodes(header) ==
    /\ ValidateFields(header)
    /\ header.session_id = 1
    /\ header.epoch = 0
    /\ IsProtected(header.type)

\* Mutant: the replay window is consulted before the tag is verified.
AuthenticatesLater(frame) == TRUE

Authenticates(frame) == frame.body.covers = frame.header /\ frame.body.key = "peer"

\* shift_left is called when the number is the newest one.
StartShift(packet_number) ==
    IF highest # None /\ packet_number > highest
    THEN /\ phase' = "enter" /\ index' = 0
         /\ amount' = IF packet_number - highest > Width THEN Width + 1 ELSE packet_number - highest
         /\ original' = words /\ bits' = words
    ELSE UNCHANGED shift

Open(frame) ==
    /\ phase = "done"
    /\ Decodes(frame.header)
    /\ Authenticates(frame)
    /\ Accept(frame.header.packet_number)
    /\ StartShift(frame.header.packet_number)
    /\ UNCHANGED sealing

\* An iteration of the loops.
ShiftStep == Loop!Next /\ UNCHANGED <<vars, sealing>>

RecordNext ==
    \/ \E d \in Directions, request \in Requests : Seal(d, request[1], request[2])
    \/ \E frame \in net : \E arrived \in Arrivals(frame) : Open(arrived)
    \/ ShiftStep

RecordSpec == RecordInit /\ [][RecordNext]_recordVars
-----------------------------------------------------------------------------
\* The in-place loops of shift_left compute the shift of the window they
\* were called for, whatever records were opened before.
ShiftsAllBits == Loop!ShiftsAllBits

\* A key never protects two different messages under one packet number: the
\* sealer stops when its numbers are used up.
NumbersNeverReused ==
    \A f, g \in net :
        f.body.key = g.body.key /\ f.header.packet_number = g.header.packet_number => f = g

\* Only records the peer has sealed move the window: no damaged number and
\* no record of the opposite direction makes a record still to come too old.
WindowFollowsSealer == \A n \in accepted : n < next_packet_number["peer"]
=============================================================================
