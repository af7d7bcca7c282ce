---------------------------- MODULE RecordProofs ----------------------------
(***************************************************************************)
(* The replay window and the record layer that uses it, for every width   *)
(* of packet numbers and of the window and every word size.               *)
(*                                                                         *)
(* The window accepts a packet number at most once, its bits mirror what  *)
(* was accepted, and it implements the abstract filter of ReplaySpec.     *)
(***************************************************************************)
EXTENDS RecordLayer, ReplayBitsProofs

\* The inductive invariant: at most one grant per number needs the bits to
\* mirror the history, which needs the types.
Inv == TypeOK /\ WindowMirrorsHistory /\ NeverAcceptedTwice

\* A new window has seen nothing.
LEMMA InitInv == Init => Inv
<1> SUFFICES ASSUME Init PROVE Inv
    OBVIOUS
<1> USE DEF Init
<1>1. TypeOK
    BY DEF TypeOK, Words
<1>2. WindowMirrorsHistory
    BY WindowAssumption, BitsAssumption DEF WindowMirrorsHistory, accepted
<1>3. NeverAcceptedTwice
    BY DEF NeverAcceptedTwice
<1> QED BY <1>1, <1>2, <1>3 DEF Inv

\* Granting a number that was not accepted adds it to the history and keeps
\* the count of every number at most one.
LEMMA GrantNew ==
    ASSUME TypeOK, NeverAcceptedTwice,
           NEW p \in PacketNumbers, p \notin accepted,
           grants' = [grants EXCEPT ![p] = @ + 1]
    PROVE  /\ grants' \in [PacketNumbers -> Nat]
           /\ accepted' = accepted \cup {p}
           /\ NeverAcceptedTwice'
<1>1. grants[p] = 0
    BY DEF TypeOK, accepted
<1>2. grants' = [grants EXCEPT ![p] = 1]
    BY <1>1
<1>3. \A q \in PacketNumbers : grants'[q] = IF q = p THEN 1 ELSE grants[q]
    BY <1>2 DEF TypeOK
<1>4. grants' \in [PacketNumbers -> Nat]
    BY <1>2 DEF TypeOK
<1>5. accepted' = accepted \cup {p}
    BY <1>3 DEF accepted, TypeOK
<1>6. NeverAcceptedTwice'
    BY <1>3 DEF NeverAcceptedTwice
<1> QED BY <1>4, <1>5, <1>6

\* The tail clause of WindowMirrorsHistory is NoTail.
LEMMA MirrorTail ==
    ASSUME words \in Words
    PROVE  NoTail(words) <=> \A w \in DOMAIN words : \A b \in words[w] : IndexOf(w, b) < Width
    BY DEF NoTail, Words

\* The first packet number a window sees becomes its highest one.
LEMMA FirstPreserves ==
    ASSUME Inv, NEW p \in PacketNumbers, presented' = p, AcceptFirst(p)
    PROVE  Inv' /\ accepted' = accepted \cup {p} /\ verdict' = FilterVerdict(Width, accepted, p)
<1> USE DEF AcceptFirst, Record
<1>0. 0 \in 0 .. Width - 1 /\ p \in Nat /\ p # None
    BY WindowAssumption, BitsAssumption
<1>1. accepted = {} /\ p \notin accepted
    BY DEF Inv, WindowMirrorsHistory
<1>2. grants' \in [PacketNumbers -> Nat] /\ accepted' = accepted \cup {p} /\ NeverAcceptedTwice'
    BY <1>1, GrantNew DEF Inv
<1>3. words \in Words /\ NoTail(words) /\ \A j \in 0 .. Width - 1 : ~Get(words, j)
    BY Locate DEF Inv, TypeOK, WindowMirrorsHistory, Words, NoTail, Get
<1>4. words' \in Words /\ NoTail(words') /\ \A j \in 0 .. Width - 1 : Get(words', j) <=> j = 0
    BY <1>0, <1>3, GetAfterSet
<1>5. TypeOK'
    BY <1>2, <1>4 DEF TypeOK
<1>6. accepted' = {p}
    BY <1>1, <1>2
<1>7. \A j \in 0 .. Width - 1 : Get(words', j) <=> (highest' - j) \in accepted'
    BY <1>0, <1>4, <1>6, WindowAssumption, BitsAssumption
<1>8. WindowMirrorsHistory'
    <2>1. \A j \in 0 .. Width - 1 : Get(words, j)' <=> (highest' - j) \in accepted'
        BY <1>7 DEF Get
    <2>2. highest' = p /\ p \in accepted' /\ \A q \in accepted' : q <= p
        BY <1>0, <1>6
    <2> QED BY <2>1, <2>2, <1>0, <1>4 DEF WindowMirrorsHistory, NoTail, Words
<1>9. verdict' = FilterVerdict(Width, accepted, p)
    BY <1>1 DEF FilterVerdict
<1> QED BY <1>2, <1>5, <1>8, <1>9 DEF Inv

\* A packet number above the highest one shifts the window.
LEMMA NewestPreserves ==
    ASSUME Inv, NEW p \in PacketNumbers, presented' = p, AcceptNewest(p)
    PROVE  Inv' /\ accepted' = accepted \cup {p} /\ verdict' = FilterVerdict(Width, accepted, p)
<1> USE DEF AcceptNewest, Record
<1> DEFINE distance == p - highest
           shifted == ShiftLeft(words, distance)
<1>0. /\ 0 \in 0 .. Width - 1 /\ p \in Nat /\ highest \in Nat /\ p # None
      /\ accepted \subseteq Nat /\ Width \in Nat
    <2>1. 0 \in 0 .. Width - 1 /\ p \in Nat /\ p # None /\ Width \in Nat
        BY WindowAssumption, BitsAssumption
    <2>2. highest \in PacketNumbers
        BY DEF Inv, TypeOK
    <2>3. accepted \subseteq Nat
        BY WindowAssumption, BitsAssumption DEF accepted
    <2> QED BY <2>1, <2>2, <2>3, WindowAssumption, BitsAssumption
<1>1. distance \in Nat \ {0} /\ \A q \in accepted : q <= highest
    BY <1>0 DEF Inv, WindowMirrorsHistory
<1>2. p \notin accepted
    BY <1>0, <1>1
<1>3. grants' \in [PacketNumbers -> Nat] /\ accepted' = accepted \cup {p} /\ NeverAcceptedTwice'
    BY <1>2, GrantNew DEF Inv
<1>4. /\ words \in Words
      /\ \A i \in 0 .. Width - 1 : Get(words, i) <=> (highest - i) \in accepted
    BY DEF Inv, TypeOK, WindowMirrorsHistory
<1>5. /\ shifted \in Words
      /\ \A i \in 0 .. Width - 1 : Get(shifted, i) <=> distance <= i /\ Get(words, i - distance)
      /\ NoTail(shifted)
    BY <1>1, <1>4, GetAfterShift
<1>6. /\ words' \in Words
      /\ \A i \in 0 .. Width - 1 : Get(words', i) <=> i = 0 \/ Get(shifted, i)
      /\ NoTail(words')
    <2> HIDE DEF shifted
    <2>1. words' = Set(shifted, 0)
        BY DEF shifted
    <2> QED BY <1>0, <1>5, <2>1, GetAfterSet
<1>7. TypeOK'
    BY <1>3, <1>6 DEF TypeOK
<1>8. ASSUME NEW i \in 0 .. Width - 1
      PROVE  Get(words', i) <=> (p - i) \in accepted'
    <2>1. CASE i = 0
        BY <2>1, <1>0, <1>3, <1>6
    <2>2. CASE i > 0 /\ i < distance
        BY <2>2, <1>0, <1>1, <1>3, <1>5, <1>6
    <2>3. CASE i >= distance
        <3>1. i - distance \in 0 .. Width - 1 /\ highest - (i - distance) = p - i /\ p - i # p
            BY <2>3, <1>0, <1>1
        <3>2. Get(words', i) <=> Get(words, i - distance)
            BY <2>3, <1>0, <1>1, <1>5, <1>6
        <3> QED BY <3>1, <3>2, <1>3, <1>4
    <2> QED BY <2>1, <2>2, <2>3, <1>0, <1>1
<1>9. WindowMirrorsHistory'
    <2>1. highest' = p /\ p \in accepted' /\ \A q \in accepted' : q <= p
        BY <1>0, <1>1, <1>3
    <2>2. \A j \in 0 .. Width - 1 : Get(words, j)' <=> (highest' - j) \in accepted'
        BY <1>8, <2>1 DEF Get
    <2> QED BY <2>1, <2>2, <1>0, <1>6 DEF WindowMirrorsHistory, NoTail, Words
<1>10. verdict' = FilterVerdict(Width, accepted, p)
    <2>1. ~ \E q \in accepted : q - p >= Width
        BY <1>0, <1>1, WindowAssumption, BitsAssumption
    <2> QED BY <2>1, <1>2 DEF FilterVerdict
<1> QED BY <1>3, <1>7, <1>9, <1>10 DEF Inv

\* A packet number at or below the highest one is judged by its bit.
LEMMA WithinPreserves ==
    ASSUME Inv, NEW p \in PacketNumbers, presented' = p, AcceptWithin(p)
    PROVE  /\ Inv'
           /\ accepted' = FilterAccept(Width, accepted, p)
           /\ verdict' = FilterVerdict(Width, accepted, p)
<1> DEFINE distance == highest - p
<1>0. /\ highest \in PacketNumbers /\ highest \in Nat /\ highest # None /\ p \in Nat
      /\ p <= highest /\ accepted \subseteq Nat /\ Width \in Nat
    <2>1. highest \in PacketNumbers /\ highest # None /\ p <= highest
        BY DEF AcceptWithin, Inv, TypeOK
    <2>2. accepted \subseteq Nat
        BY WindowAssumption, BitsAssumption DEF accepted
    <2> QED BY <2>1, <2>2, WindowAssumption, BitsAssumption
<1>1. /\ words \in Words /\ NoTail(words)
      /\ highest \in accepted
      /\ \A q \in accepted : q <= highest
      /\ \A i \in 0 .. Width - 1 : Get(words, i) <=> (highest - i) \in accepted
    BY <1>0 DEF Inv, TypeOK, WindowMirrorsHistory, NoTail, Words
<1>2. distance \in Nat /\ highest - distance = p
    BY <1>0
<1>3. (\E q \in accepted : q - p >= Width) <=> distance >= Width
    BY <1>0, <1>1
<1>4. distance < Width => (Get(words, distance) <=> p \in accepted)
    BY <1>0, <1>1, <1>2
<1>5. CASE distance >= Width /\ Refuse("TooOld")
    <2>1. accepted' = accepted
        BY <1>5 DEF Refuse, accepted
    <2>2. FilterVerdict(Width, accepted, p) = "TooOld"
        BY <1>3, <1>5 DEF FilterVerdict
    <2>3. verdict' = "TooOld"
        BY <1>5 DEF Refuse
    <2>4. Inv'
        BY <1>5, <2>1 DEF Inv, TypeOK, WindowMirrorsHistory, NeverAcceptedTwice, Refuse, Get
    <2> QED BY <2>1, <2>2, <2>3, <2>4 DEF FilterAccept
<1>6. CASE distance < Width /\ Get(words, distance) /\ Refuse("Duplicate")
    <2>1. accepted' = accepted
        BY <1>6 DEF Refuse, accepted
    <2>2. FilterVerdict(Width, accepted, p) = "Duplicate"
        BY <1>0, <1>2, <1>3, <1>4, <1>6 DEF FilterVerdict
    <2>3. verdict' = "Duplicate"
        BY <1>6 DEF Refuse
    <2>4. Inv'
        BY <1>6, <2>1 DEF Inv, TypeOK, WindowMirrorsHistory, NeverAcceptedTwice, Refuse, Get
    <2> QED BY <2>1, <2>2, <2>3, <2>4 DEF FilterAccept
<1>7. CASE /\ distance < Width
           /\ ~Get(words, distance)
           /\ words' = Set(words, distance)
           /\ UNCHANGED highest
           /\ Record(p)
    <2>1. distance \in 0 .. Width - 1 /\ p \notin accepted
        BY <1>0, <1>2, <1>4, <1>7
    <2>2. /\ grants' \in [PacketNumbers -> Nat]
          /\ accepted' = accepted \cup {p}
          /\ NeverAcceptedTwice'
        BY <1>7, <2>1, GrantNew DEF Inv, Record
    <2>3. /\ words' \in Words /\ NoTail(words')
          /\ \A i \in 0 .. Width - 1 : Get(words', i) <=> i = distance \/ Get(words, i)
        <3> HIDE DEF distance
        <3> QED BY <1>1, <1>7, <2>1, GetAfterSet
    <2>4. TypeOK'
        BY <1>0, <1>7, <2>2, <2>3 DEF TypeOK, Record
    <2>5. ASSUME NEW i \in 0 .. Width - 1
          PROVE  Get(words, i)' <=> (highest' - i) \in accepted'
        <3>1. Get(words', i) <=> i = distance \/ (highest - i) \in accepted
            BY <1>1, <2>3
        <3>2. i = distance <=> highest - i = p
            BY <1>0
        <3>3. Get(words, i)' <=> Get(words', i)
            BY DEF Get
        <3> HIDE DEF distance
        <3> QED BY <1>7, <2>2, <3>1, <3>2, <3>3
    <2>6. WindowMirrorsHistory'
        <3>1. /\ highest' = highest /\ highest \in accepted'
              /\ \A q \in accepted' : q <= highest
            BY <1>0, <1>1, <1>7, <2>2
        <3> QED BY <3>1, <1>0, <2>3, <2>5 DEF WindowMirrorsHistory, NoTail, Words
    <2>7. FilterVerdict(Width, accepted, p) = "Ok" /\ verdict' = "Ok"
        BY <1>0, <1>2, <1>3, <1>7, <2>1 DEF FilterVerdict, Record
    <2> QED BY <2>2, <2>4, <2>6, <2>7 DEF Inv, FilterAccept
<1> QED BY <1>5, <1>6, <1>7 DEF AcceptWithin

\* Every call of accept preserves the invariant and answers as the abstract
\* filter does.
LEMMA AcceptPreserves ==
    ASSUME Inv, NEW p \in PacketNumbers, Accept(p)
    PROVE  Inv' /\ Abstract!Query(p)
<1>0. presented' = p
    BY DEF Accept
<1>1. CASE AcceptFirst(p)
    <2>1. verdict' = "Ok"
        BY <1>1 DEF AcceptFirst, Record
    <2> QED BY <1>0, <1>1, <2>1, FirstPreserves DEF Abstract!Query, Abstract!FilterVerdict,
               Abstract!FilterAccept, FilterVerdict, FilterAccept
<1>2. CASE AcceptNewest(p)
    <2>1. verdict' = "Ok"
        BY <1>2 DEF AcceptNewest, Record
    <2> QED BY <1>0, <1>2, <2>1, NewestPreserves DEF Abstract!Query, Abstract!FilterVerdict,
               Abstract!FilterAccept, FilterVerdict, FilterAccept
<1>3. CASE AcceptWithin(p)
    BY <1>0, <1>3, WithinPreserves DEF Abstract!Query, Abstract!FilterVerdict,
       Abstract!FilterAccept, FilterVerdict, FilterAccept
<1> QED BY <1>1, <1>2, <1>3 DEF Accept

\* A step that calls nothing changes nothing.
LEMMA StutterPreserves ==
    ASSUME Inv, UNCHANGED vars
    PROVE  Inv' /\ UNCHANGED Abstract!specVars
<1>1. accepted' = accepted
    BY DEF vars, accepted
<1> QED BY <1>1 DEF Inv, vars, TypeOK, WindowMirrorsHistory, NeverAcceptedTwice, Get,
           Abstract!specVars

\* The inductive invariant holds in every reachable state.
LEMMA InvAlways == Spec => []Inv
<1>1. Inv /\ [Next]_vars => Inv'
    BY AcceptPreserves, StutterPreserves DEF Next
<1> QED BY <1>1, InitInv, PTL DEF Spec

\* The fields of the window keep their types.
THEOREM TypeCorrect == Spec => []TypeOK
    BY InvAlways, PTL DEF Inv

\* Replay protection: accept of replay.rs returns Ok at most once for each
\* packet number, for every width and every order of arrival.
THEOREM NoReplay == Spec => []NeverAcceptedTwice
    BY InvAlways, PTL DEF Inv

\* The bits of the window are exactly the accepted numbers within its width.
THEOREM Mirrors == Spec => []WindowMirrorsHistory
    BY InvAlways, PTL DEF Inv

\* The bit vector of replay.rs implements the abstract filter: it accepts a
\* number exactly when it was not seen and is not a window behind.
THEOREM Implements == Spec => ImplementsFilter
<1>1. Init => Abstract!SpecInit
    BY DEF Init, Abstract!SpecInit, accepted
<1>2. Inv /\ [Next]_vars => [Abstract!SpecNext]_(Abstract!specVars)
    BY AcceptPreserves, StutterPreserves DEF Next, Abstract!SpecNext
<1> QED BY <1>1, <1>2, InvAlways, PTL DEF Spec, ImplementsFilter, Abstract!Spec
-----------------------------------------------------------------------------
(***************************************************************************)
(* The record layer: no number is used twice, and only what the peer has  *)
(* sealed reaches the window.                                             *)
(***************************************************************************)

\* Every record was sealed under a number its sealer has used up, and its
\* tag covers its header.
Sealed(frame) ==
    /\ DOMAIN frame = {"header", "body"}
    /\ frame.body.covers = frame.header
    /\ frame.body.key \in Directions
    /\ frame.header.packet_number \in PacketNumbers
    /\ frame.header.packet_number < next_packet_number[frame.body.key]

RecordInv ==
    /\ DOMAIN grants = PacketNumbers
    /\ next_packet_number \in [Directions -> PacketNumbers]
    /\ \A frame \in net : Sealed(frame)
    /\ NumbersNeverReused
    /\ WindowFollowsSealer
-----------------------------------------------------------------------------
\* A number the sealer moves to is larger than the one it used.
LEMMA Advances ==
    ASSUME NEW n \in PacketNumbers, Advance(n) # None
    PROVE  Advance(n) = n + 1 /\ n + 1 \in PacketNumbers
BY RecordAssumption DEF Advance

\* seal uses the next number, which no record of its key has.
LEMMA SealOK ==
    ASSUME RecordInv, NEW direction \in Directions, NEW type, NEW handle,
           Seal(direction, type, handle)
    PROVE  RecordInv'
<1> DEFINE n == next_packet_number[direction]
           h == Header(type, 0, 1, n, handle)
           new == Frame(h, direction, sealed[direction])
<1>1. /\ n \in PacketNumbers /\ n + 1 \in PacketNumbers
      /\ net' = net \cup {new}
      /\ next_packet_number' = [next_packet_number EXCEPT ![direction] = n + 1]
      /\ UNCHANGED vars
  BY Advances DEF Seal, RecordInv
<1>2. /\ DOMAIN new = {"header", "body"}
      /\ new.header = h /\ new.body.covers = h /\ new.body.key = direction
      /\ h.packet_number = n
  BY DEF Frame, Header
<1> HIDE DEF n, h, new
<1>3. /\ next_packet_number' \in [Directions -> PacketNumbers]
      /\ \A d \in Directions : next_packet_number[d] <= next_packet_number'[d]
      /\ next_packet_number'[direction] = n + 1
  <2>1. next_packet_number \in [Directions -> Nat] /\ n \in Nat
    BY <1>1, WindowAssumption DEF RecordInv
  <2>2. \A d \in Directions : next_packet_number[d] <= next_packet_number'[d]
    BY <1>1, <2>1 DEF n
  <2> QED BY <1>1, <2>2 DEF RecordInv
<1>4. ASSUME NEW frame \in net' PROVE Sealed(frame)'
  <2>1. CASE frame \in net
    <3>1. Sealed(frame)
      BY <2>1 DEF RecordInv
    <3>2. /\ next_packet_number \in [Directions -> Nat] /\ next_packet_number' \in [Directions -> Nat]
          /\ frame.header.packet_number \in Nat
      BY <1>3, <3>1, WindowAssumption DEF RecordInv, Sealed
    <3> QED BY <1>3, <3>1, <3>2 DEF Sealed
  <2>2. CASE frame = new
    BY <1>1, <1>2, <1>3, <2>2, WindowAssumption DEF Sealed
  <2> QED BY <1>1, <1>4, <2>1, <2>2
<1>5. NumbersNeverReused'
  <2>1. ASSUME NEW f \in net, f.body.key = new.body.key
        PROVE  f.header.packet_number # new.header.packet_number
    <3>1. Sealed(f)
      BY DEF RecordInv
    <3>2. f.header.packet_number \in Nat /\ n \in Nat
      BY <1>1, <3>1, WindowAssumption DEF Sealed
    <3> QED BY <1>2, <2>1, <3>1, <3>2 DEF Sealed, n
  <2>2. NumbersNeverReused
    BY DEF RecordInv
  <2> QED BY <1>1, <2>1, <2>2 DEF NumbersNeverReused
<1>6. WindowFollowsSealer'
  <2>1. accepted' = accepted
    BY <1>1 DEF accepted, vars
  <2>2. accepted \subseteq Nat /\ WindowFollowsSealer
    BY WindowAssumption DEF accepted, RecordInv
  <2>3. /\ next_packet_number["peer"] \in Nat /\ next_packet_number'["peer"] \in Nat
        /\ next_packet_number["peer"] <= next_packet_number'["peer"]
    BY <1>3, WindowAssumption DEF RecordInv, Directions
  <2> QED BY <2>1, <2>2, <2>3 DEF WindowFollowsSealer
<1> QED BY <1>1, <1>3, <1>4, <1>5, <1>6 DEF RecordInv, vars

\* accept records at most the number it is given.
LEMMA AcceptsOne ==
    ASSUME DOMAIN grants = PacketNumbers, NEW n, Accept(n)
    PROVE  accepted' \subseteq accepted \cup {n} /\ DOMAIN grants' = PacketNumbers
<1>1. grants' = grants \/ grants' = [grants EXCEPT ![n] = @ + 1]
  BY DEF Accept, AcceptFirst, AcceptNewest, AcceptWithin, Record, Refuse
<1>2. \A m \in PacketNumbers : m # n => grants'[m] = grants[m]
  BY <1>1
<1> QED BY <1>1, <1>2 DEF accepted

\* A frame that authenticates is one the peer has sealed, as it was sent.
LEMMA OpensSealed ==
    ASSUME RecordInv, NEW frame \in net, NEW arrived \in Arrivals(frame), Authenticates(arrived)
    PROVE  /\ arrived.header.packet_number \in PacketNumbers
           /\ arrived.header.packet_number < next_packet_number["peer"]
<1>1. Sealed(frame)
  BY DEF RecordInv
<1>2. arrived.body = frame.body
  BY <1>1 DEF Arrivals, Sealed
<1>3. arrived.header = frame.header /\ frame.body.key = "peer"
  BY <1>1, <1>2 DEF Authenticates, Sealed
<1> QED BY <1>1, <1>3 DEF Sealed

\* So open moves the window only for a record its peer has sealed.
LEMMA OpenOK ==
    ASSUME RecordInv, NEW frame \in net, NEW arrived \in Arrivals(frame), Open(arrived)
    PROVE  RecordInv'
<1> DEFINE n == arrived.header.packet_number
<1>1. /\ Authenticates(arrived) /\ Accept(n)
      /\ UNCHANGED <<net, next_packet_number>>
  BY DEF Open, sealing
<1>2. n \in PacketNumbers /\ n < next_packet_number["peer"]
  BY <1>1, OpensSealed
<1>3. accepted' \subseteq accepted \cup {n} /\ DOMAIN grants' = PacketNumbers
  BY <1>1, AcceptsOne DEF RecordInv
<1>4. WindowFollowsSealer'
  BY <1>1, <1>2, <1>3 DEF WindowFollowsSealer, RecordInv
<1>5. NumbersNeverReused' /\ \A f \in net' : Sealed(f)'
  BY <1>1 DEF RecordInv, NumbersNeverReused, Sealed
<1> QED BY <1>1, <1>3, <1>4, <1>5 DEF RecordInv

\* The invariant holds in every reachable state.
LEMMA RecordInvariance == RecordSpec => []RecordInv
<1>1. RecordInit => RecordInv
  BY RecordAssumption
     DEF RecordInit, Init, RecordInv, Directions, NumbersNeverReused, WindowFollowsSealer, accepted
<1>2. ASSUME RecordInv, UNCHANGED <<vars, sealing>> PROVE RecordInv'
  BY <1>2 DEF RecordInv, NumbersNeverReused, WindowFollowsSealer, Sealed, accepted, vars, sealing
<1>3. ASSUME RecordInv, [RecordNext]_recordVars PROVE RecordInv'
  <2>1. CASE ShiftStep
    BY <1>2, <1>3, <2>1 DEF ShiftStep
  <2>2. CASE UNCHANGED recordVars
    BY <1>2, <1>3, <2>2 DEF recordVars
  <2> QED BY <1>3, <2>1, <2>2, SealOK, OpenOK DEF RecordNext
<1> QED BY <1>1, <1>3, PTL DEF RecordSpec

\* RecordSealer::seal never protects two messages under one number of a key:
\* checked_add stops it at the last number, whatever the width.
THEOREM NonceNeverReused == RecordSpec => []NumbersNeverReused
<1>1. RecordInv => NumbersNeverReused
  BY DEF RecordInv
<1> QED BY <1>1, RecordInvariance, PTL

\* RecordOpener::open authenticates before it touches the replay window, so
\* only numbers the peer has used are in it.
THEOREM WindowSafe == RecordSpec => []WindowFollowsSealer
<1>1. RecordInv => WindowFollowsSealer
  BY DEF RecordInv
<1> QED BY <1>1, RecordInvariance, PTL

\* open calls accept with packet numbers only, and nothing else in the record
\* layer touches the window: what holds of the window holds where it is used.
THEOREM RecordsUseWindow == RecordSpec => Spec
<1>1. RecordInit => Init
  BY DEF RecordInit
<1>2. ASSUME RecordInv, [RecordNext]_recordVars PROVE [Next]_vars
  <2>1. ASSUME NEW frame \in net, NEW arrived \in Arrivals(frame), Open(arrived) PROVE Next
    BY <1>2, <2>1, OpensSealed DEF Open, Next
  <2>2. ASSUME UNCHANGED <<vars, sealing>> PROVE UNCHANGED vars
    BY <2>2
  <2> QED BY <1>2, <2>1, <2>2 DEF RecordNext, Seal, ShiftStep, recordVars
<1> QED BY <1>1, <1>2, RecordInvariance, PTL DEF RecordSpec, Spec

\* Replay protection of records: open accepts a packet number at most once,
\* whatever the network loses, repeats, reorders or damages.
THEOREM OpenedOnce == RecordSpec => []NeverAcceptedTwice
BY RecordsUseWindow, NoReplay, PTL

\* The verdicts of open on authentic records are those of the abstract filter.
THEOREM RecordsImplementFilter == RecordSpec => ImplementsFilter
BY RecordsUseWindow, Implements, PTL
=============================================================================
