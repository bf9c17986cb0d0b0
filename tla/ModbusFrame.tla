----------------------------- MODULE ModbusFrame -----------------------------
(***************************************************************************)
(* The bytes of one Modbus exchange: the requests that modbus_register.cpp *)
(* builds, the answers its is_ok() accepts and the values its get16() and  *)
(* get32() read from them, the CRC of modbus_crc.h, and a slave.  A word   *)
(* of n bits is the set of its one bits, a subset of 0..n-1, so exclusive  *)
(* or is the symmetric difference.  The line may fail once in an exchange: *)
(* by a burst of flipped bits, by the end of the characters before the     *)
(* alarm, or by one character that is lost within an answer.               *)
(***************************************************************************)
EXTENDS Integers, Sequences

CONSTANTS
  Data,    \* values written: subsets of 0..31
  Bursts,  \* damage: the bits flipped, counted from the first, within 16
  Counts,  \* numbers of registers a register object may stand for
  Unset,   \* what rxbuf, which no constructor sets, may hold at first
  MaxFaults  \* bound: how often the line fails

ASSUME FrameAssumption ==
  /\ Data \subseteq SUBSET (0..31) /\ Counts \subseteq {1, 2}
  /\ Bursts \subseteq {burst \in SUBSET (0..15) : 0 \in burst}
  /\ Unset \subseteq [1..9 -> SUBSET (0..7)] /\ MaxFaults \in Nat

VARIABLES
  op,       \* the exchange under way, and the value it writes
  count,    \* number_of_registers of the register object
  memory,   \* the slave's two registers
  bus,      \* the frame on the line
  whose,    \* whose turn it is: master, slave or register object
  fault,    \* how the line failed in this exchange: none, burst, cut or lost
  faults,   \* how often it failed
  rxbuf,    \* the first nine characters of a ReadRegister's and a WriteRegister's
  rx_len    \* characters received in the exchange

failures == <<fault, faults>>
exchange == <<op, count, memory, bus, whose, failures, rxbuf, rx_len>>

Xor(a, b) == (a \ b) \cup (b \ a)
Weight == <<1, 2, 4, 8, 16, 32, 64, 128>>
Number(n) == {b \in 0..7 : (n \div Weight[b + 1]) % 2 = 1}

(* Byte i of a word, the least significant being byte 0, and its inverse.  *)
Byte(word, i) == {b - 8 * i : b \in word \cap (8 * i)..(8 * i + 7)}
AtByte(byte, i) == {b + 8 * i : b \in byte}

-----------------------------------------------------------------------------
(* The table of modbus_crc.h holds the remainders of the bytes, bits       *)
(* reflected, by the polynomial x^16 + x^15 + x^2 + 1.                     *)
Polynomial == {15, 13, 0}
Shift(word) == {b - 1 : b \in word \ {0}}
Step(word) == IF 0 \in word THEN Xor(Shift(word), Polynomial) ELSE Shift(word)
CrcTable == [byte \in SUBSET (0..7) |->
              Step(Step(Step(Step(Step(Step(Step(Step(byte))))))))]

NextVal(val, byte) == Xor(Byte(val, 1), CrcTable[Xor(Byte(val, 0), byte)])

crc(bytes) ==
  LET val[i \in 0..Len(bytes)] == IF i = 0 THEN 0..15 ELSE NextVal(val[i - 1], bytes[i])
  IN  val[Len(bytes)]

WithCrc(bytes) == bytes \o <<Byte(crc(bytes), 0), Byte(crc(bytes), 1)>>

-----------------------------------------------------------------------------
FUNC_READ == Number(3)
FUNC_WRITE == Number(16)
DEVICE == Number(1)
ERROR_PACKET_LEN == 5
READ_EXPECTED_CHARACTERS == 5
WRITE_EXPECTED_CHARACTERS == 8

Header(func) == <<DEVICE, func, {}, Number(4), {}, Number(count)>>

ReadRequest == WithCrc(Header(FUNC_READ))

(* start_transfer(uint16_t): two bytes, whatever the count.                *)
Write16Request(data) ==
  WithCrc(Header(FUNC_WRITE) \o <<Number(2), Byte(data, 1), Byte(data, 0)>>)

(* Slips for the properties to notice; no specification uses them.         *)
Write32HighFirst(data) ==
  IF count = 1 THEN Write16Request(data)
  ELSE WithCrc(Header(FUNC_WRITE) \o <<Number(4), Byte(data, 3), Byte(data, 2),
                                       Byte(data, 1), Byte(data, 0)>>)

get32HighFirst ==
  LET read == rxbuf.read
  IN  IF read[3] = Number(2) THEN AtByte(read[4], 1) \cup AtByte(read[5], 0)
      ELSE AtByte(read[4], 3) \cup AtByte(read[5], 2) \cup AtByte(read[6], 1) \cup AtByte(read[7], 0)

(* start_transfer(uint32_t): the lower word goes first.                    *)
Write32Request(data) ==
  IF count = 1 THEN Write16Request(data)
  ELSE WithCrc(Header(FUNC_WRITE) \o <<Number(4), Byte(data, 1), Byte(data, 0),
                                       Byte(data, 3), Byte(data, 2)>>)

(* is_ok() looks at the characters received, get16() and get32() at the    *)
(* places where they should be.  Nothing in src/ calls is_ok().            *)
Object == IF op.kind = "read" THEN "read" ELSE "write"
received == SubSeq(rxbuf[Object], 1, rx_len)

ReadIsOk == crc(received) = {} /\ rx_len # ERROR_PACKET_LEN
WriteIsOk == crc(received) = {} /\ rx_len >= WRITE_EXPECTED_CHARACTERS

get16 == AtByte(rxbuf.read[4], 1) \cup AtByte(rxbuf.read[5], 0)
get32 == IF rxbuf.read[3] = Number(2) THEN get16
         ELSE AtByte(rxbuf.read[6], 3) \cup AtByte(rxbuf.read[7], 2) \cup get16

-----------------------------------------------------------------------------
FrameInit ==
  /\ op = [kind |-> "none", data |-> {}]
  /\ count \in Counts
  /\ memory = <<{}, {}>> /\ bus = <<>>
  /\ rxbuf \in [{"read", "write"} -> Unset] /\ rx_len = 0
  /\ whose = "master" /\ fault = "none" /\ faults = 0

Start(kind, data, request) ==
  /\ whose = "master" /\ whose' = "slave"
  /\ op' = [kind |-> kind, data |-> data]
  /\ bus' = request
  /\ fault' = "none"
  /\ UNCHANGED <<count, memory, faults, rxbuf, rx_len>>

Read == Start("read", {}, ReadRequest)
Write16(data) == Start("write16", data \cap 0..15, Write16Request(data))
Write32(data) == Start("write32", data, Write32Request(data))

(* The slave answers a frame that is whole and its own, and writes only    *)
(* what has two bytes for each register; others it answers by an exception.*)
Exception == WithCrc(<<DEVICE, bus[2] \cup {7}, Number(3)>>)

Written ==
  [r \in 1..2 |-> IF r <= count THEN AtByte(bus[6 + 2 * r], 1) \cup bus[7 + 2 * r]
                  ELSE memory[r]]

SlaveAnswers ==
  /\ whose = "slave" /\ whose' = "answer"
  /\ crc(bus) = {} /\ bus[1] = DEVICE
  /\ CASE bus[2] = FUNC_READ ->
            /\ bus' = WithCrc(<<DEVICE, FUNC_READ, Number(2 * count)>>
                        \o [i \in 1..2 * count |-> Byte(memory[(i + 1) \div 2], i % 2)])
            /\ UNCHANGED memory
       [] bus[2] = FUNC_WRITE /\ bus[7] = Number(2 * count) ->
            /\ memory' = Written
            /\ bus' = WithCrc(SubSeq(bus, 1, 6))
       [] OTHER -> bus' = Exception /\ UNCHANGED memory
  /\ UNCHANGED <<op, count, failures, rxbuf, rx_len>>

(* A frame with a false CRC is not answered.                               *)
SlaveIgnores ==
  /\ whose = "slave" /\ whose' = "answer"
  /\ crc(bus) # {} \/ bus[1] # DEVICE
  /\ bus' = <<>>
  /\ UNCHANGED <<op, count, memory, failures, rxbuf, rx_len>>

Fails(kind) ==
  /\ fault = "none" /\ fault' = kind
  /\ faults < MaxFaults /\ faults' = faults + 1

(* The flipped bits lie together, the first of them at a bit of the frame. *)
Damage(first, burst) ==
  /\ Fails("burst") /\ whose \in {"slave", "answer"}
  /\ first + 8 \in 8..(8 * Len(bus) + 7)
  /\ bus' = [i \in DOMAIN bus |->
                Xor(bus[i], Byte({first + b : b \in burst}, i - 1))]
  /\ UNCHANGED <<op, count, memory, whose, rxbuf, rx_len>>

(* The receive DMA takes the characters it was started for, or what came   *)
(* before the alarm.                                                       *)
Asked == IF op.kind = "read" THEN READ_EXPECTED_CHARACTERS + 2 * count
         ELSE WRITE_EXPECTED_CHARACTERS

(* What lies behind them in rxbuf stays from earlier exchanges.            *)
Deliver(chars) ==
  LET n == IF Asked < Len(chars) THEN Asked ELSE Len(chars)
  IN  /\ whose = "answer" /\ whose' = "done"
      /\ rx_len' = n
      /\ rxbuf' = [rxbuf EXCEPT ![Object] = [i \in 1..9 |-> IF i <= n THEN chars[i] ELSE @[i]]]
      /\ UNCHANGED <<op, count, memory, bus>>

Receive == Deliver(bus) /\ UNCHANGED failures

(* The alarm ends the exchange after n characters, or none.                *)
ReceiveCut(n) ==
  /\ n \in 0..(Len(bus) - 1)
  /\ Fails("cut") /\ Deliver(SubSeq(bus, 1, n))

(* A character within the answer is lost, and those behind it move up.     *)
ReceiveLost(n) ==
  /\ n \in 1..(Len(bus) - 1)
  /\ Fails("lost") /\ Deliver(SubSeq(bus, 1, n - 1) \o SubSeq(bus, n + 1, Len(bus)))

Again ==
  /\ whose = "done" /\ whose' = "master"
  /\ bus' = <<>>
  /\ UNCHANGED <<op, count, memory, failures, rxbuf, rx_len>>

FrameNext ==
  \/ Read \/ (\E data \in Data : Write16(data) \/ Write32(data))
  \/ SlaveAnswers \/ SlaveIgnores
  \/ (\E burst \in Bursts, first \in 0..103 : Damage(first, burst))
  \/ Receive \/ (\E n \in 0..8 : ReceiveCut(n) \/ ReceiveLost(n)) \/ Again

FrameSpec == FrameInit /\ [][FrameNext]_exchange

-----------------------------------------------------------------------------
(* The value the slave's registers hold: the lower word is in the first.   *)
Held == IF count = 1 THEN memory[1] ELSE memory[1] \cup AtByte(memory[2], 2)

(* What is_ok() lets through is true: a value written is the one that the  *)
(* slave holds now, a value read is the one it holds, once the characters  *)
(* of the value came.  ReadRegister::is_ok() does not ask whether they did:*)
(* of an answer for two registers it takes the first six characters when   *)
(* the two of the data there happen to be the CRC of what precedes them,   *)
(* and get32() adds a character of an earlier answer.  Nor can a CRC tell  *)
(* that a character within the answer is missing.                          *)
AcceptedIsTrue ==
  /\ whose = "done" /\ op.kind = "read" /\ ReadIsOk
       /\ fault # "lost" /\ rx_len >= 3 + 2 * count => get32 = Held
  /\ whose = "done" /\ op.kind = "write16" /\ WriteIsOk => memory[1] = op.data
  /\ whose = "done" /\ op.kind = "write32" /\ WriteIsOk =>
       Held = (IF count = 1 THEN op.data \cap 0..15 ELSE op.data)

(* ... and only what was written whole changes the slave's registers.      *)
OnlyRequestedWritten ==
  [][memory' # memory =>
       /\ op.kind \in {"write16", "write32"}
       /\ memory'[1] = op.data \cap 0..15
       /\ count = 2 => memory'[2] = {b - 16 : b \in op.data \cap 16..31}]_exchange
=============================================================================
