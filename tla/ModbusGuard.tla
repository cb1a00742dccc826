---------------------------- MODULE ModbusGuard ----------------------------
(***************************************************************************)
(* The guard of a Modbus TCP line (core/industrial/chrono_modbus_guard.c). *)
(*                                                                         *)
(* chrono_modbus_validate_frame is a function of the bytes it is handed:   *)
(* what has arrived so far of a stream of ADUs, however TCP cut it or put  *)
(* several into one recv().  Of an ADU the fields a decision depends on    *)
(* are kept.                                                               *)
(***************************************************************************)
EXTENDS Integers, Sequences

CONSTANTS
  Protocols, Lengths, Functions,  \* MBAP fields and function code of an ADU
  MaxReceived                     \* bound: bytes received

VARIABLES
  stream,     \* the ADUs being sent: one to be judged, and the one behind it
  received    \* bytes of the stream that have arrived

modbusVars == <<stream, received>>

MbapSize == 7
MaxPdu == 253
MaxAdu == 260

valid_function(fc) == fc \in {1, 2, 3, 4, 5, 6, 15, 16, 23}
is_write_function(fc) == fc \in {5, 6, 15, 16, 23}

\* What the protocol calls an ADU the guard knows.
Proper(a) == a.protocol = 0 /\ a.length \in 2..(MaxPdu + 1) /\ valid_function(a.fc)

Adus == [protocol : Protocols, length : Lengths, fc : Functions]

Init ==
  /\ \E a, b \in Adus : Proper(b) /\ stream = <<a, b>>
  /\ received = 0

\* parse_mbap: the length of the ADU the buffer begins with, 0 while it is
\* incomplete, or an error.  What the buffer holds behind it is not looked at.
parse_mbap(s, available) ==
  LET a == s[1] IN
  IF available < MbapSize THEN 0
  ELSE IF a.protocol # 0 THEN -2
  ELSE IF a.length < 2 \/ a.length > MaxPdu + 1 THEN -3
  ELSE IF 6 + a.length > MaxAdu THEN -4
  ELSE IF available < 6 + a.length THEN 0
  ELSE IF a.length = 1 THEN -5
  ELSE IF ~valid_function(a.fc) THEN -6
  ELSE 6 + a.length

\* chrono_modbus_validate_frame: 1 for a write, 0 for a read and while the ADU
\* is incomplete, negative for what is refused.
ModbusVerdict(s, available) ==
  LET result == parse_mbap(s, available) IN
  IF result <= 0 THEN result
  ELSE IF is_write_function(s[1].fc) THEN 1 ELSE 0

\* External: another byte of the stream arrives.
Receive ==
  /\ received < MaxReceived
  /\ received' = received + 1
  /\ UNCHANGED stream

Next == Receive
Spec == Init /\ [][Next]_modbusVars
-----------------------------------------------------------------------------
TypeOK ==
  /\ received \in 0..MaxReceived
  /\ ModbusVerdict(stream, received) \in {-6, -3, -2, 0, 1}  \* -4 and -5 cannot occur

\* TCP cuts a stream anywhere.  No cut makes the guard refuse an ADU it knows or
\* report a read as a write, and a write at the head of the buffer is reported
\* from its last byte on, also when another ADU has come with it.  The one behind
\* it is not judged: the property says nothing of a write that follows a read.
CutsDoNotMatter ==
  LET head == stream[1]
      verdict == ModbusVerdict(stream, received)
  IN  /\ Proper(head) =>
           (verdict = IF received >= 6 + head.length /\ is_write_function(head.fc) THEN 1 ELSE 0)
      /\ ~Proper(head) => verdict <= 0 /\ (received >= MaxAdu => verdict < 0)
=============================================================================
