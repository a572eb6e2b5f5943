------------------------------ MODULE Setpoint -----------------------------
(***************************************************************************)
(* From watts to the register that holds the power setpoint: a share of    *)
(* the reference in percent, scaled by a power of ten the device reports,  *)
(* rounded half to even, and written as an unsigned 16-bit value that the  *)
(* device reads as a signed one (coordinator._watts_to_ic_setpoint_raw,    *)
(* domain/registers.py).  Floating point is exact here.                    *)
(***************************************************************************)
EXTENDS Integers

CONSTANTS
    Watts,          \* charge is negative
    References,     \* ic_max_power_reference; 0 stands for every invalid one
    ScaleRegisters, \* contents of the scale factor's register
    Unwritten         \* no register value: the order is not written

ASSUME SetpointAssumption ==
    /\ Watts \subseteq Int /\ References \subseteq Nat /\ Unwritten \notin Int
    /\ \A n \in ScaleRegisters : n \in Nat /\ n < 65536

VARIABLES order,    \* watts, reference, scale register
          register  \* 40049, as it is written

setpointVars == <<order, register>>

NoOrder == [watts |-> 0, reference |-> 0, scale |-> 0]
Magnitude(n) == IF n < 0 THEN -n ELSE n
-----------------------------------------------------------------------------
ToSigned16(n) == IF n >= 32768 THEN n - 65536 ELSE n
ToUnsigned16(n) == n % 65536

\* decode_sunssf
IsScale(n) == n # 32768 /\ ToSigned16(n) \in -10..10

\* The percentage, as a fraction of References, is at most 100.
Share(o) == IF 100 * Magnitude(o.watts) <= 100 * o.reference THEN 100 * o.watts
            ELSE IF o.watts < 0 THEN -100 * o.reference ELSE 100 * o.reference

\* The fraction the register holds in whole numbers.
Numerator(o, share) ==
    IF ToSigned16(o.scale) < 0 THEN share * 10 ^ (-ToSigned16(o.scale)) ELSE share
Denominator(o) ==
    IF ToSigned16(o.scale) > 0 THEN o.reference * 10 ^ ToSigned16(o.scale) ELSE o.reference

\* Python's round.
Rounded(n, d) ==
    LET down == n \div d
        twice == 2 * (n % d)
    IN  IF twice < d \/ (twice = d /\ down % 2 = 0) THEN down ELSE down + 1

\* What int16 cannot hold is not written.  A slip: it wraps around.
FitsAnyway(n) == TRUE
Fits(n) == -32768 <= n /\ n <= 32767

\* _watts_to_ic_setpoint_raw
Encoded(o) ==
    IF o.reference = 0 \/ ~IsScale(o.scale) THEN Unwritten
    ELSE LET raw == Rounded(Numerator(o, Share(o)), Denominator(o))
         IN  IF Fits(raw) THEN ToUnsigned16(raw) ELSE Unwritten

\* Zero needs neither.
Raw(o) == IF o.watts = 0 THEN 0 ELSE Encoded(o)

OrdersPower ==
    /\ order' \in [watts : Watts, reference : References, scale : ScaleRegisters]
    /\ register' = Raw(order')
-----------------------------------------------------------------------------
SetpointInit == order = NoOrder /\ register = 0

SetpointSpec == SetpointInit /\ [][OrdersPower]_setpointVars
-----------------------------------------------------------------------------
Target(o) == IF o.watts < -o.reference THEN -o.reference
             ELSE IF o.watts > o.reference THEN o.reference ELSE o.watts

\* What the device reads is at most half a unit from the power that was meant,
\* cut to the reference, and never of the other sign.
DeviceReadsTheOrder ==
    register # Unwritten /\ order.watts # 0 =>
        LET read == ToSigned16(register)
        IN  /\ 2 * Magnitude(read * Denominator(order) - Numerator(order, 100 * Target(order)))
                   <= Denominator(order)
            /\ order.watts > 0 => read >= 0
            /\ order.watts < 0 => read <= 0

\* Stopping a charge needs nothing the device has to report first.
ZeroIsAlwaysWritten == order.watts = 0 => register = 0

\* The register says what was ordered, or is not written; zero always is.
SetpointIsTrue == DeviceReadsTheOrder /\ ZeroIsAlwaysWritten
=============================================================================
