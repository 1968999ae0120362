------------------------------ MODULE MCCapacity ------------------------------
(***************************************************************************)
(* Capacity with the wire format's own lengths, on devices whose program   *)
(* unit is four bytes and with bounds of three, six and five bytes: in the *)
(* smallest bank such a run is accepted in, in one just too small, and in  *)
(* one with room for some more boundaries.                                 *)
(***************************************************************************)
EXTENDS Capacity

CONSTANT Unit

RoundUp(n) == ((n + Unit - 1) \div Unit) * Unit

\* A frame is header, payload and trailer padded to a unit, and one seal.
MCFrame(payload) == RoundUp(16 + payload) + Unit
MCHeaderLen(bytes) == RoundUp(26 + bytes)
Smallest == MCHeaderLen(RunInput) + MCFrame(StartedPrefix + RunInput) + MCFrame(TimerBody)
              + 2 * MCFrame(Result) + MCFrame(Terminal)
MCBankSizes == {Smallest - Unit, Smallest, Smallest + 120}
=============================================================================
