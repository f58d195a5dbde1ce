---------------------------- MODULE Inscription ----------------------------
(***************************************************************************)
(* convert_to_brc20_inscription: the size of the inscription that carries  *)
(* a signed EVM transaction.  BRC2.0 allows GasPerByte gas for each byte,  *)
(* so the JSON text is padded with spaces to the size its gas limit asks   *)
(* for, unless that is more than max_inscription_bytes.                    *)
(*                                                                         *)
(* A transaction is the length its text has unpadded, or Undecodable.      *)
(***************************************************************************)
EXTENDS Integers

CONSTANTS
    GasPerByte,   \* GAS_PER_BYTE, 12000 in the code
    Largest,      \* u64::MAX
    Undecodable   \* a text that is no hex, or that Base64Bytes refuses

ASSUME GasAssumption     == GasPerByte \in Nat /\ GasPerByte > 1
ASSUME LargestAssumption == Largest \in Nat \ {0}
ASSUME TextAssumption    == Undecodable \notin Nat

SaturatingAdd(a, b) == IF a + b > Largest THEN Largest ELSE a + b
SaturatingSub(a, b) == IF a < b THEN 0 ELSE a - b

\* Variant of InscriptionBytesForGas: without the byte for the remainder.
WholeBytesForGas(gas) == gas \div GasPerByte

InscriptionBytesForGas(gas) == SaturatingAdd(gas \div GasPerByte, 1)

Err        == [kind |-> "err"]
Padded(n)  == [kind |-> "ok", size |-> n]

\* Variant of Convert: the limit is compared with the text alone.
ConvertAndPad(text, gas, max) ==
    IF max = 0 \/ text = Undecodable \/ text > max THEN Err
    ELSE Padded(text + SaturatingSub(InscriptionBytesForGas(gas), text))

\* Variant of Convert: the limit is one the size has to stay below.
ConvertBelow(text, gas, max) ==
    LET required == InscriptionBytesForGas(gas)
    IN  IF max = 0 \/ required >= max \/ text = Undecodable \/ text > max THEN Err
        ELSE Padded(text + SaturatingSub(required, text))

Convert(text, gas, max) ==
    LET required == InscriptionBytesForGas(gas)
    IN  IF max = 0 \/ required > max \/ text = Undecodable \/ text > max THEN Err
        ELSE Padded(text + SaturatingSub(required, text))

-----------------------------------------------------------------------------
\* An inscription of n bytes pays for the gas, with some to spare.
Buys(n, gas) == n * GasPerByte > gas

\* What makes an inscription right: within the limit, the text is in it, its
\* gas is paid for, and one byte of padding less would not pay for it.
Fits(n, text, gas, max) ==
    /\ text <= n /\ n <= max
    /\ Buys(n, gas)
    /\ n = text \/ (n - 1) * GasPerByte <= gas
=============================================================================
