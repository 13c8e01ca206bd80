------------------------------ MODULE Capacity ------------------------------
(***************************************************************************)
(* Capacity arithmetic of the controller (internal/controller): capacity   *)
(* ranges in bytes, storage sizes in whole GiB.                            *)
(***************************************************************************)
EXTENDS Integers

CONSTANTS
    giB,        \* bytes in a GiB (scaled down)
    minBytes,   \* minBlockStorageSize
    maxBytes    \* maxBlockStorageSize

ASSUME CapacityAssumption ==
    /\ giB \in Nat \ {0}
    /\ minBytes \in Nat \ {0}
    /\ maxBytes \in Nat /\ minBytes <= maxBytes

\* Stands for the error; no capacity is 0.
OutOfRange == 0

\* A field that is zero or negative is unset; required is preferred.
ValidateCapacityRange(required, limit) ==
    LET lo == IF required <= 0 THEN limit ELSE required
        hi == IF limit <= 0 THEN required ELSE limit
    IN  CASE required <= 0 /\ limit <= 0                -> minBytes
          [] lo > 0 /\ (hi < lo \/ hi < minBytes \/ lo > maxBytes) -> OutOfRange
          [] OTHER                                      -> IF required > 0 THEN required ELSE limit

\* The size that is asked of the API: int(storageSize / giB).
SizeGB(bytes) == bytes \div giB

\* The capacities that are asked for, OutOfRange included, and their sizes.
Capacities == 0 .. maxBytes
Sizes == 0 .. SizeGB(maxBytes)

=============================================================================
