--------------------------- MODULE CapacityProofs ---------------------------
(***************************************************************************)
(* What the capacity arithmetic computes, for every range and every size.  *)
(***************************************************************************)
EXTENDS Capacity, TLAPS

\* validateCapacityRange: what it accepts is positive, within the maximum and
\* within the range that was asked for (a bound that is not positive is unset);
\* it may be below minBytes when the range straddles it.
THEOREM CapacityWithinRange ==
  ASSUME NEW required \in Int, NEW limit \in Int,
         ValidateCapacityRange(required, limit) # OutOfRange
  PROVE  /\ ValidateCapacityRange(required, limit) \in 1 .. maxBytes
         /\ required > 0 => required <= ValidateCapacityRange(required, limit)
         /\ limit > 0 => ValidateCapacityRange(required, limit) <= limit
         /\ required <= 0 /\ limit <= 0
            => ValidateCapacityRange(required, limit) = minBytes
  BY CapacityAssumption DEF ValidateCapacityRange, OutOfRange

\* The result is a number of bytes, OutOfRange included.
LEMMA CapacityType ==
  ASSUME NEW required \in Int, NEW limit \in Int
  PROVE  ValidateCapacityRange(required, limit) \in 0 .. maxBytes
  BY CapacityAssumption DEF ValidateCapacityRange, OutOfRange

\* Division by a GiB, without the remainder.
LEMMA SizeDivides ==
  ASSUME NEW bytes \in Nat
  PROVE  /\ SizeGB(bytes) \in Nat
         /\ SizeGB(bytes) * giB <= bytes
         /\ bytes < SizeGB(bytes) * giB + giB
  BY CapacityAssumption DEF SizeGB

\* More GiB are more bytes.
LEMMA SizeScales ==
  ASSUME NEW s \in Nat, NEW t \in Nat, s <= t
  PROVE  /\ s * giB \in Nat
         /\ s * giB <= t * giB
         /\ (t + 1) * giB = t * giB + giB
<1>1. PICK d \in Nat : t = s + d
  <2>1. t - s \in Nat /\ t = s + (t - s)
    OBVIOUS
  <2> QED BY <2>1
<1>2. t * giB = s * giB + d * giB /\ d * giB \in Nat /\ s * giB \in Nat
  BY <1>1, CapacityAssumption
<1> QED BY <1>2, CapacityAssumption

\* A storage of at least SizeGB(bytes) GiB has those bytes up to a part of a GiB.
LEMMA SizeRoundsDown ==
  ASSUME NEW bytes \in Nat, NEW gb \in Nat, SizeGB(bytes) <= gb
  PROVE  /\ bytes < (gb + 1) * giB
         /\ SizeGB(bytes) * giB < (gb + 1) * giB
         /\ gb * giB < (gb + 1) * giB
<1>1. SizeGB(bytes) \in Nat /\ bytes < SizeGB(bytes) * giB + giB
  BY SizeDivides
<1>2. SizeGB(bytes) * giB <= gb * giB /\ (gb + 1) * giB = gb * giB + giB
      /\ SizeGB(bytes) * giB \in Nat /\ gb * giB \in Nat
  BY <1>1, SizeScales
<1> QED BY <1>1, <1>2, CapacityAssumption

\* A size in whole GiB survives the conversion and back.
LEMMA WholeGiB ==
  ASSUME NEW bytes \in Nat, bytes % giB = 0
  PROVE  SizeGB(bytes) * giB = bytes
  BY CapacityAssumption DEF SizeGB

\* Whole GiB are not rounded: less than a GiB more than there is, is what there is.
LEMMA WholeGiBFits ==
  ASSUME NEW bytes \in Nat, NEW gb \in Nat, bytes % giB = 0, bytes < (gb + 1) * giB
  PROVE  bytes <= gb * giB
<1>1. SizeGB(bytes) \in Nat /\ SizeGB(bytes) * giB = bytes
  BY SizeDivides, WholeGiB
<1>2. ~ gb + 1 <= SizeGB(bytes)
  <2> SUFFICES ASSUME gb + 1 <= SizeGB(bytes) PROVE FALSE
    OBVIOUS
  <2>1. (gb + 1) * giB <= SizeGB(bytes) * giB /\ (gb + 1) * giB \in Nat
    BY <1>1, SizeScales
  <2> QED BY <1>1, <2>1
<1>3. SizeGB(bytes) <= gb
  BY <1>1, <1>2
<1> QED BY <1>1, <1>3, SizeScales

\* Storages are asked for in at most SizeGB(maxBytes) GiB.
LEMMA SizeMonotone ==
  ASSUME NEW a \in Nat, NEW b \in Nat, a <= b
  PROVE  SizeGB(a) <= SizeGB(b)
<1> SUFFICES ASSUME SizeGB(b) < SizeGB(a) PROVE FALSE
  BY SizeDivides
<1>1. SizeGB(a) \in Nat /\ SizeGB(b) \in Nat /\ SizeGB(b) + 1 <= SizeGB(a)
  BY SizeDivides
<1>2. (SizeGB(b) + 1) * giB <= SizeGB(a) * giB
  BY <1>1, SizeScales
<1>3. b < (SizeGB(b) + 1) * giB
  BY <1>1, SizeRoundsDown
<1>4. SizeGB(a) * giB <= a /\ SizeGB(a) * giB \in Nat /\ (SizeGB(b) + 1) * giB \in Nat
  BY <1>1, SizeDivides, SizeScales
<1> QED BY <1>2, <1>3, <1>4

=============================================================================
