----------------------------- MODULE MCListing ------------------------------
(***************************************************************************)
(* Instances of Listing for TLC.                                           *)
(***************************************************************************)
EXTENDS Listing

CONSTANTS v1, v2, v3, f1, b1, b2

\* The API lists block storages, file storages and backups of the account.
AllOrder == <<v1, b1, f1, v2, b2, v3>>

AllOrigin == b1 :> v1 @@ b2 :> v2

=============================================================================
