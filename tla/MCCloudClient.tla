--------------------------- MODULE MCCloudClient ---------------------------
(***************************************************************************)
(* Instances of CloudClient.                                               *)
(***************************************************************************)
EXTENDS CloudClient
=============================================================================
