----------------------------- MODULE MCSdpFind ------------------------------
(***************************************************************************)
(* SdpFind on small instances.                                             *)
(***************************************************************************)
EXTENDS SdpFind
=============================================================================
