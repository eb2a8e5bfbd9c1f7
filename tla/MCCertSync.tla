----------------------------- MODULE MCCertSync -----------------------------
(***************************************************************************)
(* Small instances of CertSync for TLC.                                     *)
(***************************************************************************)
EXTENDS CertSync

CONSTANTS crt, key
=============================================================================
