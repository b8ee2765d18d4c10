----------------------------- MODULE MCConfigText -----------------------------
(***************************************************************************)
(* An instance of ConfigText for TLC on its own.                           *)
(***************************************************************************)
EXTENDS ConfigText, ConfigCases
===============================================================================
