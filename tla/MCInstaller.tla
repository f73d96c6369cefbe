---------------------------- MODULE MCInstaller ----------------------------
(* One host and the installer, for TLC. *)
EXTENDS Installer
=============================================================================
