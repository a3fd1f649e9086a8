---------------------------- MODULE MCInstaller ----------------------------
(* A small instance of Installer.                                          *)
EXTENDS Installer
=============================================================================
