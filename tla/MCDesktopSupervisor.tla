------------------------ MODULE MCDesktopSupervisor ------------------------
(* A small instance of DesktopSupervisor: one user, every command.           *)
EXTENDS DesktopSupervisor
CONSTANTS tray
OneUser == {tray}
Commands == {"restart", "apply", "disable", "enable", "update"}
=============================================================================
