---------------------------- MODULE MCLauncherIpc ----------------------------
(* One command, for a browser, a process outside the zone, and a volume of    *)
(* two sectors; two passphrases and a few faults of the machine.              *)
EXTENDS LauncherIpc

CONSTANTS work, personal, v1, browser, ui1

MCProc == {work, personal}
MCValue == {v1}
MCConns == {ui1}
MCApp == {browser}
=============================================================================
