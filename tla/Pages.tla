------------------------------- MODULE Pages -------------------------------
(***************************************************************************)
(* One window of the web app and the page it shows: a page with rows of    *)
(* the server (Console), the breach monitor (Monitor) or the Data section  *)
(* of the settings (Transfer), the latter two with the vault store.  A     *)
(* page is left by mounting another one, whose state starts anew; each     *)
(* behaviour follows one page.                                             *)
(***************************************************************************)
EXTENDS Monitor, Console

PagesTypeOK == TransferTypeOK /\ MonitorTypeOK /\ ConsoleTypeOK

PagesInit ==
    /\ TransferInit /\ MonitorInit /\ ConsoleInit
    /\ page # "monitor" => corpus = {}

PagesNext ==
    \/ page = "data" /\ TransferNext /\ UNCHANGED <<monitorVars, consoleVars>>
    \/ page = "monitor" /\ MonitorNext /\ UNCHANGED consoleVars
    \/ page \notin {"data", "monitor"} /\ ConsoleNext /\ UNCHANGED <<allVars, monitorVars>>

PagesSpec == PagesInit /\ [][PagesNext]_<<allVars, monitorVars, consoleVars>>

=============================================================================
