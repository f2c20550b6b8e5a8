--------------------------- MODULE MCApplication ---------------------------
(***************************************************************************)
(* The stores of MCServer and the pages of MCBrowser in one run: either a  *)
(* store or a page moves in a behaviour.                                   *)
(***************************************************************************)
EXTENDS MCServer, MCBrowser

AppInit ==
  /\ \/ part \in Parts /\ open = "none"
     \/ part = "none" /\ open \in Pages
  /\ ServerInit /\ BrowserInit

AppNext ==
  \/ part # "none" /\ ServerNext /\ UNCHANGED browserVars
  \/ open # "none" /\ BrowserNext /\ UNCHANGED serverVars

AppSpec == AppInit /\ [][AppNext]_<<serverVars, browserVars>>

(* Every component's state has its type. *)
AppTypeOK == ServerTypeOK /\ BrowserTypeOK
=============================================================================
