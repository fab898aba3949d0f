----------------------------- MODULE MCDashboard -----------------------------
(***************************************************************************)
(* TLC instance of Dashboard: pages of one row, two loads at once.        *)
(***************************************************************************)
EXTENDS Dashboard

OneRow == << [id |-> 0, status |-> "running"] >>
==============================================================================
