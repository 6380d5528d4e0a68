------------------------------- MODULE MCDashboard -------------------------------
(* Dashboard as it is checked.                                                  *)
EXTENDS Dashboard
==================================================================================
