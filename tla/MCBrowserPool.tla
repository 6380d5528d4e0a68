----------------------------- MODULE MCBrowserPool -----------------------------
(* BrowserPool with what its configurations need beside the constants' values. *)
EXTENDS BrowserPool
===============================================================================
