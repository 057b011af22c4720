----------------------------- MODULE MCAdminPages -----------------------------
(* A small instance of AdminPages. *)
EXTENDS AdminPages, TLC

CONSTANTS a, b
===============================================================================
