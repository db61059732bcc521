----------------------------- MODULE MCAdminMirror -----------------------------
(* A small instance of AdminMirror.                                        *)
EXTENDS AdminMirror, TLC

CONSTANTS e1, e2
=============================================================================
