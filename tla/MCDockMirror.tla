---------------------------- MODULE MCDockMirror ----------------------------
(* One system, a tank of one jump, a record that is clean or a fugitive's,   *)
(* two messages under way when another is provoked.                          *)
EXTENDS DockMirror
CONSTANT lave
MCSystem == {lave}
=============================================================================
