-------------------------- MODULE MCServerSessions --------------------------
(* Small instances of ServerSessions; 1 is the word Bob, 0 is Commander,   *)
(* so <<0, 1>> is what the nameless commander of index 1 is called.        *)
EXTENDS ServerSessions, TLC

CONSTANTS e1, e2

TwoEndpoints == {e1, e2}
BlankOrBob == {<<>>, <<1>>}
BlankOrDefault == {<<>>, <<0, 1>>}
=============================================================================
