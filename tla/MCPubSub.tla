------------------------------ MODULE MCPubSub ------------------------------
(* One channel, two patterns that match it.                                 *)
EXTENDS PubSub

CONSTANTS news, newsStar, star, f1, f2

MCMatches == {<<newsStar, news>>, <<star, news>>}
============================================================================
