------------------------------ MODULE MCLineInput ------------------------------
(* Streams of up to four characters, of which one is the delimiter; a page of   *)
(* two bytes, so that a line of three is grown twice and one of five too long.  *)
EXTENDS LineInput

MCTexts == UNION {[1 .. n -> {97, 98, NEWLINE}] : n \in 0 .. 4} \cup {Block(6, 97), Block(5, 97) \o <<NEWLINE>>}
MCFirstBlocks == {<<>>, <<120, 120>>, <<120, 120, 120>>}
===============================================================================
