------------------------------ MODULE MCInfomem ------------------------------
(* Two applications and two words, in a memory of four segments of four words. *)
EXTENDS Infomem

MCApps   == {1, 2}
MCValues == {<<1, 0>>, <<3, 1>>}
MCOther  == <<7, 7>>
MCRanges == {<<3, 10>>, <<6, 13>>, <<6, 12>>}
=============================================================================
