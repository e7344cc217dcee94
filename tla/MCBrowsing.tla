---------------------------- MODULE MCBrowsing ------------------------------
(* An instance of Browsing for TLC: three keys in two prefixes, the middle *)
(* one without a NeXus suffix, that the store enumerates backwards.        *)
EXTENDS Browsing, MCFieldPage

EnumeratedKeys == <<3, 2, 1>>
NexusFiles == {1, 3}
KeysUnder == [all |-> {1, 2, 3}, some |-> {1, 2}]
=============================================================================
