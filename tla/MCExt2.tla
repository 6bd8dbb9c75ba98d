------------------------------- MODULE MCExt2 -------------------------------
(* Instances of Ext2 for TLC: a name that starts with another one.          *)
EXTENDS Ext2

MCPrefixesOf == [n \in Name |-> IF n = "file" THEN {"f", "file"} ELSE {n}]
=============================================================================
