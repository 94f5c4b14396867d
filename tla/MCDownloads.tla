---------------------------- MODULE MCDownloads ----------------------------
\* Two downloads, of one name, into either of two directories.
EXTENDS Downloads

CONSTANTS d1, d2, home, other, doc

MCSubDirs == [d \in Dirs |-> {d}]
MCPicks == {[dir |-> other, name |-> doc, copy |-> 0]}
MCPresent == {[dir |-> home, name |-> doc, copy |-> 0]}
MCIdOrder == <<d1, d2>>
=============================================================================
