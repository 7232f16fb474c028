------------------------------- MODULE MCQuery -------------------------------
(* Query for TLC: the firmwares the code tells apart, with either journal.  *)
EXTENDS Query

MCDevices ==
    [fwVersion : {42, 56}, is_tolino : {FALSE}, wal : BOOLEAN]
    \cup [fwVersion : {42, 50, 56}, is_tolino : {TRUE}, wal : BOOLEAN]
=============================================================================
