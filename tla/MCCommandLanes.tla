--------------------------- MODULE MCCommandLanes ---------------------------
(***************************************************************************)
(* CommandLanes with the commands of one thread, which moves from e1 to    *)
(* e2, and of its first environment.                                       *)
(***************************************************************************)
EXTENDS CommandLanes, TLC

CONSTANTS t1, e1, e2, turn, moved, stop, archive, unarchive, read, write

KindOfCmd == [c \in Cmd |->
    CASE c \in {turn, moved} -> "turn"
      [] c = stop -> "stop"
      [] c = archive -> "archive"
      [] c = unarchive -> "unarchive"
      [] c = read -> "read"
      [] c = write -> "write"]

ThreadOfCmd == [c \in Cmd |-> t1]
EnvOfCmd == [c \in Cmd |-> IF c = moved THEN e2 ELSE e1]
=============================================================================
