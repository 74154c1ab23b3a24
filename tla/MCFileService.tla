---------------------------- MODULE MCFileService ----------------------------
(***************************************************************************)
(* FileService for TLC: a directory ./d with a file ./d/f.  Client c1 asks *)
(* for everything there is, client c2 for what changes what c1 did.        *)
(***************************************************************************)
EXTENDS FileService, TLC

CONSTANTS c1, c2

LOCAL Command(op, path, others, size, offset) ==
  [op |-> op, path |-> path, others |-> others, size |-> size, offset |-> offset]

D == <<"d">>
E == <<"d", "e">>
F == <<"d", "f">>

Create(others) == Command("DC", D, others, 0, 0)
CreateInside == Command("DC", E, "W", 0, 0)
RemoveDir == Command("DR", D, "W", 0, 0)
Write(offset) == Command("WR", F, "R", 1, offset)
Delete == Command("WR", F, "R", 0, 0)
Read == Command("RD", F, "W", 1, 0)
Info == Command("FI", F, "W", 0, 0)
List == Command("DL", D, "W", 0, 0)
Nonsense == Command("??", D, "W", 0, 0)

MCCommands == {Create("R"), Create("W"), CreateInside, RemoveDir, Write(0), Write(1), Delete, Read, Info, List, Nonsense}

MCClients == {c1, c2}
MCInput == (c1 :> {Create("R"), CreateInside, RemoveDir, Write(1), Delete})
        @@ (c2 :> {Create("W"), RemoveDir, Write(0), Read, Info, List, Nonsense})
==============================================================================
