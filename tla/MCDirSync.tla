----------------------------- MODULE MCDirSync ------------------------------
(***************************************************************************)
(* Constants for model-checking DirSync.                                    *)
(***************************************************************************)
EXTENDS DirSync

TwoFiles == {1, 2}
OneFile  == {1}

\* Everything that may go wrong but an unreadable file, with which nothing is sent
\* back at all.
Readable == {"skip", "short", "unpack", "apply", "snapshot", "spawn", "pack", "vanish", "grow",
             "lose"}
Skips    == {"skip"}
Unpacks  == {"unpack", "lose"}
Applies  == {"apply"}
Ignored  == Silent \cup {"snapshot"}
=============================================================================
