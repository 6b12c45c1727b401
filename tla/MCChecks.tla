------------------------------ MODULE MCChecks -----------------------------
(***************************************************************************)
(* A small instance of Checks.  The words are those of the answers, in     *)
(* some order: two mount points, two file systems of which one is real,    *)
(* the keys of the memory, two numbers and a word that is none.  The texts *)
(* are all sequences of a few lines of each kind, some too short, and a    *)
(* mount point that has a space in it, and so one word too many.           *)
(***************************************************************************)
EXTENDS Checks, TLC

Root == 1
Home == 2
Small == 3
Large == 4
Dash == 5
Ext4 == 6
Tmpfs == 7
Total == 8
Available == 9
Free == 10

TwoNumbers == (Small :> 4) @@ (Large :> 7)

SomeLines(L, n) == UNION {[1 .. k -> L] : k \in 1 .. n}

MemLines ==
    {<<key, val>> : key \in {Total, Available, Free}, val \in {Small, Large, Dash}} \cup {<<Total>>}
DfLines ==
    {<<mount, fs, pct>> : mount \in {Root, Home}, fs \in {Ext4, Tmpfs}, pct \in {Small, Dash}}
        \cup {<<>>, <<Home, Root, Ext4, Large>>, <<Root, Ext4, Large>>}
NumberLines == {<<>>, <<Small>>, <<Small, Large, Small, Dash>>, <<Large, Dash, Small>>}

SmallAnswers ==
    [n \in {"uptime", "load", "memory", "disk"} |->
        CASE n = "memory" -> SomeLines(MemLines, 4)
          [] n = "disk" -> {<<<<Dash>>>> \o t : t \in SomeLines(DfLines, 4)} \cup {<<<<>>>>}
          [] OTHER -> {<<l>> : l \in NumberLines}]

============================================================================
