------------------------------- MODULE Checks ------------------------------
(***************************************************************************)
(* The parsers of what a host answers to the SSH checks                    *)
(* (internal/monitor/checks.go): one call of one of them, which walks over *)
(* the lines of the answer, skips what it does not know, stops early,      *)
(* falls back, fails or sorts what it found.                               *)
(*                                                                         *)
(* Abstracted: a text is the sequence of its lines, a line the sequence of *)
(* its words.  A word is a number, its place in the order of strings; what *)
(* strconv makes of it, without the colon or the percent sign that is      *)
(* trimmed off, is given by Number.                                        *)
(***************************************************************************)
EXTENDS Integers, Sequences, FiniteSets, Functions

CONSTANTS
    Words,                          \* what a line may consist of, in its order
    MemTotal, MemAvailable, MemFree,    \* the words that parseMemInfo looks for
    RealFS,                         \* the words that are keys of realFSTypes
    Number,                         \* the value of every word that Atoi accepts
    Floats,                         \* the words that ParseFloat accepts
    Answers                         \* the texts that a host may answer to each check

CheckNames == {"uptime", "load", "memory", "disk"}
Text == Seq(Seq(Words))

ASSUME WordsAssumption ==
    /\ Words \subseteq Nat /\ RealFS \subseteq Words /\ Floats \subseteq Words
    /\ \E W \in SUBSET Words : Number \in [W -> Int]
ASSUME KeysAssumption ==
    /\ MemTotal \in Words /\ MemAvailable \in Words /\ MemFree \in Words
    /\ MemTotal # MemAvailable
\* Split returns at least one line; /proc/uptime and /proc/loadavg have just one.
ASSUME AnswersAssumption ==
    /\ Answers \in [CheckNames -> SUBSET Text]
    /\ \A n \in CheckNames : \A t \in Answers[n] : Len(t) >= 1

VARIABLES
    check,  \* which parser it is ...
    text,   \* ... and what it parses
    pc,     \* the loop it is in, or how it ended
    at,     \* the index of the outer loop, over lines or, when sorting, disks
    hole,   \* the index of the inner loop of the sort
    mem,    \* what was seen of the memory: sets of at most one
    disks,  \* the disks found
    read    \* the numbers of an uptime or a load

vars == <<check, text, pc, at, hole, mem, disks, read>>

Disk == [mount : Words, fstype : RealFS, pct : Int]

TypeOK ==
    /\ check \in CheckNames /\ text \in Text /\ Len(text) >= 1
    /\ pc \in {"scan", "free", "sort", "done", "failed"}
    /\ at \in Nat \ {0} /\ hole \in Nat \ {0}
    /\ mem \in [total : SUBSET Int, avail : SUBSET Int]
    /\ disks \in Seq(Disk)
    /\ read \in Seq(Floats)

Init ==
    /\ check \in CheckNames
    /\ text \in Answers[check]
    /\ pc = "scan" /\ at = 1 /\ hole = 1
    /\ mem = [total |-> {}, avail |-> {}]
    /\ disks = <<>> /\ read = <<>>

----------------------------------------------------------------------------
(* parseUptime and parseLoad: the first fields must be numbers.            *)

Needed(n) == IF n = "uptime" THEN 1 ELSE 3
Readable(n, line) ==
    Len(line) >= Needed(n) /\ \A k \in 1 .. Needed(n) : line[k] \in Floats

ParseNumbers ==
    /\ pc = "scan" /\ check \in {"uptime", "load"}
    /\ IF Readable(check, text[1])
       THEN pc' = "done" /\ read' = SubSeq(text[1], 1, Needed(check))
       ELSE pc' = "failed" /\ UNCHANGED read
    /\ UNCHANGED <<check, text, at, hole, mem, disks>>

----------------------------------------------------------------------------
(* parseMemInfo                                                            *)

Numeric(w) == w \in DOMAIN Number

\* A line that counts: a key and a number.
Says(line, key) == Len(line) >= 2 /\ Numeric(line[2]) /\ line[1] = key

\* Mutant: MemFree is taken for what is available, wherever it is.
TakeFree(m, line) ==
    IF Says(line, MemTotal) THEN [m EXCEPT !.total = {Number[line[2]]}]
    ELSE IF Says(line, MemAvailable) \/ Says(line, MemFree)
    THEN [m EXCEPT !.avail = {Number[line[2]]}]
    ELSE m

\* What is known after a line: its value replaces an earlier one.
Take(m, line) ==
    IF Says(line, MemTotal) THEN [m EXCEPT !.total = {Number[line[2]]}]
    ELSE IF Says(line, MemAvailable) THEN [m EXCEPT !.avail = {Number[line[2]]}]
    ELSE m

\* The first loop ends as soon as both were seen.
ScanMem ==
    /\ pc = "scan" /\ check = "memory" /\ at <= Len(text)
    /\ mem' = Take(mem, text[at])
    /\ pc' = IF mem'.total # {} /\ mem'.avail # {} THEN "done" ELSE "scan"
    /\ at' = at + 1
    /\ UNCHANGED <<check, text, hole, disks, read>>

\* Mutant: there is no second loop.
EndScanMemForGood ==
    /\ pc = "scan" /\ check = "memory" /\ at > Len(text)
    /\ pc' = "failed"
    /\ UNCHANGED <<check, text, at, hole, mem, disks, read>>

\* Without MemAvailable a second loop looks for MemFree.
EndScanMem ==
    /\ pc = "scan" /\ check = "memory" /\ at > Len(text)
    /\ pc' = IF mem.total = {} THEN "failed" ELSE "free"
    /\ at' = 1
    /\ UNCHANGED <<check, text, hole, mem, disks, read>>

IsFree(line) == Len(line) >= 2 /\ line[1] = MemFree

\* It ends with the first such line, whatever it says.
SearchFree ==
    /\ pc = "free" /\ at <= Len(text)
    /\ LET line == text[at]
       IN  IF IsFree(line)
           THEN IF Numeric(line[2])
                THEN pc' = "done" /\ mem' = [mem EXCEPT !.avail = {Number[line[2]]}]
                ELSE pc' = "failed" /\ UNCHANGED mem
           ELSE UNCHANGED <<pc, mem>>
    /\ at' = at + 1
    /\ UNCHANGED <<check, text, hole, disks, read>>

EndSearchFree ==
    /\ pc = "free" /\ at > Len(text)
    /\ pc' = "failed"
    /\ UNCHANGED <<check, text, at, hole, mem, disks, read>>

\* Mutant: what is available is taken to be less than the total.
UsedUnclamped(total, avail) == IF total > 0 THEN ((total - avail) * 100) \div total ELSE 0

\* The share of the memory that is in use, as toAPIHost and formatMemory show it.
UsedPercent(total, avail) ==
    LET used == IF total - avail > 0 THEN total - avail ELSE 0
    IN  IF total > 0 THEN (used * 100) \div total ELSE 0

----------------------------------------------------------------------------
(* parseDfOutput                                                           *)

\* A line that counts, after the header.
OfDisk(i, line) == i > 1 /\ Len(line) >= 3 /\ line[2] \in RealFS
DiskOf(line) == [mount |-> line[1], fstype |-> line[2], pct |-> Number[line[3]]]

ScanDisk ==
    /\ pc = "scan" /\ check = "disk" /\ at <= Len(text)
    /\ LET line == text[at]
       IN  IF ~OfDisk(at, line) THEN UNCHANGED <<pc, disks>>
           ELSE IF Numeric(line[3])
           THEN disks' = Append(disks, DiskOf(line)) /\ UNCHANGED pc
           ELSE pc' = "failed" /\ UNCHANGED disks
    /\ at' = at + 1
    /\ UNCHANGED <<check, text, hole, mem, read>>

EndScanDisk ==
    /\ pc = "scan" /\ check = "disk" /\ at > Len(text)
    /\ pc' = "sort" /\ at' = 2 /\ hole' = 2
    /\ UNCHANGED <<check, text, mem, disks, read>>

\* Mutant: the first disk is left where it is.
UnorderedAfterFirst == hole > 2 /\ disks[hole - 1].mount > disks[hole].mount

\* Insertion sort: the disk at `hole` moves down while the one below it is greater.
Unordered == hole > 1 /\ disks[hole - 1].mount > disks[hole].mount

Swap(q, n) == [q EXCEPT ![n - 1] = q[n], ![n] = q[n - 1]]

Sift ==
    /\ pc = "sort" /\ at <= Len(disks) /\ Unordered
    /\ disks' = Swap(disks, hole)
    /\ hole' = hole - 1
    /\ UNCHANGED <<check, text, pc, at, mem, read>>

NextDisk ==
    /\ pc = "sort" /\ at <= Len(disks) /\ ~Unordered
    /\ at' = at + 1 /\ hole' = at + 1
    /\ UNCHANGED <<check, text, pc, mem, disks, read>>

EndSort ==
    /\ pc = "sort" /\ at > Len(disks)
    /\ pc' = "done"
    /\ UNCHANGED <<check, text, at, hole, mem, disks, read>>

----------------------------------------------------------------------------
Next ==
    \/ ParseNumbers
    \/ ScanMem \/ EndScanMem \/ SearchFree \/ EndSearchFree
    \/ ScanDisk \/ EndScanDisk \/ Sift \/ NextDisk \/ EndSort

Spec == Init /\ [][Next]_vars

----------------------------------------------------------------------------
(* Properties: the loops against what they are to compute.                 *)

TotalLines == {i \in DOMAIN text : Says(text[i], MemTotal)}
AvailableLines == {i \in DOMAIN text : Says(text[i], MemAvailable)}
FreeLines == {i \in DOMAIN text : IsFree(text[i])}
DiskLines == {i \in DOMAIN text : OfDisk(i, text[i])}

\* The first line of MemFree, as a set of at most one.
FirstFree == {i \in FreeLines : \A k \in FreeLines : i <= k}

Value(i) == Number[text[i][2]]

\* An answer that has no result.
Unreadable ==
    \/ check \in {"uptime", "load"} /\ ~Readable(check, text[1])
    \/ /\ check = "memory"
       /\ \/ TotalLines = {}
          \/ AvailableLines = {} /\ ~\E i \in FirstFree : Numeric(text[i][2])
    \/ check = "disk" /\ \E i \in DiskLines : ~Numeric(text[i][3])

\* A check fails just when its answer is unreadable: no line that a parser skips, ends
\* at or has passed makes the others unreadable (checks.go 27-34, 37-62, 70-117,
\* 129-153).
FailsWhenUnreadable ==
    (pc = "failed" => Unreadable) /\ (pc = "done" => ~Unreadable)

\* The memory is what the lines say: the total of a line of MemTotal, and what is
\* available of a line of MemAvailable, or, when there is none, of the first of
\* MemFree, wherever they are in the text (checks.go 70-117).
MemCorrect ==
    check = "memory" /\ pc = "done" =>
        LET from == IF AvailableLines # {} THEN AvailableLines ELSE FirstFree
        IN  /\ \E i \in TotalLines : mem.total = {Value(i)}
            /\ \E i \in from : mem.avail = {Value(i)}

\* No answer makes a card or an API client show a share of the memory below 0 or
\* above 100, as long as its numbers are not negative (api.go 161-170).
PercentSane ==
    pc = "done" => \A t \in mem.total, a \in mem.avail : a >= 0 => UsedPercent(t, a) \in 0 .. 100

\* The disks are those of the lines with a file system of interest, each once, in the
\* order of their mount points (checks.go 129-160).
DisksCorrect ==
    check = "disk" /\ pc = "done" =>
        /\ Range(disks) = {DiskOf(text[i]) : i \in DiskLines}
        /\ Len(disks) = Cardinality(DiskLines)
        /\ \A i, k \in DOMAIN disks : i < k => disks[i].mount <= disks[k].mount

----------------------------------------------------------------------------
(* The inductive invariant.                                                *)

\* What the first loop knows of a key: nothing, and no line it has passed says it, or
\* the value of a line.
Known(seen, lines) ==
    \/ seen = {} /\ \A i \in lines : i >= at
    \/ \E i \in lines : seen = {Value(i)}

MemInv ==
    /\ pc = "free" => check = "memory"
    /\ check = "memory" => pc # "sort"
    /\ check = "memory" /\ pc = "scan" =>
           /\ Known(mem.total, TotalLines) /\ Known(mem.avail, AvailableLines)
           /\ mem.total = {} \/ mem.avail = {}
    /\ pc = "free" =>
           /\ \E i \in TotalLines : mem.total = {Value(i)}
           /\ AvailableLines = {} /\ \A i \in FreeLines : i >= at

\* The lines of disks before the n-th.
DisksBefore(n) == {i \in DiskLines : i < n}

\* The disks before `at`, but for the one that is moved, are in order, and those it
\* has passed come after it.
Sifting ==
    /\ hole <= at /\ (hole < at => at <= Len(disks))
    /\ \A i, k \in DOMAIN disks :
           /\ i < k /\ k <= at /\ i # hole /\ k # hole => disks[i].mount <= disks[k].mount
           /\ i = hole /\ i < k /\ k <= at => disks[i].mount <= disks[k].mount

DiskInv ==
    /\ pc = "sort" => check = "disk" /\ Sifting
    /\ check = "disk" /\ pc = "scan" =>
           /\ Range(disks) = {DiskOf(text[i]) : i \in DisksBefore(at)}
           /\ Len(disks) = Cardinality(DisksBefore(at))
           /\ \A i \in DisksBefore(at) : Numeric(text[i][3])
    /\ check = "disk" /\ pc \in {"sort", "done"} =>
           /\ Range(disks) = {DiskOf(text[i]) : i \in DiskLines}
           /\ Len(disks) = Cardinality(DiskLines)
           /\ \A i \in DiskLines : Numeric(text[i][3])

ChecksInv ==
    TypeOK /\ FailsWhenUnreadable /\ MemCorrect /\ DisksCorrect /\ MemInv /\ DiskInv

============================================================================
