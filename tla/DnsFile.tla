------------------------------ MODULE DnsFile ------------------------------
(***************************************************************************)
(* dns.txt and whoever edits it: external to the proxies, which only stat  *)
(* and read it.  A text is named by the number of the edit that wrote it;  *)
(* an edit in place truncates the file and then writes it, and a read in   *)
(* between finds a torn text, any prefix of the new one.                   *)
(***************************************************************************)
EXTENDS Integers

CONSTANTS
    MaxEdits,   \* edits in one behaviour (bounds the model)
    InPlace,    \* TRUE: files are saved by truncating and writing them
    Atomic,     \* TRUE: files are saved by renaming a new one over them
    Outages     \* TRUE: the file can be removed or become unreadable

ASSUME FileAssumption ==
    /\ MaxEdits \in Nat
    /\ {InPlace, Atomic, Outages} \subseteq BOOLEAN

Torn == -1      \* the text of a file that is being written in place

VARIABLES
    text,       \* what a read of the file finds
    present,    \* the path exists
    readable,   \* and may be opened
    inode,      \* the inode the path leads to
    mtime,      \* its modification time
    now,        \* the clock of the file system
    saving,     \* an edit in place has truncated the file and not written it
    edits       \* edits begun

fileVars == <<text, present, readable, inode, mtime, now, saving, edits>>

FileTypeOK ==
    /\ text \in {Torn} \cup 0..MaxEdits
    /\ present \in BOOLEAN /\ readable \in BOOLEAN /\ saving \in BOOLEAN
    /\ inode \in Nat /\ mtime \in Nat /\ now \in Nat
    /\ edits \in 0..MaxEdits

FileInit ==
    /\ text = 0
    /\ present = TRUE /\ readable = TRUE
    /\ inode = 1 /\ mtime = 0 /\ now = 0
    /\ saving = FALSE /\ edits = 0

\* The mtime of a modification that happens now; several can fall in one tick.
Stamp == mtime' = now /\ UNCHANGED now

Edit == ~saving /\ edits < MaxEdits /\ edits' = edits + 1

Truncate ==
    /\ InPlace /\ present /\ Edit
    /\ saving' = TRUE /\ text' = Torn /\ Stamp
    /\ UNCHANGED <<present, readable, inode>>

Write ==
    /\ saving
    /\ saving' = FALSE /\ text' = edits /\ Stamp
    /\ UNCHANGED <<present, readable, inode, edits>>

\* rename(2) of a complete file, just written, over the path, which may not exist.
Rename ==
    /\ Atomic /\ Edit
    /\ text' = edits' /\ inode' = inode + 1 /\ Stamp
    /\ present' = TRUE /\ readable' = TRUE
    /\ UNCHANGED saving

Remove ==
    /\ Outages /\ present /\ Edit
    /\ present' = FALSE
    /\ UNCHANGED <<text, readable, inode, mtime, now, saving>>

\* chmod(2) does not touch the mtime.
Chmod ==
    /\ Outages /\ present /\ Edit
    /\ readable' = ~readable
    /\ UNCHANGED <<text, present, inode, mtime, now, saving>>

\* A tick.  Whether one or many pass between two modifications makes no difference.
Clock ==
    /\ now = mtime
    /\ now' = now + 1
    /\ UNCHANGED <<text, present, readable, inode, mtime, saving, edits>>

Editor == Truncate \/ Write \/ Rename \/ Remove \/ Chmod

ReadFails == ~present \/ ~readable

\* The file is there to be read, and no edit is under way.
Settled == ~ReadFails /\ ~saving

=============================================================================
