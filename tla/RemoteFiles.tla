---------------------------- MODULE RemoteFiles ----------------------------
(***************************************************************************)
(* The file operations (internal/sshclient/sftp.go) as sequences of SFTP   *)
(* requests, for calls that work on one remote file at the same time.      *)
(*                                                                         *)
(* Each request is a step: it is carried out, or refused, or its answer is *)
(* lost with the connection.  A file is an inode, because removing and     *)
(* renaming leave open handles on the old one.  The text of a file is a    *)
(* sequence of blocks, written and read one at a time, and a block is      *)
(* known by the calls whose changes it contains.                           *)
(***************************************************************************)
EXTENDS Naturals, Sequences, FiniteSets

CONSTANTS
    Calls,      \* the tool calls of a behaviour, each runs once
    Target,     \* the path they work on
    KindsOf,    \* the kinds of operation each call may be
    Dropped     \* bound: how many blocks a server can fail to store

(* replace_file_content; write_file and upload_file with overwrite, and
   without it (New); view_file and download_file.                          *)
Kinds == {"replace", "write", "writeNew", "upload", "uploadNew", "read"}

Hole == {"hole"}     \* never written, before a block that was

ASSUME FilesAssumption == /\ IsFiniteSet(Calls)
                          /\ Target \notin Calls /\ Calls \cap Hole = {}
                          /\ KindsOf \in [Calls -> SUBSET Kinds]
                          /\ Dropped \subseteq Nat /\ 0 \in Dropped

VARIABLES
    parent,      \* does the directory of Target exist?
    link,        \* the directory entries: from paths to inodes, 0 for none
    data,        \* the text of each inode
    made,        \* number of inodes made so far
    kind,        \* the operation of each call
    pc,          \* where the call is
    up,          \* is the connection of its SFTP handle up?
    fd,          \* the inode it has open
    text,        \* what it has read so far, then what it is to write
    pos,         \* number of blocks it has written
    overlapped,  \* writing calls that ran while another one did
    inPlace,     \* calls that opened Target for writing
    unsaved      \* calls that lost, at a CLOSE, blocks written without an error

files == <<parent, link, data, made>>
locals == <<kind, up, fd, text, pos>>
history == <<overlapped, inPlace, unsaved>>
vars == <<files, pc, locals, history>>

(* A replacement writes to a file of its own, whose name has the time in it. *)
Temp(c) == c
Paths == Calls \cup {Target}
Inodes == 1 .. 2 * Cardinality(Calls) + 1
Blocks == 2
Versions == SUBSET (Calls \cup Hole)
Texts == UNION {[1 .. n -> Versions] : n \in 0 .. Blocks}

Pcs == {"start", "stat", "mkStat", "mkdir", "mkVerify", "openRead", "read",
        "createTemp", "writeTemp", "closeTemp", "discard", "remove", "rename",
        "openWrite", "write", "removeTemp", "close", "done", "failed"}

TypeOK ==
    /\ parent \in BOOLEAN
    /\ link \in [Paths -> Inodes \cup {0}]
    /\ data \in [Inodes -> Texts]
    /\ made \in Inodes \cup {0}
    /\ kind \in [Calls -> Kinds]
    /\ pc \in [Calls -> Pcs]
    /\ up \in [Calls -> BOOLEAN]
    /\ fd \in [Calls -> Inodes \cup {0}]
    /\ text \in [Calls -> Texts]
    /\ pos \in [Calls -> 0 .. Blocks]
    /\ {overlapped, inPlace, unsaved} \subseteq SUBSET Calls

Init ==
    /\ \E there \in BOOLEAN :
          /\ made = IF there THEN 1 ELSE 0
          /\ link = [p \in Paths |-> IF p = Target THEN made ELSE 0]
          /\ parent \in IF there THEN {TRUE} ELSE BOOLEAN
          /\ data = [i \in Inodes |-> IF i <= made THEN <<{}, {}>> ELSE <<>>]
    /\ kind \in [Calls -> Kinds] /\ \A c \in Calls : kind[c] \in KindsOf[c]
    /\ pc = [c \in Calls |-> "start"]
    /\ up = [c \in Calls |-> TRUE]
    /\ fd = [c \in Calls |-> 0]
    /\ text = [c \in Calls |-> <<>>]
    /\ pos = [c \in Calls |-> 0]
    /\ overlapped = {} /\ inPlace = {} /\ unsaved = {}

-----------------------------------------------------------------------------
Goto(c, l) == pc' = [pc EXCEPT ![c] = l]
At(c, l) == pc[c] = l
Sent(c, l) == At(c, l) /\ up[c]     \* a request that the server receives

Text(p) == IF link[p] = 0 THEN <<>> ELSE data[link[p]]

(* Mutant: the file is written with O_APPEND.                              *)
WriteAtEnd(s, i, b) == Append(s, b)

(* The text with block i overwritten.                                      *)
WriteAt(s, i, b) ==
    [j \in 1 .. (IF i > Len(s) THEN i ELSE Len(s)) |->
        IF j = i THEN b ELSE IF j <= Len(s) THEN s[j] ELSE Hole]

(* The text that a replacement makes of what it has read.                  *)
Edited(c) == [i \in DOMAIN text[c] |-> text[c][i] \cup {c}]

Active(c) == kind[c] # "read" /\ pc[c] \notin {"start", "done", "failed"}

-----------------------------------------------------------------------------
(* SFTP() gives the call a handle.                                         *)
Start(c) ==
    /\ At(c, "start")
    /\ LET others == {d \in Calls : Active(d)} IN
       overlapped' = IF kind[c] = "read" \/ others = {} THEN overlapped
                     ELSE overlapped \cup others \cup {c}
    /\ Goto(c, CASE kind[c] \in {"replace", "read"} -> "openRead"
                 [] kind[c] = "writeNew" -> "stat"
                 [] OTHER -> "mkStat")
    /\ text' = [text EXCEPT ![c] = IF kind[c] \in {"replace", "read"} THEN <<>>
                                   ELSE [i \in 1 .. Blocks |-> {c}]]
    /\ UNCHANGED <<files, kind, up, fd, pos, inPlace, unsaved>>

-----------------------------------------------------------------------------
(* Reading.                                                                *)
OpenRead(c) ==
    /\ Sent(c, "openRead") /\ link[Target] # 0
    /\ fd' = [fd EXCEPT ![c] = link[Target]]
    /\ Goto(c, "read")
    /\ UNCHANGED <<files, kind, up, text, pos, history>>

ReadBlock(c) ==
    /\ Sent(c, "read")
    /\ Len(text[c]) < Len(data[fd[c]])
    /\ text' = [text EXCEPT ![c] = Append(@, data[fd[c]][Len(@) + 1])]
    /\ UNCHANGED <<files, pc, kind, up, fd, pos, history>>

ReadEnds(c) ==
    /\ Sent(c, "read")
    /\ Len(text[c]) >= Len(data[fd[c]])
    /\ \/ kind[c] = "read" /\ Goto(c, "done") /\ UNCHANGED text
       \/ /\ kind[c] = "replace" /\ text[c] # <<>>
          /\ Goto(c, "createTemp")
          /\ text' = [text EXCEPT ![c] = Edited(c)]
    /\ UNCHANGED <<files, kind, up, fd, pos, history>>

(* No file, a read error, or a text without the block to be replaced.      *)
ReadFails(c) ==
    /\ pc[c] \in {"openRead", "read"}
    /\ Goto(c, "failed")
    /\ UNCHANGED <<files, locals, history>>

-----------------------------------------------------------------------------
(* Mutant: the new text is written to the file itself.                     *)
CreateTempInPlace(c) ==
    /\ Sent(c, "createTemp") /\ link[Target] # 0
    /\ data' = [data EXCEPT ![link[Target]] = <<>>]
    /\ fd' = [fd EXCEPT ![c] = link[Target]]
    /\ pos' = [pos EXCEPT ![c] = 0]
    /\ Goto(c, "writeTemp")
    /\ UNCHANGED <<parent, link, made, kind, up, text, history>>

(* ReplaceFileContent, once it has the new text.                           *)
CreateTemp(c) ==
    /\ Sent(c, "createTemp")
    /\ made' = made + 1
    /\ link' = [link EXCEPT ![Temp(c)] = made']
    /\ fd' = [fd EXCEPT ![c] = made']
    /\ pos' = [pos EXCEPT ![c] = 0]
    /\ Goto(c, "writeTemp")
    /\ UNCHANGED <<parent, data, kind, up, text, history>>

CreateTempFails(c) ==
    /\ At(c, "createTemp")
    /\ Goto(c, "failed")
    /\ UNCHANGED <<files, locals, history>>

WriteBlock(c) ==
    /\ Sent(c, "writeTemp") \/ Sent(c, "write")
    /\ pos[c] < Len(text[c])
    /\ pos' = [pos EXCEPT ![c] = @ + 1]
    /\ data' = [data EXCEPT ![fd[c]] = WriteAt(@, pos'[c], text[c][pos'[c]])]
    /\ UNCHANGED <<parent, link, made, pc, kind, up, fd, text, history>>

AllWritten(c) == pos[c] = Len(text[c])

(* The temporary file is closed at once, a file written in place when the
   call returns, and so after the temporary file is removed.               *)
Written(c) ==
    /\ pc[c] \in {"writeTemp", "write"}
    /\ AllWritten(c)
    /\ Goto(c, CASE At(c, "writeTemp") -> "closeTemp"
                 [] At(c, "write") /\ kind[c] = "replace" -> "removeTemp"
                 [] OTHER -> "close")
    /\ UNCHANGED <<files, locals, history>>

WriteFails(c) ==
    /\ pc[c] \in {"writeTemp", "write"}
    /\ ~ AllWritten(c)
    /\ Goto(c, IF At(c, "writeTemp") THEN "closeTemp" ELSE "close")
    /\ UNCHANGED <<files, locals, history>>

(* What a server leaves of the blocks it has acknowledged but not stored when
   the quota, the disk or its own server fails it: the first of them.      *)
StoredOf(s) == {SubSeq(s, 1, n) : n \in {k \in 0 .. Len(s) : Len(s) - k \in Dropped}}

(* Mutant: the outcome of CLOSE takes the place of the error of the write. *)
CloseForgettingError(c) ==
    /\ pc[c] \in {"closeTemp", "close"}
    /\ \E s \in StoredOf(data[fd[c]]) :
          /\ data' = [data EXCEPT ![fd[c]] = s]
          /\ unsaved' = IF s # data[fd[c]] THEN unsaved \cup {c} ELSE unsaved
    /\ Goto(c, IF At(c, "closeTemp") THEN "remove" ELSE "done")
    /\ UNCHANGED <<parent, link, made, locals, overlapped, inPlace>>

(* CLOSE, answered or not.  By its error a server tells of blocks it could not
   store; the error is ignored here and in the deferred calls, and only an
   error of a write makes the call fail.                                   *)
Close(c) ==
    /\ pc[c] \in {"closeTemp", "close"}
    /\ \E s \in StoredOf(data[fd[c]]) :
          /\ data' = [data EXCEPT ![fd[c]] = s]
          /\ unsaved' = IF AllWritten(c) /\ s # data[fd[c]] THEN unsaved \cup {c}
                        ELSE unsaved
    /\ Goto(c, CASE At(c, "closeTemp") -> IF AllWritten(c) THEN "remove" ELSE "discard"
                 [] At(c, "close") -> IF AllWritten(c) THEN "done" ELSE "failed")
    /\ UNCHANGED <<parent, link, made, locals, overlapped, inPlace>>

(* The outcome of removing a file is always ignored.                       *)
RemoveFile(c, p) ==
    \/ up[c] /\ link' = [link EXCEPT ![p] = 0]
    \/ UNCHANGED link

Discard(c) ==
    /\ At(c, "discard")
    /\ RemoveFile(c, Temp(c))
    /\ Goto(c, "failed")
    /\ UNCHANGED <<parent, data, made, locals, history>>

RemoveOriginal(c) ==
    /\ At(c, "remove")
    /\ RemoveFile(c, Target)
    /\ Goto(c, "rename")
    /\ UNCHANGED <<parent, data, made, locals, history>>

(* An SFTP rename does not replace a file.  Its answer may be lost.        *)
Rename(c) ==
    /\ Sent(c, "rename") /\ link[Target] = 0
    /\ link' = [link EXCEPT ![Target] = link[Temp(c)], ![Temp(c)] = 0]
    /\ \/ Goto(c, "done") /\ UNCHANGED up
       \/ Goto(c, "openWrite") /\ up' = [up EXCEPT ![c] = FALSE]
    /\ UNCHANGED <<parent, data, made, kind, fd, text, pos, history>>

(* Mutant: the temporary file is removed before the direct write.          *)
RenameFailsDiscarding(c) ==
    /\ At(c, "rename")
    /\ RemoveFile(c, Temp(c))
    /\ Goto(c, "openWrite")
    /\ UNCHANGED <<parent, data, made, locals, history>>

(* The fallback is a direct write.                                         *)
RenameFails(c) ==
    /\ At(c, "rename")
    /\ Goto(c, "openWrite")
    /\ UNCHANGED <<files, locals, history>>

RemoveTemp(c) ==
    /\ At(c, "removeTemp")
    /\ RemoveFile(c, Temp(c))
    /\ Goto(c, "close")
    /\ UNCHANGED <<parent, data, made, locals, history>>

-----------------------------------------------------------------------------
(* WriteFile without overwrite looks whether the file is there; an error of
   any kind counts as an answer that it is not.                            *)
Stat(c) ==
    /\ At(c, "stat")
    /\ \/ up[c] /\ link[Target] # 0 /\ Goto(c, "failed")
       \/ Goto(c, "mkStat")
    /\ UNCHANGED <<files, locals, history>>

(* mkdirAll takes an SFTP handle of its own, which it may not get.         *)
MkStat(c) ==
    /\ At(c, "mkStat")
    /\ \/ parent /\ Goto(c, "openWrite")
       \/ \E l \in {"mkdir", "failed"} : Goto(c, l)
    /\ UNCHANGED <<files, locals, history>>

Mkdir(c) ==
    /\ At(c, "mkdir")
    /\ \/ ~parent /\ parent' = TRUE /\ Goto(c, "openWrite")
       \/ UNCHANGED parent /\ Goto(c, "mkVerify")
    /\ UNCHANGED <<link, data, made, locals, history>>

MkVerify(c) ==
    /\ At(c, "mkVerify")
    /\ \/ parent /\ Goto(c, "openWrite")
       \/ Goto(c, "failed")
    /\ UNCHANGED <<files, locals, history>>

(* Mutant: an upload without overwrite is opened like any other.           *)
OpenTruncatedAnyKind(c) ==
    /\ Sent(c, "openWrite") /\ link[Target] # 0
    /\ data' = [data EXCEPT ![link[Target]] = <<>>]
    /\ fd' = [fd EXCEPT ![c] = link[Target]]
    /\ pos' = [pos EXCEPT ![c] = 0]
    /\ inPlace' = inPlace \cup {c}
    /\ Goto(c, "write")
    /\ UNCHANGED <<parent, link, made, kind, up, text, overlapped, unsaved>>

(* Opening for writing: O_TRUNC, or O_EXCL for an upload without overwrite. *)
OpenTruncated(c) ==
    /\ Sent(c, "openWrite") /\ link[Target] # 0
    /\ kind[c] # "uploadNew"
    /\ data' = [data EXCEPT ![link[Target]] = <<>>]
    /\ fd' = [fd EXCEPT ![c] = link[Target]]
    /\ pos' = [pos EXCEPT ![c] = 0]
    /\ inPlace' = inPlace \cup {c}
    /\ Goto(c, "write")
    /\ UNCHANGED <<parent, link, made, kind, up, text, overlapped, unsaved>>

OpenCreated(c) ==
    /\ Sent(c, "openWrite") /\ link[Target] = 0
    /\ made' = made + 1
    /\ link' = [link EXCEPT ![Target] = made']
    /\ fd' = [fd EXCEPT ![c] = made']
    /\ pos' = [pos EXCEPT ![c] = 0]
    /\ inPlace' = inPlace \cup {c}
    /\ Goto(c, "write")
    /\ UNCHANGED <<parent, data, kind, up, text, overlapped, unsaved>>

OpenWriteFails(c) ==
    /\ At(c, "openWrite")
    /\ Goto(c, "failed")
    /\ UNCHANGED <<files, locals, history>>

-----------------------------------------------------------------------------
(* The connection that the running calls have their handles from is lost;
   a call that starts later reconnects.                                    *)
ConnectionLost ==
    /\ \E c \in Calls : pc[c] \notin {"start", "done", "failed"} /\ up[c]
    /\ up' = [c \in Calls |-> up[c] /\ pc[c] = "start"]
    /\ UNCHANGED <<files, pc, kind, fd, text, pos, history>>

-----------------------------------------------------------------------------
Read(c) == OpenRead(c) \/ ReadBlock(c) \/ ReadEnds(c) \/ ReadFails(c)

Replace(c) == CreateTemp(c) \/ CreateTempFails(c) \/ Discard(c) \/ RemoveOriginal(c)
              \/ Rename(c) \/ RenameFails(c) \/ RemoveTemp(c)

Write(c) == Stat(c) \/ MkStat(c) \/ Mkdir(c) \/ MkVerify(c) \/ OpenTruncated(c)
            \/ OpenCreated(c) \/ OpenWriteFails(c) \/ WriteBlock(c) \/ Written(c)
            \/ WriteFails(c) \/ Close(c)

Next == (\E c \in Calls : Start(c) \/ Read(c) \/ Replace(c) \/ Write(c))
        \/ ConnectionLost

Spec == Init /\ [][Next]_vars

-----------------------------------------------------------------------------
(* Properties.                                                             *)

Whole(s) == Len(s) = Blocks /\ s[1] = s[2] /\ s[1] \cap Hole = {}

Only(K) == \A c \in Calls : kind[c] \in K

(* While replacements, one after the other, are all that changes the file, a
   whole text, old or new, is in some file of the directory, whichever
   requests are refused and whenever the connection is lost; only a server
   that drops, at a CLOSE, blocks it has acknowledged can lose it.         *)
TextNeverLost ==
    Only({"replace", "read"}) /\ made > 0 /\ overlapped = {} /\ unsaved = {} =>
        \E p \in Paths : Whole(Text(p))

(* A call that has read the file without an error has read one whole text,
   as long as no call has written the file in place and no server has dropped
   blocks at a CLOSE.                                                      *)
ReadsWholeText ==
    inPlace = {} /\ unsaved = {} =>
        \A c \in Calls : pc[c] = "done" /\ kind[c] = "read" => Whole(text[c])

(* A writing call that no other one overlaps reports success only when the
   file holds exactly the text that the call meant it to hold, or when blocks
   whose writing was acknowledged were dropped at its CLOSE.               *)
SuccessMeansWritten ==
    [][\A c \in Calls : pc[c] # "done" /\ pc'[c] = "done" /\ kind[c] # "read"
                          /\ c \notin overlapped \cup unsaved'
                          => Text(Target)' = text[c]]_vars

(* Of the uploads that must not overwrite the file, at most one reports
   success, whatever else is written to it and as long as nobody removes it. *)
NewFileOnce ==
    Only(Kinds \ {"replace"}) =>
        Cardinality({c \in Calls : pc[c] = "done" /\ kind[c] = "uploadNew"}) <= 1

(* A replacement is atomic: whoever opens the file finds one whole text.   *)
ReplaceAtomic == made > 0 => Whole(Text(Target))
=============================================================================
