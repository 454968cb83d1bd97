-------------------------- MODULE RemoteFilesProofs --------------------------
(***************************************************************************)
(* Proofs about RemoteFiles for any finite number of calls: what is in the *)
(* file and in the temporary files whichever requests fail, whenever the   *)
(* connection is lost.                                                     *)
(***************************************************************************)
EXTENDS RemoteFiles, FiniteSetTheorems, SequenceTheorems, TLAPS

-----------------------------------------------------------------------------
(* Every inode has at most one name, and the inode under the name of a
   temporary file is open in no other call.                                *)
NameInv ==
    /\ \A p \in Paths : link[p] <= made
    /\ \A c \in Calls : fd[c] <= made
    /\ \A i \in Inodes : i > made => data[i] = <<>>
    /\ \A p, q \in Paths : link[p] = link[q] /\ link[p] # 0 => p = q
    /\ \A c, d \in Calls : link[Temp(c)] # 0 /\ fd[d] = link[Temp(c)] => c = d

(* A call makes at most two inodes: it is past createTemp, past openWrite. *)
BeforeTemp == {"start", "stat", "mkStat", "mkdir", "mkVerify", "openRead", "read",
               "createTemp"}
TempSpent == {c \in Calls : pc[c] \notin BeforeTemp}
OpenSpent == {c \in Calls : pc[c] \in {"write", "removeTemp", "close", "done", "failed"}}
MadeInv == made <= 1 + Cardinality(TempSpent) + Cardinality(OpenSpent)

(* What has been written through the handle of c is the first part of its text. *)
Wrote(c) == /\ Len(data[fd[c]]) = pos[c] /\ pos[c] <= Len(text[c])
            /\ \A j \in 1 .. pos[c] : data[fd[c]][j] = text[c][j]

(* The places of a replacement, and what each call relies on there.        *)
InReplace == {"createTemp", "writeTemp", "closeTemp", "discard", "remove", "rename",
              "removeTemp"}
CallOK(c) ==
    /\ pc[c] \in InReplace => kind[c] = "replace"
    /\ kind[c] = "read" => pc[c] \in {"start", "openRead", "read", "done", "failed"}
    /\ IF kind[c] \in {"read", "replace"}
       THEN pc[c] \notin {"stat", "mkStat", "mkdir", "mkVerify"}
       ELSE pc[c] \notin {"openRead", "read"}
    /\ pc[c] = "openRead" => text[c] = <<>>
    /\ pc[c] \in {"read", "write", "removeTemp", "close"} => fd[c] # 0
    /\ pc[c] \in {"writeTemp", "closeTemp", "remove", "rename"} =>
          fd[c] # 0 /\ fd[c] = link[Temp(c)] /\ (c \notin unsaved => Wrote(c))
    /\ pc[c] \in {"remove", "rename", "removeTemp"} => AllWritten(c)
    /\ pc[c] \in {"write", "removeTemp", "close"} => c \in inPlace
    /\ kind[c] = "replace" /\ pc[c] \notin {"start", "openRead", "failed"} => made > 0
CallInv == \A c \in Calls : CallOK(c)

(* Two writing calls that are active at the same time are overlapped; one
   that is not has the file to itself.                                     *)
OverlapInv == \A c, d \in Calls : c # d /\ Active(c) /\ Active(d) => c \in overlapped
SoleOK(c) ==
    Active(c) /\ c \notin overlapped /\ pc[c] \in {"write", "removeTemp", "close"}
        => fd[c] = link[Target] /\ Wrote(c)
SoleInv == \A c \in Calls : SoleOK(c)

IInv == TypeOK /\ NameInv /\ MadeInv /\ CallInv /\ OverlapInv /\ SoleInv

(* While nobody removes the file: at most one upload has made it.          *)
News == {c \in Calls : pc[c] \in {"write", "close", "done"} /\ kind[c] = "uploadNew"}
NewInv == Only(Kinds \ {"replace"}) =>
             /\ News # {} => link[Target] # 0
             /\ \A c, d \in News : c = d

(* As long as nobody has written the file in place and no block is dropped at
   a CLOSE, what is read is whole.                                         *)
Begins(s, t) == Len(s) <= Len(t) /\ \A j \in 1 .. Len(s) : s[j] = t[j]
ReadInv ==
    inPlace = {} /\ unsaved = {} =>
        /\ link[Target] # 0 => Whole(data[link[Target]])
        /\ \A c \in Calls :
              /\ pc[c] = "read" => Whole(data[fd[c]]) /\ Begins(text[c], data[fd[c]])
              /\ pc[c] \in {"createTemp", "writeTemp", "closeTemp", "remove", "rename"} =>
                    Whole(text[c])
              /\ pc[c] = "done" /\ kind[c] = "read" => Whole(text[c])

(* While replacements follow one another: a finished one has left a whole
   temporary file, or the file is whole, or the temporary file of the one that
   runs is.                                                                *)
Saved == \E d \in Calls : pc[d] \in {"done", "failed"} /\ Whole(Text(Temp(d)))
KeptOK(c) ==
    /\ pc[c] \in {"openRead", "read", "createTemp", "writeTemp", "closeTemp", "discard",
                  "remove", "removeTemp"} => Whole(Text(Target))
    /\ pc[c] = "read" => fd[c] = link[Target] /\ Begins(text[c], data[fd[c]])
    /\ pc[c] \in {"createTemp", "writeTemp", "closeTemp", "remove", "rename", "openWrite",
                  "write"} => Whole(text[c])
    /\ pc[c] \in {"rename", "openWrite", "write"} =>
          \/ Whole(Text(Temp(c)))
          \/ pc[c] = "openWrite" /\ ~ up[c] /\ Whole(Text(Target))
    /\ pc[c] = "close" => IF AllWritten(c) THEN Whole(Text(Target)) ELSE Whole(Text(Temp(c)))
KeptInv ==
    Only({"replace", "read"}) /\ made > 0 /\ overlapped = {} /\ unsaved = {} =>
        \/ Saved
        \/ /\ \A c \in Calls : kind[c] = "replace" => KeptOK(c)
           /\ (\A c \in Calls : ~ Active(c)) => Whole(Text(Target))

-----------------------------------------------------------------------------
(* Texts.                                                                  *)
LEMMA TextFacts ==
    ASSUME NEW s \in Texts
    PROVE  /\ s \in Seq(Versions) /\ Len(s) \in 0 .. Blocks /\ DOMAIN s = 1 .. Len(s)
           /\ \A j \in 1 .. Len(s) : s[j] \in Versions
<1>1. PICK n \in 0 .. Blocks : s \in [1 .. n -> Versions]
  BY DEF Texts
<1>2. s \in Seq(Versions) /\ Len(s) = n
  BY <1>1 DEF Blocks
<1> QED
  BY <1>1, <1>2

LEMMA TextIs ==
    ASSUME NEW s \in Seq(Versions), Len(s) <= Blocks
    PROVE  s \in Texts
<1>1. Len(s) \in Nat /\ s \in [1 .. Len(s) -> Versions]
  BY LenProperties
<1>2. Len(s) \in 0 .. Blocks
  BY <1>1 DEF Blocks
<1> QED
  BY <1>1, <1>2 DEF Texts

LEMMA SmallTexts == <<>> \in Texts /\ <<{}, {}>> \in Texts
<1>1. {} \in Versions
  BY DEF Versions
<1>2. <<>> \in Seq(Versions) /\ <<{}, {}>> \in Seq(Versions)
  BY <1>1
<1>3. Len(<<>>) = 0 /\ Len(<<{}, {}>>) = 2
  OBVIOUS
<1>4. Len(<<>>) <= Blocks /\ Len(<<{}, {}>>) <= Blocks
  BY <1>3 DEF Blocks
<1> QED
  BY <1>2, <1>4, TextIs

LEMMA TextsEqual ==
    ASSUME NEW s \in Texts, NEW t \in Texts, Len(s) = Len(t),
           \A j \in 1 .. Len(s) : s[j] = t[j]
    PROVE  s = t
<1>1. s \in Seq(Versions) /\ t \in Seq(Versions)
  BY TextFacts
<1> QED
  BY <1>1, SeqEqual

(* A block written at the end makes the text longer, one written before it
   leaves the length alone, one after it leaves a hole.                    *)
LEMMA WriteAtFacts ==
    ASSUME NEW s \in Texts, NEW i \in 1 .. Blocks, NEW b \in Versions
    PROVE  /\ WriteAt(s, i, b) \in Texts
           /\ Len(s) = i - 1 => /\ Len(WriteAt(s, i, b)) = i
                               /\ WriteAt(s, i, b)[i] = b
                               /\ \A j \in 1 .. i - 1 : WriteAt(s, i, b)[j] = s[j]
<1>1. Hole \in Versions
  BY DEF Versions
<1>2. /\ Len(s) \in 0 .. Blocks
      /\ \A j \in 1 .. Len(s) : s[j] \in Versions
  BY TextFacts
<1> DEFINE n == IF i > Len(s) THEN i ELSE Len(s)
           t == WriteAt(s, i, b)
<1>3. n \in 0 .. Blocks /\ n >= i
  BY <1>2 DEF Blocks
<1>4. t = [j \in 1 .. n |-> IF j = i THEN b ELSE IF j <= Len(s) THEN s[j] ELSE Hole]
  BY DEF WriteAt
<1> HIDE DEF n, t
<1>5. t \in [1 .. n -> Versions]
  BY <1>1, <1>2, <1>3, <1>4 DEF Blocks
<1>6. t \in Texts
  BY <1>3, <1>5 DEF Texts
<1>7. Len(t) = n
  BY <1>3, <1>5 DEF Blocks
<1>8. ASSUME Len(s) = i - 1
      PROVE  n = i /\ t[i] = b /\ \A j \in 1 .. i - 1 : t[j] = s[j]
  <2>1. n = i
    BY <1>8 DEF n, Blocks
  <2>2. t[i] = b
    BY <1>4, <2>1 DEF Blocks
  <2>3. ASSUME NEW j \in 1 .. i - 1 PROVE t[j] = s[j]
    BY <1>4, <1>8, <2>1 DEF Blocks
  <2> QED
    BY <2>1, <2>2, <2>3
<1> QED
  BY <1>6, <1>7, <1>8 DEF t

(* What a server has stored of a text when it is closed.                   *)
LEMMA StoredFacts ==
    ASSUME NEW s \in Texts, NEW t \in StoredOf(s)
    PROVE  t \in Texts
<1>1. s \in Seq(Versions) /\ Len(s) \in 0 .. Blocks
  BY TextFacts
<1>2. PICK n \in 0 .. Len(s) : t = SubSeq(s, 1, n)
  BY DEF StoredOf
<1>3. n \in Nat /\ n <= Len(s) /\ n <= Blocks
  BY <1>1, <1>2 DEF Blocks
<1>4. t \in Seq(Versions) /\ Len(t) = n
  BY <1>1, <1>2, <1>3, SubSeqProperties
<1> QED
  BY <1>3, <1>4, TextIs

-----------------------------------------------------------------------------
(* Sets of calls, counted.                                                 *)
LEMMA Counts ==
    ASSUME NEW A, NEW B, A \subseteq B, B \subseteq Calls
    PROVE  /\ Cardinality(A) \in Nat /\ Cardinality(B) \in Nat /\ Cardinality(Calls) \in Nat
           /\ Cardinality(A) <= Cardinality(B) /\ Cardinality(B) <= Cardinality(Calls)
           /\ \A c \in B : c \notin A => Cardinality(A) + 1 <= Cardinality(B)
<1>1. IsFiniteSet(Calls)
  BY FilesAssumption
<1>2. IsFiniteSet(B) /\ Cardinality(B) <= Cardinality(Calls)
  BY <1>1, FS_Subset
<1>3. IsFiniteSet(A) /\ Cardinality(A) <= Cardinality(B)
  BY <1>2, FS_Subset
<1>4. /\ Cardinality(A) \in Nat /\ Cardinality(B) \in Nat /\ Cardinality(Calls) \in Nat
  BY <1>1, <1>2, <1>3, FS_CardinalityType
<1>5. ASSUME NEW c \in B, c \notin A PROVE Cardinality(A) + 1 <= Cardinality(B)
  <2>1. Cardinality(A \cup {c}) = Cardinality(A) + 1
    BY <1>3, <1>5, FS_AddElement
  <2>2. Cardinality(A \cup {c}) <= Cardinality(B)
    BY <1>2, <1>5, FS_Subset
  <2> QED
    BY <2>1, <2>2
<1> QED
  BY <1>2, <1>3, <1>4, <1>5

LEMMA InodeFacts ==
    /\ Cardinality(Calls) \in Nat /\ Inodes \subseteq Nat \ {0}
    /\ 1 \in Inodes /\ 0 \notin Inodes
    /\ \A c \in Calls : Temp(c) \in Paths /\ Temp(c) # Target
    /\ Target \in Paths
    /\ \A i \in Nat : i # 0 /\ i <= 2 * Cardinality(Calls) + 1 => i \in Inodes
<1>1. Cardinality(Calls) \in Nat
  BY Counts
<1> QED
  BY <1>1, FilesAssumption DEF Inodes, Temp, Paths

LEMMA InitIInv == Init => IInv
<1> SUFFICES ASSUME Init PROVE IInv
  OBVIOUS
<1>1. made \in {0, 1} /\ link = [p \in Paths |-> IF p = Target THEN made ELSE 0]
  BY DEF Init
<1>2. <<>> \in Texts /\ <<{}, {}>> \in Texts
  BY SmallTexts
<1>3. TypeOK
  <2>1. data \in [Inodes -> Texts]
    BY <1>2 DEF Init
  <2>2. link \in [Paths -> Inodes \cup {0}] /\ made \in Inodes \cup {0}
    BY <1>1, InodeFacts
  <2>3. "start" \in Pcs /\ 0 \in 0 .. Blocks
    BY DEF Pcs, Blocks
  <2> QED
    BY <1>2, <2>1, <2>2, <2>3 DEF Init, TypeOK
<1>4. NameInv
  <2>1. \A p \in Paths : link[p] = IF p = Target THEN made ELSE 0
    BY <1>1
  <2>2. \A i \in Inodes : i > made => data[i] = <<>>
    BY <1>1, InodeFacts DEF Init
  <2>3. \A c \in Calls : link[Temp(c)] = 0
    BY <2>1, InodeFacts
  <2> QED
    BY <1>1, <2>1, <2>2, <2>3 DEF Init, NameInv
<1>5. MadeInv
  BY <1>1, Counts DEF MadeInv, TempSpent, OpenSpent
<1>6. CallInv /\ OverlapInv /\ SoleInv
  BY DEF Init, CallInv, CallOK, InReplace, OverlapInv, SoleInv, SoleOK, Active
<1> QED
  BY <1>3, <1>4, <1>5, <1>6 DEF IInv

-----------------------------------------------------------------------------
(* A step of one call leaves the others alone.                             *)
Step(c) == Start(c) \/ Read(c) \/ Replace(c) \/ Write(c)

LEMMA Frame ==
    ASSUME TypeOK, NEW c \in Calls, Step(c)
    PROVE  /\ kind' = kind
           /\ \E l \in Pcs : pc' = [pc EXCEPT ![c] = l]
           /\ \A d \in Calls \ {c} : /\ pc'[d] = pc[d] /\ fd'[d] = fd[d] /\ text'[d] = text[d]
                                     /\ pos'[d] = pos[d] /\ up'[d] = up[d]
<1> USE DEF TypeOK, locals, Goto
<1>1. CASE Start(c)
  BY <1>1 DEF Start, Pcs
<1>2. CASE Read(c)
  BY <1>2 DEF Read, OpenRead, ReadBlock, ReadEnds, ReadFails, Pcs
<1>3. CASE Replace(c)
  BY <1>3 DEF Replace, CreateTemp, CreateTempFails, Discard, RemoveOriginal, Rename,
      RenameFails, RemoveTemp, Pcs
<1>4. CASE Stat(c) \/ MkStat(c) \/ Mkdir(c) \/ MkVerify(c) \/ OpenWriteFails(c)
           \/ WriteFails(c)
  BY <1>4 DEF Stat, MkStat, Mkdir, MkVerify, OpenWriteFails, WriteFails, At, Pcs
<1>5. CASE OpenTruncated(c) \/ OpenCreated(c) \/ Written(c)
  BY <1>5 DEF OpenTruncated, OpenCreated, Written, Pcs
<1>7. CASE Close(c)
  <2>1. pc[c] \in {"closeTemp", "close"}
    BY <1>7 DEF Close
  <2>2. \E l \in {"remove", "discard", "done", "failed"} : pc' = [pc EXCEPT ![c] = l]
    BY <1>7, <2>1 DEF Close, At
  <2>3. UNCHANGED <<kind, up, fd, text, pos>>
    BY <1>7 DEF Close
  <2> QED
    BY <2>2, <2>3 DEF Pcs
<1>6. CASE WriteBlock(c)
  <2>1. pc' = [pc EXCEPT ![c] = pc[c]]
    BY <1>6 DEF WriteBlock
  <2> QED
    BY <1>6, <2>1 DEF WriteBlock
<1> QED
  BY <1>1, <1>2, <1>3, <1>4, <1>5, <1>6, <1>7 DEF Step, Write

(* A CLOSE changes at most the file that the call has open.  Unless it drops
   acknowledged blocks, a call that has written all of its text changes none. *)
LEMMA CloseFacts ==
    ASSUME IInv, NEW c \in Calls, Close(c)
    PROVE  /\ UNCHANGED <<link, made, kind, up, fd, text, pos, overlapped, inPlace>>
           /\ fd[c] \in Inodes
           /\ \E t \in Texts : data' = [data EXCEPT ![fd[c]] = t]
           /\ unsaved \subseteq unsaved' /\ unsaved' \subseteq Calls
           /\ unsaved' \subseteq unsaved \cup {c}
           /\ AllWritten(c) /\ c \notin unsaved' => data' = data
           /\ \/ /\ pc[c] = "closeTemp"
                 /\ pc'[c] = IF AllWritten(c) THEN "remove" ELSE "discard"
              \/ /\ pc[c] = "close"
                 /\ pc'[c] = IF AllWritten(c) THEN "done" ELSE "failed"
<1>1. /\ pc \in [Calls -> Pcs] /\ data \in [Inodes -> Texts] /\ unsaved \subseteq Calls
      /\ fd \in [Calls -> Inodes \cup {0}] /\ CallOK(c)
  BY DEF IInv, TypeOK, CallInv
<1>2. fd[c] \in Inodes
  BY <1>1 DEF Close, CallOK
<1>3. PICK s \in StoredOf(data[fd[c]]) :
         /\ data' = [data EXCEPT ![fd[c]] = s]
         /\ unsaved' = IF AllWritten(c) /\ s # data[fd[c]] THEN unsaved \cup {c} ELSE unsaved
  BY DEF Close
<1>4. s \in Texts
  BY <1>1, <1>2, <1>3, StoredFacts
<1>5. s = data[fd[c]] => data' = data
  BY <1>1, <1>2, <1>3
<1>6. /\ UNCHANGED <<link, made, kind, up, fd, text, pos, overlapped, inPlace>>
      /\ \/ /\ pc[c] = "closeTemp"
            /\ pc'[c] = IF AllWritten(c) THEN "remove" ELSE "discard"
         \/ /\ pc[c] = "close"
            /\ pc'[c] = IF AllWritten(c) THEN "done" ELSE "failed"
  BY <1>1 DEF Close, locals, Goto, At
<1> QED
  BY <1>1, <1>2, <1>3, <1>4, <1>5, <1>6

-----------------------------------------------------------------------------
(* The inodes that calls make are as many as there is room for.            *)
LEMMA MadeStep ==
    ASSUME IInv, NEW c \in Calls, Step(c)
    PROVE  MadeInv' /\ made' \in Inodes \cup {0} /\ {made, made'} \subseteq Nat /\ made' >= made
<1>1. /\ pc \in [Calls -> Pcs] /\ made \in Inodes \cup {0}
      /\ made <= 1 + Cardinality(TempSpent) + Cardinality(OpenSpent)
  BY DEF IInv, TypeOK, MadeInv
<1>2. PICK l \in Pcs : pc' = [pc EXCEPT ![c] = l]
  BY Frame DEF IInv
<1>3. /\ pc[c] \notin BeforeTemp => pc'[c] \notin BeforeTemp
      /\ pc[c] \in {"write", "removeTemp", "close", "done", "failed"}
            => pc'[c] \in {"write", "removeTemp", "close", "done", "failed"}
  <2> USE DEF Goto, At, Sent, BeforeTemp
  <2>1. CASE Start(c) \/ Read(c)
    BY <1>1, <2>1 DEF Start, Read, OpenRead, ReadBlock, ReadEnds, ReadFails
  <2>2. CASE Replace(c)
    BY <1>1, <2>2 DEF Replace, CreateTemp, CreateTempFails, Discard, RemoveOriginal, Rename,
        RenameFails, RemoveTemp
  <2>3. CASE Write(c) /\ ~ Close(c)
    BY <1>1, <2>3 DEF Write, Stat, MkStat, Mkdir, MkVerify, OpenTruncated, OpenCreated,
        OpenWriteFails, WriteBlock, Written, WriteFails
  <2>4. CASE Close(c)
    BY <2>4, CloseFacts
  <2> QED
    BY <2>1, <2>2, <2>3, <2>4 DEF Step
<1>4. TempSpent \subseteq TempSpent' /\ OpenSpent \subseteq OpenSpent'
  BY <1>1, <1>2, <1>3 DEF TempSpent, OpenSpent
<1>5. /\ TempSpent' \subseteq Calls /\ OpenSpent' \subseteq Calls
  BY DEF TempSpent, OpenSpent
<1>6. /\ Cardinality(TempSpent) \in Nat /\ Cardinality(OpenSpent) \in Nat
      /\ Cardinality(TempSpent') \in Nat /\ Cardinality(OpenSpent') \in Nat
      /\ Cardinality(Calls) \in Nat
      /\ Cardinality(TempSpent) <= Cardinality(TempSpent')
      /\ Cardinality(OpenSpent) <= Cardinality(OpenSpent')
      /\ Cardinality(TempSpent') <= Cardinality(Calls)
      /\ Cardinality(OpenSpent') <= Cardinality(Calls)
  BY <1>4, <1>5, Counts
<1>7. \/ made' = made
      \/ made' = made + 1 /\ c \notin TempSpent /\ c \in TempSpent'
      \/ made' = made + 1 /\ c \notin OpenSpent /\ c \in OpenSpent'
  <2> USE DEF Goto, At, Sent, files, BeforeTemp, TempSpent, OpenSpent
  <2>1. CASE Start(c) \/ Read(c)
    BY <2>1 DEF Start, Read, OpenRead, ReadBlock, ReadEnds, ReadFails
  <2>2. CASE CreateTemp(c)
    BY <1>1, <2>2 DEF CreateTemp
  <2>3. CASE OpenCreated(c)
    BY <1>1, <2>3 DEF OpenCreated
  <2>4. CASE Replace(c) /\ ~ CreateTemp(c)
    BY <2>4 DEF Replace, CreateTempFails, Discard, RemoveOriginal, Rename,
        RenameFails, RemoveTemp
  <2>5. CASE Write(c) /\ ~ OpenCreated(c)
    BY <2>5 DEF Write, Stat, MkStat, Mkdir, MkVerify, OpenTruncated, OpenWriteFails,
        WriteBlock, Written, WriteFails, Close
  <2> QED
    BY <2>1, <2>2, <2>3, <2>4, <2>5 DEF Step
<1>8. MadeInv'
  <2>1. \/ made' = made
        \/ made' = made + 1 /\ Cardinality(TempSpent) + 1 <= Cardinality(TempSpent')
        \/ made' = made + 1 /\ Cardinality(OpenSpent) + 1 <= Cardinality(OpenSpent')
    BY <1>4, <1>5, <1>7, Counts
  <2> QED
    BY <1>1, <1>6, <2>1, InodeFacts DEF MadeInv
<1>9. made \in Nat /\ made' \in Nat
  BY <1>1, <1>7, InodeFacts
<1>10. made' <= 1 + 2 * Cardinality(Calls)
  BY <1>6, <1>8, <1>9 DEF MadeInv
<1> QED
  BY <1>7, <1>8, <1>9, <1>10, <1>6, InodeFacts

-----------------------------------------------------------------------------
(* The steps keep the types.                                               *)
LEMMA ReadTypes ==
    ASSUME IInv, NEW c \in Calls, Start(c) \/ Read(c)
    PROVE  TypeOK'
<1>1. PICK l \in Pcs : pc' = [pc EXCEPT ![c] = l]
  BY Frame DEF IInv, Step
<1>2. /\ text \in [Calls -> Texts] /\ data \in [Inodes -> Texts] /\ fd \in [Calls -> Inodes \cup {0}]
      /\ link \in [Paths -> Inodes \cup {0}]
  BY DEF IInv, TypeOK
<1>3. ASSUME NEW t \in Texts, text' = [text EXCEPT ![c] = t]
      PROVE  text' \in [Calls -> Texts]
  BY <1>2, <1>3
<1> USE DEF files, locals, history
<1>4. CASE Start(c)
  <2>1. {c} \in Versions /\ <<>> \in Texts
    BY SmallTexts DEF Versions
  <2>2. [i \in 1 .. Blocks |-> {c}] \in Texts
    BY <2>1 DEF Texts, Blocks
  <2>3. text' \in [Calls -> Texts]
    BY <1>2, <1>4, <2>1, <2>2 DEF Start
  <2>4. overlapped' \subseteq Calls
    BY <1>4 DEF Start, IInv, TypeOK
  <2> QED
    BY <1>1, <1>4, <2>3, <2>4 DEF Start, IInv, TypeOK
<1>5. CASE OpenRead(c)
  <2>1. fd' \in [Calls -> Inodes \cup {0}]
    BY <1>2, <1>5, InodeFacts DEF OpenRead
  <2> QED
    BY <1>1, <1>5, <2>1 DEF OpenRead, IInv, TypeOK
<1>6. CASE ReadBlock(c)
  <2>1. fd[c] \in Inodes
    BY <1>2, <1>6 DEF ReadBlock, IInv, CallInv, CallOK, Sent, At
  <2> DEFINE s == text[c]
             t == data[fd[c]]
             b == t[Len(s) + 1]
  <2>2. s \in Texts /\ t \in Texts
    BY <1>2, <2>1
  <2>3. Len(s) < Len(t) /\ text' = [text EXCEPT ![c] = Append(s, b)]
    BY <1>6, <1>2 DEF ReadBlock
  <2> HIDE DEF s, t
  <2>4. /\ s \in Seq(Versions) /\ Len(s) \in 0 .. Blocks /\ Len(t) \in 0 .. Blocks
        /\ b \in Versions
    BY <2>2, <2>3, TextFacts DEF Blocks
  <2>5. Append(s, b) \in Seq(Versions) /\ Len(Append(s, b)) = Len(s) + 1
    BY <2>4
  <2>6. Len(Append(s, b)) <= Blocks
    BY <2>3, <2>4, <2>5 DEF Blocks
  <2>7. Append(s, b) \in Texts
    BY <2>5, <2>6, TextIs
  <2>8. text' \in [Calls -> Texts]
    BY <1>3, <2>3, <2>7
  <2> QED
    BY <1>1, <1>6, <2>8 DEF ReadBlock, IInv, TypeOK
<1>7. CASE ReadEnds(c)
  <2>1. Edited(c) \in Texts
    <3>0. text[c] \in Texts
      BY <1>2
    <3>1. PICK n \in 0 .. Blocks : text[c] \in [1 .. n -> Versions]
      BY <3>0, Zenon DEF Texts
    <3>2. \A v \in Versions : v \cup {c} \in Versions
      BY DEF Versions
    <3>3. Edited(c) \in [1 .. n -> Versions]
      BY <3>1, <3>2 DEF Edited
    <3> QED
      BY <3>3 DEF Texts
  <2>2. text' \in [Calls -> Texts]
    BY <1>2, <1>7, <2>1 DEF ReadEnds
  <2> QED
    BY <1>1, <1>7, <2>2 DEF ReadEnds, IInv, TypeOK
<1>8. CASE ReadFails(c)
  BY <1>1, <1>8 DEF ReadFails, IInv, TypeOK
<1> QED
  BY <1>4, <1>5, <1>6, <1>7, <1>8 DEF Read

LEMMA WriteTypes ==
    ASSUME IInv, NEW c \in Calls, Replace(c) \/ Write(c)
    PROVE  TypeOK'
<1>1. PICK l \in Pcs : pc' = [pc EXCEPT ![c] = l]
  BY Frame DEF IInv, Step
<1>2. /\ text \in [Calls -> Texts] /\ data \in [Inodes -> Texts] /\ fd \in [Calls -> Inodes \cup {0}]
      /\ link \in [Paths -> Inodes \cup {0}] /\ pos \in [Calls -> 0 .. Blocks]
  BY DEF IInv, TypeOK
<1>3. 0 \in 0 .. Blocks /\ <<>> \in Texts
  BY SmallTexts DEF Blocks
<1> USE DEF files, locals, history, RemoveFile
<1>4. CASE \/ CreateTempFails(c) \/ RenameFails(c) \/ Stat(c) \/ MkStat(c) \/ Mkdir(c)
           \/ MkVerify(c) \/ OpenWriteFails(c) \/ Written(c) \/ WriteFails(c)
  BY <1>1, <1>4 DEF CreateTempFails, RenameFails, Stat, MkStat, Mkdir, MkVerify,
      OpenWriteFails, Written, WriteFails, Close, IInv, TypeOK
<1>5. CASE Discard(c) \/ RemoveOriginal(c) \/ RemoveTemp(c)
  <2>1. link' \in [Paths -> Inodes \cup {0}]
    BY <1>2, <1>5 DEF Discard, RemoveOriginal, RemoveTemp
  <2> QED
    BY <1>1, <1>5, <2>1 DEF Discard, RemoveOriginal, RemoveTemp, IInv, TypeOK
<1>6. CASE Rename(c)
  <2>1. link' \in [Paths -> Inodes \cup {0}]
    BY <1>2, <1>6, InodeFacts DEF Rename
  <2>2. up' \in [Calls -> BOOLEAN]
    BY <1>6 DEF Rename, IInv, TypeOK
  <2> QED
    BY <1>1, <1>6, <2>1, <2>2 DEF Rename, IInv, TypeOK
<1>7. CASE CreateTemp(c) \/ OpenCreated(c)
  <2>1. made' \in Inodes \cup {0}
    BY <1>7, MadeStep DEF Step, Replace, Write
  <2>2. link' \in [Paths -> Inodes \cup {0}] /\ fd' \in [Calls -> Inodes \cup {0}]
    BY <1>2, <1>7, <2>1 DEF CreateTemp, OpenCreated
  <2>3. pos' \in [Calls -> 0 .. Blocks] /\ inPlace' \subseteq Calls
    BY <1>2, <1>3, <1>7 DEF CreateTemp, OpenCreated, IInv, TypeOK
  <2> QED
    BY <1>1, <1>7, <2>1, <2>2, <2>3 DEF CreateTemp, OpenCreated, IInv, TypeOK
<1>8. CASE OpenTruncated(c)
  <2>1. data' \in [Inodes -> Texts]
    BY <1>2, <1>3, <1>8 DEF OpenTruncated
  <2>2. fd' \in [Calls -> Inodes \cup {0}]
    BY <1>2, <1>8, InodeFacts DEF OpenTruncated
  <2>3. pos' \in [Calls -> 0 .. Blocks] /\ inPlace' \subseteq Calls
    BY <1>2, <1>3, <1>8 DEF OpenTruncated, IInv, TypeOK
  <2> QED
    BY <1>1, <1>8, <2>1, <2>2, <2>3 DEF OpenTruncated, IInv, TypeOK
<1>9. CASE WriteBlock(c)
  <2>1. pos[c] < Len(text[c]) /\ pos' = [pos EXCEPT ![c] = @ + 1]
    BY <1>9 DEF WriteBlock
  <2>2. Len(text[c]) \in 0 .. Blocks /\ \A j \in 1 .. Len(text[c]) : text[c][j] \in Versions
    BY <1>2, TextFacts
  <2>3. pos'[c] = pos[c] + 1 /\ pos'[c] \in 1 .. Blocks /\ text[c][pos'[c]] \in Versions
    BY <1>2, <2>1, <2>2 DEF Blocks
  <2>4. pos' \in [Calls -> 0 .. Blocks]
    BY <1>2, <2>1, <2>3 DEF Blocks
  <2>5. fd[c] \in Inodes
    BY <1>2, <1>9 DEF WriteBlock, IInv, CallInv, CallOK, Sent, At
  <2>6. WriteAt(data[fd[c]], pos'[c], text[c][pos'[c]]) \in Texts
    BY <1>2, <2>3, <2>5, WriteAtFacts
  <2>7. data' \in [Inodes -> Texts]
    BY <1>2, <1>9, <2>6 DEF WriteBlock
  <2> QED
    BY <1>1, <1>9, <2>4, <2>7 DEF WriteBlock, IInv, TypeOK
<1>10. CASE Close(c)
  <2>1. data' \in [Inodes -> Texts] /\ unsaved' \subseteq Calls
    BY <1>2, <1>10, CloseFacts
  <2>2. UNCHANGED <<link, made, kind, up, fd, text, pos, overlapped, inPlace>>
    BY <1>10, CloseFacts
  <2>3. parent' = parent
    BY <1>10 DEF Close
  <2> QED
    BY <1>1, <2>1, <2>2, <2>3 DEF IInv, TypeOK
<1> QED
  BY <1>4, <1>5, <1>6, <1>7, <1>8, <1>9, <1>10 DEF Replace, Write

-----------------------------------------------------------------------------
(* Names and handles.                                                      *)
LEMMA NameStep ==
    ASSUME IInv, NEW c \in Calls, Step(c)
    PROVE  NameInv'
<1>1. /\ link \in [Paths -> Inodes \cup {0}] /\ fd \in [Calls -> Inodes \cup {0}]
      /\ data \in [Inodes -> Texts] /\ made \in Nat /\ made' \in Nat
      /\ \A p \in Paths : link[p] \in Nat
      /\ \A d \in Calls : fd[d] \in Nat /\ Temp(d) \in Paths /\ Temp(d) # Target
      /\ Target \in Paths
      /\ \A i \in Inodes : i \in Nat
  <2>1. made' \in Inodes \cup {0}
    BY MadeStep
  <2>2. /\ link \in [Paths -> Inodes \cup {0}] /\ fd \in [Calls -> Inodes \cup {0}]
        /\ data \in [Inodes -> Texts] /\ made \in Inodes \cup {0}
    BY DEF IInv, TypeOK
  <2>3. Inodes \cup {0} \subseteq Nat
    BY InodeFacts
  <2> QED
    BY <2>1, <2>2, <2>3, InodeFacts
<1>2. /\ \A p \in Paths : link[p] <= made
      /\ \A d \in Calls : fd[d] <= made
      /\ \A i \in Inodes : i > made => data[i] = <<>>
      /\ \A p, q \in Paths : link[p] = link[q] /\ link[p] # 0 => p = q
      /\ \A b, d \in Calls : link[Temp(b)] # 0 /\ fd[d] = link[Temp(b)] => b = d
  BY DEF IInv, NameInv
<1> USE DEF files, locals, history
<1>3. CASE \/ Start(c) \/ ReadBlock(c) \/ ReadEnds(c) \/ ReadFails(c)
           \/ CreateTempFails(c) \/ RenameFails(c) \/ Stat(c) \/ MkStat(c) \/ Mkdir(c)
           \/ MkVerify(c) \/ OpenWriteFails(c) \/ Written(c) \/ WriteFails(c)
  <2>1. UNCHANGED <<link, data, made, fd>>
    BY <1>3 DEF Start, ReadBlock, ReadEnds, ReadFails, CreateTempFails, RenameFails, Stat,
        MkStat, Mkdir, MkVerify, OpenWriteFails, Written, WriteFails, Close
  <2> QED
    BY <1>2, <2>1 DEF NameInv
<1>4. CASE OpenRead(c) \/ OpenTruncated(c)
  <2>1. /\ link[Target] # 0 /\ fd' = [fd EXCEPT ![c] = link[Target]]
        /\ UNCHANGED <<link, made>>
        /\ data' = data \/ data' = [data EXCEPT ![link[Target]] = <<>>]
    BY <1>4 DEF OpenRead, OpenTruncated
  <2>2. \A i \in Inodes : data'[i] \in {data[i], <<>>}
    BY <1>1, <2>1
  <2>3. \A d \in Calls : fd'[d] = IF d = c THEN link[Target] ELSE fd[d]
    BY <1>1, <2>1
  <2>4. \A b, d \in Calls : link[Temp(b)] # 0 /\ fd'[d] = link[Temp(b)] => b = d
    BY <1>1, <1>2, <2>1, <2>3
  <2> QED
    BY <1>1, <1>2, <2>1, <2>2, <2>3, <2>4 DEF NameInv
<1>5. CASE CreateTemp(c) \/ OpenCreated(c)
  <2>1. PICK p \in {Temp(c), Target} :
           /\ made' = made + 1 /\ data' = data
           /\ link' = [link EXCEPT ![p] = made'] /\ fd' = [fd EXCEPT ![c] = made']
    BY <1>5 DEF CreateTemp, OpenCreated
  <2>2. /\ \A q \in Paths : link'[q] = IF q = p THEN made + 1 ELSE link[q]
        /\ \A d \in Calls : fd'[d] = IF d = c THEN made + 1 ELSE fd[d]
    BY <1>1, <2>1
  <2>3. /\ \A q \in Paths : link'[q] <= made'
        /\ \A d \in Calls : fd'[d] <= made'
        /\ \A i \in Inodes : i > made' => data'[i] = <<>>
    BY <1>1, <1>2, <2>1, <2>2
  <2>4. ASSUME NEW q \in Paths, NEW r \in Paths, link'[q] = link'[r], link'[q] # 0
        PROVE  q = r
    BY <1>1, <1>2, <2>2, <2>4
  <2>5. ASSUME NEW b \in Calls, NEW d \in Calls, link'[Temp(b)] # 0, fd'[d] = link'[Temp(b)]
        PROVE  b = d
    <3>1. CASE Temp(b) = p
      <4>1. link'[Temp(b)] = made + 1 /\ b = c
        BY <1>1, <2>1, <2>2, <3>1 DEF Temp
      <4> QED
        BY <1>1, <1>2, <2>2, <2>5, <4>1
    <3>2. CASE Temp(b) # p
      <4>1. link'[Temp(b)] = link[Temp(b)] /\ link[Temp(b)] <= made
        BY <1>1, <1>2, <2>2, <3>2
      <4> QED
        BY <1>1, <1>2, <2>2, <2>5, <4>1
    <3> QED
      BY <3>1, <3>2
  <2> QED
    BY <2>3, <2>4, <2>5 DEF NameInv
<1>6. CASE WriteBlock(c) \/ Close(c)
  <2>1. /\ UNCHANGED <<link, made, fd>> /\ fd[c] <= made /\ fd[c] \in Nat
        /\ \E t : data' = [data EXCEPT ![fd[c]] = t]
    BY <1>1, <1>2, <1>6, CloseFacts DEF WriteBlock
  <2>2. \A i \in Inodes : i > made => data'[i] = data[i]
    BY <1>1, <2>1
  <2> QED
    BY <1>2, <2>1, <2>2 DEF NameInv
<1>7. CASE Discard(c) \/ RemoveOriginal(c) \/ RemoveTemp(c)
  <2>1. /\ UNCHANGED <<data, made, fd>>
        /\ \/ link' = link
           \/ link' = [link EXCEPT ![Temp(c)] = 0] \/ link' = [link EXCEPT ![Target] = 0]
    BY <1>7 DEF Discard, RemoveOriginal, RemoveTemp, RemoveFile
  <2>2. \A p \in Paths : link'[p] \in {link[p], 0}
    BY <1>1, <2>1
  <2>3. \A p, q \in Paths : link'[p] = link'[q] /\ link'[p] # 0 => p = q
    BY <1>2, <2>2
  <2>4. \A b, d \in Calls : link'[Temp(b)] # 0 /\ fd[d] = link'[Temp(b)] => b = d
    BY <1>1, <1>2, <2>2
  <2>5. \A p \in Paths : link'[p] <= made
    BY <1>1, <1>2, <2>2
  <2> QED
    BY <1>2, <2>1, <2>3, <2>4, <2>5 DEF NameInv
<1>8. CASE Rename(c)
  <2>1. /\ UNCHANGED <<data, made, fd>>
        /\ link' = [link EXCEPT ![Target] = link[Temp(c)], ![Temp(c)] = 0]
    BY <1>8 DEF Rename
  <2>2. \A p \in Paths : link'[p] = IF p = Temp(c) THEN 0
                                   ELSE IF p = Target THEN link[Temp(c)] ELSE link[p]
    BY <1>1, <2>1
  <2>3. \A p, q \in Paths : link'[p] = link'[q] /\ link'[p] # 0 => p = q
    BY <1>1, <1>2, <2>2
  <2>4. \A b, d \in Calls : link'[Temp(b)] # 0 /\ fd[d] = link'[Temp(b)] => b = d
    BY <1>1, <1>2, <2>2
  <2>5. \A p \in Paths : link'[p] <= made
    BY <1>1, <1>2, <2>2
  <2> QED
    BY <1>2, <2>1, <2>3, <2>4, <2>5 DEF NameInv
<1> QED
  BY <1>3, <1>4, <1>5, <1>6, <1>7, <1>8 DEF Step, Read, Replace, Write

-----------------------------------------------------------------------------
(* A temporary file belongs to its call.                                   *)
LEMMA TempKept ==
    ASSUME IInv, NEW c \in Calls, Step(c), NEW d \in Calls \ {c}
    PROVE  /\ link'[Temp(d)] = link[Temp(d)]
           /\ link[Temp(d)] # 0 => data'[link[Temp(d)]] = data[link[Temp(d)]]
<1>1. /\ link \in [Paths -> Inodes \cup {0}] /\ data \in [Inodes -> Texts]
      /\ Target \in Paths /\ Temp(c) \in Paths /\ Temp(d) \in Paths
      /\ Temp(d) # Target /\ Temp(d) # Temp(c)
  BY InodeFacts DEF IInv, TypeOK, Temp
<1>2. /\ link[Temp(d)] # 0 => link[Target] # link[Temp(d)] /\ fd[c] # link[Temp(d)]
  BY <1>1 DEF IInv, NameInv
<1> USE DEF files, locals, history
<1>3. CASE \/ Start(c) \/ Read(c) \/ CreateTempFails(c) \/ RenameFails(c) \/ Stat(c)
           \/ MkStat(c) \/ Mkdir(c) \/ MkVerify(c) \/ OpenWriteFails(c) \/ Written(c)
           \/ WriteFails(c)
  BY <1>3 DEF Start, Read, OpenRead, ReadBlock, ReadEnds, ReadFails, CreateTempFails,
      RenameFails, Stat, MkStat, Mkdir, MkVerify, OpenWriteFails, Written, WriteFails, Close
<1>4. CASE CreateTemp(c) \/ OpenCreated(c) \/ Discard(c) \/ RemoveOriginal(c)
           \/ RemoveTemp(c) \/ Rename(c)
  BY <1>1, <1>4 DEF CreateTemp, OpenCreated, Discard, RemoveOriginal, RemoveTemp, RemoveFile,
      Rename
<1>5. CASE OpenTruncated(c)
  BY <1>1, <1>2, <1>5 DEF OpenTruncated
<1>6. CASE WriteBlock(c) \/ Close(c)
  <2>1. link' = link /\ \E t : data' = [data EXCEPT ![fd[c]] = t]
    BY <1>6, CloseFacts DEF WriteBlock
  <2> QED
    BY <1>1, <1>2, <2>1
<1> QED
  BY <1>3, <1>4, <1>5, <1>6 DEF Step, Replace, Write

(* The next block is written where the last one ended.                     *)
LEMMA WroteStep ==
    ASSUME IInv, NEW c \in Calls, WriteBlock(c), fd[c] # 0, Wrote(c)
    PROVE  Wrote(c)'
<1>1. /\ data \in [Inodes -> Texts] /\ fd[c] \in Inodes /\ text[c] \in Texts
      /\ pos \in [Calls -> 0 .. Blocks]
  BY DEF IInv, TypeOK
<1>2. /\ pos[c] < Len(text[c]) /\ pos' = [pos EXCEPT ![c] = @ + 1]
      /\ data' = [data EXCEPT ![fd[c]] = WriteAt(@, pos'[c], text[c][pos'[c]])]
      /\ UNCHANGED <<fd, text>>
  BY DEF WriteBlock
<1> DEFINE i == pos[c] + 1
           s == data[fd[c]]
           t == text[c]
<1>3. /\ Len(t) \in 0 .. Blocks /\ s \in Texts
      /\ \A j \in 1 .. Len(t) : t[j] \in Versions
  BY <1>1, TextFacts
<1>4. i \in 1 .. Blocks /\ i <= Len(t) /\ pos'[c] = i /\ i - 1 = pos[c]
  BY <1>1, <1>2, <1>3 DEF Blocks
<1>5. data'[fd[c]] = WriteAt(s, i, t[i])
  BY <1>1, <1>2, <1>4
<1>6. Len(s) = i - 1 /\ \A j \in 1 .. i - 1 : s[j] = t[j]
  BY <1>4 DEF Wrote
<1> HIDE DEF i, s, t
<1>7. t[i] \in Versions
  BY <1>3, <1>4 DEF Blocks
<1>8. /\ Len(data'[fd[c]]) = i /\ data'[fd[c]][i] = t[i]
      /\ \A j \in 1 .. i - 1 : data'[fd[c]][j] = t[j]
  BY <1>3, <1>4, <1>5, <1>6, <1>7, WriteAtFacts
<1>9. \A j \in 1 .. i : data'[fd[c]][j] = t[j]
  BY <1>4, <1>8 DEF Blocks
<1> QED
  BY <1>2, <1>4, <1>8, <1>9 DEF Wrote, t

(* A new or an emptied file holds what has been written to it: nothing.     *)
LEMMA WroteNothing ==
    ASSUME NEW c \in Calls, data'[fd'[c]] = <<>>, pos'[c] = 0, text'[c] \in Texts
    PROVE  Wrote(c)'
<1>1. Len(text'[c]) >= 0
  BY TextFacts DEF Blocks
<1> QED
  BY <1>1 DEF Wrote

(* Only a CLOSE adds to the calls that lost blocks at one.                 *)
LEMMA UnsavedGrows ==
    ASSUME IInv, NEW c \in Calls, Step(c)
    PROVE  unsaved \subseteq unsaved' /\ (~ Close(c) => unsaved' = unsaved)
<1>1. CASE Close(c)
  BY <1>1, CloseFacts
<1>2. CASE ~ Close(c)
  BY <1>2 DEF history, Step, Start, Read, OpenRead, ReadBlock, ReadEnds, ReadFails, Replace,
      CreateTemp, CreateTempFails, Discard, RemoveOriginal, Rename, RenameFails,
      RemoveTemp, Write, Stat, MkStat, Mkdir, MkVerify, OpenTruncated, OpenCreated,
      OpenWriteFails, WriteBlock, Written, WriteFails
<1> QED
  BY <1>1, <1>2

LEMMA CallStep ==
    ASSUME IInv, NEW c \in Calls, Step(c)
    PROVE  CallInv'
<1>1. ASSUME NEW d \in Calls \ {c} PROVE CallOK(d)'
  <2>1. /\ pc'[d] = pc[d] /\ fd'[d] = fd[d] /\ text'[d] = text[d]
        /\ pos'[d] = pos[d] /\ kind' = kind
    BY Frame DEF IInv
  <2>2. /\ link'[Temp(d)] = link[Temp(d)]
        /\ link[Temp(d)] # 0 => data'[link[Temp(d)]] = data[link[Temp(d)]]
    BY TempKept
  <2>3. made \in Nat /\ made' \in Nat /\ made' >= made
    BY MadeStep
  <2>4. inPlace \subseteq inPlace'
    BY DEF history, Step, Start, Read, OpenRead, ReadBlock, ReadEnds, ReadFails, Replace,
        CreateTemp, CreateTempFails, Discard, RemoveOriginal, Rename, RenameFails,
        RemoveTemp, Write, Stat, MkStat, Mkdir, MkVerify, OpenTruncated, OpenCreated,
        OpenWriteFails, WriteBlock, Written, WriteFails, Close
  <2>5. CallOK(d)
    BY DEF IInv, CallInv
  <2>6. fd[d] # 0 /\ fd[d] = link[Temp(d)] /\ Wrote(d) => Wrote(d)'
    BY <2>1, <2>2 DEF Wrote
  <2>7. AllWritten(d)' <=> AllWritten(d)
    BY <2>1 DEF AllWritten
  <2>8. d \notin unsaved' => d \notin unsaved
    BY UnsavedGrows
  <2> QED
    BY <2>1, <2>2, <2>3, <2>4, <2>5, <2>6, <2>7, <2>8 DEF CallOK
<1>2. CallOK(c)'
  <2>1. /\ pc \in [Calls -> Pcs] /\ fd \in [Calls -> Inodes \cup {0}] /\ kind \in [Calls -> Kinds]
        /\ text \in [Calls -> Texts] /\ pos \in [Calls -> 0 .. Blocks]
        /\ link \in [Paths -> Inodes \cup {0}] /\ data \in [Inodes -> Texts]
        /\ made \in Nat /\ made' \in Nat /\ made' >= made
    <3>1. made \in Nat /\ made' \in Nat /\ made' >= made
      BY MadeStep
    <3> QED
      BY <3>1 DEF IInv, TypeOK
  <2>2. CallOK(c) /\ kind' = kind
    BY Frame DEF IInv, CallInv
  <2> USE DEF Goto, At, Sent, files, locals, history, InReplace
  <2>3. CASE Start(c)
    BY <2>1, <2>2, <2>3 DEF Start, CallOK
  <2>4. CASE OpenRead(c)
    <3>1. link[Target] # 0 /\ link[Target] <= made /\ link[Target] \in Nat
      BY <2>1, <2>4, InodeFacts DEF OpenRead, IInv, NameInv
    <3>2. made' > 0 /\ fd'[c] # 0 /\ pc'[c] = "read"
      BY <2>1, <2>4, <3>1 DEF OpenRead
    <3> QED
      BY <2>2, <2>4, <3>2 DEF OpenRead, CallOK
  <2>5. CASE ReadBlock(c) \/ ReadEnds(c) \/ ReadFails(c)
    BY <2>1, <2>2, <2>5 DEF ReadBlock, ReadEnds, ReadFails, CallOK
  <2>6. CASE CreateTempFails(c) \/ Discard(c) \/ RenameFails(c) \/ RemoveTemp(c)
    BY <2>1, <2>2, <2>6 DEF CreateTempFails, Discard, RenameFails, RemoveTemp, CallOK
  <2>7. CASE CreateTemp(c)
    <3>1. /\ fd'[c] = made + 1 /\ link'[Temp(c)] = made + 1 /\ data' = data
          /\ pos'[c] = 0 /\ text'[c] \in Texts /\ pc'[c] = "writeTemp"
      BY <2>1, <2>7, InodeFacts DEF CreateTemp
    <3>2. made + 1 \in Inodes
      BY <2>1, <2>7, MadeStep DEF CreateTemp
    <3>3. data'[fd'[c]] = <<>>
      BY <2>1, <3>1, <3>2 DEF IInv, NameInv
    <3>4. Wrote(c)'
      BY <3>1, <3>3, WroteNothing
    <3> QED
      BY <2>1, <2>2, <2>7, <3>1, <3>4 DEF CreateTemp, CallOK
  <2>8. CASE RemoveOriginal(c)
    <3>1. UNCHANGED <<data, fd, text, pos, inPlace, made>> /\ link'[Temp(c)] = link[Temp(c)]
          /\ pc[c] = "remove" /\ pc'[c] = "rename"
      BY <2>1, <2>8, InodeFacts DEF RemoveOriginal, RemoveFile
    <3>2. (Wrote(c) => Wrote(c)') /\ (AllWritten(c) => AllWritten(c)') /\ unsaved' = unsaved
      BY <2>8, <3>1 DEF Wrote, AllWritten, RemoveOriginal
    <3> QED
      BY <2>2, <3>1, <3>2 DEF CallOK
  <2>9. CASE Rename(c)
    BY <2>1, <2>2, <2>9 DEF Rename, CallOK
  <2>10. CASE Stat(c) \/ MkStat(c) \/ Mkdir(c) \/ MkVerify(c) \/ OpenWriteFails(c)
    BY <2>1, <2>2, <2>10 DEF Stat, MkStat, Mkdir, MkVerify, OpenWriteFails, CallOK
  <2>11. CASE OpenTruncated(c)
    BY <2>1, <2>2, <2>11 DEF OpenTruncated, CallOK
  <2>12. CASE OpenCreated(c)
    BY <2>1, <2>2, <2>12 DEF OpenCreated, CallOK
  <2>13. CASE WriteBlock(c)
    <3>1. /\ UNCHANGED <<link, pc, fd, text, inPlace, made, unsaved>>
          /\ pc[c] \in {"writeTemp", "write"}
      BY <2>13 DEF WriteBlock
    <3>2. pc[c] = "writeTemp" /\ c \notin unsaved => Wrote(c)'
      BY <2>2, <2>13, WroteStep DEF CallOK
    <3> QED
      BY <2>2, <3>1, <3>2 DEF CallOK
  <2>14. CASE Written(c) \/ WriteFails(c)
    <3>1. UNCHANGED <<data, link, fd, text, pos, inPlace, made, unsaved>>
      BY <2>14 DEF Written, WriteFails
    <3>2. /\ pc[c] = "writeTemp" => pc'[c] = "closeTemp"
          /\ pc[c] = "write" => pc'[c] \in {"removeTemp", "close"}
          /\ pc'[c] = "removeTemp" => kind[c] = "replace" /\ AllWritten(c)
          /\ pc[c] \in {"write", "writeTemp"}
      BY <2>1, <2>14 DEF Written, WriteFails
    <3>3. (Wrote(c) => Wrote(c)') /\ (AllWritten(c) => AllWritten(c)')
      BY <3>1 DEF Wrote, AllWritten
    <3> QED
      BY <2>2, <3>1, <3>2, <3>3 DEF CallOK
  <2>15. CASE Close(c)
    <3>1. /\ UNCHANGED <<link, made, fd, text, pos, inPlace>>
          /\ AllWritten(c) /\ c \notin unsaved' => data' = data /\ c \notin unsaved
          /\ pc[c] \in {"closeTemp", "close"}
          /\ pc[c] = "closeTemp" => pc'[c] = IF AllWritten(c) THEN "remove" ELSE "discard"
          /\ pc[c] = "close" => pc'[c] \in {"done", "failed"}
      BY <2>15, CloseFacts
    <3>2. /\ AllWritten(c)' <=> AllWritten(c)
          /\ data' = data /\ Wrote(c) => Wrote(c)'
      BY <3>1 DEF Wrote, AllWritten
    <3>3. CASE pc[c] = "closeTemp"
      <4>1. AllWritten(c) /\ c \notin unsaved' => Wrote(c)'
        BY <2>2, <3>1, <3>2, <3>3 DEF CallOK
      <4> QED
        BY <2>1, <2>2, <3>1, <3>2, <3>3, <4>1 DEF CallOK
    <3>4. CASE pc[c] = "close"
      BY <2>1, <2>2, <3>1, <3>2, <3>4 DEF CallOK
    <3> QED
      BY <3>1, <3>3, <3>4
  <2> QED
    BY <2>3, <2>4, <2>5, <2>6, <2>7, <2>8, <2>9, <2>10, <2>11, <2>12, <2>13, <2>14,
       <2>15
       DEF Step, Read, Replace, Write
<1> QED
  BY <1>1, <1>2 DEF CallInv

-----------------------------------------------------------------------------
(* A call becomes active when it starts; those it finds active, and then it
   too, are overlapped.                                                    *)
LEMMA ActiveStep ==
    ASSUME IInv, NEW c \in Calls, Step(c)
    PROVE  /\ \A d \in Calls \ {c} : Active(d)' <=> Active(d)
           /\ Active(c)' /\ ~ Active(c) => pc[c] = "start" /\ kind[c] # "read"
           /\ pc[c] \notin {"done", "failed"} /\ pc'[c] # "start"
           /\ overlapped \subseteq overlapped'
           /\ pc[c] = "start" /\ kind[c] # "read" =>
                 \A d \in Calls : Active(d) => c \in overlapped' /\ d \in overlapped'
<1>1. /\ kind' = kind /\ pc \in [Calls -> Pcs]
      /\ \A d \in Calls \ {c} : pc'[d] = pc[d]
  BY Frame DEF IInv, TypeOK
<1>2. pc[c] \notin {"done", "failed"} /\ pc'[c] # "start"
  <2> USE DEF Goto, At, Sent
  <2>1. CASE Start(c) \/ Read(c)
    BY <1>1, <2>1 DEF Start, Read, OpenRead, ReadBlock, ReadEnds, ReadFails
  <2>2. CASE Replace(c)
    BY <1>1, <2>2 DEF Replace, CreateTemp, CreateTempFails, Discard, RemoveOriginal, Rename,
        RenameFails, RemoveTemp
  <2>3. CASE Write(c)
    BY <1>1, <2>3 DEF Write, Stat, MkStat, Mkdir, MkVerify, OpenTruncated, OpenCreated,
        OpenWriteFails, WriteBlock, Written, WriteFails, Close
  <2> QED
    BY <2>1, <2>2, <2>3 DEF Step
<1>3. overlapped \subseteq overlapped'
  BY DEF history, Step, Start, Read, OpenRead, ReadBlock, ReadEnds, ReadFails, Replace,
      CreateTemp, CreateTempFails, Discard, RemoveOriginal, Rename, RenameFails, RemoveTemp,
      Write, Stat, MkStat, Mkdir, MkVerify, OpenTruncated, OpenCreated, OpenWriteFails,
      WriteBlock, Written, WriteFails, Close
<1>4. ASSUME pc[c] = "start", kind[c] # "read"
      PROVE  \A d \in Calls : Active(d) => c \in overlapped' /\ d \in overlapped'
  <2>1. Start(c)
    BY <1>4 DEF At, Sent, Step, Read, OpenRead, ReadBlock, ReadEnds, ReadFails, Replace,
        CreateTemp, CreateTempFails, Discard, RemoveOriginal, Rename, RenameFails,
        RemoveTemp, Write, Stat, MkStat, Mkdir, MkVerify, OpenTruncated, OpenCreated,
        OpenWriteFails, WriteBlock, Written, WriteFails, Close
  <2> QED
    BY <1>4, <2>1 DEF Start
<1> QED
  BY <1>1, <1>2, <1>3, <1>4 DEF Active

LEMMA OverlapStep ==
    ASSUME IInv, NEW c \in Calls, Step(c)
    PROVE  OverlapInv'
<1> SUFFICES ASSUME NEW d \in Calls, NEW e \in Calls, d # e, Active(d)', Active(e)'
             PROVE  d \in overlapped'
  BY DEF OverlapInv
<1>1. Active(d) /\ Active(e) => d \in overlapped
  BY DEF IInv, OverlapInv
<1> QED
  BY <1>1, ActiveStep

(* A call that only reads changes no file.                                 *)
LEMMA ReaderStep ==
    ASSUME IInv, NEW c \in Calls, Step(c), kind[c] = "read"
    PROVE  UNCHANGED <<files, inPlace>>
<1>1. pc[c] \in {"start", "openRead", "read", "done", "failed"}
  BY DEF IInv, CallInv, CallOK
<1>2. Start(c) \/ Read(c)
  BY <1>1 DEF At, Sent, Step, Replace, CreateTemp, CreateTempFails, Discard, RemoveOriginal,
      Rename, RenameFails, RemoveTemp, Write, Stat, MkStat, Mkdir, MkVerify, OpenTruncated,
      OpenCreated, OpenWriteFails, WriteBlock, Written, WriteFails, Close
<1> QED
  BY <1>2 DEF files, history, Start, Read, OpenRead, ReadBlock, ReadEnds, ReadFails

(* While a writing call is active that no other one overlaps, only it and the
   reading calls take steps.                                               *)
LEMMA SoleWriter ==
    ASSUME IInv, NEW c \in Calls, Step(c), NEW d \in Calls \ {c},
           Active(d)', d \notin overlapped'
    PROVE  Active(d) /\ d \notin overlapped /\ kind[c] = "read"
<1>1. Active(d) /\ d \notin overlapped
  BY ActiveStep
<1>2. ~ Active(c)
  BY <1>1 DEF IInv, OverlapInv
<1>3. pc[c] = "start" => kind[c] = "read"
  BY <1>1, ActiveStep
<1> QED
  BY <1>1, <1>2, <1>3, ActiveStep DEF Active

LEMMA SoleStep ==
    ASSUME IInv, NEW c \in Calls, Step(c)
    PROVE  SoleInv'
<1>1. ASSUME NEW d \in Calls \ {c} PROVE SoleOK(d)'
  <2> SUFFICES ASSUME Active(d)', d \notin overlapped' PROVE SoleOK(d)'
    BY DEF SoleOK
  <2>1. UNCHANGED files /\ Active(d) /\ d \notin overlapped
    BY SoleWriter, ReaderStep
  <2>2. /\ pc'[d] = pc[d] /\ fd'[d] = fd[d] /\ text'[d] = text[d] /\ pos'[d] = pos[d]
    BY Frame DEF IInv
  <2>3. SoleOK(d)
    BY DEF IInv, SoleInv
  <2> QED
    BY <2>1, <2>2, <2>3 DEF files, SoleOK, Text, Wrote
<1>2. SoleOK(c)'
  <2> SUFFICES ASSUME Active(c)', c \notin overlapped' PROVE SoleOK(c)'
    BY DEF SoleOK
  <2>1. /\ pc \in [Calls -> Pcs] /\ fd \in [Calls -> Inodes \cup {0}]
        /\ text \in [Calls -> Texts] /\ pos \in [Calls -> 0 .. Blocks]
        /\ link \in [Paths -> Inodes \cup {0}] /\ data \in [Inodes -> Texts]
        /\ kind' = kind /\ Target \in Paths
    BY Frame, InodeFacts DEF IInv, TypeOK
  <2>2. Active(c) => SoleOK(c) /\ c \notin overlapped
    BY ActiveStep DEF IInv, SoleInv
  <2> USE DEF Goto, At, Sent, files, locals, history
  <2>3. CASE pc'[c] \notin {"write", "removeTemp", "close"}
    BY <2>3 DEF SoleOK
  <2>4. CASE OpenTruncated(c)
    <3>1. /\ fd'[c] = link[Target] /\ link' = link /\ pos'[c] = 0 /\ text'[c] \in Texts
          /\ data'[fd'[c]] = <<>> /\ pc'[c] = "write"
      BY <2>1, <2>4 DEF OpenTruncated
    <3> QED
      BY <3>1, WroteNothing DEF SoleOK
  <2>5. CASE OpenCreated(c)
    <3>1. /\ fd'[c] = made + 1 /\ link'[Target] = made + 1 /\ pos'[c] = 0
          /\ text'[c] \in Texts /\ data' = data /\ pc'[c] = "write" /\ made' = made + 1
      BY <2>1, <2>5 DEF OpenCreated
    <3>2. made + 1 \in Inodes /\ made \in Nat
      BY <3>1, MadeStep, InodeFacts
    <3>3. data'[fd'[c]] = <<>>
      BY <3>1, <3>2 DEF IInv, NameInv
    <3> QED
      BY <3>1, <3>3, WroteNothing DEF SoleOK
  <2>6. CASE WriteBlock(c)
    <3>1. UNCHANGED <<link, pc, fd, text>> /\ pc[c] \in {"writeTemp", "write"} /\ fd[c] # 0
      BY <2>6 DEF WriteBlock, IInv, CallInv, CallOK
    <3>2. pc[c] = "write" => fd[c] = link[Target] /\ Wrote(c)
      BY <2>2, <3>1 DEF SoleOK, Active, IInv, CallInv, CallOK
    <3>3. pc[c] = "write" => Wrote(c)'
      BY <2>6, <3>1, <3>2, WroteStep
    <3> QED
      BY <3>1, <3>2, <3>3 DEF SoleOK
  <2>7. CASE (Written(c) \/ WriteFails(c) \/ RemoveTemp(c)) /\ pc'[c] \in {"removeTemp", "close"}
    <3>1. /\ pc[c] \in {"write", "removeTemp"}
          /\ UNCHANGED <<data, fd, text, pos>> /\ link'[Target] = link[Target]
      BY <2>1, <2>7, InodeFacts DEF Written, WriteFails, RemoveTemp, RemoveFile
    <3>2. kind[c] # "read" /\ (pc[c] = "removeTemp" => AllWritten(c))
      BY <3>1 DEF IInv, CallInv, CallOK
    <3>3. fd[c] = link[Target] /\ Wrote(c)
      BY <2>2, <3>1, <3>2 DEF SoleOK, Active
    <3> QED
      BY <3>1, <3>3 DEF SoleOK, Wrote
  <2>8. ASSUME pc'[c] \in {"write", "removeTemp", "close"}
        PROVE  OpenTruncated(c) \/ OpenCreated(c) \/ WriteBlock(c)
                 \/ ((Written(c) \/ WriteFails(c) \/ RemoveTemp(c))
                     /\ pc'[c] \in {"removeTemp", "close"})
    <3>1. CASE Start(c) \/ Read(c)
      BY <2>1, <2>8, <3>1 DEF Start, Read, OpenRead, ReadBlock, ReadEnds, ReadFails
    <3>2. CASE Replace(c)
      BY <2>1, <2>8, <3>2 DEF Replace, CreateTemp, CreateTempFails, Discard, RemoveOriginal,
          Rename, RenameFails, RemoveTemp
    <3>3. CASE Stat(c) \/ MkStat(c) \/ Mkdir(c) \/ MkVerify(c) \/ OpenWriteFails(c)
               \/ Written(c) \/ WriteFails(c)
      BY <2>1, <2>8, <3>3 DEF Stat, MkStat, Mkdir, MkVerify, OpenWriteFails, Written,
          WriteFails
    <3>4. ~ Close(c)
      BY <2>8, CloseFacts
    <3> QED
      BY <3>1, <3>2, <3>3, <3>4 DEF Step, Write
  <2> QED
    BY <2>3, <2>4, <2>5, <2>6, <2>7, <2>8
<1> QED
  BY <1>1, <1>2 DEF SoleInv

-----------------------------------------------------------------------------
LEMMA NextIInv == IInv /\ [Next]_vars => IInv'
<1> SUFFICES ASSUME IInv, [Next]_vars PROVE IInv'
  OBVIOUS
<1>1. ASSUME NEW c \in Calls, Step(c) PROVE IInv'
  <2>1. TypeOK'
    BY <1>1, ReadTypes, WriteTypes DEF Step
  <2>2. NameInv' /\ MadeInv' /\ CallInv'
    BY <1>1, NameStep, MadeStep, CallStep
  <2>3. OverlapInv' /\ SoleInv'
    BY <1>1, OverlapStep, SoleStep
  <2> QED
    BY <2>1, <2>2, <2>3 DEF IInv
<1>2. CASE ConnectionLost \/ UNCHANGED vars
  <2>1. UNCHANGED <<files, pc, kind, fd, text, pos, history>>
    BY <1>2 DEF ConnectionLost, vars, locals
  <2>2. TypeOK'
    <3>1. up' \in [Calls -> BOOLEAN]
      BY <1>2 DEF ConnectionLost, vars, locals, IInv, TypeOK
    <3> QED
      BY <2>1, <3>1 DEF IInv, TypeOK, files, history
  <2>3. NameInv' /\ MadeInv'
    BY <2>1 DEF IInv, NameInv, MadeInv, TempSpent, OpenSpent, files
  <2>4. CallInv' /\ OverlapInv' /\ SoleInv'
    BY <2>1 DEF IInv, CallInv, CallOK, OverlapInv, SoleInv, SoleOK, Wrote, AllWritten, Active,
        files, history
  <2> QED
    BY <2>2, <2>3, <2>4 DEF IInv
<1> QED
  BY <1>1, <1>2 DEF Next, Step

LEMMA Invariance == Spec => []IInv
  BY InitIInv, NextIInv, PTL DEF Spec

(* The variables have their types; in particular two inodes for each call are
   room enough, and no file ever has more blocks than a text.              *)
THEOREM TypeCorrect == Spec => []TypeOK
<1>1. IInv => TypeOK
  BY DEF IInv
<1> QED
  BY <1>1, Invariance, PTL

(* A writing call that no other one overlaps reports success only when the
   file holds exactly the text that the call meant it to hold, or when blocks
   whose writing was acknowledged were dropped at its CLOSE.               *)
THEOREM SuccessWritten == Spec => SuccessMeansWritten
<1>1. IInv /\ [Next]_vars =>
         [\A c \in Calls : pc[c] # "done" /\ pc'[c] = "done" /\ kind[c] # "read"
                             /\ c \notin overlapped \cup unsaved'
                             => Text(Target)' = text[c]]_vars
  <2> SUFFICES ASSUME IInv, Next, NEW c \in Calls, pc[c] # "done", pc'[c] = "done",
                      kind[c] # "read", c \notin overlapped \cup unsaved'
               PROVE  Text(Target)' = text[c]
    BY DEF Next
  <2>1. Step(c)
    BY Frame DEF IInv, Next, Step, ConnectionLost
  <2>2. /\ pc \in [Calls -> Pcs] /\ fd \in [Calls -> Inodes \cup {0}]
        /\ text \in [Calls -> Texts] /\ link \in [Paths -> Inodes \cup {0}]
        /\ data \in [Inodes -> Texts]
        /\ Target \in Paths /\ Temp(c) \in Paths /\ Temp(c) # Target
    BY InodeFacts DEF IInv, TypeOK
  <2>3. CallOK(c) /\ SoleOK(c)
    BY DEF IInv, CallInv, SoleInv
  <2> USE DEF Goto, At, Sent, files, locals, history
  <2>4. c \notin unsaved
    BY <2>1, UnsavedGrows
  <2>5. Close(c) \/ Rename(c)
    <3>1. ~ Start(c)
      BY <2>2 DEF Start
    <3>2. ~ Read(c)
      BY <2>2 DEF Read, OpenRead, ReadBlock, ReadEnds, ReadFails
    <3>3. ~ (CreateTemp(c) \/ CreateTempFails(c) \/ Discard(c) \/ RemoveOriginal(c)
             \/ RenameFails(c) \/ RemoveTemp(c))
      BY <2>2 DEF CreateTemp, CreateTempFails, Discard, RemoveOriginal, RenameFails, RemoveTemp
    <3>4. ~ (Stat(c) \/ MkStat(c) \/ Mkdir(c) \/ MkVerify(c) \/ OpenTruncated(c)
             \/ OpenCreated(c) \/ OpenWriteFails(c) \/ WriteBlock(c) \/ Written(c)
             \/ WriteFails(c))
      BY <2>2 DEF Stat, MkStat, Mkdir, MkVerify, OpenTruncated, OpenCreated, OpenWriteFails,
          WriteBlock, Written, WriteFails
    <3> QED
      BY <2>1, <3>1, <3>2, <3>3, <3>4 DEF Step, Replace, Write
  <2>6. ASSUME fd[c] # 0, Wrote(c), AllWritten(c)
        PROVE  data[fd[c]] = text[c]
    <3>1. data[fd[c]] \in Texts /\ text[c] \in Texts
      BY <2>2, <2>6
    <3> QED
      BY <2>6, <3>1, TextsEqual DEF Wrote, AllWritten
  <2>7. CASE Close(c)
    <3>1. pc[c] = "close" /\ AllWritten(c) /\ link' = link
      BY <2>7, CloseFacts
    <3>2. data' = data
      BY <2>7, <3>1, CloseFacts
    <3>3. fd[c] # 0 /\ fd[c] = link[Target] /\ Wrote(c)
      BY <2>3, <3>1 DEF CallOK, SoleOK, Active
    <3> QED
      BY <2>6, <3>1, <3>2, <3>3 DEF Text
  <2>8. CASE Rename(c)
    <3>1. pc[c] = "rename" /\ link'[Target] = link[Temp(c)] /\ data' = data
      BY <2>2, <2>8 DEF Rename
    <3>2. fd[c] # 0 /\ fd[c] = link[Temp(c)] /\ Wrote(c) /\ AllWritten(c)
      BY <2>3, <2>4, <3>1 DEF CallOK
    <3> QED
      BY <2>6, <3>1, <3>2 DEF Text
  <2> QED
    BY <2>5, <2>7, <2>8
<1> QED
  BY <1>1, Invariance, PTL DEF Spec, SuccessMeansWritten

-----------------------------------------------------------------------------
(* Nobody removes the file as long as there are no replacements.           *)
LEMMA NewStep ==
    ASSUME IInv, NewInv, NEW c \in Calls, Step(c)
    PROVE  NewInv'
<1>1. /\ pc \in [Calls -> Pcs] /\ kind' = kind
      /\ \A d \in Calls \ {c} : pc'[d] = pc[d]
      /\ link \in [Paths -> Inodes \cup {0}] /\ Target \in Paths
  BY Frame, InodeFacts DEF IInv, TypeOK
<1> SUFFICES ASSUME Only(Kinds \ {"replace"})
             PROVE  /\ News' # {} => link'[Target] # 0
                    /\ \A a, b \in News' : a = b
  BY <1>1 DEF NewInv, Only
<1>2. kind[c] # "replace" /\ pc[c] \notin InReplace
  BY DEF Only, IInv, CallInv, CallOK
<1>3. (News # {} => link[Target] # 0) /\ \A a, b \in News : a = b
  BY DEF NewInv
<1>4. ~ Replace(c)
  BY <1>2 DEF At, Sent, InReplace, Replace, CreateTemp, CreateTempFails, Discard,
      RemoveOriginal, Rename, RenameFails, RemoveTemp
<1> USE DEF Goto, At, Sent, files, locals, history
<1>5. CASE OpenCreated(c)
  <2>1. link[Target] = 0 /\ link'[Target] = made + 1 /\ made \in Nat
    BY <1>1, <1>5, MadeStep DEF OpenCreated
  <2>2. News' \subseteq News \cup {c}
    BY <1>1 DEF News
  <2> QED
    BY <1>3, <2>1, <2>2
<1>6. CASE ~ OpenCreated(c)
  <2>1. link' = link
    BY <1>4, <1>6, CloseFacts DEF Step, Start, Read, OpenRead, ReadBlock, ReadEnds, ReadFails, Write,
        Stat, MkStat, Mkdir, MkVerify, OpenTruncated, OpenWriteFails, WriteBlock, Written,
        WriteFails
  <2>2. ASSUME pc'[c] \in {"write", "close", "done"}, kind[c] = "uploadNew"
        PROVE  pc[c] \in {"write", "close"}
    <3>1. ~ Start(c)
      BY <1>1, <2>2 DEF Start
    <3>2. ~ Read(c)
      BY <1>1, <2>2 DEF Read, OpenRead, ReadBlock, ReadEnds, ReadFails, IInv, CallInv, CallOK
    <3>3. ~ (Stat(c) \/ MkStat(c) \/ Mkdir(c) \/ MkVerify(c) \/ OpenTruncated(c)
             \/ OpenWriteFails(c))
      BY <1>1, <2>2 DEF Stat, MkStat, Mkdir, MkVerify, OpenTruncated, OpenWriteFails
    <3>4. WriteBlock(c) \/ Written(c) \/ WriteFails(c) \/ Close(c)
      BY <1>4, <1>6, <3>1, <3>2, <3>3 DEF Step, Write
    <3>5. pc[c] \in {"writeTemp", "write", "closeTemp", "close"}
      BY <3>4, CloseFacts DEF WriteBlock, Written, WriteFails
    <3> QED
      BY <1>2, <3>5 DEF InReplace
  <2>3. News' \subseteq News
    BY <1>1, <2>2 DEF News
  <2> QED
    BY <1>3, <2>1, <2>3
<1> QED
  BY <1>5, <1>6

(* Of the uploads that must not overwrite the file, at most one reports
   success: O_EXCL lets one of them create it, and the others find it.     *)
THEOREM NewOnce == Spec => []NewFileOnce
<1>1. Init => NewInv
  BY DEF Init, NewInv, News
<1>2. IInv /\ NewInv /\ [Next]_vars => NewInv'
  <2> SUFFICES ASSUME IInv, NewInv, [Next]_vars PROVE NewInv'
    OBVIOUS
  <2>1. CASE ConnectionLost \/ UNCHANGED vars
    <3>1. UNCHANGED <<link, pc, kind>>
      BY <2>1 DEF ConnectionLost, vars, files, locals
    <3> QED
      BY <3>1 DEF NewInv, News, Only
  <2> QED
    BY <2>1, NewStep DEF Next, Step
<1>3. NewInv => NewFileOnce
  <2> SUFFICES ASSUME NewInv, Only(Kinds \ {"replace"})
               PROVE  Cardinality({c \in Calls : pc[c] = "done" /\ kind[c] = "uploadNew"}) <= 1
    BY DEF NewFileOnce
  <2> DEFINE S == {c \in Calls : pc[c] = "done" /\ kind[c] = "uploadNew"}
  <2>1. \A c, d \in S : c = d
    BY DEF NewInv, News
  <2>2. S = {} \/ \E c : S = {c}
    BY <2>1
  <2> HIDE DEF S
  <2>3. Cardinality(S) \in {0, 1}
    BY <2>2, FS_EmptySet, FS_Singleton
  <2>4. \A n \in {0, 1} : n <= 1
    OBVIOUS
  <2>5. Cardinality(S) <= 1
    BY <2>3, <2>4, Zenon
  <2> QED
    BY <2>5 DEF S
<1> QED
  BY <1>1, <1>2, <1>3, Invariance, PTL DEF Spec

-----------------------------------------------------------------------------
(* A reading that has come to the end of a text has read that text.        *)
LEMMA BeginsFacts ==
    ASSUME NEW s \in Texts, NEW t \in Texts, Begins(s, t)
    PROVE  /\ Len(s) >= Len(t) => s = t
           /\ Len(s) < Len(t) => Begins(Append(s, t[Len(s) + 1]), t)
<1>1. /\ s \in Seq(Versions) /\ Len(s) \in 0 .. Blocks /\ Len(t) \in 0 .. Blocks
      /\ \A j \in 1 .. Len(t) : t[j] \in Versions
  BY TextFacts
<1>2. Len(s) <= Len(t) /\ \A j \in 1 .. Len(s) : s[j] = t[j]
  BY DEF Begins
<1>3. ASSUME Len(s) >= Len(t) PROVE s = t
  <2>1. Len(s) = Len(t)
    BY <1>1, <1>2, <1>3 DEF Blocks
  <2> QED
    BY <1>2, <2>1, TextsEqual
<1>4. ASSUME Len(s) < Len(t) PROVE Begins(Append(s, t[Len(s) + 1]), t)
  <2> DEFINE n == Len(s) + 1
             u == Append(s, t[n])
  <2>1. n \in 1 .. Len(t) /\ t[n] \in Versions
    BY <1>1, <1>4 DEF Blocks
  <2>2. Len(u) = n /\ u[n] = t[n] /\ \A j \in 1 .. Len(s) : u[j] = s[j]
    BY <1>1, <2>1
  <2>3. \A j \in 1 .. n : j = n \/ j \in 1 .. Len(s)
    BY <1>1 DEF Blocks
  <2> HIDE DEF n, u
  <2>4. \A j \in 1 .. n : u[j] = t[j]
    BY <1>2, <2>2, <2>3
  <2>5. n <= Len(t)
    BY <1>1, <2>1 DEF Blocks
  <2>6. Begins(u, t)
    BY <2>2, <2>4, <2>5 DEF Begins
  <2> QED
    BY <2>6 DEF u, n
<1> QED
  BY <1>3, <1>4

LEMMA BeginsEmpty ==
    ASSUME NEW t \in Texts
    PROVE  Begins(<<>>, t)
<1>1. Len(t) \in 0 .. Blocks
  BY TextFacts
<1>2. Len(<<>>) = 0
  OBVIOUS
<1>3. 0 <= Len(t) /\ \A j \in 1 .. 0 : FALSE
  BY <1>1 DEF Blocks
<1> QED
  BY <1>2, <1>3, SMT DEF Begins

(* The edit of a whole text is one.                                        *)
LEMMA EditedWhole ==
    ASSUME NEW c \in Calls, text[c] \in Texts, Whole(text[c])
    PROVE  Whole(Edited(c))
<1>1. DOMAIN text[c] = 1 .. 2 /\ text[c][1] = text[c][2] /\ text[c][1] \cap Hole = {}
  BY TextFacts DEF Whole, Blocks
<1>2. Edited(c) = [i \in 1 .. 2 |-> text[c][i] \cup {c}]
  BY <1>1 DEF Edited
<1>3. Edited(c)[1] = text[c][1] \cup {c} /\ Edited(c)[2] = text[c][2] \cup {c}
  BY <1>2
<1>4. Len(Edited(c)) = 2
  BY <1>2
<1>5. Edited(c)[1] \cap Hole = {}
  BY <1>1, <1>3, FilesAssumption
<1> QED
  BY <1>1, <1>3, <1>4, <1>5 DEF Whole, Blocks

(* Where nobody writes in place, a step changes the text of no inode but of
   the temporary file that is being written.                               *)
LEMMA DataStep ==
    ASSUME IInv, NEW c \in Calls, Step(c)
    PROVE  \/ UNCHANGED data
           \/ /\ pc[c] \in {"writeTemp", "closeTemp"} /\ link' = link
              /\ \E t : data' = [data EXCEPT ![link[Temp(c)]] = t]
           \/ c \in inPlace'
<1> USE DEF Goto, At, Sent, files, locals, history
<1>1. CASE WriteBlock(c) \/ Close(c)
  <2>1. /\ pc[c] \in {"writeTemp", "closeTemp", "write", "close"} /\ UNCHANGED <<link, inPlace>>
        /\ \E t : data' = [data EXCEPT ![fd[c]] = t]
    BY <1>1, CloseFacts DEF WriteBlock
  <2>2. pc[c] \in {"writeTemp", "closeTemp"} => fd[c] = link[Temp(c)]
    BY DEF IInv, CallInv, CallOK
  <2>3. pc[c] \in {"write", "close"} => c \in inPlace
    BY DEF IInv, CallInv, CallOK
  <2> QED
    BY <2>1, <2>2, <2>3
<1>2. CASE OpenTruncated(c)
  BY <1>2 DEF OpenTruncated
<1>3. CASE Start(c) \/ Read(c)
  BY <1>3 DEF Start, Read, OpenRead, ReadBlock, ReadEnds, ReadFails
<1>4. CASE Replace(c)
  BY <1>4 DEF Replace, CreateTemp, CreateTempFails, Discard, RemoveOriginal, Rename,
      RenameFails, RemoveTemp
<1>5. CASE Write(c) /\ ~ WriteBlock(c) /\ ~ Close(c) /\ ~ OpenTruncated(c)
  BY <1>5 DEF Write, Stat, MkStat, Mkdir, MkVerify, OpenCreated, OpenWriteFails, Written,
      WriteFails
<1> QED
  BY <1>1, <1>2, <1>3, <1>4, <1>5 DEF Step

LEMMA InPlaceGrows ==
    ASSUME IInv, NEW c \in Calls, Step(c)
    PROVE  /\ inPlace \subseteq inPlace'
           /\ OpenTruncated(c) \/ OpenCreated(c) => c \in inPlace'
  BY DEF history, Step, Start, Read, OpenRead, ReadBlock, ReadEnds, ReadFails, Replace,
      CreateTemp, CreateTempFails, Discard, RemoveOriginal, Rename, RenameFails,
      RemoveTemp, Write, Stat, MkStat, Mkdir, MkVerify, OpenTruncated, OpenCreated,
      OpenWriteFails, WriteBlock, Written, WriteFails, Close

(* What the readings and the edits of one call come to.  The inode that a
   reading has open stays what it is.                                      *)
ReadOK(c) ==
    /\ pc[c] = "read" => Whole(data[fd[c]]) /\ Begins(text[c], data[fd[c]])
    /\ pc[c] \in {"createTemp", "writeTemp", "closeTemp", "remove", "rename"} => Whole(text[c])
    /\ pc[c] = "done" /\ kind[c] = "read" => Whole(text[c])

LEMMA ReadOKStep ==
    ASSUME IInv, NEW c \in Calls, Step(c), ReadOK(c), link[Target] # 0 => Whole(Text(Target)),
           inPlace' = {}
    PROVE  ReadOK(c)'
<1>1. /\ pc \in [Calls -> Pcs] /\ fd \in [Calls -> Inodes \cup {0}] /\ text \in [Calls -> Texts]
      /\ link \in [Paths -> Inodes \cup {0}] /\ data \in [Inodes -> Texts]
      /\ kind' = kind /\ Target \in Paths
  BY Frame, InodeFacts DEF IInv, TypeOK
<1>2. CallOK(c)
  BY DEF IInv, CallInv
<1> USE DEF Goto, At, Sent, files, locals, history
<1>3. CASE Start(c)
  BY <1>1, <1>2, <1>3 DEF Start, ReadOK
<1>4. CASE OpenRead(c)
  <2>1. /\ fd'[c] = link[Target] /\ link[Target] # 0 /\ UNCHANGED <<link, data, text>>
        /\ pc[c] = "openRead" /\ pc'[c] = "read"
    BY <1>1, <1>4 DEF OpenRead
  <2>2. text[c] = <<>> /\ data[link[Target]] \in Texts
    BY <1>1, <1>2, <2>1 DEF CallOK
  <2>3. Begins(text[c], data[link[Target]])
    BY <2>2, BeginsEmpty
  <2> QED
    BY <2>1, <2>3 DEF ReadOK, Text
<1>5. CASE ReadBlock(c)
  <2>1. /\ pc[c] = "read" /\ pc' = pc /\ UNCHANGED <<data, fd>>
        /\ Len(text[c]) < Len(data[fd[c]])
        /\ text'[c] = Append(text[c], data[fd[c]][Len(text[c]) + 1])
    BY <1>1, <1>5 DEF ReadBlock
  <2>2. text[c] \in Texts /\ data[fd[c]] \in Texts
    BY <1>1, <1>2, <2>1 DEF CallOK
  <2>3. Begins(text'[c], data[fd[c]])
    BY <2>1, <2>2, BeginsFacts DEF ReadOK
  <2> QED
    BY <2>1, <2>3 DEF ReadOK
<1>6. CASE ReadEnds(c)
  <2>1. /\ pc[c] = "read" /\ UNCHANGED <<data, fd>> /\ Len(text[c]) >= Len(data[fd[c]])
        /\ \/ pc'[c] = "done" /\ text'[c] = text[c]
           \/ pc'[c] = "createTemp" /\ text'[c] = Edited(c)
    BY <1>1, <1>6 DEF ReadEnds
  <2>2. text[c] \in Texts /\ data[fd[c]] \in Texts
    BY <1>1, <1>2, <2>1 DEF CallOK
  <2>3. Whole(text[c])
    BY <2>1, <2>2, BeginsFacts DEF ReadOK
  <2>4. Whole(text'[c])
    BY <2>1, <2>2, <2>3, EditedWhole
  <2> QED
    BY <2>1, <2>4 DEF ReadOK
<1>7. CASE ReadFails(c)
  BY <1>1, <1>7 DEF ReadFails, ReadOK
<1>8. CASE Replace(c)
  <2>1. text' = text
    BY <1>8 DEF Replace, CreateTemp, CreateTempFails, Discard, RemoveOriginal, Rename,
        RenameFails, RemoveTemp
  <2>2. /\ pc[c] \in InReplace
        /\ pc'[c] \in {"writeTemp", "rename"} => pc[c] \in {"createTemp", "remove"}
        /\ pc'[c] \in {"writeTemp", "rename", "close", "failed", "done", "openWrite"}
    BY <1>1, <1>8 DEF Replace, CreateTemp, CreateTempFails, Discard, RemoveOriginal, Rename,
        RenameFails, RemoveTemp, InReplace
  <2> QED
    BY <1>1, <1>2, <2>1, <2>2 DEF ReadOK, CallOK, InReplace
<1>9. CASE Write(c) /\ ~ Close(c)
  <2>1. text' = text
    BY <1>9 DEF Write, Stat, MkStat, Mkdir, MkVerify, OpenTruncated, OpenCreated,
        OpenWriteFails, WriteBlock, Written, WriteFails
  <2>2. /\ pc'[c] \notin {"read", "createTemp"}
        /\ pc'[c] \in {"writeTemp", "closeTemp", "remove", "rename"} => pc[c] = "writeTemp"
        /\ pc[c] \notin {"read", "start", "openRead"}
    BY <1>1, <1>9 DEF Write, Stat, MkStat, Mkdir, MkVerify, OpenTruncated, OpenCreated,
        OpenWriteFails, WriteBlock, Written, WriteFails
  <2>3. kind[c] # "read"
    BY <1>2, <1>9 DEF CallOK, Write, Stat, MkStat, Mkdir, MkVerify, OpenTruncated,
        OpenCreated, OpenWriteFails, WriteBlock, Written, WriteFails
  <2> QED
    BY <1>1, <2>1, <2>2, <2>3 DEF ReadOK
<1>10. CASE Close(c)
  <2>1. /\ text' = text /\ pc[c] \in {"closeTemp", "close"} /\ kind[c] # "read"
        /\ pc'[c] \in {"remove", "discard", "done", "failed"}
        /\ pc'[c] = "remove" => pc[c] = "closeTemp"
    BY <1>2, <1>10, CloseFacts DEF CallOK
  <2> QED
    BY <1>1, <2>1 DEF ReadOK
<1> QED
  BY <1>3, <1>4, <1>5, <1>6, <1>7, <1>8, <1>9, <1>10 DEF Step, Read

LEMMA ReadStep ==
    ASSUME IInv, ReadInv, NEW c \in Calls, Step(c)
    PROVE  ReadInv'
<1> SUFFICES ASSUME inPlace' = {}, unsaved' = {} PROVE ReadInv'
  BY DEF ReadInv
<1>1. /\ inPlace = {} /\ unsaved = {} /\ ~ OpenTruncated(c) /\ ~ OpenCreated(c)
  BY InPlaceGrows, UnsavedGrows
<1>2. (link[Target] # 0 => Whole(Text(Target))) /\ \A d \in Calls : ReadOK(d)
  BY <1>1 DEF ReadInv, ReadOK, Text
<1>3. /\ link \in [Paths -> Inodes \cup {0}] /\ data \in [Inodes -> Texts]
      /\ fd \in [Calls -> Inodes \cup {0}] /\ text \in [Calls -> Texts]
      /\ Target \in Paths /\ Temp(c) \in Paths /\ Temp(c) # Target
  BY InodeFacts DEF IInv, TypeOK
<1>4. \A i \in Inodes : i # link[Temp(c)] \/ pc[c] \notin {"writeTemp", "closeTemp"}
                          => data'[i] = data[i]
  BY <1>3, DataStep
<1>5. pc[c] \in {"writeTemp", "closeTemp"} => link[Temp(c)] # 0
  BY DEF IInv, CallInv, CallOK
<1>6. ASSUME NEW d \in Calls \ {c} PROVE ReadOK(d)'
  <2>1. /\ pc'[d] = pc[d] /\ kind' = kind /\ fd'[d] = fd[d] /\ text'[d] = text[d]
    BY Frame DEF IInv
  <2>2. pc[d] = "read" => fd[d] \in Inodes
    BY <1>3 DEF IInv, CallInv, CallOK
  <2>3. pc[d] = "read" => data'[fd[d]] = data[fd[d]]
    BY <1>4, <1>5, <2>2 DEF IInv, NameInv
  <2> QED
    BY <1>2, <2>1, <2>3 DEF ReadOK
<1>7. ReadOK(c)'
  BY <1>2, ReadOKStep
<1>8. link'[Target] # 0 => Whole(data'[link'[Target]])
  <2>1. CASE Rename(c)
    <3>1. link'[Target] = link[Temp(c)] /\ data' = data /\ pc[c] = "rename"
      BY <1>3, <2>1 DEF Rename, Sent, At
    <3>2. fd[c] # 0 /\ fd[c] = link[Temp(c)] /\ Wrote(c) /\ AllWritten(c)
      BY <1>1, <3>1 DEF IInv, CallInv, CallOK
    <3>3. data[fd[c]] \in Texts /\ text[c] \in Texts
      BY <1>3, <3>2
    <3>4. data[fd[c]] = text[c]
      BY <3>2, <3>3, TextsEqual DEF Wrote, AllWritten
    <3> QED
      BY <1>2, <3>1, <3>2, <3>4 DEF ReadOK
  <2>2. CASE ~ Rename(c)
    <3>1. link'[Target] \in {link[Target], 0}
      BY <1>1, <1>3, <2>2, CloseFacts DEF files, Step, Start, Read, OpenRead, ReadBlock, ReadEnds,
          ReadFails, Replace, CreateTemp, CreateTempFails, Discard, RemoveOriginal,
          RemoveFile, RenameFails, RemoveTemp, Write, Stat, MkStat, Mkdir, MkVerify,
          OpenWriteFails, WriteBlock, Written, WriteFails
    <3>2. link[Target] # 0 => data'[link[Target]] = data[link[Target]]
      BY <1>3, <1>4, <1>5 DEF IInv, NameInv
    <3> QED
      BY <1>2, <3>1, <3>2 DEF Text
  <2> QED
    BY <2>1, <2>2
<1> QED
  BY <1>6, <1>7, <1>8 DEF ReadInv, ReadOK

(* A call that has read the file without an error has read one whole text,
   as long as no call has written the file in place and no server has dropped
   blocks at a CLOSE: replacements, however they interleave, never show a
   reader a part of a text.                                                *)
THEOREM WholeRead == Spec => []ReadsWholeText
<1>1. Init => ReadInv
  <2> SUFFICES ASSUME Init PROVE ReadInv
    OBVIOUS
  <2>1. \A c \in Calls : pc[c] = "start"
    BY DEF Init
  <2>2. Whole(<<{}, {}>>)
    BY DEF Whole, Blocks
  <2>3. ASSUME link[Target] # 0 PROVE Whole(data[link[Target]])
    <3>1. made \in {0, 1} /\ link[Target] = made
      BY InodeFacts DEF Init
    <3>2. data[1] = <<{}, {}>> /\ link[Target] = 1
      BY <2>3, <3>1, InodeFacts DEF Init
    <3> QED
      BY <2>2, <3>2
  <2> QED
    BY <2>1, <2>3 DEF ReadInv
<1>2. IInv /\ ReadInv /\ [Next]_vars => ReadInv'
  <2> SUFFICES ASSUME IInv, ReadInv, [Next]_vars PROVE ReadInv'
    OBVIOUS
  <2>1. CASE ConnectionLost \/ UNCHANGED vars
    <3>1. UNCHANGED <<files, pc, kind, fd, text, inPlace, unsaved>>
      BY <2>1 DEF ConnectionLost, vars, locals, history
    <3> QED
      BY <3>1 DEF ReadInv, files
  <2> QED
    BY <2>1, ReadStep DEF Next, Step
<1>3. ReadInv => ReadsWholeText
  BY DEF ReadInv, ReadsWholeText
<1> QED
  BY <1>1, <1>2, <1>3, Invariance, PTL DEF Spec

-----------------------------------------------------------------------------
(* The temporary file of a replacement that has been written holds its text. *)
LEMMA TempHolds ==
    ASSUME IInv, NEW c \in Calls, pc[c] \in {"remove", "rename"}, c \notin unsaved
    PROVE  Text(Temp(c)) = text[c]
<1>1. fd[c] # 0 /\ fd[c] = link[Temp(c)] /\ Wrote(c) /\ AllWritten(c)
  BY DEF IInv, CallInv, CallOK
<1>2. data[fd[c]] \in Texts /\ text[c] \in Texts
  BY <1>1 DEF IInv, TypeOK
<1>3. data[fd[c]] = text[c]
  BY <1>1, <1>2, TextsEqual DEF Wrote, AllWritten
<1> QED
  BY <1>1, <1>3 DEF Text

LEMMA WholeThere ==
    ASSUME NEW p \in Paths, Whole(Text(p))
    PROVE  link[p] # 0
<1>1. Len(<<>>) = 0
  OBVIOUS
<1>2. ~ Whole(<<>>)
  BY <1>1 DEF Whole, Blocks
<1> QED
  BY <1>2 DEF Text

(* What a finished replacement has left behind stays.                      *)
LEMMA SavedStep ==
    ASSUME IInv, NEW c \in Calls, Step(c), Saved
    PROVE  Saved'
<1>1. PICK d \in Calls : pc[d] \in {"done", "failed"} /\ Whole(Text(Temp(d)))
  BY DEF Saved
<1>2. d # c
  BY <1>1, ActiveStep
<1>3. pc'[d] = pc[d]
  BY <1>2, Frame DEF IInv
<1>4. link[Temp(d)] # 0
  BY <1>1, WholeThere, InodeFacts
<1>5. Text(Temp(d))' = Text(Temp(d))
  BY <1>2, <1>4, TempKept DEF Text
<1>6. pc'[d] \in {"done", "failed"} /\ Whole(Text(Temp(d)))'
  BY <1>1, <1>3, <1>5 DEF Whole
<1> QED
  BY <1>6 DEF Saved

(* The steps of a replacement that no other one overlaps.                  *)
LEMMA KeptOKStep ==
    ASSUME IInv, NEW c \in Calls, Step(c), kind[c] = "replace", Active(c), KeptOK(c),
           c \notin overlapped, c \notin unsaved'
    PROVE  \/ Saved'
           \/ KeptOK(c)' /\ (~ Active(c)' => Whole(Text(Target))')
<1>1. /\ pc \in [Calls -> Pcs] /\ fd \in [Calls -> Inodes \cup {0}] /\ text \in [Calls -> Texts]
      /\ link \in [Paths -> Inodes \cup {0}] /\ data \in [Inodes -> Texts]
      /\ up \in [Calls -> BOOLEAN] /\ kind' = kind
      /\ Target \in Paths /\ Temp(c) \in Paths /\ Temp(c) # Target
  BY Frame, InodeFacts DEF IInv, TypeOK
<1>2. CallOK(c) /\ SoleOK(c) /\ c \notin unsaved
  BY UnsavedGrows DEF IInv, CallInv, SoleInv
<1>3. pc[c] \notin {"start", "stat", "mkStat", "mkdir", "mkVerify", "done", "failed"}
  BY <1>2 DEF CallOK, Active
<1>4. link[Target] # 0 => link[Target] # link[Temp(c)]
  BY <1>1 DEF IInv, NameInv
<1>5. link[Temp(c)] # 0 => link[Target] # link[Temp(c)]
  BY <1>1 DEF IInv, NameInv
<1>6. (Whole(Text(Target)) => link[Target] # 0) /\ (Whole(Text(Temp(c))) => link[Temp(c)] # 0)
  BY <1>1, WholeThere
<1>7. ASSUME pc'[c] \in {"done", "failed"}, Whole(Text(Temp(c)))' PROVE Saved'
  BY <1>7 DEF Saved
<1> USE DEF Goto, At, Sent, files, locals, history
<1>8. CASE OpenRead(c)
  <2>1. /\ fd'[c] = link[Target] /\ UNCHANGED <<link, data, text>>
        /\ pc[c] = "openRead" /\ pc'[c] = "read"
    BY <1>1, <1>8 DEF OpenRead
  <2>2. text[c] = <<>> /\ Whole(Text(Target)) /\ link[Target] # 0
    BY <1>2, <1>6, <2>1 DEF CallOK, KeptOK
  <2>3. Begins(text[c], data[link[Target]])
    BY <1>1, <2>2, BeginsEmpty
  <2> QED
    BY <2>1, <2>2, <2>3 DEF KeptOK, Text, Active
<1>9. CASE ReadBlock(c)
  <2>1. /\ pc[c] = "read" /\ pc' = pc /\ UNCHANGED <<link, data, fd, kind>>
        /\ Len(text[c]) < Len(data[fd[c]])
        /\ text'[c] = Append(text[c], data[fd[c]][Len(text[c]) + 1])
    BY <1>1, <1>9 DEF ReadBlock
  <2>2. text[c] \in Texts /\ data[fd[c]] \in Texts
    BY <1>1, <1>2, <2>1 DEF CallOK
  <2>3. Begins(text'[c], data[fd[c]])
    BY <2>1, <2>2, BeginsFacts DEF KeptOK
  <2> QED
    BY <2>1, <2>3 DEF KeptOK, Text, Active
<1>10. CASE ReadEnds(c)
  <2>1. /\ pc[c] = "read" /\ UNCHANGED <<link, data, fd>> /\ Len(text[c]) >= Len(data[fd[c]])
        /\ pc'[c] = "createTemp" /\ text'[c] = Edited(c)
    BY <1>1, <1>10 DEF ReadEnds
  <2>2. text[c] \in Texts /\ data[fd[c]] \in Texts /\ fd[c] # 0
    BY <1>1, <1>2, <2>1 DEF CallOK
  <2>3. Whole(text[c]) /\ Whole(Text(Target))
    BY <2>1, <2>2, BeginsFacts DEF KeptOK, Text
  <2>4. Whole(text'[c])
    BY <2>1, <2>2, <2>3, EditedWhole
  <2> QED
    BY <2>1, <2>3, <2>4 DEF KeptOK, Text, Active
<1>11. CASE ReadFails(c) \/ CreateTempFails(c)
  <2>1. UNCHANGED <<link, data>> /\ pc'[c] = "failed" /\ pc[c] \in {"openRead", "read", "createTemp"}
    BY <1>1, <1>11 DEF ReadFails, CreateTempFails
  <2> QED
    BY <2>1 DEF KeptOK, Text
<1>12. CASE CreateTemp(c)
  <2>1. /\ UNCHANGED <<data, text>> /\ pc'[c] = "writeTemp" /\ pc[c] = "createTemp"
        /\ link'[Target] = link[Target]
    BY <1>1, <1>12 DEF CreateTemp
  <2> QED
    BY <1>1, <2>1 DEF KeptOK, Text, Active
<1>13. CASE Discard(c)
  <2>1. /\ UNCHANGED <<data, text>> /\ pc'[c] = "failed"
        /\ pc[c] = "discard" /\ link'[Target] = link[Target]
    BY <1>1, <1>13 DEF Discard, RemoveFile
  <2> QED
    BY <2>1 DEF KeptOK, Text
<1>14. CASE RemoveTemp(c)
  <2>1. /\ UNCHANGED <<data, text, pos>> /\ pc'[c] = "close"
        /\ pc[c] = "removeTemp" /\ link'[Target] = link[Target]
    BY <1>1, <1>14 DEF RemoveTemp, RemoveFile
  <2>2. AllWritten(c)' /\ Whole(Text(Target))'
    BY <1>2, <2>1 DEF CallOK, KeptOK, Text, AllWritten
  <2>3. KeptOK(c)'
    BY <2>1, <2>2 DEF KeptOK
  <2> QED
    BY <2>2, <2>3
<1>15. CASE RemoveOriginal(c)
  <2>1. /\ UNCHANGED <<data, text>> /\ pc'[c] = "rename" /\ pc[c] = "remove"
        /\ link'[Temp(c)] = link[Temp(c)]
    BY <1>1, <1>15 DEF RemoveOriginal, RemoveFile
  <2>2. Text(Temp(c)) = text[c] /\ Whole(text[c])
    BY <1>2, <2>1, TempHolds DEF KeptOK
  <2> QED
    BY <1>1, <2>1, <2>2 DEF KeptOK, Text, Active
<1>16. CASE Rename(c)
  <2>1. /\ UNCHANGED <<data, text>> /\ pc[c] = "rename" /\ link'[Target] = link[Temp(c)]
        /\ pc'[c] = "done" \/ (pc'[c] = "openWrite" /\ ~ up'[c])
    BY <1>1, <1>16 DEF Rename
  <2>2. Whole(Text(Temp(c))) /\ Whole(text[c])
    BY <2>1 DEF KeptOK
  <2>3. Whole(Text(Target))'
    BY <2>1, <2>2 DEF Text
  <2> QED
    BY <1>1, <2>1, <2>2, <2>3 DEF KeptOK, Active
<1>17. CASE RenameFails(c)
  <2>1. UNCHANGED <<link, data, text, up>> /\ pc[c] = "rename" /\ pc'[c] = "openWrite"
    BY <1>1, <1>17 DEF RenameFails
  <2> QED
    BY <1>1, <2>1 DEF KeptOK, Text, Active
<1>18. CASE OpenTruncated(c) \/ OpenCreated(c)
  <2>1. /\ text' = text /\ pc[c] = "openWrite" /\ up[c] /\ pc'[c] = "write"
        /\ link'[Temp(c)] = link[Temp(c)]
        /\ data' = data \/ data' = [data EXCEPT ![link[Target]] = <<>>]
    BY <1>1, <1>18 DEF OpenTruncated, OpenCreated
  <2>2. Whole(Text(Temp(c))) /\ Whole(text[c]) /\ link[Temp(c)] # 0
    BY <1>6, <2>1 DEF KeptOK
  <2>3. data'[link[Temp(c)]] = data[link[Temp(c)]]
    BY <1>1, <1>5, <2>1, <2>2
  <2> QED
    BY <1>1, <2>1, <2>2, <2>3 DEF KeptOK, Text, Active
<1>19. CASE OpenWriteFails(c)
  <2>1. UNCHANGED <<link, data>> /\ pc[c] = "openWrite" /\ pc'[c] = "failed"
    BY <1>1, <1>19 DEF OpenWriteFails
  <2> QED
    BY <1>7, <2>1 DEF KeptOK, Text
<1>20. CASE WriteBlock(c)
  <2>1. /\ UNCHANGED <<link, pc, fd, text, kind>> /\ pc[c] \in {"writeTemp", "write"}
        /\ \E t : data' = [data EXCEPT ![fd[c]] = t]
    BY <1>1, <1>20 DEF WriteBlock
  <2>2. CASE pc[c] = "writeTemp"
    <3>1. fd[c] = link[Temp(c)] /\ Whole(Text(Target)) /\ Whole(text[c])
      BY <1>2, <2>2 DEF CallOK, KeptOK
    <3>2. data'[link[Target]] = data[link[Target]]
      BY <1>1, <1>4, <1>6, <2>1, <3>1
    <3> QED
      BY <2>1, <2>2, <3>1, <3>2 DEF KeptOK, Text, Active
  <2>3. CASE pc[c] = "write"
    <3>1. fd[c] = link[Target] /\ Whole(Text(Temp(c))) /\ Whole(text[c])
      BY <1>2, <2>3 DEF SoleOK, KeptOK
    <3>2. data'[link[Temp(c)]] = data[link[Temp(c)]]
      BY <1>1, <1>5, <1>6, <2>1, <3>1
    <3> QED
      BY <2>1, <2>3, <3>1, <3>2 DEF KeptOK, Text, Active
  <2> QED
    BY <2>1, <2>2, <2>3
<1>21. CASE Written(c) \/ WriteFails(c)
  <2>1. /\ UNCHANGED <<link, data, text, fd, pos>>
        /\ \/ pc[c] = "writeTemp" /\ pc'[c] = "closeTemp"
           \/ pc[c] = "write" /\ pc'[c] = "removeTemp" /\ AllWritten(c)
           \/ pc[c] = "write" /\ pc'[c] = "close" /\ ~ AllWritten(c)
    BY <1>1, <1>21 DEF Written, WriteFails
  <2>2. CASE pc[c] = "writeTemp"
    BY <2>1, <2>2 DEF KeptOK, Text, Active
  <2>3. CASE pc[c] = "write" /\ AllWritten(c)
    <3>1. fd[c] = link[Target] /\ fd[c] # 0 /\ Wrote(c) /\ Whole(text[c])
      BY <1>2, <2>3 DEF SoleOK, CallOK, KeptOK
    <3>2. data[fd[c]] \in Texts /\ text[c] \in Texts
      BY <1>1, <3>1
    <3>3. data[fd[c]] = text[c]
      BY <2>3, <3>1, <3>2, TextsEqual DEF Wrote, AllWritten
    <3> QED
      BY <2>1, <2>3, <3>1, <3>3 DEF KeptOK, Text, Active
  <2>4. CASE pc[c] = "write" /\ ~ AllWritten(c)
    <3>1. Whole(Text(Temp(c))) /\ pc'[c] = "close" /\ kind' = kind
      BY <1>1, <2>1, <2>4 DEF KeptOK
    <3>2. ~ AllWritten(c)' /\ Text(Temp(c))' = Text(Temp(c))
      BY <2>1, <2>4 DEF AllWritten, Text
    <3>3. KeptOK(c)' /\ Active(c)'
      BY <3>1, <3>2 DEF KeptOK, Active, Whole
    <3> QED
      BY <3>3
  <2> QED
    BY <2>1, <2>2, <2>3, <2>4
<1>22. CASE Close(c)
  <2>1. /\ UNCHANGED <<link, text, fd, pos>> /\ fd[c] \in Inodes
        /\ \E t : data' = [data EXCEPT ![fd[c]] = t]
        /\ AllWritten(c) => data' = data
    BY <1>22, CloseFacts
  <2>2. CASE pc[c] = "closeTemp"
    <3>1. fd[c] = link[Temp(c)] /\ Whole(Text(Target)) /\ Whole(text[c])
      BY <1>2, <2>2 DEF CallOK, KeptOK
    <3>2. data'[link[Target]] = data[link[Target]] /\ link[Target] # 0
      BY <1>1, <1>4, <1>6, <2>1, <3>1
    <3>3. pc'[c] \in {"remove", "discard"}
      BY <1>22, <2>2, CloseFacts
    <3>4. Whole(Text(Target))' /\ Whole(text[c])'
      BY <2>1, <3>1, <3>2 DEF Text, Whole
    <3>5. KeptOK(c)'
      BY <3>3, <3>4 DEF KeptOK
    <3> QED
      BY <3>4, <3>5
  <2>3. CASE pc[c] = "close" /\ AllWritten(c)
    <3>1. pc'[c] = "done" /\ data' = data /\ Whole(Text(Target))
      BY <1>22, <2>1, <2>3, CloseFacts DEF KeptOK
    <3>2. Whole(Text(Target))'
      BY <2>1, <3>1 DEF Text, Whole
    <3>3. KeptOK(c)'
      BY <3>1 DEF KeptOK
    <3> QED
      BY <3>2, <3>3
  <2>4. CASE pc[c] = "close" /\ ~ AllWritten(c)
    <3>1. pc'[c] = "failed" /\ Whole(Text(Temp(c))) /\ link[Temp(c)] # 0
      BY <1>6, <1>22, <2>4, CloseFacts DEF KeptOK
    <3>2. fd[c] = link[Target]
      BY <1>2, <2>4 DEF SoleOK
    <3>3. data'[link[Temp(c)]] = data[link[Temp(c)]]
      BY <1>1, <1>5, <2>1, <3>1, <3>2
    <3>4. Whole(Text(Temp(c)))'
      BY <2>1, <3>1, <3>3 DEF Text, Whole
    <3> QED
      BY <1>7, <3>1, <3>4
  <2>5. pc[c] \in {"closeTemp", "close"}
    BY <1>22, CloseFacts
  <2> QED
    BY <2>2, <2>3, <2>4, <2>5
<1>23. ~ (Start(c) \/ Stat(c) \/ MkStat(c) \/ Mkdir(c) \/ MkVerify(c))
  BY <1>3 DEF Start, Stat, MkStat, Mkdir, MkVerify
<1> QED
  BY <1>8, <1>9, <1>10, <1>11, <1>12, <1>13, <1>14, <1>15, <1>16, <1>17, <1>18, <1>19, <1>20,
     <1>21, <1>22, <1>23 DEF Step, Read, Replace, Write

(* The premise of KeptInv: once it holds of a state, it has always held.   *)
OneByOne == Only({"replace", "read"}) /\ made > 0 /\ overlapped = {} /\ unsaved = {}

LEMMA OneByOneBefore ==
    ASSUME IInv, NEW c \in Calls, Step(c), OneByOne'
    PROVE  OneByOne
<1>1. /\ Only({"replace", "read"}) /\ overlapped = {} /\ unsaved = {}
      /\ {made, made'} \subseteq Nat /\ made' > 0
  BY Frame, ActiveStep, UnsavedGrows, MadeStep DEF IInv, OneByOne, Only
<1>2. CASE CreateTemp(c) \/ OpenCreated(c)
  <2>1. pc[c] \in {"createTemp", "openWrite"}
    BY <1>2 DEF CreateTemp, OpenCreated, Sent, At
  <2>2. kind[c] = "replace"
    BY <1>1, <2>1 DEF IInv, CallInv, CallOK, Only
  <2>3. made > 0
    BY <2>1, <2>2 DEF IInv, CallInv, CallOK
  <2> QED
    BY <1>1, <2>3 DEF OneByOne
<1>3. CASE ~ CreateTemp(c) /\ ~ OpenCreated(c)
  <2>1. made' = made
    BY <1>3 DEF files, Step, Start, Read, OpenRead, ReadBlock, ReadEnds, ReadFails,
        Replace, CreateTempFails, Discard, RemoveOriginal, Rename, RenameFails, RemoveTemp,
        Write, Stat, MkStat, Mkdir, MkVerify, OpenTruncated, OpenWriteFails, WriteBlock,
        Written, WriteFails, Close
  <2> QED
    BY <1>1, <2>1 DEF OneByOne
<1> QED
  BY <1>2, <1>3

LEMMA KeptStep ==
    ASSUME IInv, KeptInv, NEW c \in Calls, Step(c)
    PROVE  KeptInv'
<1> SUFFICES ASSUME OneByOne'
             PROVE  \/ Saved'
                    \/ /\ \A d \in Calls : kind'[d] = "replace" => KeptOK(d)'
                       /\ (\A d \in Calls : ~ Active(d)') => Whole(Text(Target))'
  BY DEF KeptInv, OneByOne
<1>1. OneByOne
  BY OneByOneBefore
<1>2. /\ kind' = kind /\ kind[c] \in {"replace", "read"} /\ overlapped = {} /\ overlapped' = {}
      /\ \A d \in Calls \ {c} : /\ pc'[d] = pc[d] /\ fd'[d] = fd[d] /\ text'[d] = text[d]
                                /\ up'[d] = up[d] /\ pos'[d] = pos[d]
      /\ unsaved' = {}
  BY <1>1, Frame DEF IInv, OneByOne, Only
<1>3. CASE Saved
  BY <1>3, SavedStep
<1>4. CASE ~ Saved
  <2>1. /\ \A d \in Calls : kind[d] = "replace" => KeptOK(d)
        /\ (\A d \in Calls : ~ Active(d)) => Whole(Text(Target))
    BY <1>1, <1>4 DEF KeptInv, OneByOne
  <2>2. CASE kind[c] = "read"
    <3>1. UNCHANGED files /\ \A d \in Calls : Active(d)' <=> Active(d)
      BY <1>2, <2>2, ReaderStep, ActiveStep DEF Active
    <3>2. ASSUME NEW d \in Calls, kind[d] = "replace" PROVE KeptOK(d)'
      <4>1. d # c
        BY <2>2, <3>2
      <4>2. AllWritten(d)' <=> AllWritten(d)
        BY <1>2, <4>1 DEF AllWritten
      <4> QED
        BY <1>2, <2>1, <3>1, <3>2, <4>1, <4>2 DEF KeptOK, Text, files
    <3> QED
      BY <1>2, <2>1, <3>1, <3>2 DEF Text, files
  <2>3. CASE kind[c] = "replace" /\ Active(c)
    <3>1. \A d \in Calls \ {c} : ~ Active(d) /\ ~ Active(d)'
      BY <1>2, <2>3, ActiveStep DEF IInv, OverlapInv
    <3>2. ASSUME NEW d \in Calls \ {c}, kind[d] = "replace" PROVE KeptOK(d)'
      BY <1>2, <3>1, <3>2 DEF KeptOK, Active
    <3>3. Saved' \/ (KeptOK(c)' /\ (~ Active(c)' => Whole(Text(Target))'))
      BY <1>2, <2>1, <2>3, KeptOKStep
    <3> QED
      BY <1>2, <3>2, <3>3
  <2>4. CASE kind[c] = "replace" /\ ~ Active(c)
    <3>1. pc[c] = "start"
      BY <2>4, ActiveStep DEF Active
    <3>2. \A d \in Calls : ~ Active(d)
      BY <1>2, <2>4, <3>1, ActiveStep
    <3>3. Whole(Text(Target))
      BY <2>1, <3>2
    <3>4. UNCHANGED files /\ pc'[c] = "openRead"
      BY <2>4, <3>1 DEF IInv, TypeOK, At, Sent, Goto, Step, Start, Read, OpenRead, ReadBlock,
          ReadEnds, ReadFails, Replace, CreateTemp, CreateTempFails, Discard,
          RemoveOriginal, Rename, RenameFails, RemoveTemp, Write, Stat, MkStat, Mkdir,
          MkVerify, OpenTruncated, OpenCreated, OpenWriteFails, WriteBlock, Written,
          WriteFails, Close
    <3>5. Whole(Text(Target))'
      BY <3>3, <3>4 DEF Text, files
    <3>6. ASSUME NEW d \in Calls, kind[d] = "replace" PROVE KeptOK(d)'
      <4>1. CASE d = c
        BY <3>4, <3>5, <4>1 DEF KeptOK
      <4>2. CASE d # c
        BY <1>2, <3>2, <3>6, <4>2 DEF KeptOK, Active
      <4> QED
        BY <4>1, <4>2
    <3> QED
      BY <1>2, <3>5, <3>6
  <2> QED
    BY <1>2, <2>2, <2>3, <2>4
<1> QED
  BY <1>3, <1>4

(* While replacements, one after the other, are all that changes the file, a
   whole text, old or new, is in some file of the directory, whichever
   requests are refused and whenever the connection is lost; only a server
   that drops, at a CLOSE, blocks it has acknowledged can lose it.         *)
THEOREM NeverLost == Spec => []TextNeverLost
<1>1. Init => KeptInv
  <2> SUFFICES ASSUME Init, made > 0
               PROVE  (\A c \in Calls : KeptOK(c)) /\ Whole(Text(Target))
    BY DEF KeptInv
  <2>1. \A c \in Calls : pc[c] = "start"
    BY DEF Init
  <2>2. Whole(<<{}, {}>>)
    BY DEF Whole, Blocks
  <2>3. made = 1 /\ link[Target] = made
    BY InodeFacts DEF Init
  <2>4. data[1] = <<{}, {}>>
    BY <2>3, InodeFacts DEF Init
  <2> QED
    BY <2>1, <2>2, <2>3, <2>4 DEF KeptOK, Text
<1>2. IInv /\ KeptInv /\ [Next]_vars => KeptInv'
  <2> SUFFICES ASSUME IInv, KeptInv, [Next]_vars PROVE KeptInv'
    OBVIOUS
  <2>1. CASE ConnectionLost \/ UNCHANGED vars
    <3>1. /\ UNCHANGED <<files, pc, kind, fd, text, pos, overlapped, unsaved>>
          /\ \A c \in Calls : ~ up[c] => ~ up'[c]
      BY <2>1 DEF ConnectionLost, vars, locals, history
    <3>2. \A c \in Calls : KeptOK(c) => KeptOK(c)'
      BY <3>1 DEF KeptOK, AllWritten, Text, files
    <3>3. Saved => Saved'
      BY <3>1 DEF Saved, Text, files
    <3> QED
      BY <3>1, <3>2, <3>3 DEF KeptInv, Only, Active, Text, files
  <2> QED
    BY <2>1, KeptStep DEF Next, Step
<1>3. IInv /\ KeptInv => TextNeverLost
  <2> SUFFICES ASSUME IInv, KeptInv, OneByOne PROVE \E p \in Paths : Whole(Text(p))
    BY DEF TextNeverLost, OneByOne
  <2>1. CASE Saved
    BY <2>1, InodeFacts DEF Saved
  <2>2. CASE ~ Saved
    <3>1. /\ \A c \in Calls : kind[c] = "replace" => KeptOK(c)
          /\ (\A c \in Calls : ~ Active(c)) => Whole(Text(Target))
      BY <2>2 DEF KeptInv, OneByOne
    <3>2. ASSUME NEW c \in Calls, Active(c)
          PROVE  Whole(Text(Target)) \/ Whole(Text(Temp(c)))
      <4>1. kind[c] = "replace"
        BY <3>2 DEF OneByOne, Only, Active
      <4>2. pc[c] \in Pcs /\ CallOK(c)
        BY DEF IInv, TypeOK, CallInv
      <4> QED
        BY <3>1, <3>2, <4>1, <4>2 DEF KeptOK, CallOK, Active, Pcs
    <3> QED
      BY <3>1, <3>2, InodeFacts
  <2> QED
    BY <2>1, <2>2
<1> QED
  BY <1>1, <1>2, <1>3, Invariance, PTL DEF Spec
==============================================================================
