------------------------------- MODULE TextOps -------------------------------
(***************************************************************************)
(* What the file tools make of the text of a file: the lines that ViewFile *)
(* numbers and cuts into pages, and the text that ReplaceFileContent       *)
(* writes (internal/sshclient/sftp.go).  How the requests of both          *)
(* interleave is the subject of RemoteFiles; here each is one step on the  *)
(* text.                                                                   *)
(*                                                                         *)
(* A text is a sequence of characters.  Those that the code treats alike   *)
(* are represented by one or two of them.                                  *)
(***************************************************************************)
EXTENDS TextLimits, Sequences, SequencesExt

CONSTANTS
    Chars,       \* the characters of texts
    NL, CR,      \* those that end lines
    Texts,       \* the texts a file may have
    Targets,     \* arguments of remote_replace_file_content
    Replacements,
    EditRanges,  \* the first and the last line a caller gives, 0 for none,
    ViewRanges,  \* to replace in and to view
    ByteLimits,  \* values of maxBytes a caller gives, 0 for none
    MaxEdits     \* bound: replacements asked for in a behaviour

ASSUME TextAssumption == /\ {NL, CR} \subseteq Chars /\ NL # CR
                         /\ Texts \cup Targets \cup Replacements \subseteq Seq(Chars)
                         /\ <<>> \notin Targets
                         /\ EditRanges \cup ViewRanges \subseteq Nat \X Nat
                         /\ ByteLimits \subseteq Nat
                         /\ MaxEdits \in Nat

VARIABLES
    text,     \* the text of the file
    edit,     \* the replacement that has been asked for
    edits,    \* number of replacements asked for
    reader    \* a caller that views the file page by page

vars == <<text, edit, edits, reader, read>>

NoEdit == [old |-> <<>>, new |-> <<>>, from |-> 0, to |-> 0, multiple |-> FALSE]

(* next: the line that the next page begins with, 0 when there is none;
   shown: the lines on the pages; fresh: the text is still the one of the
   first page.                                                             *)
NoReader == [from |-> 0, to |-> 0, limit |-> 0, next |-> 0, shown |-> <<>>,
             fresh |-> FALSE]

-----------------------------------------------------------------------------
(* package strings.                                                        *)

Occurs(t, sep, i) == /\ i + Len(sep) - 1 <= Len(t)
                     /\ SubSeq(t, i, i + Len(sep) - 1) = sep

(* The places of sep in t, from left to right and without overlaps.        *)
Places(t, sep) ==
    LET upTo[n \in 0 .. Len(t)] ==
            IF n = 0 THEN <<>>
            ELSE LET places == upTo[n - 1] IN
                 IF /\ Occurs(t, sep, n)
                    /\ places = <<>> \/ Last(places) + Len(sep) <= n
                 THEN Append(places, n) ELSE places
    IN upTo[Len(t)]

Split(t, sep) ==
    LET places == Places(t, sep) IN
    [k \in 1 .. Len(places) + 1 |->
        SubSeq(t, IF k = 1 THEN 1 ELSE places[k - 1] + Len(sep),
                  IF k > Len(places) THEN Len(t) ELSE places[k] - 1)]

Join(parts, sep) ==
    LET joined[n \in 0 .. Len(parts)] ==
            IF n = 0 THEN <<>>
            ELSE IF n = 1 THEN parts[1] ELSE joined[n - 1] \o sep \o parts[n]
    IN joined[Len(parts)]

Count(t, old) == Len(Places(t, old))

Lines(t) == Split(t, <<NL>>)

ReplaceEach(t, old, new) == Join(Split(t, old), new)

ReplaceOne(t, old, new) ==
    LET parts == Split(t, old)
    IN Head(parts) \o new \o Join(Tail(parts), old)

-----------------------------------------------------------------------------
(* ViewFile.                                                               *)

(* Mutant: the lines are separated as words are, so that none is empty.    *)
ViewLinesNotEmpty(t) == SelectSeq(Lines(t), LAMBDA line : line # <<>>)

DropCR(line) == IF line # <<>> /\ Last(line) = CR THEN Front(line) ELSE line

(* bufio.Scanner: a line break at the end of the text begins no line, and a
   carriage return at the end of a line is dropped.                        *)
ViewLines(t) ==
    LET lines == Lines(t)
        shown == IF Last(lines) = <<>> THEN Len(lines) - 1 ELSE Len(lines)
    IN [k \in 1 .. shown |-> DropCR(lines[k])]

(* A line with its number, "%6d | " in front and a line break behind: ten
   bytes as long as the number has at most six digits.                     *)
PrintedBytes(line) == 10 + Len(line)
PageBytes(lines, from, to) ==
    MapThenSumSet(LAMBDA i : PrintedBytes(lines[i]), from .. to)

MaxBytes(limit) == IF limit = 0 THEN 46080 ELSE limit

NoPage == [lines |-> <<>>, end |-> 0, truncated |-> FALSE]

(* Mutants: the line that did not fit counts as shown; the end of the text
   is awaited where the end of the range was asked for.                    *)
PageSkipping(t, from, to, limit) ==
    LET lines == ViewLines(t)
        last == IF to = 0 \/ to > Len(lines) THEN Len(lines) ELSE to
        fits == {from - 1} \cup {i \in from .. last :
                                   PageBytes(lines, from, i) <= MaxBytes(limit)}
    IN IF from > Len(lines) THEN NoPage
       ELSE [lines |-> SubSeq(lines, from, Max(fits)),
             end |-> Max(fits) + 1, truncated |-> Max(fits) < last]

PageToTheEnd(t, from, to, limit) ==
    LET lines == ViewLines(t)
        last == IF to = 0 \/ to > Len(lines) THEN Len(lines) ELSE to
        fits == {from - 1} \cup {i \in from .. last :
                                   PageBytes(lines, from, i) <= MaxBytes(limit)}
    IN IF from > Len(lines) THEN NoPage
       ELSE [lines |-> SubSeq(lines, from, Max(fits)),
             end |-> Max(fits), truncated |-> Max(fits) < Len(lines)]

(* The lines from .. to of the text, as many of them as fit.  A text without
   lines has no page; a first line behind the end is an error.             *)
Page(t, from, to, limit) ==
    LET lines == ViewLines(t)
        last == IF to = 0 \/ to > Len(lines) THEN Len(lines) ELSE to
        fits == {from - 1} \cup {i \in from .. last :
                                   PageBytes(lines, from, i) <= MaxBytes(limit)}
    IN IF from > Len(lines) THEN NoPage
       ELSE [lines |-> SubSeq(lines, from, Max(fits)),
             end |-> Max(fits), truncated |-> Max(fits) < last]

-----------------------------------------------------------------------------
(* ReplaceFileContent.                                                     *)
Ranged(e) == e.from > 0 \/ e.to > 0

FirstLine(e) == AtLeast(e.from, 1)
LastLine(t, e) == IF e.to = 0 \/ e.to > Len(Lines(t)) THEN Len(Lines(t)) ELSE e.to

Before(t, e) ==
    LET above == Join(SubSeq(Lines(t), 1, FirstLine(e) - 1), <<NL>>)
    IN IF ~Ranged(e) \/ above = <<>> THEN <<>> ELSE above \o <<NL>>

Chunk(t, e) ==
    IF Ranged(e) THEN Join(SubSeq(Lines(t), FirstLine(e), LastLine(t, e)), <<NL>>)
    ELSE t

(* Mutant: the line break behind the range is dropped.                     *)
AfterJoined(t, e) ==
    IF ~Ranged(e) \/ LastLine(t, e) >= Len(Lines(t)) THEN <<>>
    ELSE Join(SubSeq(Lines(t), LastLine(t, e) + 1, Len(Lines(t))), <<NL>>)

After(t, e) ==
    IF ~Ranged(e) \/ LastLine(t, e) >= Len(Lines(t)) THEN <<>>
    ELSE <<NL>> \o Join(SubSeq(Lines(t), LastLine(t, e) + 1, Len(Lines(t))), <<NL>>)

(* The range begins in the text, and the target is in it, once or as often
   as the caller allows.  A range that ends before it begins has no target:
   the code then finds none in "", or panics, which ends the call as well.  *)
Replaceable(t, e) ==
    /\ Ranged(e) => FirstLine(e) <= Len(Lines(t))
    /\ Count(Chunk(t, e), e.old) > 0
    /\ Count(Chunk(t, e), e.old) > 1 => e.multiple

Replaced(t, e) ==
    Before(t, e)
      \o (IF e.multiple THEN ReplaceEach(Chunk(t, e), e.old, e.new)
          ELSE ReplaceOne(Chunk(t, e), e.old, e.new))
      \o After(t, e)

-----------------------------------------------------------------------------
Init ==
    /\ text \in Texts
    /\ edit = NoEdit /\ edits = 0
    /\ reader = NoReader
    /\ read = NoRead

(* remote_view_file, from the first page on.                               *)
BeginReading ==
    /\ reader = NoReader /\ read = NoRead
    /\ \E range \in ViewRanges, limit \in ByteLimits :
          reader' = [from |-> AtLeast(range[1], 1), to |-> range[2], limit |-> limit,
                     next |-> AtLeast(range[1], 1), shown |-> <<>>, fresh |-> TRUE]
    /\ UNCHANGED <<text, edit, edits, read>>

(* The reader asks for the line after the last one of a truncated page.    *)
ViewFile ==
    /\ reader.next # 0
    /\ LET page == Page(text, reader.next, reader.to, reader.limit) IN
       reader' = [reader EXCEPT !.shown = @ \o page.lines,
                                !.next = IF page.truncated THEN page.end + 1 ELSE 0]
    /\ UNCHANGED <<text, edit, edits, read>>

(* remote_replace_file_content.                                            *)
AskReplace ==
    /\ edit = NoEdit /\ edits < MaxEdits /\ read = NoRead
    /\ \E old \in Targets, new \in Replacements, range \in EditRanges,
          multiple \in BOOLEAN :
          edit' = [old |-> old, new |-> new, from |-> range[1], to |-> range[2],
                   multiple |-> multiple]
    /\ edits' = edits + 1
    /\ UNCHANGED <<text, reader, read>>

ReplaceFileContent ==
    /\ edit # NoEdit /\ Replaceable(text, edit)
    /\ text' = Replaced(text, edit)
    /\ edit' = NoEdit
    /\ reader' = [reader EXCEPT !.fresh = FALSE]
    /\ UNCHANGED <<edits, read>>

ReplaceRefused ==
    /\ edit # NoEdit /\ ~Replaceable(text, edit)
    /\ edit' = NoEdit
    /\ UNCHANGED <<text, edits, reader, read>>

(* Bound: a behaviour reads from a terminal or a task, which share nothing
   with files, or works on a file.                                         *)
ReadLines ==
    /\ read = NoRead /\ reader = NoReader /\ edits = 0
    /\ ReadText
    /\ UNCHANGED <<text, edit, edits, reader>>

Next == BeginReading \/ ViewFile \/ AskReplace \/ ReplaceFileContent \/ ReplaceRefused
          \/ ReadLines

Spec == Init /\ [][Next]_vars

-----------------------------------------------------------------------------
(* Properties.                                                             *)

(* A replacement changes the lines it was given and no others.  One that may
   change a single place changes the only place in those lines where its
   target is, and no other character of the file.  There is one exception:
   behind a first line that is empty, the break of that line is lost.      *)
LosesFirstBreak(t, e) == e.from = 2 /\ Lines(t)[1] = <<>>

SurgicalEdit ==
    [][text' # text =>
         LET new == IF LosesFirstBreak(text, edit) THEN <<NL>> \o text' ELSE text'
             first == IF Ranged(edit) THEN FirstLine(edit) ELSE 1
             last == IF Ranged(edit) THEN LastLine(text, edit) ELSE Len(Lines(text))
         IN /\ IsPrefix(SubSeq(Lines(text), 1, first - 1), Lines(new))
            /\ IsSuffix(SubSeq(Lines(text), last + 1, Len(Lines(text))), Lines(new))
            /\ ~edit.multiple =>
                 \E i \in 1 .. Len(text) - Len(edit.old) + 1 :
                    /\ SubSeq(text, i, i + Len(edit.old) - 1) = edit.old
                    /\ new = SubSeq(text, 1, i - 1) \o edit.new
                               \o SubSeq(text, i + Len(edit.old), Len(text))]_vars

(* The replacement of lines that a caller has copied from a page.          *)
Copied(shown, from, to) ==
    [old |-> Join(SubSeq(shown, from, to), <<NL>>), new |-> <<>>,
     from |-> from, to |-> to, multiple |-> TRUE]

(* What a caller copies from a page can be replaced in the lines it was
   copied from, as long as no line break in it is preceded by a carriage
   return, which the page does not show.  Characters are those of valid UTF-8:
   other bytes are replaced in the JSON of the answer.                     *)
ShownIsFound ==
    \A shown \in {ViewLines(text)}, lines \in {Lines(text)} :
        \A from \in DOMAIN shown : \A to \in from .. Len(shown) :
            \A e \in {Copied(shown, from, to)} :
                e.old # <<>> /\ SubSeq(shown, from, to - 1) = SubSeq(lines, from, to - 1)
                    => Replaceable(text, e)

(* The pages of a text that does not change are its lines, each once and in
   order: those so far, and all that were asked for when there is no next
   page.                                                                   *)
PagesInOrder ==
    reader.fresh =>
        LET lines == ViewLines(text)
            asked == SubSeq(lines, reader.from,
                            IF reader.to = 0 \/ reader.to > Len(lines) THEN Len(lines)
                            ELSE reader.to)
        IN /\ IsPrefix(reader.shown, asked)
           /\ reader.next = 0 => reader.shown = asked

(* Each page brings a reader further, also when the file has been edited
   since the last one: one that asks for the line after a truncated page does
   not get the same answer for ever.  The exception is a line that alone is
   longer than a page.                                                     *)
PagingAdvances ==
    reader.next \in DOMAIN ViewLines(text) =>
        LET page == Page(text, reader.next, reader.to, reader.limit)
            line == ViewLines(text)[reader.next]
        IN page.truncated => \/ page.end >= reader.next
                             \/ PrintedBytes(line) > MaxBytes(reader.limit)
=============================================================================
