----------------------------- MODULE TextLimits -----------------------------
(***************************************************************************)
(* How much of a text a caller gets: SmartTruncate                         *)
(* (internal/herdr/text.go) as ReadPane uses it, and Task.Tail             *)
(* (internal/sshclient/tasks.go).  A text is known by its number of lines, *)
(* blank ones at its end not counted; what is returned by how many of them *)
(* come from its beginning and from its end, and by the number that the    *)
(* marker between the two says is missing.                                 *)
(***************************************************************************)
EXTENDS Integers

CONSTANTS
    Lengths,   \* numbers of lines a text has
    Requests   \* numbers of lines a caller asks for; 0 or less: none given

ASSUME LimitsAssumption == Lengths \subseteq Nat /\ Requests \subseteq Int

Least == 5     \* lines of head and of tail that are always kept
Default == 50  \* lines returned when the caller gives no number

VARIABLE read  \* the last text that was read, and what was returned of it

NoRead == [lines |-> 0, asked |-> 0, pane |-> [head |-> 0, missing |-> 0, tail |-> 0],
           last |-> 0]

AtLeast(n, k) == IF n < k THEN k ELSE n

Whole(n) == [head |-> n, missing |-> 0, tail |-> 0]

(* Mutant: the tail is not held to the minimum when the text is cut.       *)
SmartTruncateHeadOnly(n, m) ==
    LET head == AtLeast(m \div 3, Least)
    IN IF m <= 0 \/ n <= m THEN Whole(n)
       ELSE [head |-> head, missing |-> n - m, tail |-> m - head]

SmartTruncate(n, m) ==
    LET head == AtLeast(m \div 3, Least)
        tail == AtLeast(m - head, Least)
    IN IF m <= 0 \/ n <= m \/ head + tail >= n THEN Whole(n)
       ELSE [head |-> head, missing |-> n - head - tail, tail |-> tail]

Asked(lines) == IF lines <= 0 THEN Default ELSE lines

ReadPane(n, lines) == SmartTruncate(n, Asked(lines))

(* tailLines, which says nothing of what it leaves out.                    *)
TailLines(n, lines) == IF n <= Asked(lines) THEN n ELSE Asked(lines)

(* remote_pane_read of a terminal with n lines, and remote_task_tail of a task
   that has written as many.                                               *)
ReadText ==
    \E n \in Lengths, lines \in Requests :
        read' = [lines |-> n, asked |-> lines, pane |-> ReadPane(n, lines),
                 last |-> TailLines(n, lines)]

(* Whatever is asked for, the lines returned and those that the marker says
   are missing are the lines of the text, each once; no more lines are kept
   than were asked for, or twice the minimum if that is more; a text is cut
   only if it is longer than that; and what Task.Tail returns is no more than
   what ReadPane does, and leaves nothing out that would fit.              *)
TruncationHonest ==
    LET r == read.pane
        n == read.lines
        limit == AtLeast(Asked(read.asked), 2 * Least)
    IN /\ r.head + r.missing + r.tail = n
       /\ r.head \in 0 .. n /\ r.missing \in 0 .. n /\ r.tail \in 0 .. n
       /\ r.head + r.tail <= limit
       /\ r.missing > 0 => r.head >= Least /\ r.tail >= Least /\ n > limit
       /\ read.last <= r.head + r.tail
       /\ read.last < n => read.last = Asked(read.asked)
=============================================================================
