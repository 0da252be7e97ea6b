--------------------------- MODULE LicenceDocument --------------------------
(***************************************************************************)
(* The verdict on the licence document (license/license_document.cpp).     *)
(* A document is a sequence of tokens: line ends, blanks, the mark of a    *)
(* comment, the words a line may consist of whatever their case ("list" is *)
(* the heading, "mine" the console's licence ID and "other" one of 64 other*)
(* hex digits), the byte order mark, and anything else.                    *)
(***************************************************************************)
EXTENDS Naturals, Sequences

Tokens == {"bom", "nl", "blank", "#", "list", "free", "mine", "other", "junk"}

Verdicts == {"invalid", "matched", "free", "noMatch"}

\* The first index from i on whose token is none of "skipped", or the end.
SkipWhile(body, i, skipped) ==
  CHOOSE j \in i..(Len(body) + 1) :
    /\ \A k \in i..(j - 1) : body[k] \in skipped
    /\ j > Len(body) \/ body[j] \notin skipped

\* The end of what stands between "first" and "last" without the blanks
\* before "last".
TrimEnd(body, first, last) ==
  CHOOSE j \in first..last :
    /\ \A k \in j..(last - 1) : body[k] = "blank"
    /\ j = first \/ body[j - 1] # "blank"

Words == Tokens \ {"bom", "nl", "blank", "#", "junk"}

\* What a line is, trimmed to the tokens from "first" to before "last".
LineKind(body, first, last) ==
  IF first = last THEN "empty"
  ELSE IF body[first] = "#" THEN "comment"
  ELSE IF last = first + 1 /\ body[first] \in Words THEN body[first]
  ELSE "invalid"

Verdict(s) ==
  IF s.bad \/ s.seen \cap Words = {} THEN "invalid"
  ELSE IF "mine" \in s.seen THEN "matched"
  ELSE IF "free" \in s.seen THEN "free"
  ELSE "noMatch"

\* Where the line ends that begins at "off", and what it is.
LineEnd(body, off) == SkipWhile(body, off, Tokens \ {"nl"})

KindAt(body, off) ==
  LET end   == LineEnd(body, off)
      first == SkipWhile(SubSeq(body, 1, end - 1), off, {"blank"})
  IN LineKind(body, first, TrimEnd(body, first, end))

\* One round of the loop over the lines: where the next begins, the kinds of
\* line seen so far, and whether the document is given up.
LineRound(body, s) ==
  [off  |-> SkipWhile(body, LineEnd(body, s.off), {"nl"}),
   seen |-> s.seen \cup {KindAt(body, s.off)},
   bad  |-> KindAt(body, s.off) = "invalid"]

\* Mutant of LineStep: the console's own line ends the loop.
LineStepToMatch(body, s) ==
  IF s.bad \/ s.off > Len(body) \/ "mine" \in s.seen THEN s
  ELSE LineRound(body, s)

LineStep(body, s) ==
  IF s.bad \/ s.off > Len(body) THEN s ELSE LineRound(body, s)

\* Each round takes a token at least.
Scan(body, start) ==
  LET loop[n \in 0..Len(body)] ==
        IF n = 0 THEN [off |-> start, seen |-> {}, bad |-> FALSE]
        ELSE LineStep(body, loop[n - 1])
  IN loop[Len(body)]

Start(body) == IF body[1] = "bom" THEN 2 ELSE 1

EvaluateLicenceDocument(body) ==
  IF body = <<>> THEN "invalid" ELSE Verdict(Scan(body, Start(body)))
=============================================================================
