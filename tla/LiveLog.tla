------------------------------ MODULE LiveLog ------------------------------
(***************************************************************************)
(* The output of ffmpeg while a job runs: the ring buffer behind the       *)
(* Jobs page's live log, which keeps the last lines of all runs of the     *)
(* job, and the error that a run which ends badly becomes: the tail of its *)
(* output, or, when the job's context is over, that the time ran out.      *)
(* Output arrives in chunks that end anywhere in a line.  Capture and this *)
(* module can be extended together: names both would have begin with Log.  *)
(***************************************************************************)
EXTENDS Naturals, SequencesExt

CONSTANTS
  Chars,      \* what a line is made of
  NL,         \* '\n'
  MaxLines,   \* maxLiveLogLines
  ErrorLines, \* the lines of a job's error
  MaxChunk,   \* bound: characters of one write
  MaxText     \* bound: characters of a job's output

ASSUME CharsAssumption  == NL \notin Chars
ASSUME LinesAssumption  == MaxLines \in Nat \ {0} /\ ErrorLines \in Nat \ {0}
ASSUME BoundsAssumption == MaxChunk \in Nat \ {0} /\ MaxText \in Nat

Text   == Seq(Chars \cup {NL})
Chunks == UNION {[1 .. n -> Chars \cup {NL}] : n \in 1 .. MaxChunk}

EmptyLog == [lines |-> <<>>, cur |-> <<>>]
NoError  == [why |-> "none", tail |-> <<>>]
TimedOut == [why |-> "timed out", tail |-> <<>>]

VARIABLES
  running, \* the still, then the clip, then none
  ended,   \* the run: "no", "failed" by itself, or "cut" off by the context
  over,    \* the job's context: its timeout has passed, or the process ends
  log,     \* the ringLog of this job
  errBuf,  \* the stderr of the run
  error,   \* the job's error
  text,    \* history: all that was written to the log
  earlier  \* history: how much of it by an earlier run

logVars == <<running, ended, over, log, errBuf, error, text, earlier>>

-----------------------------------------------------------------------------
(* Texts as lines.                                                         *)

\* strings.Split(t, "\n"): what follows the last newline is the last element.
Split(t) ==
  LET Extend(parts, x) == IF x = NL THEN Append(parts, <<>>)
                          ELSE [parts EXCEPT ![Len(parts)] = Append(@, x)]
  IN  FoldLeft(Extend, << <<>> >>, t)

Terminated(line) == Append(line, NL)
JoinLines(lines) == FoldLeft(LAMBDA joined, line : joined \o Terminated(line), <<>>, lines)

LastOf(s, n) == IF Len(s) > n THEN SubSeq(s, Len(s) - n + 1, Len(s)) ELSE s

\* Fault: one line too few is kept.
KeepOneLess(lines, line) == LastOf(Append(lines, line), MaxLines - 1)

AppendLine(lines, line) == LastOf(Append(lines, line), MaxLines)

AppendLines(lines, more) == FoldLeft(AppendLine, lines, more)

LogWrite(l, chunk) ==
  LET parts == Split(l.cur \o chunk)
  IN  [lines |-> AppendLines(l.lines, Front(parts)),
       cur   |-> parts[Len(parts)]]

\* What the reader gets: the partial line is shown as a line.
String(l) == JoinLines(IF l.cur = <<>> THEN l.lines ELSE Append(l.lines, l.cur))

Trimmed(t) ==
  LET keep == {0} \cup {i \in DOMAIN t : t[i] # NL}
  IN  SubSeq(t, 1, CHOOSE i \in keep : \A j \in keep : j <= i)

\* Fault: the first lines instead of the last.
FirstLines(t, n) ==
  LET parts == Split(Trimmed(t))
  IN  Front(JoinLines(IF Len(parts) > n THEN SubSeq(parts, 1, n) ELSE parts))

\* strings.Join puts newlines between lines only.
LastLines(t, n) == Front(JoinLines(LastOf(Split(Trimmed(t)), n)))

\* Fault: the tail, whatever ended the run.
TailAlways(expired, stderr) == [why |-> "failed", tail |-> LastLines(stderr, ErrorLines)]

\* ffmpegError.  (Scrubbing the tail of a token leaves its lines.)
FfmpegError(expired, stderr) ==
  IF expired THEN TimedOut ELSE [why |-> "failed", tail |-> LastLines(stderr, ErrorLines)]

-----------------------------------------------------------------------------
LogInit ==
  /\ running = "still" /\ ended = "no" /\ over = FALSE
  /\ log = EmptyLog /\ errBuf = <<>> /\ error = NoError
  /\ text = <<>> /\ earlier = 0

UnderWay == running # "none" /\ ended = "no"

\* The copy of stderr: the buffer of this run and the log get the same chunk.
LogOutput(chunk) ==
  /\ UnderWay /\ Len(text) + Len(chunk) <= MaxText
  /\ log' = LogWrite(log, chunk)
  /\ errBuf' = errBuf \o chunk
  /\ text' = text \o chunk
  /\ UNCHANGED <<running, ended, over, error, earlier>>

\* It may end at any time, also between the end of a run and the look at it.
ContextEnds ==
  /\ running # "none" /\ ~over
  /\ over' = TRUE
  /\ UNCHANGED <<running, ended, log, errBuf, error, text, earlier>>

\* The clip's run has a buffer of its own and goes on with the same log; its
\* command is not even started once the context is over.
StillDone ==
  /\ UnderWay /\ running = "still"
  /\ running' = "clip"
  /\ ended' = IF over THEN "cut" ELSE "no"
  /\ errBuf' = <<>> /\ earlier' = Len(text)
  /\ UNCHANGED <<over, log, error, text>>

ClipDone ==
  /\ UnderWay /\ running = "clip"
  /\ running' = "none"
  /\ UNCHANGED <<ended, over, log, errBuf, error, text, earlier>>

\* cmd.Run returns an error: ffmpeg gave up, or it was killed.
RunEnds(how) ==
  /\ UnderWay /\ (how = "cut" => over)
  /\ ended' = how
  /\ UNCHANGED <<running, over, log, errBuf, error, text, earlier>>

RunFailed ==
  /\ running # "none" /\ ended # "no"
  /\ running' = "none"
  /\ error' = FfmpegError(over, errBuf)
  /\ UNCHANGED <<ended, over, log, errBuf, text, earlier>>

LogNext == \/ \E chunk \in Chunks : LogOutput(chunk)
           \/ ContextEnds \/ StillDone \/ ClipDone
           \/ \E how \in {"failed", "cut"} : RunEnds(how)
           \/ RunFailed

LogSpec == LogInit /\ [][LogNext]_logVars

-----------------------------------------------------------------------------
(* Properties.                                                             *)

Newlines(t) == Cardinality({i \in DOMAIN t : t[i] = NL})

\* A suffix of t that starts with a line.
FromLineStart(s, t) ==
  /\ IsSuffix(s, t)
  /\ Len(s) = Len(t) \/ t[Len(t) - Len(s)] = NL

\* However the output was cut into chunks, the reader sees the end of it:
\* the last MaxLines whole lines and the one being written, none in part,
\* none twice, none left out.
ShowsTail ==
  LET all == IF text = <<>> \/ text[Len(text)] = NL THEN text ELSE Terminated(text)
      most == MaxLines + (IF all = text THEN 0 ELSE 1)
      shown == String(log)
  IN  /\ FromLineStart(shown, all)
      /\ Newlines(shown) = IF Newlines(all) < most THEN Newlines(all) ELSE most

\* An error that shows output shows the end of what the run that failed
\* wrote: its last ErrorLines lines, or all of them, without what an earlier
\* run wrote, and it never ends in blank lines that would push the reason out.
ErrorIsTail ==
  error.why = "failed" =>
    LET said == Trimmed(SubSeq(text, earlier + 1, Len(text)))
    IN  /\ FromLineStart(error.tail, said)
        /\ Newlines(error.tail) + 1 = IF Newlines(said) < ErrorLines THEN Newlines(said) + 1
                                                                      ELSE ErrorLines

\* What a run had written when the context cut it off is progress, not the
\* reason: the error says that the time ran out, and shows none of it.  A run
\* that gave up with time left shows its output, and one that ended well, no
\* error.  (A run that gave up just before the time did may go either way.)
CutOffShowsNoTail ==
  running = "none" =>
    /\ ended = "cut" => error = TimedOut
    /\ ended = "failed" /\ ~over => error.why = "failed"
    /\ ended = "no" => error = NoError
=============================================================================
