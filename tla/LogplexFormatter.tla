-------------------------- MODULE LogplexFormatter --------------------------
(***************************************************************************)
(* logplex_formatter.go: the body of one request to logplex, made from a   *)
(* batch and from the reports of dropped and lost lines, and handed out    *)
(* piece by piece to whoever reads it.  The configuration it depends on is *)
(* made first, as parseFlags and getConfig of main.go make it.             *)
(*                                                                         *)
(* A body is a sequence of units: <<"line", i, k>> is the k-th byte of the *)
(* i-th line of the batch, <<"drop", 0, k>> and <<"lost", 0, k>> are bytes *)
(* of the reports, <<"prefix", len, 0>> is the length prefix of a frame    *)
(* and <<"name", 0, k>> a part of the syslog header that raw lines get.    *)
(***************************************************************************)
EXTENDS Naturals, Sequences, SequencesExt

CONSTANTS
  MaxLineLengths,  \* the values config.MaxLineLength may have
  HeaderSizes,     \* the sizes of the syslog header, as the names make it
  LineLengths,     \* the lengths of the lines in a batch
  MaxLines,        \* bound: the number of lines in a batch
  Buffers          \* the lengths of the buffers a reader of the body brings

ASSUME LogplexAssumption ==
  /\ MaxLineLengths \subseteq Nat \ {0} /\ MaxLineLengths # {}
  /\ HeaderSizes \subseteq Nat \ {0} /\ HeaderSizes # {}
  /\ LineLengths \subseteq Nat \ {0}  \* ReadLines adds no empty line
  /\ MaxLines \in Nat
  /\ Buffers \subseteq Nat \ {0} /\ Buffers # {}

VARIABLES
  stage,       \* "flags", "header", "format", "read", and "refused" by getConfig
  format,      \* config.InputFormat
  maxLine,     \* config.MaxLineLength
  names,       \* the size of the names that the syslog header is made of
  headerSize,  \* config.lengthPrefixedSyslogFrameHeaderSize
  reports,     \* eData
  lines,       \* the lengths of the lines of the batch
  readers,     \* the formatters io.MultiReader has not read to the end
  headerPos, msgPos,  \* the positions in the first of them
  msgCount,    \* bf.msgCount, what Logplex-Msg-Count says
  body         \* what has been read so far

configVars == <<format, maxLine, names, headerSize>>
batchVars  == <<reports, lines, msgCount>>
readVars   == <<readers, headerPos, msgPos, body>>
lpVars     == <<stage, configVars, batchVars, readVars>>

Formats == {"raw", "rfc5424", "lprfc5424"}
EData   == {<<>>, <<"drop">>, <<"lost">>, <<"drop", "lost">>}

ReportLength == 2  \* bound: the length of a report
DefaultSize  == CHOOSE s \in HeaderSizes : \A t \in HeaderSizes : s <= t

-----------------------------------------------------------------------------
(***************************************************************************)
(* The formatters of lines and reports                                     *)
(***************************************************************************)
Prefix(length) == <<"prefix", length, 0>>
SyslogHeader == [k \in 1..names |-> <<"name", 0, k>>]

LineText(i, length) == [k \in 1..length |-> <<"line", i, k>>]
ReportText(e) == [k \in 1..ReportLength |-> <<e, 0, k>>]

\* NewLogplexLineFormatter: the length of a raw frame is computed from the
\* header size that ComputeHeader left in the configuration.
LineHeader(text) ==
  CASE format = "raw" -> <<Prefix(Len(text) + headerSize)>> \o SyslogHeader
    [] format = "rfc5424" -> <<Prefix(Len(text))>>
    [] format = "lprfc5424" -> <<>>

LineFormatter(text) == [header |-> LineHeader(text), text |-> text]

ErrorFormatter(e) == [header |-> <<Prefix(ReportLength)>>, text |-> ReportText(e)]

\* Mutant of PieceCount: the rest of the line is forgotten.
PieceCountFloor(length) == length \div maxLine

\* How often the loop of splitLine runs.
PieceCount(length) == (length + maxLine - 1) \div maxLine

\* splitLine.
Pieces(text) ==
  [j \in 1..PieceCount(Len(text)) |->
     SubSeq(text, (j - 1) * maxLine + 1, Min({j * maxLine, Len(text)}))]

\* Mutant of Splits: a line may be one byte too long.
SplitsLate(text) == format = "raw" /\ Len(text) > maxLine + 1

Splits(text) == format = "raw" /\ Len(text) > maxLine

\* What a line of the batch becomes; a split line is a batch of its own.
SubFormatters(text) ==
  LET parts == IF Splits(text) THEN Pieces(text) ELSE <<text>>
  IN  [j \in DOMAIN parts |-> LineFormatter(parts[j])]

\* Mutant of MsgCount: split lines count once.
MsgCountLines(rs) == Len(SelectSeq(rs, LAMBDA f : f.text[1][3] = 1))

\* Each line formatter counts for one message.
MsgCount(rs) == Len(rs)

-----------------------------------------------------------------------------
LPInit ==
  /\ stage = "flags"
  /\ format = "raw"
  /\ maxLine \in MaxLineLengths
  /\ names = DefaultSize
  /\ headerSize = DefaultSize
  /\ reports = <<>>
  /\ lines = <<>>
  /\ readers = <<>>
  /\ headerPos = 0
  /\ msgPos = 0
  /\ msgCount = 0
  /\ body = <<>>

\* The flags that name the fields of the header.
NameFlags == names' \in HeaderSizes

\* parseFlags: the names, -input-format, and -skip-headers.  An unknown format
\* is refused as it is read, with 0 for the format, that is raw.
ParseFlags ==
  /\ stage = "flags"
  /\ NameFlags
  /\ \/ /\ format' = "raw"
        /\ stage' = "refused"
     \/ \E f \in Formats, skipHeaders \in BOOLEAN :
          \/ /\ ~skipHeaders
             /\ format' = f
             /\ stage' = "header"
          \/ /\ skipHeaders
             /\ f # "lprfc5424"
             /\ format' = "rfc5424"
             /\ stage' = "header"
          \/ /\ skipHeaders
             /\ f = "lprfc5424"
             /\ format' = f
             /\ stage' = "refused"
  /\ UNCHANGED <<maxLine, headerSize, batchVars, readVars>>

\* Mutant of NewHeaderSize: ComputeHeader is not called for the new names.
StaleHeaderSize == headerSize

NewHeaderSize == names

\* getConfig: ComputeHeader, once the names are known.
ComputeHeader ==
  /\ stage = "header"
  /\ headerSize' = NewHeaderSize
  /\ stage' = "format"
  /\ UNCHANGED <<format, maxLine, names, batchVars, readVars>>

\* NewLogplexBatchFormatter, for a batch (none is empty) with reports or without.
NewFormatter ==
  /\ stage = "format"
  /\ reports' \in EData
  /\ \E n \in 1..MaxLines : lines' \in [1..n -> LineLengths]
  /\ readers' =
       [i \in DOMAIN reports' |-> ErrorFormatter(reports'[i])] \o
       FlattenSeq([i \in DOMAIN lines' |-> SubFormatters(LineText(i, lines'[i]))])
  /\ msgCount' = MsgCount(readers')
  /\ stage' = "read"
  /\ UNCHANGED <<configVars, headerPos, msgPos, body>>

AtEnd == stage = "read" /\ readers = <<>>

\* bf.Read with a buffer of size units: io.MultiReader reads from the first
\* formatter only, which gives h units of its header and m of its text, and
\* its io.EOF together with the last of them.
ReadBody(size) ==
  /\ stage = "read"
  /\ readers # <<>>
  /\ LET f == Head(readers)
         h == Min({size, Len(f.header) - headerPos})
         m == Min({size - h, Len(f.text) - msgPos})
     IN
     /\ body' = body \o SubSeq(f.header, headerPos + 1, headerPos + h)
                     \o SubSeq(f.text, msgPos + 1, msgPos + m)
     /\ \/ /\ msgPos + m = Len(f.text)
           /\ readers' = Tail(readers)
           /\ headerPos' = 0
           /\ msgPos' = 0
        \/ /\ msgPos + m < Len(f.text)
           /\ headerPos' = headerPos + h
           /\ msgPos' = msgPos + m
           /\ UNCHANGED readers
  /\ UNCHANGED <<stage, configVars, batchVars>>

-----------------------------------------------------------------------------
(***************************************************************************)
(* Properties                                                              *)
(***************************************************************************)
\* What the variables may hold.
LPTypeOK ==
  /\ stage \in {"flags", "header", "format", "read", "refused"}
  /\ format \in Formats
  /\ maxLine \in MaxLineLengths
  /\ {names, headerSize} \subseteq HeaderSizes
  /\ reports \in EData
  /\ lines \in Seq(LineLengths)
  /\ \A i \in DOMAIN readers : readers[i].text # <<>>
  /\ readers = <<>> => headerPos = 0 /\ msgPos = 0
  /\ readers # <<>> => /\ headerPos \in 0..Len(readers[1].header)
                       /\ msgPos \in 0..(Len(readers[1].text) - 1)
                       /\ msgPos > 0 => headerPos = Len(readers[1].header)

IsPrefixUnit(u) == u[1] = "prefix"
IsHeaderUnit(u) == u[1] \in {"prefix", "name"}
IsText(u) == ~IsHeaderUnit(u)

\* The text in a part of a body.
TextOf(s) == FlattenSeq([i \in DOMAIN s |-> IF IsText(s[i]) THEN <<s[i]>> ELSE <<>>])

\* The reports and the lines, byte by byte.
AllText ==
  FlattenSeq([i \in DOMAIN reports |-> ReportText(reports[i])]) \o
  FlattenSeq([i \in DOMAIN lines |-> LineText(i, lines[i])])

\* The comment of LogplexBatchFormatter, "splitting them as necessary": however
\* lines are split and whatever buffers the reader brings, the text that has
\* been read is what the reports and then the lines begin with, and all of it
\* at the end.
TextWhole ==
  /\ IsPrefix(TextOf(body), AllText)
  /\ AtEnd => TextOf(body) = AllText

FrameStarts == {p \in DOMAIN body : IsPrefixUnit(body[p])}
After(p) == p + body[p][2] + 1

\* The comment of LogplexBatchFormatter, "length prefixed": who goes by the
\* length prefixes finds the next prefix where a frame ends, nowhere else, and
\* the end of the body where the last one does.
Framed ==
  format # "lprfc5424" =>
    /\ body # <<>> => 1 \in FrameStarts
    /\ \A p \in FrameStarts :
         /\ \A q \in FrameStarts : p < q => After(p) <= q
         /\ After(p) <= Len(body) => After(p) \in FrameStarts
         /\ AtEnd => After(p) <= Len(body) + 1

\* The header Logplex-Msg-Count is computed before anything is read; it is the
\* number of frames in the body, the pieces of split lines and the reports
\* included. Only raw lines are split.
FramesCounted ==
  AtEnd =>
    /\ format # "lprfc5424" => msgCount = Cardinality(FrameStarts)
    /\ format # "raw" => msgCount = Len(reports) + Len(lines)

\* The flag -max-line-length, "Number of bytes that the backend allows per
\* line": no frame of a raw line has more, its syslog header aside, and no
\* frame is without text.
LineLimit ==
  format = "raw" =>
    \A p \in FrameStarts :
      /\ body[p][2] <= Max({ReportLength, maxLine + headerSize})
      /\ After(p) <= Len(body) => IsText(body[After(p) - 1])
=============================================================================
