-------------------------- MODULE CommentedConfigFile --------------------------
(***************************************************************************)
(* Config files with comments, storage/Utils/CommentedConfigFile: lines    *)
(* are parsed to entries, each with the comments before it, and formatted  *)
(* again after entries were added, changed and removed.                    *)
(*                                                                         *)
(* A line has a kind: "empty", "comment", "entry" or "bad" (its columns    *)
(* cannot be parsed).  What else it has is left to the users.              *)
(***************************************************************************)
EXTENDS Integers, FiniteSets, SequencesExt

\* Empty lines and comments belong to the next entry.
IsComment(line) == line.kind \in {"empty", "comment"}

\* find_header_comment_end: up to the last empty line before the first content
\* line, otherwise up to the last comment before it.  (The line with index 0 does
\* not count as an empty line.)
HeaderEnd(lines) ==
  LET top == {i \in DOMAIN lines : \A j \in 1 .. i : IsComment(lines[j])}
      empty == {i \in top : lines[i].kind = "empty"}
  IN  IF \E i \in empty : i > 1 THEN Max(empty) ELSE Max({0} \cup (top \ empty))

\* find_footer_comment_start
FooterStart(lines) ==
  CHOOSE i \in HeaderEnd(lines) + 1 .. Len(lines) + 1 :
     /\ \A j \in i .. Len(lines) : IsComment(lines[j])
     /\ i > HeaderEnd(lines) + 1 => ~ IsComment(lines[i - 1])

\* The comments before line i, after line low.
CommentsBefore(lines, low, i) ==
  LET start == Max({low} \cup {j \in low + 1 .. i - 1 : ~ IsComment(lines[j])}) + 1
  IN  SubSeq(lines, start, i - 1)

\* parse and parse_entries.  Of a bad line nothing is kept, nor of the comments
\* before it.
Parse(lines) ==
  LET content == SelectSeq([i \in DOMAIN lines |-> i], LAMBDA i : lines[i].kind = "entry")
  IN  [header |-> SubSeq(lines, 1, HeaderEnd(lines)),
       entries |-> [n \in DOMAIN content |->
                      [before |-> CommentsBefore(lines, HeaderEnd(lines), content[n]),
                       line |-> lines[content[n]]]],
       footer |-> SubSeq(lines, FooterStart(lines), Len(lines))]

\* format_lines
Format(file) ==
  file.header
  \o FlattenSeq([n \in DOMAIN file.entries |-> Append(file.entries[n].before, file.entries[n].line)])
  \o file.footer

\* remove
RemoveEntries(file, gone) ==
  [file EXCEPT !.entries = SelectSeq(@, LAMBDA e : e.line \notin gone)]

\* Mutant of InsertEntry: the new entry gets between an entry and its comments.
InsertEntryAfterComments(file, n, line) ==
  LET taken == IF n \in DOMAIN file.entries THEN file.entries[n].before ELSE << >>
      rest == [m \in DOMAIN file.entries |-> IF m = n THEN [file.entries[m] EXCEPT !.before = << >>]
                                                      ELSE file.entries[m]]
  IN  [file EXCEPT !.entries = InsertAt(rest, n, [before |-> taken, line |-> line])]

\* insert and append: before entry n
InsertEntry(file, n, line) ==
  [file EXCEPT !.entries = InsertAt(@, n, [before |-> << >>, line |-> line])]
=============================================================================
