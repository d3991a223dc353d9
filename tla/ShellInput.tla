----------------------------- MODULE ShellInput -----------------------------
(***************************************************************************)
(* What the shell does with a line before it runs anything                 *)
(* (userspace/shell/src/lib.rs): tokenize, parse_pipeline, and the path    *)
(* arithmetic behind cd.  A line is a sequence of characters: "w" stands   *)
(* for any character of a word, "_" for a blank, "q" for the double quote; *)
(* the operators are themselves.  A path is a sequence of "/", "." and "a".*)
(***************************************************************************)
EXTENDS Integers, Sequences, SequencesExt

CONSTANTS MAX_TOKENS, MAX_CMDS, MAX_ARGS, MAX_PATH

ASSUME ShellInputAssumption ==
  /\ MAX_TOKENS \in Nat \ {0} /\ MAX_CMDS \in Nat \ {0}
  /\ MAX_ARGS \in Nat \ {0} /\ MAX_PATH \in Nat \ {0}

\* The first position from i on whose character is in S; past the end if none.
Find(s, i, S) ==
  CHOOSE j \in i..(Len(s) + 1) :
    /\ j <= Len(s) => s[j] \in S
    /\ \A k \in i..(j - 1) : s[k] \notin S

\* The line without its trailing blanks (shell_main).
Trimmed(s) ==
  SubSeq(s, 1, CHOOSE n \in 0..Len(s) : /\ n > 0 => s[n] # "_"
                                        /\ \A k \in (n + 1)..Len(s) : s[k] = "_")

-----------------------------------------------------------------------------

Characters == {"w", "_", "|", ">", "<", "q"}
BareEnd_QuoteToo == {"_", "|", ">", "<", "q"}
\* What ends a word that is not quoted; a quote inside it is an ordinary character.
BareEnd == {"_", "|", ">", "<"}

\* The token that starts at i, its text from start up to end, and where the scan
\* goes on; the quotes are no part of the text.
Token(kind, start, end, next) == [kind |-> kind, start |-> start, end |-> end, next |-> next]
TokenAt(s, i) ==
  CASE s[i] = "|" -> Token("Pipe", i, i + 1, i + 1)
    [] s[i] = ">" -> IF i < Len(s) /\ s[i + 1] = ">" THEN Token("AppendOut", i, i + 2, i + 2)
                                                     ELSE Token("RedirectOut", i, i + 1, i + 1)
    [] s[i] = "<" -> Token("RedirectIn", i, i + 1, i + 1)
    [] s[i] = "q" -> LET e == Find(s, i + 1, {"q"})
                     IN Token("Word", i + 1, e, IF e <= Len(s) THEN e + 1 ELSE e)
    [] OTHER      -> LET e == Find(s, i, BareEnd) IN Token("Word", i, e, e)

\* The tokens of s from position i on.
RECURSIVE TokensFrom(_, _, _)
TokensFrom(s, i, count) ==
  LET j == Find(s, i, Characters \ {"_"}) IN
  IF j > Len(s) \/ count = MAX_TOKENS THEN <<>>
  ELSE <<TokenAt(s, j)>> \o TokensFrom(s, TokenAt(s, j).next, count + 1)

tokenize(s) == TokensFrom(s, 1, 0)

\* ParsedCmd: where its words are, and the names kept for its redirections.  That
\* name is the text of the operator itself; the word after it is one more argument.
\* (append_mode only chooses the flags of open.)
NewCmd == [args |-> <<>>, stdin |-> <<>>, stdout |-> <<>>]
Redirects(c) == c.stdin # <<>> \/ c.stdout # <<>>

Pushed(cmds, c) == IF Len(cmds) < MAX_CMDS THEN Append(cmds, c) ELSE cmds

\* The command being built, after one token that is not a pipe.
Extended(s, c, tok) ==
  CASE tok.kind = "Word" ->
         [c EXCEPT !.args = IF Len(@) < MAX_ARGS THEN Append(@, <<tok.start, tok.end>>) ELSE @]
    [] tok.kind = "RedirectIn" -> [c EXCEPT !.stdin = SubSeq(s, tok.start, tok.end - 1)]
    [] OTHER -> [c EXCEPT !.stdout = SubSeq(s, tok.start, tok.end - 1)]

parse_pipeline(s, toks) ==
  LET Taken(p, tok) ==
        IF tok.kind = "Pipe" THEN [cmds |-> Pushed(p.cmds, p.current), current |-> NewCmd]
                             ELSE [p EXCEPT !.current = Extended(s, @, tok)]
      p == FoldLeft(Taken, [cmds |-> <<>>, current |-> NewCmd], toks)
  IN IF p.current.args # <<>> THEN Pushed(p.cmds, p.current) ELSE p.cmds

-----------------------------------------------------------------------------
\* Paths.

\* The names of a path in order: its maximal runs without a slash.
RECURSIVE NamesFrom(_, _)
NamesFrom(s, i) ==
  LET j == Find(s, i, {".", "a"})
      e == Find(s, j, {"/"})
  IN IF j > Len(s) THEN <<>> ELSE <<SubSeq(s, j, e - 1)>> \o NamesFrom(s, e)

\* One name of normalize_path: "." is skipped, ".." drops the last name kept.
Stepped(parts, name) ==
  CASE name = <<".">> -> parts
    [] name = <<".", ".">> -> SubSeq(parts, 1, Len(parts) - 1)
    [] OTHER -> Append(parts, name)

normalize_path(s) ==
  LET parts == FoldLeft(Stepped, <<>>, NamesFrom(s, 1))
  IN IF parts = <<>> THEN <<"/">>
     ELSE FoldLeft(LAMBDA path, name : path \o <<"/">> \o name, <<>>, parts)

\* resolve_full_path; the empty sequence stands for its FALSE.
resolve_full_path(cwd, path) ==
  CASE path = <<>> -> <<>>
    [] path # <<>> /\ path[1] = "/" -> normalize_path(path)
    [] path # <<>> /\ path[1] # "/" /\ Len(cwd) + 1 + Len(path) >= MAX_PATH -> <<>>
    [] OTHER -> normalize_path(cwd \o <<"/">> \o path)
=============================================================================
