------------------------------- MODULE Settings -------------------------------
(***************************************************************************)
(* InitParser, which reads one section of a settings file into             *)
(* iniContainer, and what it is meant to read.                             *)
(*                                                                         *)
(* A line is its text cut at "="; a tag line [name] is <<"[", name>>.      *)
(***************************************************************************)
EXTENDS Naturals, Sequences, FiniteSetsExt

Tag(name) == <<"[", name>>

\* tagLineNum_ after one findLine.
TagLines(file) == {n \in DOMAIN file : file[n][1] = "["}

\* startPos_: the last line with the tag of the target, or 0.
StartPos(file, target) == Max({0} \cup {n \in DOMAIN file : file[n] = Tag(target)})

\* Mutant: the section ends at the next tag but one.
EndOneLate(file, target, again, beyond) ==
  LET start == StartPos(file, target)
      later == {n \in TagLines(file) : n > start}
      next == IF later # {} THEN IF later = {Min(later)} THEN beyond
                                 ELSE Min(later \ {Min(later)})
              ELSE IF again THEN Min(TagLines(file)) ELSE beyond
  IN  IF start = 0 THEN 0 ELSE IF next = 0 THEN Len(file) + 1 ELSE next

\* endPos_: the next tag line.  For the last section it is read past the end of
\* the vector: on a first readLine whatever lies beyond, and when readLine is
\* called again the first tag line, which findLine has appended once more; 0
\* stands for the end of the file.
EndPos(file, target, again, beyond) ==
  LET start == StartPos(file, target)
      later == {n \in TagLines(file) : n > start}
      next == IF later # {} THEN Min(later)
              ELSE IF again THEN Min(TagLines(file)) ELSE beyond
  IN  IF start = 0 THEN 0 ELSE IF next = 0 THEN Len(file) + 1 ELSE next

\* The places of the "=" in the lines of a section: each assigns what is behind it
\* to what is before it, back to the last one.
Assignments(file, lines) ==
  UNION {{n} \X {i \in DOMAIN file[n] : i < Len(file[n])} : n \in lines}

\* The last assignment of a key stays.
LastValue(file, lines, key) ==
  LET places == {p \in Assignments(file, lines) : file[p[1]][p[2]] = key}
      n == Max({p[1] : p \in places})
      i == Max({p[2] : p \in {q \in places : q[1] = n}})
  IN  SubSeq(file[n], i + 1, Len(file[n]))

\* What readLine assigns to iniContainer.
readLine(file, target, again, beyond) ==
  LET lines == {n \in DOMAIN file : /\ StartPos(file, target) < n
                                    /\ n < EndPos(file, target, again, beyond)}
  IN  [k \in {file[p[1]][p[2]] : p \in Assignments(file, lines)} |->
         LastValue(file, lines, k)]

\* Mutant: iniContainer is cleared first.
Replace(container, read) == read

\* iniContainer keeps what is not assigned again.
Overwrite(container, read) ==
  [k \in DOMAIN container \cup DOMAIN read |->
     IF k \in DOMAIN read THEN read[k] ELSE container[k]]

\* What a section says of a key: the value of the last of its lines with the key
\* before the first "=", or nothing.
Configured(file, target, key) ==
  LET section == {n \in DOMAIN file :
                    \E m \in 1..n : /\ file[m] = Tag(target)
                                    /\ \A k \in (m + 1)..n : file[k][1] # "["}
      lines == {n \in section : Len(file[n]) > 1 /\ file[n][1] = key}
  IN  IF lines = {} THEN <<>> ELSE Tail(file[Max(lines)])

\* A file InitParser reads a key from as it is meant: one section has the name, the
\* key is in front of a first "=" only, and only a section that is not the last,
\* whose end is known, gives it more than once.
Plain(file, target, key) ==
  LET section == {n \in DOMAIN file :
                    \E m \in 1..(n - 1) : /\ file[m] = Tag(target)
                                          /\ \A k \in (m + 1)..n : file[k][1] # "["}
      keyed == {n \in section : \E i \in 1..(Len(file[n]) - 1) : file[n][i] = key}
  IN  /\ \A m, n \in DOMAIN file : file[m] = Tag(target) /\ file[n] = Tag(target) => m = n
      /\ \A n \in keyed : \A i \in 1..(Len(file[n]) - 1) : file[n][i] = key => i = 1
      /\ \/ \E n \in TagLines(file) : n > StartPos(file, target)
         \/ \A m, n \in keyed : m = n
===============================================================================
