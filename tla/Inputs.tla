---------------------------------- MODULE Inputs ----------------------------------
(***************************************************************************)
(* What the agent makes of what it reads: the files of the include         *)
(* directory (base/settings/include.go), the query of get_msgs             *)
(* (core0/logger/get_msgs.go, base/utils/utils.go), and the output of      *)
(* "btrfs filesystem show" (core0/builtin/btrfs.go).                       *)
(***************************************************************************)
EXTENDS Integers, Sequences, SequencesExt, FiniteSets

CONSTANT cmdGetMsgsDefaultLimit    \* the most rows get_msgs returns

ASSUME LimitAssumption == cmdGetMsgsDefaultLimit \in Nat

\* A result or an error.
Error == <<>>
Ok(v) == <<v>>

-----------------------------------------------------------------------------
(* GetIncludedSettings                                                     *)

\* A file of the directory: whether it has the suffix .toml, whether it loads, and the keys
\* of its extension and startup sections.  What is collected maps a key to the number of
\* the file it is taken from.
NoSettings == [extension |-> [k \in {} |-> 0], startup |-> [k \in {} |-> 0], errors |-> 0]

With(f, S, i) == [k \in DOMAIN f \cup S |-> IF k \in S THEN i ELSE f[k]]

\* One turn of the loop: an extension that the main settings or an earlier file have is an
\* error and skipped, a startup section replaces an earlier one.
Include(mainKeys, acc, file, i) ==
    LET taken == file.extension \cap (mainKeys \cup DOMAIN acc.extension) IN
    IF ~file.suffix THEN acc
    ELSE IF ~file.loads THEN [acc EXCEPT !.errors = @ + 1]
    ELSE [extension |-> With(acc.extension, file.extension \ taken, i),
          startup |-> With(acc.startup, file.startup, i),
          errors |-> acc.errors + Cardinality(taken)]

\* The files in the order of their names.
GetIncludedSettings(mainKeys, files) ==
    FoldLeftDomain(LAMBDA acc, i : Include(mainKeys, acc, files[i], i), NoSettings, files)

-----------------------------------------------------------------------------
(* get_msgs                                                                *)

validLevels == (1 .. 11) \cup (20 .. 23) \cup {30}

\* In place of a number: the text "*", text that is no number, or no text.
Star == -1
NaN == -2
None == -3

\* Expand: of every part its bounds, as they were split at a dash.  The upper bound is
\* parsed first, then "*" is looked for, then the lower bound is parsed.
Expand(parts) ==
    LET Levels(p) ==
            IF p.lower = Star THEN validLevels
            ELSE IF p.upper = None THEN validLevels \cap {p.lower}
            ELSE validLevels \cap (p.lower .. (IF p.upper > 30 THEN 30 ELSE p.upper))
        bad == \E k \in DOMAIN parts : parts[k].upper = NaN \/ parts[k].lower = NaN
    IN IF bad THEN Error ELSE Ok(UNION {Levels(parts[k]) : k \in DOMAIN parts})

\* getLevels: nothing stands for "*", a text is expanded, and an array, which arrives as
\* []interface{}, is none of the types of the switch.
getLevels(levels) ==
    CASE levels.form = "absent" -> Ok(validLevels)
      [] levels.form = "text"   -> Expand(levels.parts)
      [] levels.form = "array"  -> Ok({})

\* The keys of the rows are compared as text: by time, then by level.
KeyAfter(r, s) == r.epoch > s.epoch \/ (r.epoch = s.epoch /\ r.level > s.level)

Limit(n) == IF n > cmdGetMsgsDefaultLimit THEN cmdGetMsgsDefaultLimit ELSE n

\* getMsgs: the cursor goes from the last row back, until enough rows were taken.
getMsgs(rows, query) ==
    LET levels == getLevels(query.levels)
        Visit(acc, r) == IF Len(acc) < Limit(query.limit) /\ r.level \in levels[1]
                         THEN Append(acc, r) ELSE acc
    IN IF levels = Error THEN Error
       ELSE Ok(FoldLeft(Visit, <<>>, SetToSortSeq(rows, KeyAfter)))

-----------------------------------------------------------------------------
(* btrfs.list                                                              *)

\* Lines of "btrfs filesystem show": the kind of a line, and the number of what it is about.
Line(kind, n) == [kind |-> kind, n |-> n]
Empty == Line("", 0)

\* btrfsParseFS: a label without blanks and the totals, and then devices; other lines
\* are passed over.
btrfsParseFS(lines) ==
    IF lines[1].kind # "Label" \/ lines[2].kind # "Total" THEN Error
    ELSE Ok([uuid |-> lines[1].n,
             devices |-> LET dev == SelectSeq(SubSeq(lines, 3, Len(lines)), LAMBDA l : l.kind = "devid")
                         IN [k \in DOMAIN dev |-> dev[k].n]])

IsLabel(line) == line.kind \in {"Label", "Label with a blank"}

\* Mutant: the line that ends a filesystem is dropped, also when it begins the next.
ParseLineDrops(all, acc, i) ==
    LET line == all[i]
        ends == (IsLabel(line) /\ i # 1) \/ line = Empty \/ i = Len(all)
        lines == IF ends /\ IsLabel(line) THEN acc.lines ELSE Append(acc.lines, line)
        fs == btrfsParseFS(lines)
    IN IF acc.failed THEN acc
       ELSE IF ~ends \/ Len(lines) < 3 THEN [acc EXCEPT !.lines = lines]
       ELSE IF fs = Error THEN [acc EXCEPT !.failed = TRUE]
       ELSE [acc EXCEPT !.fss = Append(@, fs[1]), !.lines = <<>>]

\* One turn of the loop of btrfsParseList, for line i of all.
ParseLine(all, acc, i) ==
    LET line == all[i]
        kept == IF IsLabel(line) THEN <<line>> ELSE <<>>
        ends == (IsLabel(line) /\ i # 1) \/ line = Empty \/ i = Len(all)
        lines == IF ends /\ IsLabel(line) THEN acc.lines ELSE Append(acc.lines, line)
        fs == btrfsParseFS(lines)
    IN IF acc.failed THEN acc
       ELSE IF ~ends \/ Len(lines) < 3 THEN [acc EXCEPT !.lines = lines]
       ELSE IF fs = Error THEN [acc EXCEPT !.failed = TRUE]
       ELSE [acc EXCEPT !.fss = Append(@, fs[1]), !.lines = kept]

btrfsParseList(all) ==
    LET end == FoldLeftDomain(LAMBDA acc, i : ParseLine(all, acc, i),
                              [fss |-> <<>>, lines |-> <<>>, failed |-> FALSE], all)
    IN IF Len(all) < 3 \/ end.failed THEN Error ELSE Ok(end.fss)
=============================================================================
