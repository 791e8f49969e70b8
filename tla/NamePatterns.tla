---------------------------- MODULE NamePatterns ----------------------------
(***************************************************************************)
(* Host names and patterns with wildcards, src/src/util/patterns.rs: the   *)
(* loop that matches a glob with one place to go back to, the one-pass     *)
(* scans that accept names and patterns, and the match of a name label by  *)
(* label.  Text is a sequence of characters.                               *)
(***************************************************************************)
EXTENDS Naturals, Sequences, SequencesExt, FiniteSets

CONSTANTS
    LetterOf,                 \* each letter, with the letter it is in upper case
    Digits,                   \* the digits
    Texts,                    \* the texts that may be entered, with their beginnings
    GlobValues,               \* the values that a text is matched with as a glob
    MaxGlob,                  \* the longest text that is tried as a glob
    LocalLabel,               \* "local", in upper case
    MAX_LABEL_LENGTH, MAX_HOSTNAME_LENGTH, MIN_LABELS, MAX_WILDCARDS_PER_LABEL

ASSUME LimitsAssumption ==
    {MAX_LABEL_LENGTH, MAX_HOSTNAME_LENGTH, MIN_LABELS, MAX_WILDCARDS_PER_LABEL} \subseteq Nat

\* Letters and digits are none of the characters with a meaning.
ASSUME TextAssumption ==
    /\ Texts \cup GlobValues \subseteq Seq(STRING)
    /\ (DOMAIN LetterOf \cup Digits) \cap {".", "-", "*"} = {}

VARIABLE entered   \* the text of a host name or pattern, as far as it was entered

Letters == DOMAIN LetterOf

Upper(c) == IF c \in Letters THEN LetterOf[c] ELSE c

-----------------------------------------------------------------------------
(* is_string_matching_glob_pattern *)

\* Positions count from 0; v and p are where the loop is, nextV and nextP where a
\* mismatch goes back to, and nextV = 0 says that there is no such place.
Place(value, pattern) ==
    [v : 0..Len(value), nextV : 0..Len(value), p : 0..Len(pattern), nextP : 0..Len(pattern)]

AtEnd(value, pattern, at) == at.v = Len(value) /\ at.p = Len(pattern)

AtStar(pattern, at) == at.p < Len(pattern) /\ pattern[at.p + 1] = "*"

AtSame(value, pattern, at) ==
    /\ at.p < Len(pattern) /\ at.v < Len(value)
    /\ Upper(value[at.v + 1]) = Upper(pattern[at.p + 1])

Back_Once(v, size) == 0

Back(v, size) == IF v < size THEN v + 1 ELSE 0

\* The next step of the loop.
Step(value, pattern, at) ==
    IF AtStar(pattern, at)
    THEN [at EXCEPT !.p = @ + 1, !.nextP = at.p, !.nextV = Back(at.v, Len(value))]
    ELSE IF AtSame(value, pattern, at) THEN [at EXCEPT !.v = @ + 1, !.p = @ + 1]
    ELSE [at EXCEPT !.v = at.nextV, !.p = at.nextP]

GoesOn(value, pattern, at) ==
    AtStar(pattern, at) \/ AtSame(value, pattern, at) \/ at.nextV # 0

is_string_matching_glob_pattern(value, pattern) ==
    LET glob[at \in Place(value, pattern)] ==
           \/ AtEnd(value, pattern, at)
           \/ GoesOn(value, pattern, at) /\ glob[Step(value, pattern, at)]
    IN glob[[v |-> 0, nextV |-> 0, p |-> 0, nextP |-> 0]]

-----------------------------------------------------------------------------
(* is_valid_dns_name and is_valid_dns_name_pattern: the same pass over the     *)
(* bytes, with wildcards in the second.                                        *)

Start == [ok |-> TRUE, bytes |-> 0, labels |-> 0, label |-> <<>>, starred |-> {}]

Stars(label) == Cardinality({i \in DOMAIN label : label[i] = "*"})

LabelFits(label) == Len(label) - Stars(label) <= MAX_LABEL_LENGTH

EndLabel(s) ==
    [s EXCEPT !.ok = @ /\ s.label # <<>> /\ Last(s.label) # "-" /\ LabelFits(s.label),
              !.labels = @ + 1,
              !.starred = IF Stars(s.label) > 0 THEN @ \cup {s.labels + 1} ELSE @,
              !.label = <<>>]

ScanByte(s, byte) ==
    IF ~s.ok THEN s
    ELSE IF byte = "." THEN EndLabel(s)
    ELSE [s EXCEPT !.ok = /\ byte \in Letters \cup Digits \cup {"-", "*"}
                          /\ s.label = <<>> => byte # "-"
                          /\ byte = "*" => Stars(s.label) < MAX_WILDCARDS_PER_LABEL,
                   !.bytes = IF byte = "*" THEN @ ELSE @ + 1,
                   !.label = Append(@, byte)]

\* After the last byte: the label that is open is the last one.
Accepts(s) ==
    LET last == s.label
        end == EndLabel(s)
    IN /\ last # <<>> /\ end.ok
       /\ end.labels >= MIN_LABELS
       /\ end.starred \cap {end.labels, end.labels - 1} = {}
       /\ \E i \in DOMAIN last : last[i] \notin Digits
       /\ [i \in DOMAIN last |-> Upper(last[i])] # LocalLabel
       /\ s.bytes \in 1..MAX_HOSTNAME_LENGTH

is_valid_dns_name_pattern(text) ==
    LET scan[n \in 0..Len(text)] == IF n = 0 THEN Start ELSE ScanByte(scan[n - 1], text[n])
    IN scan[Len(text)].ok /\ Accepts(scan[Len(text)])

\* Here "*" is a character that is not allowed.
is_valid_dns_name(text) == "*" \notin ToSet(text) /\ is_valid_dns_name_pattern(text)

-----------------------------------------------------------------------------
(* is_dns_name_matching_pattern *)

\* The label that starts at a position, which counts from 1, and the position
\* after its dot.
LabelEnd(text, pos) ==
    LET dots == {i \in pos..Len(text) : text[i] = "."}
    IN IF dots = {} THEN Len(text) ELSE (CHOOSE i \in dots : \A j \in dots : i <= j) - 1

LabelAt(text, pos) == SubSeq(text, pos, LabelEnd(text, pos))

AfterLabel(text, pos) == LabelEnd(text, pos) + 2

is_dns_name_matching_pattern(name, pattern) ==
    LET matches[at \in [n : 1..(Len(name) + 1), p : 1..(Len(pattern) + 1)]] ==
           LET next == [n |-> AfterLabel(name, at.n), p |-> AfterLabel(pattern, at.p)]
               nameEnds == next.n > Len(name)
               patternEnds == next.p > Len(pattern)
           IN /\ is_string_matching_glob_pattern(LabelAt(name, at.n), LabelAt(pattern, at.p))
              /\ \/ nameEnds /\ patternEnds
                 \/ ~nameEnds /\ ~patternEnds /\ matches[next]
    IN matches[[n |-> 1, p |-> 1]]

-----------------------------------------------------------------------------
(* A text is entered character by character. *)

Type(c) ==
    /\ Append(entered, c) \in Texts
    /\ entered' = Append(entered, c)

TextNext == \E text \in Texts : \E c \in ToSet(text) : Type(c)

TextSpec == entered = <<>> /\ [][TextNext]_entered

-----------------------------------------------------------------------------
(* Properties *)

\* What a glob means: "*" stands for any text, also none, every other character
\* for itself in either case.  StartsFor is where in a value a text may start that
\* c and what starts at one of the places in later stand for; rest[n] is where the
\* part may start that the last n characters of the pattern stand for.
StartsFor(c, later, value) ==
    {i \in 0..Len(value) :
        IF c = "*" THEN \E j \in later : i <= j
        ELSE i + 1 \in later /\ Upper(value[i + 1]) = Upper(c)}

Means(pattern, value) ==
    LET rest[n \in 0..Len(pattern)] ==
           IF n = 0 THEN {Len(value)}
           ELSE StartsFor(pattern[Len(pattern) - n + 1], rest[n - 1], value)
    IN 0 \in rest[Len(pattern)]

\* Keeping the last "*" only as the place to go back to is enough: the loop accepts
\* exactly the values the pattern means.
GlobIsRight ==
    Len(entered) <= MaxGlob =>
        \A value \in GlobValues :
            is_string_matching_glob_pattern(value, entered) <=> Means(entered, value)

\* The labels of a text start at its beginning and after each dot.
Starts(text) == {1} \cup {i + 1 : i \in {j \in DOMAIN text : text[j] = "."}}

After(text, pos) == {i \in Starts(text) : pos < i}

\* A label is short enough with its wildcards left out, as the code counts it.
IsLabel(label, wildcards) ==
    /\ label # <<>> /\ label[1] # "-" /\ Last(label) # "-"
    /\ ToSet(label) \subseteq Letters \cup Digits \cup {"-", "*"}
    /\ Len(label) <= MAX_LABEL_LENGTH + Stars(label)
    /\ Stars(label) <= wildcards

HasHostLabels(text, wildcards) ==
    /\ Cardinality(Starts(text)) >= MIN_LABELS
    /\ \A pos \in Starts(text) :
          LET label == LabelAt(text, pos)
          IN /\ IsLabel(label, wildcards)
             /\ Stars(label) > 0 => Cardinality(After(text, pos)) >= 2
             /\ After(text, pos) = {} =>
                   /\ ~(ToSet(label) \subseteq Digits)
                   /\ [i \in DOMAIN label |-> Upper(label[i])] # LocalLabel

\* The length without dots and wildcards.
Bare(text) == Cardinality({i \in DOMAIN text : text[i] \notin {".", "*"}})

\* A host name as the documentation defines it: every character counts towards
\* the length of its label and of the whole.
IsHostName(text, wildcards) ==
    /\ HasHostLabels(text, wildcards)
    /\ \A pos \in Starts(text) : Len(LabelAt(text, pos)) <= MAX_LABEL_LENGTH
    /\ Len(text) <= MAX_HOSTNAME_LENGTH

\* The one-pass scans accept every host name, and what else they accept is a host
\* name but for its length: its labels obey the rules, and only dots and wildcards
\* make it too long.
ScansAreRight ==
    \A scan \in {<<is_valid_dns_name(entered), 0>>,
                 <<is_valid_dns_name_pattern(entered), MAX_WILDCARDS_PER_LABEL>>} :
       /\ IsHostName(entered, scan[2]) => scan[1]
       /\ scan[1] => HasHostLabels(entered, scan[2]) /\ Bare(entered) <= MAX_HOSTNAME_LENGTH

ValidPatterns == {text \in Texts : is_valid_dns_name_pattern(text)}

\* The n-th label of one text and the n-th of another.
Abreast(s, t) ==
    {pair \in Starts(s) \X Starts(t) :
        Cardinality(After(s, pair[1])) = Cardinality(After(t, pair[2]))}

\* A valid name matches a valid pattern if and only if they have as many labels
\* and each label matches; in particular a name is a pattern that it matches.
MatchIsLabelwise ==
    is_valid_dns_name(entered) =>
        /\ is_valid_dns_name_pattern(entered)
        /\ \A pattern \in ValidPatterns :
              is_dns_name_matching_pattern(entered, pattern) <=>
                 /\ Cardinality(Starts(entered)) = Cardinality(Starts(pattern))
                 /\ \A pair \in Abreast(entered, pattern) :
                       Means(LabelAt(pattern, pair[2]), LabelAt(entered, pair[1]))

\* Globs, scans and the match label by label do what they are meant to do.
PatternsAreRight == entered # <<>> => GlobIsRight /\ ScansAreRight /\ MatchIsLabelwise

=============================================================================
