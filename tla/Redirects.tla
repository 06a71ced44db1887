------------------------------ MODULE Redirects ------------------------------
(***************************************************************************)
(* The rules of a _redirects file (internal/redirects): which of them are  *)
(* valid, which one a path matches, and what the status page says.         *)
(*                                                                         *)
(* A path is a sequence of characters.  The from of a rule is a sequence   *)
(* of segments: sequences of characters, "*" or ":placeholder".            *)
(***************************************************************************)
EXTENDS Integers, Sequences, SequencesExt, FiniteSetsExt

CONSTANTS
  maxRuleCount,      \* 1000 in the code
  maxPathSegments,   \* 25 in the code
  Enabled            \* the FF_ENABLE_PLACEHOLDERS feature

Splat == <<"*">>
Placeholder == <<":">>

-----------------------------------------------------------------------------
(* validations.go                                                          *)

\* The first error of a URL, or "valid".  url.form: what it parses to.
validateURL(url) ==
  IF url.form = "unparsable" THEN "errFailedToParseURL"
  ELSE IF url.form = "outside" THEN "errNoDomainLevelRedirects"
  ELSE IF url.form = "relative" THEN "errNoStartingForwardSlashInURLPath"
  ELSE IF Enabled THEN IF Len(url.path) > maxPathSegments THEN "errTooManyPathSegments" ELSE "valid"
  ELSE IF \E s \in Range(url.path) : Contains(s, "*") THEN "errNoSplats"
  ELSE IF Placeholder \in Range(url.path) THEN "errNoPlaceholders"
  ELSE "valid"

validateRule(r) ==
  IF validateURL(r.from) # "valid" THEN validateURL(r.from)
  ELSE IF validateURL(r.to) # "valid" THEN validateURL(r.to)
  ELSE IF r.params THEN "errNoParams"
  ELSE IF r.status \notin {200, 301, 302} THEN "errUnsupportedStatus"
  ELSE IF r.force THEN "errNoForce"
  ELSE "valid"

-----------------------------------------------------------------------------
(* matching.go                                                             *)

AllSlashes(s) == \A i \in DOMAIN s : s[i] = "/"

\* (?i)
Lower(c) == IF c = "A" THEN "a" ELSE c

SameText(s, t) == Len(s) = Len(t) /\ \A i \in DOMAIN s : Lower(s[i]) = Lower(t[i])

\* s from its i-th character on.
From(s, i) == SubSeq(s, i, Len(s))

\* Whether the regex of the segments matches s: a segment is "/+text", a
\* placeholder "/+([^/]+)", a splat "/*(.*)/*", and "/*" is at the end.
RECURSIVE RegexMatches(_, _)
RegexMatches(segs, s) ==
  IF segs = <<>> THEN AllSlashes(s)
  ELSE LET seg == Head(segs) IN
       IF seg = Splat THEN \E i \in 1..Len(s) + 1 : RegexMatches(Tail(segs), From(s, i))
       ELSE \E i \in 2..Len(s) : \E j \in i..Len(s) :
              /\ AllSlashes(SubSeq(s, 1, i - 1))
              /\ IF seg = Placeholder THEN ~ Contains(SubSeq(s, i, j), "/") ELSE SameText(SubSeq(s, i, j), seg)
              /\ RegexMatches(Tail(segs), From(s, j + 1))

\* The text of a rule's path.
Text(segs) == FoldLeft(LAMBDA acc, seg : acc \o <<"/">> \o seg, <<>>, segs)

normalizePath(s) == (IF s # <<>> /\ Last(s) = "/" THEN Front(s) ELSE s) \o <<"/">>

HasTemplate(url) == \E s \in Range(url.path) : Contains(s, "*") \/ Contains(s, ":")

\* Mutant: nothing but the shortcut, the regex is never tried.
matchesRuleLiterally(r, path) == normalizePath(Text(r.from.path)) = normalizePath(path)

matchesRule(r, path) ==
  \/ normalizePath(Text(r.from.path)) = normalizePath(path) /\ ~ HasTemplate(r.to)
  \/ Enabled /\ RegexMatches(SelectSeq(r.from.path, LAMBDA s : s # <<>>), path)

\* The first valid rule that matches, 0 when there is none.
match(rules, path) ==
  LET m == {i \in DOMAIN rules : /\ i <= maxRuleCount
                                 /\ validateRule(rules[i]) = "valid"
                                 /\ matchesRule(rules[i], path)}
  IN IF m = {} THEN 0 ELSE Min(m)

-----------------------------------------------------------------------------
(* redirects.go                                                            *)

\* ParseRedirects: the rules, or none and an error.  conf is the file.
ParseRedirects(conf) ==
  IF conf.file # "regular" \/ conf.large \/ ~ conf.opens \/ ~ conf.parses
  THEN [rules |-> <<>>, error |-> TRUE]
  ELSE [rules |-> conf.rules, error |-> FALSE]

\* Status: what the status page says of each rule it looks at.
Status(r) ==
  IF r.error THEN <<>>
  ELSE [i \in 1..(IF Len(r.rules) <= maxRuleCount THEN Len(r.rules) ELSE maxRuleCount) |-> validateRule(r.rules[i])]

-----------------------------------------------------------------------------
(* One question to a _redirects file                                       *)

VARIABLES conf, path, rule

rvars == <<conf, path, rule>>

\* Rewrite: the rule for the path.
Rewrite ==
  /\ rule = -1
  /\ rule' = match(ParseRedirects(conf).rules, path)
  /\ UNCHANGED <<conf, path>>

-----------------------------------------------------------------------------
(* Properties                                                              *)

Segments(s) ==
  LET Next(acc, c) == IF c = "/" THEN Append(acc, <<>>)
                      ELSE IF acc = <<>> THEN <<<<c>>>>
                      ELSE Front(acc) \o <<Append(Last(acc), c)>>
  IN SelectSeq(FoldLeft(Next, <<>>, s), LAMBDA seg : seg # <<>>)

\* What the comment of matchesRule says, segment by segment: a placeholder is
\* one segment, a splat any number of them.
RECURSIVE Documented(_, _)
Documented(segs, parts) ==
  IF segs = <<>> THEN parts = <<>>
  ELSE IF Head(segs) = Splat
  THEN \E i \in 1..Len(parts) + 1 : Documented(Tail(segs), From(parts, i))
  ELSE /\ parts # <<>>
       /\ Head(segs) = Placeholder \/ Head(segs) = Head(parts)
       /\ Documented(Tail(segs), Tail(parts))

\* matchesRule, match: the regex and the shortcut in front of it together find
\* every path the comment describes, whatever slashes are doubled or trailing.
\* (They find more: the regex of "/a/*" asks for no slash after "a".)
DocumentedIsMatched ==
  Enabled /\ rule = 0 /\ path # <<>> /\ path[1] = "/" =>
    \A i \in DOMAIN Status(ParseRedirects(conf)) :
      validateRule(conf.rules[i]) = "valid" => ~ Documented(conf.rules[i].from.path, Segments(path))

=============================================================================
