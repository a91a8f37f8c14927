---------------------------- MODULE SourceCountry ----------------------------
(***************************************************************************)
(* The country of an outlet: Suffixes and choose_country of                *)
(* enrich_metadata.py, against the definition of the Public Suffix List.   *)
(*                                                                         *)
(* A host name is the sequence of its labels; a numeric address has no     *)
(* registrable domain and is left out.  A suffix list is the three sets    *)
(* Suffixes parses it into; codes are any values.                          *)
(***************************************************************************)
EXTENDS Integers, Sequences, FiniteSets, FiniteSetsExt

CONSTANTS
  Labels,     \* the labels of the host names
  MaxLabels,  \* bound: labels of a host name
  MaxRules,   \* bound: rules of a suffix list
  Codes       \* country codes

ASSUME SourceCountryAssumption == MaxLabels \in Nat /\ MaxRules \in Nat

Hosts == UNION {[1 .. n -> Labels] : n \in 1 .. MaxLabels}

\* The last labels of d, from the i-th on.
From(d, i) == SubSeq(d, i, Len(d))

\* Suffixes: a rule is the kind of set it goes to and the labels it names.
Rules == {"exact", "wild", "exception"} \X UNION {[1 .. n -> Labels] : n \in 1 .. MaxLabels - 1}
Lists == UNION {kSubset(k, Rules) : k \in 0 .. MaxRules}

-----------------------------------------------------------------------------
(* Suffixes.                                                               *)

\* Mutant: the label a wildcard stands for is not counted.
LookNarrow(list, d, i, before) ==
  IF before.done THEN before
  ELSE IF <<"exception", From(d, i)>> \in list THEN [length |-> Len(d) - i, done |-> TRUE]
  ELSE [length |-> Max({before.length}
          \cup (IF <<"exact", From(d, i)>> \in list THEN {Len(d) - i + 1} ELSE {})
          \cup (IF i > 1 /\ <<"wild", From(d, i)>> \in list THEN {Len(d) - i + 1} ELSE {})),
        done |-> FALSE]

\* A label is looked at: an exception ends the search.
Look(list, d, i, before) ==
  IF before.done THEN before
  ELSE IF <<"exception", From(d, i)>> \in list THEN [length |-> Len(d) - i, done |-> TRUE]
  ELSE [length |-> Max({before.length}
          \cup (IF <<"exact", From(d, i)>> \in list THEN {Len(d) - i + 1} ELSE {})
          \cup (IF i > 1 /\ <<"wild", From(d, i)>> \in list THEN {Len(d) - i + 2} ELSE {})),
        done |-> FALSE]

\* registrable: the labels of the public suffix of d, found from the whole name
\* to the last label.
SuffixLength(list, d) ==
  LET seen[i \in 0 .. Len(d)] ==
        IF i = 0 THEN [length |-> 1, done |-> FALSE] ELSE Look(list, d, i, seen[i - 1])
  IN  seen[Len(d)].length

\* candidates: d and its parents down to the registrable domain.
Candidates(list, d) ==
  LET length == SuffixLength(list, d)
  IN  IF Len(d) <= length THEN <<>> ELSE [i \in 1 .. Len(d) - length |-> From(d, i)]

-----------------------------------------------------------------------------
(* choose_country.                                                         *)

\* The codes the historical lookup has for the nearest candidate.
Historical(list, d, lookup) ==
  LET names == Candidates(list, d)
      known == {i \in DOMAIN names : names[i] \in DOMAIN lookup}
  IN  IF known = {} THEN {} ELSE lookup[names[Min(known)]]

\* Exact URLs before the host, both before the lookup; two codes of one kind are
\* a conflict and are not settled by a weaker kind.
ChooseCountry(list, d, urlCodes, domainCodes, lookup) ==
  LET codes == IF urlCodes # {} THEN urlCodes
               ELSE IF domainCodes # {} THEN domainCodes
               ELSE Historical(list, d, lookup)
  IN  CASE codes = {}            -> [status |-> "unknown", codes |-> {}]
        [] Cardinality(codes) = 1 -> [status |-> "estimated", codes |-> codes]
        [] OTHER                 -> [status |-> "conflicting", codes |-> codes]

-----------------------------------------------------------------------------
(* The definition of the list.                                             *)

\* A rule read with its wildcard matches the end of a name.
Matches(rule, d) ==
  LET k == Len(rule[2]) + (IF rule[1] = "wild" THEN 1 ELSE 0)
  IN  k <= Len(d) /\ From(d, Len(d) - Len(rule[2]) + 1) = rule[2]

MatchLength(rule) ==
  CASE rule[1] = "exact" -> Len(rule[2])
    [] rule[1] = "wild" -> Len(rule[2]) + 1
    [] rule[1] = "exception" -> Len(rule[2]) - 1

\* An exception prevails over every other rule, then the longest one does; a
\* name no rule matches has its last label as public suffix.
PublicSuffixLength(list, d) ==
  LET matching == {r \in list : Matches(r, d)}
      exceptions == {r \in matching : r[1] = "exception"}
  IN  IF exceptions # {} THEN Max({MatchLength(r) : r \in exceptions})
      ELSE Max({1} \cup {MatchLength(r) : r \in matching})

\* For every suffix list and host, an outlet takes the historical country of no
\* name but itself and its parents within the same registrable domain: never
\* that of a hosting provider's suffix, and of each of those if it is the only
\* one known (Suffixes.registrable, candidates, choose_country).
WithinDomainOnly ==
  \A list \in Lists, d \in Hosts : \A key \in Hosts : \A code \in Codes :
    LET length == PublicSuffixLength(list, d)
        within == /\ Len(d) > length
                  /\ \E i \in 1 .. Len(d) - length : From(d, i) = key
    IN  (ChooseCountry(list, d, {}, {}, [k \in {key} |-> {code}]).status = "estimated") <=> within
=============================================================================
