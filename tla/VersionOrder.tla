---------------------------- MODULE VersionOrder ----------------------------
(***************************************************************************)
(* Semantic versions: is_semver and version_at_least of                    *)
(* crates/aurify-plugin-core/src/manifest.rs.                              *)
(*                                                                         *)
(* version_at_least decides whether a client is new enough for a plugin's  *)
(* minClientVersion.  Numbers are read as u64; an identifier of digits     *)
(* that is no u64 is compared as text.                                     *)
(*                                                                         *)
(* A version is a record of core, pre and build: the parts between dots of *)
(* what precedes the first hyphen, of what follows it, and of what follows *)
(* the plus sign; a part that is not there is <<>>.  A part is a sequence  *)
(* of characters, and a character is an integer: Hyphen, a digit or, above *)
(* the digits, a letter, ordered as in ASCII.                              *)
(***************************************************************************)
EXTENDS Integers, SequencesExt

CONSTANTS
  Versions,  \* the versions of clients and the versions plugins ask for
  Word       \* 2^64 in the code: numbers below it can be read

Hyphen == -1
Digits == 0..9

Parts == Seq({Hyphen} \cup Nat)
VersionTexts == [core : Seq(Parts), pre : Seq(Parts), build : Seq(Parts)]

ASSUME VersionOrderAssumption == Word \in Nat /\ Versions \subseteq VersionTexts

IsNumeric(part) == \A i \in DOMAIN part : part[i] \in Digits

\* The number that a part of digits stands for.
Value(part) ==
  LET prefix[i \in 0..Len(part)] == IF i = 0 THEN 0 ELSE 10 * prefix[i - 1] + part[i]
  IN  prefix[Len(part)]

\* parse::<u64> succeeds.
Parses(part) == IsNumeric(part) /\ Value(part) < Word

\* Mutated: leading zeros are allowed.
Anything(part) == TRUE

NoLeadingZero(part) == Len(part) > 1 => part[1] # 0

IsSemver(v) ==
  /\ Len(v.core) = 3
  /\ \A i \in DOMAIN v.core : v.core[i] # <<>> /\ NoLeadingZero(v.core[i]) /\ Parses(v.core[i])
  /\ \A i \in DOMAIN v.pre : v.pre[i] # <<>> /\ (IsNumeric(v.pre[i]) => NoLeadingZero(v.pre[i]))
  /\ \A i \in DOMAIN v.build : v.build[i] # <<>>

\* Where two sequences differ first; nowhere when one begins with the other.
FirstDifference(s, t) ==
  {i \in DOMAIN s \cap DOMAIN t : s[i] # t[i] /\ \A j \in 1..(i - 1) : s[j] = t[j]}

\* Sequences of integers in lexicographic order.
Above(s, t) == IsStrictPrefix(t, s) \/ \E i \in FirstDifference(s, t) : s[i] > t[i]

\* Mutated: the numbers are compared as text.
PartAboveAsText(part, other) == Above(part, other)

\* Mutated: a number and a text are compared as text.
PartAboveMixed(part, other) ==
  \/ Parses(part) /\ Parses(other) /\ Value(part) > Value(other)
  \/ ~(Parses(part) /\ Parses(other)) /\ Above(part, other)

\* Of two different identifiers: what parses is below what does not.
PartAbove(part, other) ==
  \/ Parses(part) /\ Parses(other) /\ Value(part) > Value(other)
  \/ ~Parses(part) /\ Parses(other)
  \/ ~Parses(part) /\ ~Parses(other) /\ Above(part, other)

Core(v) == [i \in DOMAIN v.core |-> Value(v.core[i])]

\* The parts of a prerelease, compared in turn; the longer one is above.
PrereleaseAbove(pre, other) ==
  \/ IsStrictPrefix(other, pre)
  \/ \E i \in FirstDifference(pre, other) : PartAbove(pre[i], other[i])

version_at_least(current, minimum) ==
  /\ IsSemver(current) /\ IsSemver(minimum)
  /\ \/ Above(Core(current), Core(minimum))
     \/ /\ Core(current) = Core(minimum)
        /\ \/ current.pre = minimum.pre
           \/ current.pre = <<>>
           \/ /\ minimum.pre # <<>>
              /\ PrereleaseAbove(current.pre, minimum.pre)

-----------------------------------------------------------------------------
(* A client that is updated, and a plugin that asks for one. *)

VARIABLES client, minimum

vars == <<client, minimum>>

Init == client \in Versions /\ minimum \in Versions

\* The client is replaced by one that is at least as new.
Update ==
  /\ \E v \in Versions : version_at_least(v, client) /\ client' = v
  /\ UNCHANGED minimum

Next == Update

Spec == Init /\ [][Next]_vars

-----------------------------------------------------------------------------
(* The order that semver.org, section 11, gives to versions. *)

PrecedenceOfPart(part, other) ==
  \/ IsNumeric(part) /\ IsNumeric(other) /\ Value(part) > Value(other)
  \/ ~IsNumeric(part) /\ IsNumeric(other)
  \/ ~IsNumeric(part) /\ ~IsNumeric(other) /\ Above(part, other)

Precedes(v, w) ==
  \/ Above(Core(w), Core(v))
  \/ /\ Core(w) = Core(v)
     /\ v.pre # <<>>
     /\ \/ w.pre = <<>>
        \/ IsStrictPrefix(v.pre, w.pre)
        \/ \E i \in FirstDifference(w.pre, v.pre) : PrecedenceOfPart(w.pre[i], v.pre[i])

\* All numbers can be read.
NumbersFit(v) == \A i \in DOMAIN v.pre : IsNumeric(v.pre[i]) => Parses(v.pre[i])

\* version_at_least is the order of semantic versioning, for versions whose
\* numbers can be read; the test "semantic versions compare prereleases and
\* ignore build metadata" tries four pairs.
FollowsSemver ==
  IsSemver(client) /\ IsSemver(minimum) /\ NumbersFit(client) /\ NumbersFit(minimum)
    => (version_at_least(client, minimum) <=> ~Precedes(client, minimum))

\* Also with numbers that cannot be read, of two versions one is at least the
\* other, and both are only if they differ in nothing but the build.
OrderIsTotal ==
  IsSemver(client) /\ IsSemver(minimum) =>
    /\ version_at_least(client, minimum) \/ version_at_least(minimum, client)
    /\ version_at_least(client, minimum) /\ version_at_least(minimum, client)
         => client.core = minimum.core /\ client.pre = minimum.pre

\* A client that was new enough for a plugin is new enough after every
\* update: the order has no cycles.
UpdatesKeepPlugins ==
  [][version_at_least(client, minimum) => version_at_least(client', minimum)]_vars
=============================================================================
