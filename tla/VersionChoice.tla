----------------------------- MODULE VersionChoice -----------------------------
(* Versions and constraints: what they mean (pkg/api/semver.go), which      *)
(* version of a package a resolution chooses from its requirements, met     *)
(* one after another (SelectVersionMulti of pkg/api/package.go,             *)
(* pkg/repo/native.go, pkg/resolver), what a later build makes of the       *)
(* choice when the lock file names it, and what "vmake update" installs.    *)
EXTENDS Integers, Sequences, FiniteSets

CONSTANTS
  Written,      \* texts of versions: [nums, pre], with no number if invalid
  Asked,        \* texts of constraints: [op, nums, pre]
  MaxPublished, \* bound: versions of a package
  MaxRequired   \* bound: requirements of it

(* An identifier of a pre-release is a number or, with the rank of its     *)
(* text, a word.                                                           *)
Identifiers == [word : BOOLEAN, value : Nat]
VersionTexts == [nums : Seq(Nat), pre : Seq(Identifiers)]
ConstraintTexts ==
  [op : {"none", ">=", ">", "<=", "<", "=", "~"}, nums : Seq(Nat), pre : Seq(Identifiers)]

ASSUME ChoiceAssumption == Written \subseteq VersionTexts /\ Asked \subseteq ConstraintTexts

VARIABLES
  source,       \* who chooses: a registry or a native package, the program
  published,    \* the declared versions or the tags
  wanted,       \* what a target, a pin or the lock file names
  left,         \* the requirements that are not met yet
  required,     \* those that are, in order
  chosen, choice,
  before        \* the requirements of the resolution that made the lock file

choiceVars == <<source, published, wanted, left, required, chosen, choice, before>>

NoResolution == [done |-> FALSE, order |-> <<>>]
NoVersion == [nums |-> <<>>, pre |-> <<>>]
Anything == [op |-> "none", nums |-> <<0>>, pre |-> <<>>]

IsVersion(text) == text.nums # <<>>

ParseVersion(text) ==
  [nums |-> [i \in 1..3 |-> IF i <= Len(text.nums) THEN text.nums[i] ELSE 0], pre |-> text.pre]

ParseConstraint(text) ==
  [op |-> IF text.op = "none" THEN ">=" ELSE text.op, version |-> ParseVersion(text)]

Sign(x, y) == IF x < y THEN -1 ELSE IF x = y THEN 0 ELSE 1

(* The first identifiers that differ decide, or the number of them.        *)
ComparePreIdentifiers(a, b) ==
  LET common == IF Len(a) < Len(b) THEN Len(a) ELSE Len(b)
      CompareAt(i) == IF a[i].word = b[i].word THEN Sign(a[i].value, b[i].value)
                      ELSE IF a[i].word THEN 1 ELSE -1
      differ == {i \in 1..common : CompareAt(i) # 0}
  IN  IF differ = {} THEN Sign(Len(a), Len(b))
      ELSE CompareAt(CHOOSE i \in differ : \A j \in differ : i <= j)

Compare(v, w) ==
  LET differ == {i \in 1..3 : v.nums[i] # w.nums[i]}
  IN  IF differ # {} THEN LET i == CHOOSE i \in differ : \A j \in differ : i <= j
                          IN  Sign(v.nums[i], w.nums[i])
      ELSE IF v.pre # <<>> /\ w.pre = <<>> THEN -1
      ELSE IF v.pre = <<>> /\ w.pre # <<>> THEN 1
      ELSE ComparePreIdentifiers(v.pre, w.pre)

MajorLocked(c, v) == c.version.nums[1] > 0 => v.nums[1] = c.version.nums[1]

Match(c, v) ==
  LET cmp == Compare(v, c.version)
  IN  CASE c.op = ">=" -> cmp >= 0 /\ MajorLocked(c, v)
        [] c.op = ">"  -> cmp > 0 /\ MajorLocked(c, v)
        [] c.op = "<=" -> cmp <= 0
        [] c.op = "<"  -> cmp < 0
        [] c.op = "="  -> cmp = 0
        [] c.op = "~"  -> v.nums[1] = c.version.nums[1] /\ v.nums[2] = c.version.nums[2] /\ cmp >= 0

(* Mutant: any pre-release, once a constraint names one. *)
PrereleaseAnywhere(v, anchors) ==
  v.pre # <<>> => \E a \in anchors : a.pre # <<>>

PrereleaseAllowed(v, anchors) ==
  v.pre # <<>> => \E a \in anchors : a.pre # <<>> /\ a.nums = v.nums

Candidates(versions, constraints) ==
  LET parsed == {ParseConstraint(c) : c \in constraints}
      anchors == {c.version : c \in parsed}
  IN  {text \in versions :
         /\ IsVersion(text)
         /\ \A c \in parsed : Match(c, ParseVersion(text))
         /\ PrereleaseAllowed(ParseVersion(text), anchors)}

(* The versions are met in the order of a map: of equal ones any is taken. *)
PickHighest(versions) ==
  {text \in versions :
     \A other \in versions : Compare(ParseVersion(other), ParseVersion(text)) <= 0}

SelectVersionMulti(versions, constraints) ==
  IF \A c \in constraints : IsVersion(c) THEN PickHighest(Candidates(versions, constraints)) ELSE {}

MatchVersion(versions, constraint) == SelectVersionMulti(versions, {constraint})

(* Tags are kept under the canonical text of their version.                *)
FilterValidVersions(tagNames) == {ParseVersion(t) : t \in {t \in tagNames : IsVersion(t)}}

CheckConstraint(text, constraint) ==
  IsVersion(constraint) /\ IsVersion(text) /\ Match(ParseConstraint(constraint), ParseVersion(text))

ChoiceInit ==
  /\ source \in {"registry", "native", "program"}
  /\ published \in {s \in SUBSET Written : IsFiniteSet(s) /\ Cardinality(s) <= MaxPublished}
  /\ wanted \in (published \ {NoVersion}) \cup {NoVersion}
  /\ left \in {s \in SUBSET Asked : IsFiniteSet(s) /\ Cardinality(s) <= MaxRequired}
  /\ source = "program" => wanted = NoVersion /\ left = {}
  /\ source = "registry" => published # {}
  /\ required = <<>> /\ chosen = NoVersion /\ choice = "open"
  /\ before = NoResolution

Refuse ==
  /\ choice' = "refused"
  /\ UNCHANGED <<source, published, wanted, left, required, chosen, before>>

Met(constraints) == {constraints[i] : i \in DOMAIN constraints}

Meet(constraint) ==
  /\ left' = left \ {constraint} /\ required' = Append(required, constraint)
  /\ UNCHANGED <<source, published, wanted, choice, before>>

IsNext(constraint) ==
  /\ constraint \in left
  /\ before.done => constraint = before.order[Len(required) + 1]

(* A registry package: every requirement that is met is tried with those   *)
(* before it; the choice is made when all are known.                       *)
Allowed(constraints) ==
  /\ wanted # NoVersion =>
       wanted \in published /\ \A c \in constraints : CheckConstraint(wanted, c)
  /\ SelectVersionMulti(published, constraints) # {}

RequireRegistry(constraint) ==
  /\ source = "registry" /\ choice = "open" /\ IsNext(constraint)
  /\ IF Allowed(Met(required) \cup {constraint})
     THEN Meet(constraint) /\ UNCHANGED chosen ELSE Refuse

ChooseRegistry ==
  /\ source = "registry" /\ choice = "open" /\ left = {}
  /\ LET constraints == IF required = <<>> THEN {Anything} ELSE Met(required)
         best == IF wanted # NoVersion THEN {wanted} ELSE SelectVersionMulti(published, constraints)
     IN  IF best = {} THEN Refuse
         ELSE /\ chosen' \in best /\ choice' = "made"
              /\ UNCHANGED <<source, published, wanted, left, required, before>>

(* A native package is chosen by the first requirement; the later ones     *)
(* must allow it.                                                          *)
SelectNativeVersion(constraint) ==
  LET versions == FilterValidVersions(published)
  IN  IF wanted = NoVersion THEN MatchVersion(versions, constraint)
      ELSE {v \in versions : v = wanted /\ CheckConstraint(wanted, constraint)}

RequireNative(constraint) ==
  /\ source = "native" /\ choice = "open" /\ IsNext(constraint)
  /\ IF chosen = NoVersion
     THEN IF SelectNativeVersion(constraint) = {} THEN Refuse
          ELSE Meet(constraint) /\ chosen' \in SelectNativeVersion(constraint)
     ELSE IF CheckConstraint(chosen, constraint) THEN Meet(constraint) /\ UNCHANGED chosen ELSE Refuse

ChooseNative ==
  /\ source = "native" /\ choice = "open" /\ left = {} /\ required # <<>>
  /\ choice' = "made" /\ UNCHANGED <<source, published, wanted, left, required, chosen, before>>

(* The lock file names the choice; the next build meets the same           *)
(* requirements in the same order, and the same tags or declared versions. *)
ResolveAgain ==
  /\ source # "program" /\ choice = "made" /\ wanted = NoVersion
  /\ wanted' = chosen /\ left' = Met(required) /\ required' = <<>>
  /\ chosen' = NoVersion /\ choice' = "open"
  /\ before' = [done |-> TRUE, order |-> required]
  /\ UNCHANGED <<source, published>>

(* "vmake update": the highest tag that is not a pre-release.              *)
PickLatestStable ==
  /\ source = "program" /\ choice = "open"
  /\ LET stable == {t \in published : IsVersion(t) /\ t.pre = <<>>}
         best == MatchVersion(stable, [Anything EXCEPT !.op = ">="])
     IN  IF best = {} THEN Refuse
         ELSE /\ chosen' \in best /\ choice' = "made"
              /\ UNCHANGED <<source, published, wanted, left, required, before>>

ChoiceNext ==
  \/ \E c \in left : RequireRegistry(c) \/ RequireNative(c)
  \/ ChooseRegistry \/ ChooseNative \/ ResolveAgain \/ PickLatestStable

ChoiceSpec == ChoiceInit /\ [][ChoiceNext]_choiceVars

(***************************************************************************)
(* What a constraint means: an interval of the order of precedence.  The   *)
(* order is that of the words which the versions spell: the numbers, then  *)
(* 0 and the identifiers of a pre-release or 1.                            *)
(***************************************************************************)
Word(v) ==
  v.nums \o (IF v.pre = <<>> THEN <<1>>
             ELSE <<0>> \o [i \in 1..2 * Len(v.pre) |->
                    LET id == v.pre[(i + 1) \div 2]
                    IN  IF i % 2 = 1 THEN (IF id.word THEN 1 ELSE 0) ELSE id.value])

Precedes(v, w) ==
  LET a == Word(v) b == Word(w)
  IN  \E i \in 1..Len(b) :
        /\ \A j \in 1..(i - 1) : j <= Len(a) /\ a[j] = b[j]
        /\ i = Len(a) + 1 \/ (i <= Len(a) /\ a[i] < b[i])

First(nums) == [nums |-> nums, pre |-> <<[word |-> FALSE, value |-> -1]>>]

Means(c, v) ==
  LET stated == c.version.nums
      below == IF stated[1] = 0 THEN TRUE ELSE Precedes(v, First(<<stated[1] + 1, 0, 0>>))
  IN  CASE c.op = ">=" -> ~Precedes(v, c.version) /\ below
        [] c.op = ">"  -> Precedes(c.version, v) /\ below
        [] c.op = "~"  -> ~Precedes(v, c.version) /\ Precedes(v, First(<<stated[1], stated[2] + 1, 0>>))
        [] c.op = "<"  -> Precedes(v, c.version)
        [] c.op = "<=" -> ~Precedes(c.version, v)
        [] c.op = "="  -> ~Precedes(v, c.version) /\ ~Precedes(c.version, v)

(* May the constraints choose the version: they allow it and, if it is a   *)
(* pre-release, one of them names one of the same three numbers.           *)
Choosable(text, constraints) ==
  /\ IsVersion(text)
  /\ \A c \in constraints : IsVersion(c) /\ Means(ParseConstraint(c), ParseVersion(text))
  /\ text.pre = <<>>
     \/ \E c \in constraints : c.pre # <<>> /\ ParseVersion(c).nums = ParseVersion(text).nums

Highest(text, constraints) ==
  \A other \in published :
    Choosable(other, constraints) => ~Precedes(ParseVersion(text), ParseVersion(other))

(* semver.go: of the versions that every requirement allows the highest is *)
(* chosen, a native package the highest that the first one allows; a       *)
(* pre-release only when a requirement names it; and a resolution is       *)
(* refused only when the requirements met so far leave nothing.            *)
ChoiceIsRight ==
  /\ choice = "made" /\ wanted = NoVersion =>
       LET all == IF required = <<>> THEN {Anything} ELSE Met(required)
           by == IF source = "native" THEN {required[1]} ELSE all
       IN  /\ Choosable(chosen, by) /\ Highest(chosen, by)
           /\ \A c \in all : Means(ParseConstraint(c), ParseVersion(chosen))
           /\ source = "program" => chosen.pre = <<>>
           /\ \E text \in published : ParseVersion(text) = ParseVersion(chosen)
  /\ choice = "refused" /\ wanted = NoVersion =>
       \/ source = "program" /\ \A text \in published : IsVersion(text) => text.pre # <<>>
       \/ \E c \in left \cup {Anything} :
            LET tried == IF required = <<>> THEN {c} ELSE Met(required) \cup ({c} \cap left)
                chooses == IF chosen = NoVersion THEN published ELSE {chosen}
            IN  \A text \in chooses :
                  IF chosen = NoVersion THEN ~Choosable(text, tried)
                  ELSE ~IsVersion(c) \/ ~Means(ParseConstraint(c), ParseVersion(text))

(* resolver.go: what a resolution has chosen and the lock file names, the  *)
(* next one takes, and nothing else.                                       *)
ChosenIsTakenAgain ==
  before.done => choice # "refused" /\ (choice = "made" => chosen = wanted)

(* Both, of every resolution and the one that follows it.                  *)
VersionsAreRight == ChoiceIsRight /\ ChosenIsTakenAgain
================================================================================
