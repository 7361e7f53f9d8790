------------------------- MODULE DependencyLockProofs -------------------------
(***************************************************************************)
(* Proofs about DependencyLock, for any processes, packages, versions,     *)
(* scripts and registry.                                                   *)
(*                                                                         *)
(* What a command has read stays what it is while the command holds the    *)
(* project lock (LoadedInv), so each answer of the lock file and the pins  *)
(* (Target, Pinned, Locked) is the same wherever it is asked.  The graph   *)
(* keeps those answers for native packages and can still give them for the *)
(* others (NodeInv), and so does every tree that was made (GotInv).  After *)
(* "deps sync" the file has an entry that suits its pin for whatever a     *)
(* build of the same configuration asks for (SyncInv), until one of the    *)
(* inputs changes.                                                         *)
(***************************************************************************)
EXTENDS DependencyLock, ConfigEditor, EditorScreen, FiniteSetTheorems, WellFoundedInduction, TLAPS

Kinds == {"none", "build", "sync", "update", "pin", "fetch"}
Pins == [Packages -> Targets \cup {None}]
Entries ==
  [Packages -> [version : 0..MaxVersion, commit : Commits \cup {NoCommit},
                wrapper : Heads \cup {NoHead}]]
ASources == [version : 0..MaxVersion, commit : Commits \cup {NoCommit}]
Nodes ==
  [in : BOOLEAN, linked : BOOLEAN, allows : SUBSET Versions, version : 0..MaxVersion,
   commit : Commits \cup {NoCommit}]
Asked ==
  [kind : Kinds, locked : BOOLEAN, all : BOOLEAN, float : SUBSET Packages, target : Pins,
   pins : Pins, lock : Entries, config : SUBSET Packages, needed : SUBSET Packages,
   visit : Nat \ {0}, named : SUBSET Packages]
Holding == {"resolve", "verify", "refused", "download", "pins", "done"}

TypeOK ==
  /\ head \in Heads /\ script \in Scripts /\ links \subseteq Packages
  /\ lock \in Entries /\ pins \in Pins
  /\ holder \in Procs \cup {Free}
  /\ pc \in [Procs -> {"idle", "waiting"} \cup Holding]
  /\ cmd \in [Procs -> Asked]
  /\ node \in [Packages -> Nodes] /\ got \in [Packages -> ASources]
  /\ synced \subseteq SUBSET Packages

(* Who holds the project lock is at work, and nobody else.                 *)
PlaceInv ==
  /\ \A p \in Procs : (pc[p] \in Holding) <=> p = holder
  /\ holder = Free =>
       \A q \in Packages : node[q] = NoNode /\ got[q] = Nothing

(* What the command line can ask for                                       *)
KindFacts(c) ==
  /\ c.locked => c.kind \in {"build", "fetch"}
  /\ c.kind = "fetch" => c.locked
  /\ c.kind # "fetch" => c.named = {}
  /\ c.kind \in {"build", "fetch", "sync"} => ~c.all /\ c.float = {} /\ c.target = NoTargets
  /\ c.kind = "pin" =>
       /\ ~c.all /\ c.float = {}
       /\ \A q \in Packages : c.target[q] # None => c.pins[q] = c.target[q]

KindInv ==
  \A p \in Procs :
    /\ KindFacts(cmd[p])
    /\ pc[p] # "idle" => cmd[p].kind # "none"
    /\ pc[p] = "waiting" => cmd[p].visit = 1

(* An entry is of a commit, and of the registry if its package is.         *)
WholeInv ==
  \A q \in Packages :
    /\ lock[q] # NoEntry => lock[q].commit \in Commits
    /\ q \in Native => lock[q].wrapper = NoHead

-----------------------------------------------------------------------------
(* What holds of the command that has the project lock                     *)

Writing == At("pins") \/ (At("done") /\ ~C.locked)

LoadedInv ==
  /\ ~Writing => C.lock = lock
  /\ Writing => lock = Updated
  /\ \A q \in Packages :
       /\ C.lock[q] # NoEntry => C.lock[q].commit \in Commits
       /\ q \in Native => C.lock[q].wrapper = NoHead
  /\ C.kind # "pin" => C.pins = pins
  /\ At("pins") => C.kind = "pin"
  /\ C.kind = "fetch" => ~Writing

Required == {script[i].pkg : i \in DOMAIN script}

GraphInv ==
  /\ \A q \in Packages :
       node[q].in <=> \E i \in DOMAIN script : i < C.visit /\ script[i].pkg = q
  /\ ~At("resolve") /\ ~At("refused") => C.visit > Len(script)
  /\ C.visit <= Len(script) + 1

NativeInv(q) ==
  /\ node[q].commit \in Commits
  /\ Pinned(q).version # None \/ Pinned(q).commit # NoCommit =>
       node[q].version = Pinned(q).version
  /\ Pinned(q).commit # NoCommit => node[q].commit = Pinned(q).commit
  /\ node[q].version # None => node[q].version \in node[q].allows

RegistryInv(q) ==
  Fits(q, node[q].allows) /\ node[q].version = None /\ node[q].commit = NoCommit

NodeInv ==
  \A q \in InGraph \ links :
    (q \in Native => NativeInv(q)) /\ (q \in Registry => RegistryInv(q))

(* What is made ready                                                      *)
NeededInv ==
  ~At("resolve") /\ ~At("refused") =>
    /\ C.needed \subseteq InGraph
    /\ C.kind # "fetch" \/ C.named = {} => C.config \cap InGraph \subseteq C.needed
    /\ C.kind = "build" \/ (C.kind = "fetch" /\ C.named = {}) => C.needed \subseteq C.config
    /\ C.kind \in {"sync", "update", "pin"} =>
         \A q \in InGraph : PinDiffers(q) \/ q \in Requested => q \in C.needed

(* What --locked was let go on with                                        *)
VerifiedInv ==
  At("download") \/ At("done") \/ At("pins") =>
    \A q \in C.needed \ links : ~NotLocked(q) /\ ~Drifted(q)

GotInv ==
  /\ At("resolve") \/ At("verify") => \A q \in Packages : got[q] = Nothing
  /\ \A q \in Packages : got[q] # Nothing =>
       /\ q \in C.needed \ links
       /\ got[q].commit \in Commits /\ got[q].version = Version(q)
       /\ Expected(q) # NoCommit => got[q].commit = Expected(q)
  /\ At("done") \/ At("pins") => \A q \in C.needed \ links : got[q] # Nothing
  /\ At("done") /\ C.locked /\ C.kind = "build" => C.lock = Updated

HeldInv ==
  holder # Free =>
    LoadedInv /\ GraphInv /\ NodeInv /\ NeededInv /\ VerifiedInv /\ GotInv

-----------------------------------------------------------------------------
(* The lock file was made for this configuration and these pins.           *)
Suits(entry, pin) ==
  pin # None => pin = (IF pin \in Commits THEN entry.commit ELSE entry.version)

SyncedFor(entries, config, wanted) ==
  \A q \in Packages \ links :
    /\ q \notin Required => entries[q] = NoEntry
    /\ q \in Required /\ (q \in Native \/ q \in config) =>
         entries[q] # NoEntry /\ Suits(entries[q], wanted[q])
    /\ q \in Required \cap config =>
         /\ q \in Registry => entries[q].wrapper = head
         /\ wanted[q] \in Commits => entries[q].version = None

SyncInv ==
  /\ \A config \in synced : SyncedFor(lock, config, pins)
  /\ At("pins") => SyncedFor(lock, C.config, C.pins)

IInv ==
  TypeOK /\ PlaceInv /\ KindInv /\ WholeInv /\ HeldInv /\ SyncInv /\ SyncedIsLocked

-----------------------------------------------------------------------------
(* What the command that holds the lock answers                            *)

LEMMA HolderType == TypeOK /\ holder # Free => holder \in Procs /\ C \in Asked
BY DEF TypeOK, C

(* A target is a version, a commit, or none.                               *)
LEMMA TargetCases ==
  ASSUME LockAssumption, NEW t \in Targets \cup {None}
  PROVE  /\ t \in Versions => t \notin Commits /\ t # None
         /\ t \in Commits => t \notin Versions /\ t # None
         /\ t \in Versions \/ t \in Commits \/ t = None
BY DEF LockAssumption, Versions, None

LEMMA TargetType ==
  ASSUME C \in Asked, NEW q \in Packages
  PROVE  Target(q) \in Targets \cup {None}
BY DEF Target, Asked, Pins

LEMMA LockedType ==
  ASSUME LockAssumption, C \in Asked, NEW q \in Packages
  PROVE  /\ Locked(q).version \in 0..MaxVersion
         /\ Locked(q).commit \in Commits \cup {NoCommit}
         /\ C.lock[q].version \in 0..MaxVersion
         /\ C.lock[q].commit \in Commits \cup {NoCommit}
         /\ C.lock[q] = [version |-> C.lock[q].version, commit |-> C.lock[q].commit,
                         wrapper |-> C.lock[q].wrapper]
<1>1. C.lock[q] \in [version : 0..MaxVersion, commit : Commits \cup {NoCommit},
                     wrapper : Heads \cup {NoHead}]
  BY DEF Asked, Entries
<1>2. NoEntry.version \in 0..MaxVersion /\ NoEntry.commit = NoCommit
  BY DEF NoEntry, None, LockAssumption
<1> QED BY <1>1, <1>2 DEF Locked

LEMMA PinnedCases ==
  ASSUME LockAssumption, C \in Asked, NEW q \in Packages
  PROVE  /\ Target(q) \in Commits => Pinned(q).version = None /\ Pinned(q).commit = Target(q)
         /\ Target(q) \in Versions =>
              /\ Pinned(q).version = Target(q)
              /\ C.target[q] = None /\ C.lock[q].version = Target(q) =>
                   Pinned(q).commit = C.lock[q].commit
         /\ Target(q) = None =>
              Pinned(q).version = Locked(q).version /\ Pinned(q).commit = Locked(q).commit
         /\ Pinned(q).version \in 0..MaxVersion
         /\ Pinned(q).commit \in Commits \cup {NoCommit}
<1>1. /\ Target(q) \in Versions => Target(q) \notin Commits /\ Target(q) # None
      /\ Target(q) \in Commits => Target(q) \notin Versions /\ Target(q) # None
      /\ Target(q) \in Versions \/ Target(q) \in Commits \/ Target(q) = None
  BY TargetType, TargetCases
<1>5. None \in 0..MaxVersion BY DEF LockAssumption, None
<1>2. CASE Target(q) \in Commits
  <2>1. Pinned(q) = [version |-> None, commit |-> Target(q)]
    BY <1>1, <1>2 DEF Pinned
  <2> QED BY <1>1, <1>2, <1>5, <2>1
<1>3. CASE Target(q) \in Versions
  <2>1. Pinned(q) = IF C.target[q] = None /\ C.lock[q].version = Target(q)
                    THEN [version |-> Target(q), commit |-> C.lock[q].commit]
                    ELSE [version |-> Target(q), commit |-> NoCommit]
    BY <1>1, <1>3 DEF Pinned
  <2>2. Target(q) \in 0..MaxVersion BY <1>3 DEF Versions
  <2>3. /\ Pinned(q).version = Target(q)
        /\ Pinned(q).commit = IF C.target[q] = None /\ C.lock[q].version = Target(q)
                              THEN C.lock[q].commit ELSE NoCommit
    BY <2>1
  <2>4. C.lock[q].commit \in Commits \cup {NoCommit} BY LockedType
  <2> QED BY <1>1, <1>3, <2>2, <2>3, <2>4
<1>4. CASE Target(q) = None
  <2>1. Pinned(q) = [version |-> Locked(q).version, commit |-> Locked(q).commit]
    BY <1>1, <1>4 DEF Pinned
  <2>2. Pinned(q).version = Locked(q).version /\ Pinned(q).commit = Locked(q).commit
    BY <2>1
  <2>3. /\ Locked(q).version \in 0..MaxVersion
        /\ Locked(q).commit \in Commits \cup {NoCommit}
    BY LockedType
  <2> QED BY <1>1, <1>4, <2>2, <2>3
<1> QED BY <1>1, <1>2, <1>3, <1>4

LEMMA VersionCases ==
  ASSUME LockAssumption, C \in Asked, NEW q \in Packages
  PROVE  /\ Target(q) \in Versions => Version(q) = Target(q)
         /\ Target(q) \in Commits => Version(q) = None
         /\ Target(q) = None /\ q \in Native => Version(q) = node[q].version
         /\ Target(q) = None /\ q \in Registry =>
              Version(q) = IF Locked(q) # NoEntry THEN Locked(q).version
                           ELSE Max(Declares[head][q] \cap node[q].allows)
<1>1. Target(q) \in Targets \cup {None} BY TargetType
<1>2. q \in Native <=> q \notin Registry BY DEF LockAssumption, Packages
<1> QED BY <1>1, <1>2, TargetCases DEF Version

LEMMA ExpectedCases ==
  ASSUME LockAssumption, C \in Asked, NEW q \in Packages
  PROVE  /\ Target(q) \in Commits => Expected(q) = Target(q)
         /\ Target(q) \notin Commits /\ q \in Native => Expected(q) = node[q].commit
         /\ Target(q) \notin Commits /\ q \in Registry =>
              Expected(q) = IF Locked(q).version = Version(q) THEN Locked(q).commit ELSE NoCommit
<1>1. q \in Native <=> q \notin Registry BY DEF LockAssumption, Packages
<1> QED BY <1>1 DEF Expected

LEMMA EntryCases ==
  ASSUME NEW q \in Packages
  PROVE  /\ q \in links => Entry(q) = C.lock[q]
         /\ q \notin links /\ got[q] # Nothing /\ node[q].in =>
              Entry(q) = [version |-> got[q].version, commit |-> got[q].commit,
                          wrapper |-> IF q \in Registry THEN head ELSE NoHead]
         /\ q \notin links /\ got[q] = Nothing /\ node[q].in =>
              Entry(q) = IF Locked(q) # NoEntry THEN Locked(q)
                         ELSE [NoEntry EXCEPT !.version = node[q].version,
                                              !.commit = node[q].commit]
         /\ q \notin links /\ got[q] = Nothing /\ ~node[q].in => Entry(q) = NoEntry
<1>1. ASSUME q \in links PROVE Entry(q) = C.lock[q]
  <2> DEFINE made == [version |-> got[q].version, commit |-> got[q].commit,
                      wrapper |-> IF q \in Registry THEN head ELSE NoHead]
             chosen == [NoEntry EXCEPT !.version = node[q].version, !.commit = node[q].commit]
             kept == IF Locked(q) # NoEntry THEN Locked(q) ELSE chosen
             none == NoEntry
  <2>1. Entry(q) = CASE q \in links -> C.lock[q]
                     [] q \notin links /\ got[q] # Nothing -> made
                     [] q \notin links /\ got[q] = Nothing /\ node[q].in -> kept
                     [] q \notin links /\ ~node[q].in -> none
    BY DEF Entry
  <2> HIDE DEF made, kept, none
  <2> QED BY <1>1, <2>1
<1>2. CASE q \notin links /\ got[q] # Nothing /\ node[q].in BY <1>2 DEF Entry
<1>3. CASE q \notin links /\ got[q] = Nothing /\ node[q].in BY <1>3 DEF Entry
<1>4. CASE q \notin links /\ got[q] = Nothing /\ ~node[q].in BY <1>4 DEF Entry
<1> QED BY <1>1, <1>2, <1>3, <1>4, Zenon

(* The library's induction theorems take operators, which the prover cannot*)
(* instantiate; it is enough that a set of numbers has a least one.        *)
LEMMA LeastNumber ==
  ASSUME NEW B, B \subseteq Nat, B # {}
  PROVE  \E n \in B : \A m \in B : n <= m
<1> DEFINE Less == OpToRel(<, Nat)
<1>1. IsWellFoundedOn(Less, Nat)
  BY NatLessThanWellFounded
<1>2. \A x, y \in Nat : y < x => <<y, x>> \in Less
  BY DEF OpToRel
<1> HIDE DEF Less
<1>3. PICK n \in B : \A m \in B : <<m, n>> \notin Less
  BY <1>1, WFMin
<1>4. \A m \in B : ~(m < n)
  BY <1>2, <1>3, Zenon
<1>5. QED
  BY <1>4

LEMMA MaxIsIn ==
  ASSUME LockAssumption, NEW S \in SUBSET Versions, S # {}
  PROVE  Max(S) \in S
<1> DEFINE below == {d \in Nat : d <= MaxVersion /\ MaxVersion - d \in S}
<1>1. PICK v \in S : TRUE OBVIOUS
<1>2. MaxVersion \in Nat /\ S \subseteq 1..MaxVersion BY DEF Versions, LockAssumption
<1>3. \A y \in S : MaxVersion - y \in below
  <2>1. ASSUME NEW y \in S PROVE MaxVersion - y \in below
    <3>1. y \in Nat /\ MaxVersion - y \in Nat /\ MaxVersion - y <= MaxVersion BY <1>2
    <3>2. MaxVersion - (MaxVersion - y) = y BY <1>2, <3>1
    <3> QED BY <3>1, <3>2
  <2> QED BY <2>1
<1>4. below \subseteq Nat OBVIOUS
<1>5. below # {} BY <1>1, <1>3
<1>6. PICK d \in below : \A e \in below : d <= e
  <2> HIDE DEF below
  <2> QED BY <1>4, <1>5, LeastNumber
<1>7. d \in Nat /\ MaxVersion - d \in S OBVIOUS
<1>8. \A y \in S : MaxVersion - d >= y
  <2>1. ASSUME NEW y \in S PROVE MaxVersion - d >= y
    <3>1. d <= MaxVersion - y BY <1>3, <1>6
    <3> QED BY <1>2, <1>7, <3>1
  <2> QED BY <2>1
<1> QED BY <1>7, <1>8 DEF Max

(* What a package in the graph is locked to is what is made of it, unless  *)
(* its pin or the command says otherwise.                                  *)
LEMMA ExpectedIsLocked ==
  ASSUME LockAssumption, C \in Asked, NodeInv, NEW q \in InGraph \ links,
         C.lock[q].commit \in Commits, ~Ignored(q), ~PinDiffers(q)
  PROVE  /\ Expected(q) = C.lock[q].commit
         /\ \/ Version(q) = C.lock[q].version
            \/ Version(q) = None /\ C.pins[q] = C.lock[q].commit /\ C.pins[q] \in Commits
<1>1. q \in Packages /\ (q \in Native \/ q \in Registry) BY DEF InGraph, Packages
<1>2. C.target[q] = None /\ Target(q) = C.pins[q] BY DEF Ignored, Target
<1>3. C.lock[q] # NoEntry /\ Locked(q) = C.lock[q]
  BY DEF Ignored, Locked, NoEntry, LockAssumption
<1>4. C.lock[q].commit # NoCommit BY DEF LockAssumption
<1>5. /\ Target(q) \in Versions \/ Target(q) \in Commits \/ Target(q) = None
      /\ Target(q) \in Versions => Target(q) \notin Commits /\ Target(q) # None
      /\ Target(q) \in Commits => Target(q) # None
  BY <1>1, TargetType, TargetCases
<1>6. /\ q \in Native => NativeInv(q)
      /\ q \in Registry => RegistryInv(q)
  BY DEF NodeInv
<1>7. CASE Target(q) \in Commits
  <2>1. C.pins[q] = C.lock[q].commit BY <1>2, <1>5, <1>7 DEF PinDiffers
  <2> QED BY <1>1, <1>2, <1>7, <2>1, VersionCases, ExpectedCases
<1>8. CASE Target(q) \in Versions
  <2>1. C.lock[q].version = Target(q) BY <1>2, <1>5, <1>8 DEF PinDiffers
  <2>2. Version(q) = Target(q) BY <1>1, <1>8, VersionCases
  <2>3. Pinned(q).commit = C.lock[q].commit BY <1>1, <1>2, <1>8, <2>1, PinnedCases
  <2>4. CASE q \in Native
    BY <1>1, <1>4, <1>5, <1>6, <1>8, <2>1, <2>2, <2>3, <2>4, ExpectedCases DEF NativeInv
  <2>5. CASE q \in Registry
    BY <1>1, <1>3, <1>5, <1>8, <2>1, <2>2, <2>5, ExpectedCases
  <2> QED BY <1>1, <2>4, <2>5
<1>9. CASE Target(q) = None
  <2>1. Target(q) \notin Commits BY <1>5, <1>9
  <2>2. Pinned(q).commit = C.lock[q].commit /\ Pinned(q).version = C.lock[q].version
    BY <1>1, <1>3, <1>9, PinnedCases
  <2>3. CASE q \in Native
    BY <1>1, <1>4, <1>6, <1>9, <2>1, <2>2, <2>3, ExpectedCases, VersionCases DEF NativeInv
  <2>4. CASE q \in Registry
    BY <1>1, <1>3, <1>9, <2>1, <2>4, ExpectedCases, VersionCases
  <2> QED BY <1>1, <2>3, <2>4
<1> QED BY <1>5, <1>7, <1>8, <1>9

(* The version that is made is allowed, and what the target names.         *)
LEMMA VersionIsAllowed ==
  ASSUME LockAssumption, TypeOK, C \in Asked, NodeInv, NEW q \in InGraph \ links
  PROVE  /\ Version(q) # None => Version(q) \in node[q].allows
         /\ Version(q) \in 0..MaxVersion
<1>1. q \in Packages /\ (q \in Native \/ q \in Registry) BY DEF InGraph, Packages
<1>2. /\ Target(q) \in Versions \/ Target(q) \in Commits \/ Target(q) = None
      /\ Target(q) \in Versions => Target(q) \notin Commits /\ Target(q) # None
  BY <1>1, TargetType, TargetCases
<1>3. /\ q \in Native => NativeInv(q)
      /\ q \in Registry => RegistryInv(q)
  BY DEF NodeInv
<1>4. Versions \subseteq 0..MaxVersion /\ None \in 0..MaxVersion
  BY DEF Versions, None, LockAssumption
<1>5. node[q].version \in 0..MaxVersion /\ node[q].allows \subseteq Versions
  BY <1>1 DEF TypeOK, Nodes
<1>6. \A t \in 0..MaxVersion : t # None => t \in Versions
  BY DEF Versions, None, LockAssumption
<1>7. CASE Target(q) \in Versions
  <2>1. Version(q) = Target(q) BY <1>1, <1>7, VersionCases
  <2>2. CASE q \in Native
    BY <1>1, <1>2, <1>3, <1>4, <1>7, <2>1, <2>2, PinnedCases DEF NativeInv
  <2>3. CASE q \in Registry
    BY <1>2, <1>3, <1>4, <1>7, <2>1, <2>3 DEF RegistryInv, Fits
  <2> QED BY <1>1, <2>2, <2>3
<1>8. CASE Target(q) \in Commits BY <1>1, <1>4, <1>8, VersionCases
<1>9. CASE Target(q) = None
  <2>1. CASE q \in Native BY <1>1, <1>3, <1>5, <1>9, <2>1, VersionCases DEF NativeInv
  <2>2. CASE q \in Registry
    <3> DEFINE offered == Declares[head][q] \cap node[q].allows
    <3>1. /\ Locked(q) # NoEntry => Version(q) = Locked(q).version
          /\ Locked(q) = NoEntry => Version(q) = Max(offered)
      BY <1>1, <1>9, <2>2, VersionCases
    <3>2. offered # {} /\ (Locked(q).version \in Versions => Locked(q).version \in offered)
      BY <1>3, <1>9, <2>2 DEF RegistryInv, Fits
    <3>3. offered \subseteq Versions BY <1>5
    <3> HIDE DEF offered
    <3>4. Max(offered) \in offered BY <3>2, <3>3, MaxIsIn
    <3>5. Locked(q).version \in 0..MaxVersion BY <1>1, LockedType
    <3>6. offered \subseteq node[q].allows BY DEF offered
    <3> QED BY <1>4, <1>6, <3>1, <3>2, <3>3, <3>4, <3>5, <3>6
  <2> QED BY <1>1, <2>1, <2>2
<1> QED BY <1>2, <1>7, <1>8, <1>9

LEMMA TargetIsMade ==
  ASSUME LockAssumption, C \in Asked, NEW q \in Packages, Target(q) # None
  PROVE  /\ Target(q) \in Commits => Expected(q) = Target(q) /\ Version(q) = None
         /\ Target(q) \notin Commits => Version(q) = Target(q)
BY TargetType, TargetCases, VersionCases, ExpectedCases

-----------------------------------------------------------------------------
(* While a command holds the lock, its answers stay the same.              *)
Kept ==
  /\ holder # Free /\ holder' = holder
  /\ UNCHANGED <<head, script, links>>
  /\ C'.kind = C.kind /\ C'.locked = C.locked /\ C'.all = C.all /\ C'.float = C.float
  /\ C'.target = C.target /\ C'.pins = C.pins /\ C'.lock = C.lock /\ C'.config = C.config
  /\ C'.named = C.named

LEMMA KeptAnswers ==
  ASSUME Kept, NEW q
  PROVE  /\ Target(q)' = Target(q) /\ Locked(q)' = Locked(q)
         /\ Ignored(q)' <=> Ignored(q)
         /\ PinDiffers(q)' <=> PinDiffers(q)
         /\ NotLocked(q)' <=> NotLocked(q)
         /\ Drifted(q)' <=> Drifted(q)
         /\ q \in Requested' <=> q \in Requested
<1>1. Target(q)' = Target(q) BY DEF Kept, Target
<1>2. Ignored(q)' <=> Ignored(q) BY DEF Kept, Ignored
<1>3. Locked(q)' = Locked(q) BY <1>2 DEF Kept, Locked
<1>4. PinDiffers(q)' <=> PinDiffers(q) BY DEF Kept, PinDiffers
<1>5. NotLocked(q)' <=> NotLocked(q) BY <1>4 DEF Kept, NotLocked
<1>6. Drifted(q)' <=> Drifted(q) BY DEF Kept, Drifted
<1>7. q \in Requested' <=> q \in Requested BY DEF Kept, Requested
<1> QED BY <1>1, <1>2, <1>3, <1>4, <1>5, <1>6, <1>7

LEMMA KeptPinned ==
  ASSUME Kept, NEW q
  PROVE  Pinned(q)' = Pinned(q)
<1>1. Target(q)' = Target(q) /\ Locked(q)' = Locked(q) BY KeptAnswers
<1>2. C'.target = C.target /\ C'.lock = C.lock BY DEF Kept
<1> QED BY <1>1, <1>2 DEF Pinned

LEMMA KeptFits ==
  ASSUME Kept, NEW q, NEW allows
  PROVE  Fits(q, allows)' <=> Fits(q, allows)
<1>1. Target(q)' = Target(q) /\ Locked(q)' = Locked(q) BY KeptAnswers
<1>2. head' = head BY DEF Kept
<1> QED BY <1>1, <1>2 DEF Fits

LEMMA KeptVersion ==
  ASSUME Kept, NEW q, node'[q] = node[q]
  PROVE  Version(q)' = Version(q) /\ Expected(q)' = Expected(q)
<1>1. Target(q)' = Target(q) /\ Locked(q)' = Locked(q) BY KeptAnswers
<1>2. head' = head BY DEF Kept
<1>3. Version(q)' = Version(q) BY <1>1, <1>2 DEF Version
<1> QED BY <1>1, <1>3 DEF Expected

LEMMA KeptUpdated ==
  ASSUME Kept, UNCHANGED <<node, got>>
  PROVE  Updated' = Updated
<1>1. ASSUME NEW q \in Packages PROVE Entry(q)' = Entry(q)
  <2>1. Locked(q)' = Locked(q) BY KeptAnswers
  <2>2. C'.lock = C.lock /\ head' = head /\ links' = links BY DEF Kept
  <2> QED BY <2>1, <2>2 DEF Entry
<1> QED BY <1>1 DEF Updated

-----------------------------------------------------------------------------
(* The steps                                                               *)

LEMMA NoCommandType ==
  LockAssumption => NoCommand \in Asked /\ NoNode \in Nodes /\ Nothing \in ASources
<1> SUFFICES ASSUME LockAssumption
             PROVE  NoCommand \in Asked /\ NoNode \in Nodes /\ Nothing \in ASources
  OBVIOUS
<1>1. None \in 0..MaxVersion /\ None \in Targets \cup {None} BY DEF None, LockAssumption
<1>2. [p \in Packages |-> NoEntry] \in Entries BY <1>1 DEF Entries, NoEntry
<1>3. NoTargets \in Pins BY DEF Pins, NoTargets
<1>4. NoCommand \in Asked BY <1>2, <1>3 DEF NoCommand, Asked, Kinds
<1> QED BY <1>1, <1>4 DEF NoNode, Nodes, Nothing, ASources

(* A new command waits: its wishes are those of the command line.          *)
LEMMA AskStep ==
  ASSUME TypeOK, KindInv, NEW p \in Procs,
         NEW c \in Asked, KindFacts(c), c.kind # "none", c.visit = 1,
         Ask(p, c)
  PROVE  TypeOK' /\ KindInv'
<1>1. /\ pc' = [pc EXCEPT ![p] = "waiting"] /\ cmd' = [cmd EXCEPT ![p] = c]
      /\ UNCHANGED <<head, script, pins, links, lock, holder, node, got, synced>>
  BY DEF Ask, world, files
<1>2. TypeOK' BY <1>1 DEF TypeOK
<1>3. \A r \in Procs : cmd'[r] = c \/ (cmd'[r] = cmd[r] /\ pc'[r] = pc[r]) BY <1>1 DEF TypeOK
<1>4. KindInv' BY <1>3 DEF KindInv
<1> QED BY <1>2, <1>4

Asks(p) == Build(p) \/ Sync(p) \/ UpdateAll(p) \/ Update(p) \/ Pin(p) \/ Fetch(p)

LEMMA AsksStep ==
  ASSUME LockAssumption, TypeOK, KindInv, NEW p \in Procs, Asks(p)
  PROVE  \E c \in Asked : KindFacts(c) /\ c.kind # "none" /\ c.visit = 1 /\ Ask(p, c)
<1>1. NoCommand \in Asked BY NoCommandType
<1>2. CASE Build(p)
  <2>1. PICK locked \in BOOLEAN : Ask(p, [NoCommand EXCEPT !.kind = "build", !.locked = locked])
    BY <1>2 DEF Build
  <2> DEFINE c == [NoCommand EXCEPT !.kind = "build", !.locked = locked]
  <2>2. c \in Asked BY <1>1 DEF Asked, Kinds
  <2>3. KindFacts(c) /\ c.kind # "none" /\ c.visit = 1 BY DEF KindFacts, NoCommand
  <2> QED BY <2>1, <2>2, <2>3
<1>3. CASE Sync(p)
  <2> DEFINE c == [NoCommand EXCEPT !.kind = "sync"]
  <2>1. c \in Asked BY <1>1 DEF Asked, Kinds
  <2>2. KindFacts(c) /\ c.kind # "none" /\ c.visit = 1 BY DEF KindFacts, NoCommand
  <2> QED BY <1>3, <2>1, <2>2 DEF Sync
<1>4. CASE UpdateAll(p)
  <2> DEFINE c == [NoCommand EXCEPT !.kind = "update", !.all = TRUE]
  <2>1. c \in Asked BY <1>1 DEF Asked, Kinds
  <2>2. KindFacts(c) /\ c.kind # "none" /\ c.visit = 1 BY DEF KindFacts, NoCommand
  <2> QED BY <1>4, <2>1, <2>2 DEF UpdateAll
<1>5. CASE Update(p)
  <2>1. PICK q \in Packages \ links :
          \/ Ask(p, [NoCommand EXCEPT !.kind = "update", !.float = {q}])
          \/ \E t \in Targets : Ask(p, [NoCommand EXCEPT !.kind = "update", !.target[q] = t])
    BY <1>5 DEF Update
  <2>2. CASE Ask(p, [NoCommand EXCEPT !.kind = "update", !.float = {q}])
    <3> DEFINE c == [NoCommand EXCEPT !.kind = "update", !.float = {q}]
    <3>1. c \in Asked BY <1>1 DEF Asked, Kinds
    <3>2. KindFacts(c) /\ c.kind # "none" /\ c.visit = 1 BY DEF KindFacts, NoCommand
    <3> QED BY <2>2, <3>1, <3>2
  <2>3. CASE \E t \in Targets : Ask(p, [NoCommand EXCEPT !.kind = "update", !.target[q] = t])
    <3>1. PICK t \in Targets : Ask(p, [NoCommand EXCEPT !.kind = "update", !.target[q] = t])
      BY <2>3
    <3> DEFINE c == [NoCommand EXCEPT !.kind = "update", !.target[q] = t]
    <3>2. c \in Asked BY <1>1 DEF Asked, Kinds, Pins
    <3>3. KindFacts(c) /\ c.kind # "none" /\ c.visit = 1 BY DEF KindFacts, NoCommand
    <3> QED BY <3>1, <3>2, <3>3
  <2> QED BY <2>1, <2>2, <2>3
<1>6. CASE Pin(p)
  <2>1. PICK q \in Packages \ links, t \in Targets :
          Ask(p, [NoCommand EXCEPT !.kind = "pin", !.target[q] = t,
                                   !.pins = [pins EXCEPT ![q] = t]])
    BY <1>6 DEF Pin
  <2> DEFINE c == [NoCommand EXCEPT !.kind = "pin", !.target[q] = t,
                                    !.pins = [pins EXCEPT ![q] = t]]
  <2>2. [pins EXCEPT ![q] = t] \in Pins BY DEF TypeOK, Pins
  <2>3. [NoTargets EXCEPT ![q] = t] \in Pins BY DEF NoTargets, Pins
  <2>4. c = [NoCommand EXCEPT !.kind = "pin", !.target = [NoTargets EXCEPT ![q] = t],
                              !.pins = [pins EXCEPT ![q] = t]]
    BY DEF NoCommand
  <2>5. c \in Asked BY <1>1, <2>2, <2>3, <2>4 DEF Asked, Kinds
  <2>6. KindFacts(c) /\ c.kind # "none" /\ c.visit = 1
    <3>1. /\ c.kind = "pin" /\ c.visit = 1 /\ ~c.locked /\ ~c.all /\ c.float = {} /\ c.named = {}
          /\ c.target = [NoTargets EXCEPT ![q] = t] /\ c.pins = [pins EXCEPT ![q] = t]
      BY DEF NoCommand
    <3>2. \A r \in Packages : c.target[r] # None => c.pins[r] = c.target[r]
      BY <3>1 DEF NoTargets, TypeOK, Pins
    <3> QED BY <3>1, <3>2 DEF KindFacts
  <2> QED BY <2>1, <2>5, <2>6
<1>7. CASE Fetch(p)
  <2>1. PICK named \in {{}, Packages} \cup {{q} : q \in Packages} :
          Ask(p, [NoCommand EXCEPT !.kind = "fetch", !.locked = TRUE, !.named = named])
    BY <1>7 DEF Fetch
  <2> DEFINE c == [NoCommand EXCEPT !.kind = "fetch", !.locked = TRUE, !.named = named]
  <2>2. named \subseteq Packages BY <2>1
  <2>3. c \in Asked BY <1>1, <2>2 DEF Asked, Kinds
  <2>4. KindFacts(c) /\ c.kind # "none" /\ c.visit = 1 BY DEF KindFacts, NoCommand
  <2> QED BY <2>1, <2>3, <2>4
<1> QED BY <1>2, <1>3, <1>4, <1>5, <1>6, <1>7 DEF Asks

-----------------------------------------------------------------------------
(* What a step of the holder keeps, part by part                           *)
Place == pc[holder]

LEMMA GraphStays ==
  ASSUME Kept, UNCHANGED node, C'.visit = C.visit, GraphInv,
         Place' \in {"resolve", "refused"} \/ Place \notin {"resolve", "refused"}
  PROVE  GraphInv'
BY DEF GraphInv, Kept, At, Place

LEMMA NodesStay ==
  ASSUME Kept, UNCHANGED node, NodeInv
  PROVE  NodeInv'
<1>1. ASSUME NEW q \in InGraph' \ links'
      PROVE  (q \in Native => NativeInv(q)') /\ (q \in Registry => RegistryInv(q)')
  <2>1. q \in InGraph \ links BY DEF InGraph, Kept
  <2>2. Pinned(q)' = Pinned(q) BY KeptPinned
  <2>3. Fits(q, node[q].allows)' <=> Fits(q, node[q].allows)
    <3>1. PICK a : a = node[q].allows OBVIOUS
    <3>2. a = node'[q].allows BY <3>1
    <3>3. Fits(q, a)' <=> Fits(q, a) BY KeptFits
    <3> QED BY <3>1, <3>2, <3>3 DEF Fits
  <2> QED BY <2>1, <2>2, <2>3 DEF NodeInv, NativeInv, RegistryInv
<1> QED BY <1>1 DEF NodeInv

LEMMA NeededStays ==
  ASSUME Kept, UNCHANGED node, C'.needed = C.needed, NeededInv,
         Place' \in {"resolve", "refused"} \/ Place \notin {"resolve", "refused"}
  PROVE  NeededInv'
<1>1. ASSUME ~At("resolve")', ~At("refused")'
      PROVE  ~At("resolve") /\ ~At("refused")
  BY <1>1 DEF Kept, At, Place
<1>2. InGraph' = InGraph BY DEF InGraph
<1>3. \A q \in InGraph :
        (PinDiffers(q)' <=> PinDiffers(q)) /\ (q \in Requested' <=> q \in Requested)
  BY KeptAnswers
<1>4. C'.kind = C.kind /\ C'.named = C.named /\ C'.config = C.config BY DEF Kept
<1> QED BY <1>1, <1>2, <1>3, <1>4 DEF NeededInv

LEMMA VerifiedStays ==
  ASSUME Kept, C'.needed = C.needed, VerifiedInv,
         Place' \notin {"download", "done", "pins"} \/ Place \in {"download", "done", "pins"}
  PROVE  VerifiedInv'
<1>1. ASSUME NEW q PROVE (NotLocked(q)' <=> NotLocked(q)) /\ (Drifted(q)' <=> Drifted(q))
  BY KeptAnswers
<1>2. At("download")' \/ At("done")' \/ At("pins")' => At("download") \/ At("done") \/ At("pins")
  BY DEF Kept, At, Place
<1>3. links' = links BY DEF Kept
<1> QED BY <1>1, <1>2, <1>3 DEF VerifiedInv

(* The second part of GotInv                                               *)
MadeInv ==
  \A q \in Packages : got[q] # Nothing =>
    /\ q \in C.needed \ links
    /\ got[q].commit \in Commits /\ got[q].version = Version(q)
    /\ Expected(q) # NoCommit => got[q].commit = Expected(q)

LEMMA MadeStays ==
  ASSUME Kept, UNCHANGED <<node, got>>, C'.needed = C.needed, MadeInv
  PROVE  MadeInv'
<1>1. ASSUME NEW q \in Packages PROVE Version(q)' = Version(q) /\ Expected(q)' = Expected(q)
  BY KeptVersion
<1>2. links' = links BY DEF Kept
<1> QED BY <1>1, <1>2 DEF MadeInv

LEMMA GotStays ==
  ASSUME Kept, UNCHANGED <<node, got>>, C'.needed = C.needed, GotInv, Place' = Place
  PROVE  GotInv'
<1>1. MadeInv' BY MadeStays DEF GotInv, MadeInv
<1>2. Updated' = Updated BY KeptUpdated
<1>3. \A x : At(x)' <=> At(x) BY DEF Kept, At, Place
<1> QED BY <1>1, <1>2, <1>3 DEF GotInv, MadeInv, Kept

LEMMA LoadedStays ==
  ASSUME Kept, LoadedInv, UNCHANGED <<lock, pins>>,
         Writing' <=> Writing, Writing => UNCHANGED <<node, got>>, At("pins")' => At("pins")
  PROVE  LoadedInv'
<1>1. Writing => Updated' = Updated BY KeptUpdated
<1> QED BY <1>1 DEF LoadedInv, Kept

(* Nothing of the holder's changes.                                        *)
LEMMA StillHeld ==
  ASSUME TypeOK, HeldInv, holder # Free, C' = C, Place' = Place,
         UNCHANGED <<head, script, pins, links, lock, holder, node, got>>
  PROVE  HeldInv'
<1>1. Kept BY DEF Kept
<1>2. LoadedInv /\ GraphInv /\ NodeInv /\ NeededInv /\ VerifiedInv /\ GotInv BY DEF HeldInv
<1>3. \A x : At(x)' <=> At(x) BY DEF At, Place
<1>4. LoadedInv' BY <1>1, <1>2, <1>3, LoadedStays DEF Writing
<1>5. GraphInv' BY <1>1, <1>2, GraphStays
<1>6. NodeInv' BY <1>1, <1>2, NodesStay
<1>7. NeededInv' BY <1>1, <1>2, NeededStays
<1>8. VerifiedInv' BY <1>1, <1>2, VerifiedStays
<1>9. GotInv' BY <1>1, <1>2, GotStays
<1> QED BY <1>4, <1>5, <1>6, <1>7, <1>8, <1>9 DEF HeldInv

(* The lock file, the pins and what they were made for                     *)
LEMMA SyncStays ==
  ASSUME SyncInv, UNCHANGED <<head, script, pins, links, lock>>, synced' = {} \/ synced' = synced,
         At("pins")' => At("pins") /\ C'.config = C.config /\ C'.pins = C.pins
  PROVE  SyncInv'
<1>1. ASSUME NEW c \in synced' PROVE SyncedFor(lock, c, pins)'
  <2>1. c \in synced BY <1>1
  <2>2. SyncedFor(lock, c, pins) BY <2>1 DEF SyncInv
  <2> QED BY <2>2 DEF SyncedFor, Suits, Required
<1>2. ASSUME At("pins")' PROVE SyncedFor(lock, C.config, C.pins)'
  <2>1. SyncedFor(lock, C.config, C.pins) BY <1>2 DEF SyncInv
  <2>2. C'.config = C.config /\ C'.pins = C.pins BY <1>2
  <2>3. UNCHANGED <<head, script, links, lock>> OBVIOUS
  <2> QED BY <2>1, <2>2, <2>3 DEF SyncedFor, Suits, Required
<1> QED BY <1>1, <1>2 DEF SyncInv

LEMMA RefusedStays ==
  ASSUME SyncedIsLocked, UNCHANGED <<lock, head>>, synced' = {} \/ synced' = synced,
         At("refused")' => At("refused") /\ C'.config = C.config /\ C'.named = C.named
  PROVE  SyncedIsLocked'
BY DEF SyncedIsLocked

-----------------------------------------------------------------------------
(* Upstream, the user and the other processes                              *)
LEMMA UserStep ==
  ASSUME LockAssumption, IInv, User
  PROVE  IInv'
<1> USE DEF IInv
<1>1. CASE MoveTag
  <2>1. UNCHANGED <<head, script, pins, links, lock, holder, pc, cmd, node, got, synced>>
    BY <1>1 DEF MoveTag, files
  <2>2. TypeOK' BY <2>1 DEF TypeOK
  <2>3. PlaceInv' /\ KindInv' /\ WholeInv' BY <2>1 DEF PlaceInv, KindInv, WholeInv
  <2>4. HeldInv'
    <3>1. CASE holder = Free BY <2>1, <3>1 DEF HeldInv
    <3>2. CASE holder # Free BY <2>1, <3>2, StillHeld DEF C, Place
    <3> QED BY <3>1, <3>2
  <2>5. SyncInv' BY <2>1, SyncStays DEF At, C
  <2>6. SyncedIsLocked' BY <2>1, RefusedStays DEF At, C
  <2> QED BY <2>2, <2>3, <2>4, <2>5, <2>6
<1>2. CASE MoveHead \/ EditScript \/ EditPin \/ EditLink
  <2>1. /\ holder = Free /\ synced' = {}
        /\ UNCHANGED <<lock, holder, pc, cmd, node, got>>
    BY <1>2 DEF MoveHead, EditScript, EditPin, EditLink, Change
  <2>2. head' \in Heads /\ script' \in Scripts /\ links' \subseteq Packages /\ pins' \in Pins
    BY <1>2 DEF TypeOK, Pins, MoveHead, EditScript, EditPin, EditLink, files, world
  <2>3. TypeOK' BY <2>1, <2>2 DEF TypeOK
  <2>4. PlaceInv' /\ KindInv' /\ WholeInv' BY <2>1 DEF PlaceInv, KindInv, WholeInv
  <2>5. HeldInv' BY <2>1 DEF HeldInv
  <2>6. SyncInv' /\ SyncedIsLocked' BY <2>1 DEF SyncInv, SyncedIsLocked, At
  <2> QED BY <2>3, <2>4, <2>5, <2>6
<1> QED BY <1>1, <1>2 DEF User

LEMMA AskedStep ==
  ASSUME LockAssumption, IInv, NEW p \in Procs, Asks(p)
  PROVE  IInv'
<1> USE DEF IInv
<1>1. PICK c \in Asked : KindFacts(c) /\ c.kind # "none" /\ c.visit = 1 /\ Ask(p, c)
  BY AsksStep
<1>2. /\ pc[p] = "idle"
      /\ pc' = [pc EXCEPT ![p] = "waiting"] /\ cmd' = [cmd EXCEPT ![p] = c]
      /\ UNCHANGED <<head, script, pins, links, lock, holder, node, got, synced>>
  BY <1>1 DEF Ask, world, files
<1>3. TypeOK' /\ KindInv' BY <1>1, AskStep
<1>4. p # holder BY <1>2 DEF PlaceInv, Holding
<1>5. PlaceInv' BY <1>2, <1>4 DEF PlaceInv, TypeOK, Holding
<1>6. WholeInv' BY <1>2 DEF WholeInv
<1>7. ASSUME holder # Free PROVE C' = C /\ Place' = Place
  BY <1>2, <1>4, <1>7 DEF C, Place, TypeOK
<1>8. HeldInv'
  <2>1. CASE holder = Free BY <1>2, <2>1 DEF HeldInv
  <2>2. CASE holder # Free BY <1>2, <1>7, <2>2, StillHeld
  <2> QED BY <2>1, <2>2
<1>9. SyncInv' BY <1>2, <1>7, SyncStays DEF At, Place
<1>10. SyncedIsLocked' BY <1>2, <1>7, RefusedStays DEF At, Place
<1> QED BY <1>3, <1>5, <1>6, <1>8, <1>9, <1>10

(* The holder of the lock has just read everything.                        *)
LEMMA LoadStep ==
  ASSUME LockAssumption, IInv, NEW p \in Procs, Load(p)
  PROVE  IInv'
<1> USE DEF IInv
<1>1. PICK config \in Configs :
        cmd' = [cmd EXCEPT ![p].lock = lock, ![p].config = config,
                           ![p].pins = IF cmd[p].kind = "pin" THEN @ ELSE pins]
  BY DEF Load
<1>2. /\ pc[p] = "waiting" /\ holder = Free /\ holder' = p
      /\ pc' = [pc EXCEPT ![p] = "resolve"]
      /\ UNCHANGED <<head, script, pins, links, lock, node, got, synced>>
  BY DEF Load, world, files
<1>3. /\ cmd'[p] = [cmd[p] EXCEPT !.lock = lock, !.config = config,
                                  !.pins = IF cmd[p].kind = "pin" THEN cmd[p].pins ELSE pins]
      /\ \A r \in Procs \ {p} : cmd'[r] = cmd[r]
  BY <1>1 DEF TypeOK
<1>4. cmd[p] \in Asked /\ lock \in Entries /\ pins \in Pins /\ config \subseteq Packages
  BY <1>1 DEF TypeOK, LockAssumption
<1>5. /\ cmd'[p] \in Asked
      /\ cmd'[p].lock = lock /\ cmd'[p].visit = cmd[p].visit /\ cmd'[p].kind = cmd[p].kind
      /\ cmd'[p].kind # "pin" => cmd'[p].pins = pins
      /\ cmd'[p].kind = "pin" => cmd'[p].pins = cmd[p].pins
      /\ cmd'[p].target = cmd[p].target /\ cmd'[p].float = cmd[p].float
      /\ cmd'[p].all = cmd[p].all /\ cmd'[p].locked = cmd[p].locked
      /\ cmd'[p].named = cmd[p].named
  BY <1>3, <1>4 DEF Asked
<1>6. TypeOK'
  <2>1. cmd' \in [Procs -> Asked] BY <1>1, <1>3, <1>5 DEF TypeOK
  <2> QED BY <1>2, <2>1 DEF TypeOK, Holding
<1>7. PlaceInv'
  <2>1. Free \notin Procs BY DEF LockAssumption
  <2> QED BY <1>2, <2>1 DEF PlaceInv, TypeOK, Holding
<1>8. KindInv'
  <2>1. KindFacts(cmd'[p]) BY <1>5 DEF KindInv, KindFacts
  <2> QED BY <1>2, <1>3, <1>5, <2>1 DEF KindInv, TypeOK
<1>9. WholeInv' BY <1>2 DEF WholeInv
<1>10. p # Free /\ C' = cmd'[p] /\ Place' = "resolve"
  BY <1>2 DEF C, Place, TypeOK, LockAssumption
<1>11. \A x : At(x)' <=> x = "resolve" BY <1>2, <1>10 DEF At, Place
<1>12. \A q \in Packages : node'[q] = NoNode /\ got'[q] = Nothing BY <1>2 DEF PlaceInv
<1>13. LoadedInv'
  <2>1. ~Writing' BY <1>11 DEF Writing
  <2> QED BY <1>2, <1>5, <1>10, <1>11, <2>1 DEF LoadedInv, WholeInv
<1>14. GraphInv'
  <2>1. C'.visit = 1 BY <1>2, <1>5, <1>10 DEF KindInv
  <2>2. script' \in Seq([pkg : Packages, allows : SUBSET Versions])
    BY <1>2 DEF TypeOK, LockAssumption
  <2>3. Len(script') \in Nat /\ DOMAIN script' = 1..Len(script') BY <2>2
  <2> QED BY <1>11, <1>12, <2>1, <2>3 DEF GraphInv, NoNode
<1>15. NodeInv' BY <1>12 DEF NodeInv, InGraph, NoNode
<1>16. NeededInv' /\ VerifiedInv' BY <1>11 DEF NeededInv, VerifiedInv
<1>17. GotInv' BY <1>11, <1>12 DEF GotInv
<1>18. HeldInv' BY <1>13, <1>14, <1>15, <1>16, <1>17 DEF HeldInv
<1>19. SyncInv' BY <1>2, <1>11, SyncStays
<1>20. SyncedIsLocked' BY <1>11 DEF SyncedIsLocked
<1> QED BY <1>6, <1>7, <1>8, <1>9, <1>18, <1>19, <1>20

LEMMA EndStep ==
  ASSUME LockAssumption, IInv, End
  PROVE  IInv'
<1> USE DEF IInv
<1>1. /\ holder \in Procs /\ holder' = Free
      /\ pc' = [pc EXCEPT ![holder] = "idle"] /\ cmd' = [cmd EXCEPT ![holder] = NoCommand]
      /\ node' = [q \in Packages |-> NoNode] /\ got' = [q \in Packages |-> Nothing]
      /\ UNCHANGED <<head, script, pins, links, lock, synced>>
  BY DEF End, TypeOK, world, files
<1>2. TypeOK' BY <1>1, NoCommandType DEF TypeOK
<1>3. PlaceInv'
  <2>1. \A r \in Procs : pc'[r] \notin Holding BY <1>1 DEF PlaceInv, TypeOK, Holding
  <2> QED BY <1>1, <2>1 DEF PlaceInv, LockAssumption
<1>4. KindInv'
  <2>1. KindFacts(NoCommand) BY DEF KindFacts, NoCommand
  <2> QED BY <1>1, <2>1 DEF KindInv, TypeOK
<1>5. WholeInv' BY <1>1 DEF WholeInv
<1>6. HeldInv' /\ SyncedIsLocked' BY <1>1 DEF HeldInv, SyncedIsLocked, At
<1>7. SyncInv'
  <2>1. ~At("pins")' BY <1>1 DEF At
  <2> QED BY <1>1, <2>1, SyncStays
<1> QED BY <1>2, <1>3, <1>4, <1>5, <1>6, <1>7

-----------------------------------------------------------------------------
(* Resolving                                                               *)

(* What must be known of a package when it comes into the graph            *)
Answered(q, n) ==
  /\ q \in Native =>
       /\ n.commit \in Commits
       /\ Pinned(q).version # None \/ Pinned(q).commit # NoCommit => n.version = Pinned(q).version
       /\ Pinned(q).commit # NoCommit => n.commit = Pinned(q).commit
       /\ n.version # None => n.version \in n.allows
  /\ q \in Registry => Fits(q, n.allows) /\ n.version = None /\ n.commit = NoCommit

LEMMA ElementType ==
  ASSUME NEW S, NEW s \in Seq(S), NEW i \in DOMAIN s
  PROVE  s[i] \in S
OBVIOUS

LEMMA WantedType ==
  ASSUME LockAssumption, TypeOK, Visiting
  PROVE  /\ Wanted.pkg \in Packages /\ Wanted.allows \subseteq Versions
         /\ C.visit \in DOMAIN script
         /\ script \in Seq([pkg : Packages, allows : SUBSET Versions])
<1>1. C.visit \in Nat \ {0} BY HolderType DEF Visiting, At, Asked
<1>2. script \in Seq([pkg : Packages, allows : SUBSET Versions]) BY DEF TypeOK, LockAssumption
<1>3. C.visit <= Len(script) BY DEF Visiting
<1>4. DOMAIN script = 1..Len(script) /\ Len(script) \in Nat BY <1>2
<1>5. C.visit \in DOMAIN script BY <1>1, <1>3, <1>4
<1>6. script[C.visit] \in [pkg : Packages, allows : SUBSET Versions]
  BY <1>2, <1>5, ElementType
<1> QED BY <1>2, <1>5, <1>6 DEF Wanted

LEMMA VisitedStep ==
  ASSUME LockAssumption, IInv, Visiting, NEW n \in Nodes, n.in, Visited(n),
         NEW q \in Packages, q = Wanted.pkg, q \notin links => Answered(q, n)
  PROVE  IInv'
<1> USE DEF IInv
<1>1. /\ holder # Free /\ Place = "resolve"
      /\ node' = [node EXCEPT ![q] = n]
      /\ cmd' = [cmd EXCEPT ![holder].visit = @ + 1]
      /\ UNCHANGED <<head, script, pins, links, lock, holder, pc, got, synced>>
  BY DEF Visiting, At, Visited, Place, world, files
<1>2. holder \in Procs /\ C \in Asked BY <1>1, HolderType
<1>3. /\ C' = [C EXCEPT !.visit = @ + 1] /\ Place' = Place
      /\ \A r \in Procs \ {holder} : cmd'[r] = cmd[r]
  BY <1>1, <1>2 DEF C, Place, TypeOK
<1>4. /\ C'.visit = C.visit + 1 /\ C'.needed = C.needed /\ C' \in Asked
      /\ Kept
  BY <1>1, <1>2, <1>3 DEF Kept, Asked
<1>5. TypeOK'
  <2>1. cmd' \in [Procs -> Asked] BY <1>1, <1>2, <1>3, <1>4 DEF TypeOK, C
  <2>2. node' \in [Packages -> Nodes] BY <1>1 DEF TypeOK
  <2> QED BY <1>1, <2>1, <2>2 DEF TypeOK
<1>6. PlaceInv' BY <1>1 DEF PlaceInv
<1>7. KindInv'
  <2>1. KindFacts(C') BY <1>2, <1>4 DEF Kept, KindInv, KindFacts, C
  <2>2. cmd'[holder] = C' BY <1>1 DEF C
  <2>3. pc[holder] = "resolve" BY <1>1 DEF Place
  <2>4. C'.kind = cmd[holder].kind BY <1>4 DEF Kept, C
  <2> QED BY <1>1, <1>2, <1>3, <2>1, <2>2, <2>3, <2>4 DEF KindInv
<1>8. WholeInv' BY <1>1 DEF WholeInv
<1>9. \A x : (At(x)' <=> At(x)) /\ (At(x) <=> x = "resolve") BY <1>1, <1>3 DEF At, Place
<1>10. LoadedInv /\ GraphInv /\ NodeInv /\ GotInv BY <1>1 DEF HeldInv
<1>11. LoadedInv'
  <2>1. ~Writing /\ ~Writing' BY <1>9 DEF Writing
  <2> QED BY <1>1, <1>4, <1>9, <1>10, <2>1, LoadedStays
<1>12. node'[q] = n /\ \A r \in Packages \ {q} : node'[r] = node[r] BY <1>1 DEF TypeOK
<1>13. GraphInv'
  <2>1. script[C.visit].pkg = q /\ C.visit \in DOMAIN script /\ DOMAIN script = 1..Len(script)
    BY WantedType DEF Wanted
  <2>2. C.visit \in Nat /\ Len(script) \in Nat /\ C.visit <= Len(script)
    BY <1>2, WantedType DEF Asked, Visiting
  <2>3. \A r \in Packages :
          node'[r].in <=> \E i \in DOMAIN script : i < C.visit + 1 /\ script[i].pkg = r
    <3>1. \A i \in DOMAIN script : i < C.visit + 1 <=> (i < C.visit \/ i = C.visit)
      BY <2>1, <2>2
    <3> QED BY <1>10, <1>12, <2>1, <3>1 DEF GraphInv
  <2>4. C.visit + 1 <= Len(script) + 1 BY <2>2
  <2> QED BY <1>1, <1>4, <1>9, <2>3, <2>4 DEF GraphInv
<1>14. NodeInv'
  <2>1. ASSUME NEW r \in InGraph' \ links'
        PROVE  (r \in Native => NativeInv(r)') /\ (r \in Registry => RegistryInv(r)')
    <3>1. r \in Packages /\ r \notin links BY <1>1 DEF InGraph
    <3>2. Pinned(r)' = Pinned(r) BY <1>4, KeptPinned
    <3>3. PICK a : a = node'[r].allows OBVIOUS
    <3>4. Fits(r, a)' <=> Fits(r, a) BY <1>4, KeptFits
    <3>5. Fits(r, node[r].allows)' <=> Fits(r, a) BY <3>3, <3>4 DEF Fits
    <3>6. CASE r = q
      BY <1>12, <3>1, <3>2, <3>3, <3>5, <3>6 DEF Answered, NativeInv, RegistryInv
    <3>7. CASE r # q
      <4>1. r \in InGraph BY <1>12, <3>1, <3>7, <2>1 DEF InGraph
      <4> QED BY <1>10, <1>12, <3>1, <3>2, <3>3, <3>5, <3>7, <4>1
           DEF NodeInv, NativeInv, RegistryInv
    <3> QED BY <3>6, <3>7
  <2> QED BY <2>1 DEF NodeInv
<1>15. NeededInv' /\ VerifiedInv' BY <1>9 DEF NeededInv, VerifiedInv
<1>16. GotInv' BY <1>1, <1>9, <1>10 DEF GotInv
<1>17. HeldInv' BY <1>11, <1>13, <1>14, <1>15, <1>16 DEF HeldInv
<1>18. SyncInv' /\ SyncedIsLocked'
  BY <1>1, <1>9, SyncStays, RefusedStays
<1> QED BY <1>5, <1>6, <1>7, <1>8, <1>17, <1>18

LEMMA ResolveLinkStep == LockAssumption /\ IInv /\ ResolveLink => IInv'
<1> SUFFICES ASSUME LockAssumption, IInv, ResolveLink PROVE IInv'
  OBVIOUS
<1> DEFINE n == [NoNode EXCEPT !.in = TRUE, !.linked = TRUE]
<1>1. Visiting /\ Wanted.pkg \in links /\ Visited(n) BY DEF ResolveLink
<1>2. n \in Nodes /\ n.in BY NoCommandType DEF Nodes, NoNode
<1>3. PICK q \in Packages : q = Wanted.pkg BY <1>1, WantedType DEF IInv
<1> HIDE DEF n
<1> QED BY <1>1, <1>2, <1>3, VisitedStep

LEMMA ResolveRegistryStep == LockAssumption /\ IInv /\ ResolveRegistry => IInv'
<1> SUFFICES ASSUME LockAssumption, IInv, ResolveRegistry PROVE IInv'
  OBVIOUS
<1> DEFINE n == [NoNode EXCEPT !.in = TRUE, !.allows = Wanted.allows]
<1>1. /\ Visiting /\ Wanted.pkg \in Registry /\ Fits(Wanted.pkg, Wanted.allows) /\ Visited(n)
  BY DEF ResolveRegistry
<1>2. Wanted.allows \in SUBSET Versions BY <1>1, WantedType DEF IInv
<1>3. n \in Nodes /\ n.in BY <1>2, NoCommandType DEF Nodes, NoNode
<1>4. PICK q \in Packages : q = Wanted.pkg BY <1>1, WantedType DEF IInv
<1>5. n.allows = Wanted.allows /\ n.version = None /\ n.commit = NoCommit
  BY DEF NoNode
<1>6. Answered(q, n) BY <1>1, <1>4, <1>5 DEF Answered, LockAssumption
<1> HIDE DEF n
<1> QED BY <1>1, <1>3, <1>4, <1>6, VisitedStep

LEMMA ResolvePinnedStep == LockAssumption /\ IInv /\ ResolvePinned => IInv'
<1> SUFFICES ASSUME LockAssumption, IInv, ResolvePinned PROVE IInv'
  OBVIOUS
<1>1. Visiting BY DEF ResolvePinned
<1>2. PICK q \in Packages : q = Wanted.pkg BY <1>1, WantedType DEF IInv
<1> DEFINE n == NativeNode(Pinned(q).version, Pinned(q).commit)
<1>3. /\ q \in Native /\ Pinned(q).commit # NoCommit
      /\ Pinned(q).version # None => Pinned(q).version \in Wanted.allows
      /\ Visited(n)
  BY <1>2 DEF ResolvePinned
<1>4. Wanted.allows \in SUBSET Versions BY <1>1, WantedType DEF IInv
<1>5. Pinned(q).version \in 0..MaxVersion /\ Pinned(q).commit \in Commits \cup {NoCommit}
  BY <1>1, HolderType, PinnedCases DEF IInv, Visiting, At
<1>6. n \in Nodes /\ n.in BY <1>4, <1>5, NoCommandType DEF Nodes, NoNode, NativeNode
<1>7. /\ n.allows = Wanted.allows /\ n.version = Pinned(q).version /\ n.commit = Pinned(q).commit
  BY DEF NoNode, NativeNode
<1>8. Answered(q, n) BY <1>3, <1>5, <1>7 DEF Answered, LockAssumption
<1> HIDE DEF n
<1> QED BY <1>1, <1>2, <1>3, <1>6, <1>8, VisitedStep

LEMMA ResolveListedStep == LockAssumption /\ IInv /\ ResolveListed => IInv'
<1> SUFFICES ASSUME LockAssumption, IInv, ResolveListed PROVE IInv'
  OBVIOUS
<1>1. Visiting BY DEF ResolveListed
<1>2. PICK q \in Packages : q = Wanted.pkg BY <1>1, WantedType DEF IInv
<1> DEFINE allowed == {v \in Wanted.allows : tags[q][v] # NoCommit}
           version == Selected(q, allowed)
           expected == IF version = Pinned(q).version THEN Pinned(q).commit ELSE NoCommit
<1>3. PICK commit \in Commits :
        /\ q \in Native /\ version \in allowed
        /\ Pinned(q).version # None \/ Pinned(q).commit = NoCommit
        /\ Ensure(q, version, expected, FALSE, commit)
        /\ Visited(NativeNode(version, commit))
  BY <1>2 DEF ResolveListed
<1> DEFINE n == NativeNode(version, commit)
<1>4. Wanted.allows \in SUBSET Versions BY <1>1, WantedType DEF IInv
<1>5. Pinned(q).version \in 0..MaxVersion /\ Pinned(q).commit \in Commits \cup {NoCommit}
  BY <1>1, HolderType, PinnedCases DEF IInv, Visiting, At
<1>6. Pinned(q).version # None => version = Pinned(q).version BY DEF Selected
<1>7. version \in Wanted.allows BY <1>3
<1>8. expected # NoCommit => commit = expected BY <1>3 DEF Ensure
<1>9. Pinned(q).commit # NoCommit => commit = Pinned(q).commit BY <1>3, <1>6, <1>8
<1> HIDE DEF version, expected, allowed
<1>10. version \in 0..MaxVersion BY <1>4, <1>7 DEF Versions
<1>11. n \in Nodes /\ n.in BY <1>4, <1>10, NoCommandType DEF Nodes, NoNode, NativeNode
<1>12. n.allows = Wanted.allows /\ n.version = version /\ n.commit = commit
  BY DEF NoNode, NativeNode
<1>13. Answered(q, n)
  <2>1. q \notin Registry BY <1>3 DEF LockAssumption
  <2> HIDE DEF n
  <2> QED BY <1>3, <1>6, <1>7, <1>9, <1>12, <2>1 DEF Answered
<1>14. Visited(n) BY <1>3
<1> HIDE DEF n
<1> QED BY <1>1, <1>2, <1>11, <1>13, <1>14, VisitedStep

LEMMA RevisitStep == LockAssumption /\ IInv /\ Revisit => IInv'
<1> SUFFICES ASSUME LockAssumption, IInv, Revisit PROVE IInv'
  OBVIOUS
<1>1. Visiting BY DEF Revisit
<1>2. PICK q \in Packages : q = Wanted.pkg BY <1>1, WantedType DEF IInv
<1> DEFINE allows == node[q].allows \cap Wanted.allows
           n == [node[q] EXCEPT !.allows = allows]
<1>3. /\ node[q].in
      /\ q \in Native \ links /\ node[q].version # None => node[q].version \in Wanted.allows
      /\ q \in Registry \ links => Fits(q, allows)
      /\ Visited(n)
  BY <1>2 DEF Revisit
<1>4. node[q] \in Nodes BY DEF IInv, TypeOK
<1>5. n \in Nodes /\ n.in BY <1>3, <1>4 DEF Nodes
<1>6. n.allows = allows /\ n.version = node[q].version /\ n.commit = node[q].commit
  BY <1>4 DEF Nodes
<1>7. NodeInv BY <1>1 DEF IInv, HeldInv, Visiting, At
<1>8. ASSUME q \notin links PROVE Answered(q, n)
  <2>1. q \in InGraph \ links BY <1>3, <1>8 DEF InGraph
  <2>2. (q \in Native => NativeInv(q)) /\ (q \in Registry => RegistryInv(q))
    BY <1>7, <2>1 DEF NodeInv
  <2>3. \A v : v \in node[q].allows /\ v \in Wanted.allows => v \in allows OBVIOUS
  <2> HIDE DEF n, allows
  <2> QED BY <1>3, <1>6, <1>8, <2>2, <2>3 DEF Answered, NativeInv, RegistryInv
<1> HIDE DEF n
<1> QED BY <1>1, <1>2, <1>3, <1>5, <1>8, VisitedStep

-----------------------------------------------------------------------------
(* Preparing                                                               *)

(* The holder goes on to another place.                                    *)
LEMMA MoveStep ==
  ASSUME LockAssumption, IInv, holder # Free, NEW b \in {"refused", "download", "pins", "done"},
         Goto(b), UNCHANGED <<head, script, links, holder, cmd, node, got>>,
         Place \in {"resolve", "refused"} => b = "refused",
         b \in {"download", "pins", "done"} =>
           \A q \in C.needed \ links : ~NotLocked(q) /\ ~Drifted(q),
         b \in {"pins", "done"} => \A q \in C.needed \ links : got[q] # Nothing,
         b = "done" /\ C.locked /\ C.kind = "build" => C.lock = Updated
  PROVE  /\ Kept /\ C' = C /\ Place' = b /\ C \in Asked
         /\ pc' \in [Procs -> {"idle", "waiting"} \cup Holding]
         /\ PlaceInv' /\ KindInv'
         /\ GraphInv' /\ NodeInv' /\ NeededInv' /\ VerifiedInv' /\ GotInv'
<1> USE DEF IInv
<1>1. holder \in Procs /\ C \in Asked BY HolderType
<1>2. pc' = [pc EXCEPT ![holder] = b] BY DEF Goto
<1>3. Kept /\ C' = C BY DEF Kept, C
<1>4. Place' = b BY <1>1, <1>2 DEF Place, TypeOK
<1>5. pc' \in [Procs -> {"idle", "waiting"} \cup Holding] BY <1>1, <1>2 DEF TypeOK, Holding
<1>6. pc[holder] \in Holding BY <1>1 DEF PlaceInv
<1>7. PlaceInv' BY <1>1, <1>2, <1>6 DEF PlaceInv, TypeOK, Holding
<1>8. KindInv'
  <2>1. pc[holder] # "idle" BY <1>6 DEF Holding
  <2>2. \A p \in Procs : pc'[p] = pc[p] \/ (p = holder /\ pc'[p] = b)
    BY <1>1, <1>2 DEF TypeOK
  <2> QED BY <1>1, <2>1, <2>2 DEF KindInv
<1>9. GraphInv /\ NodeInv /\ NeededInv /\ VerifiedInv /\ GotInv BY DEF HeldInv
<1>10. GraphInv' BY <1>3, <1>4, <1>9, GraphStays
<1>11. NodeInv' BY <1>3, <1>9, NodesStay
<1>12. NeededInv' BY <1>3, <1>4, <1>9, NeededStays
<1>13. \A x : At(x)' <=> x = b BY <1>4 DEF At, Place
<1>14. VerifiedInv'
  <2>1. ASSUME b \in {"download", "pins", "done"}, NEW q \in C.needed \ links
        PROVE  ~NotLocked(q)' /\ ~Drifted(q)'
    <3>1. ~NotLocked(q) /\ ~Drifted(q) BY <2>1
    <3> QED BY <1>3, <3>1, KeptAnswers
  <2> QED BY <1>3, <1>13, <2>1 DEF VerifiedInv, Kept
<1>15. GotInv'
  <2>1. MadeInv' BY <1>3, <1>9, MadeStays DEF GotInv, MadeInv
  <2>2. Updated' = Updated BY <1>3, KeptUpdated
  <2> QED BY <1>3, <1>13, <2>1, <2>2 DEF GotInv, MadeInv
<1> QED BY <1>1, <1>3, <1>4, <1>5, <1>7, <1>8, <1>10, <1>11, <1>12, <1>14, <1>15

(* A step that only goes on, and writes nothing                            *)
LEMMA PlainStep ==
  ASSUME LockAssumption, IInv, holder # Free, NEW b \in {"refused", "download", "done"},
         Goto(b), UNCHANGED <<head, script, links, holder, cmd, node, got, lock, pins, synced>>,
         Place \in {"resolve", "refused"} => b = "refused",
         b \in {"download", "done"} =>
           \A q \in C.needed \ links : ~NotLocked(q) /\ ~Drifted(q),
         b = "done" => C.locked /\ \A q \in C.needed \ links : got[q] # Nothing,
         b = "done" /\ C.locked /\ C.kind = "build" => C.lock = Updated,
         ~Writing,
         b = "refused" /\ C.config \in synced /\ C.named = {} =>
           \E q \in Registry : lock[q].wrapper \notin {NoHead, head}
  PROVE  IInv'
<1>1. /\ Kept /\ C' = C /\ Place' = b
      /\ pc' \in [Procs -> {"idle", "waiting"} \cup Holding]
      /\ PlaceInv' /\ KindInv'
      /\ GraphInv' /\ NodeInv' /\ NeededInv' /\ VerifiedInv' /\ GotInv'
  BY MoveStep
<1>2. TypeOK' BY <1>1 DEF IInv, TypeOK
<1>3. WholeInv' BY DEF IInv, WholeInv
<1>4. \A x : At(x)' <=> x = b BY <1>1 DEF At, Place
<1>5. ~Writing' BY <1>1, <1>4 DEF Writing
<1>6. LoadedInv'
  <2>1. LoadedInv BY DEF IInv, HeldInv
  <2> QED BY <1>1, <1>4, <1>5, <2>1, LoadedStays
<1>7. HeldInv' BY <1>1, <1>6 DEF HeldInv
<1>8. SyncInv' BY <1>4, SyncStays DEF IInv
<1>9. SyncedIsLocked' BY <1>1, <1>4 DEF SyncedIsLocked
<1> QED BY <1>1, <1>2, <1>3, <1>7, <1>8, <1>9 DEF IInv

(* What "deps sync" has left is not refused while the registry stays.      *)
LEMMA SyncedIsAccepted ==
  ASSUME LockAssumption, IInv, holder # Free, ~Writing, C.config \in synced,
         \A q \in Registry : lock[q].wrapper \in {NoHead, head},
         NEW q \in Packages \ links, q \in Required, q \in Native \/ q \in C.config
  PROVE  ~NotLocked(q) /\ ~Drifted(q)
<1>1. LoadedInv /\ C.lock = lock BY DEF IInv, HeldInv, LoadedInv
<1>2. ~Drifted(q) BY <1>1 DEF Drifted
<1>3. ASSUME C.locked PROVE C.lock[q].commit # NoCommit /\ ~PinDiffers(q)
  <2>1. C.kind # "pin"
    <3>1. KindFacts(C) BY HolderType DEF IInv, KindInv, C
    <3> QED BY <1>3, <3>1 DEF KindFacts
  <2>2. C.pins = pins BY <1>1, <2>1 DEF LoadedInv
  <2>3. lock[q] # NoEntry /\ Suits(lock[q], pins[q]) BY DEF IInv, SyncInv, SyncedFor
  <2>4. lock[q].commit \in Commits BY <2>3 DEF IInv, WholeInv
  <2> QED BY <1>1, <2>2, <2>3, <2>4 DEF Suits, PinDiffers, LockAssumption
<1> QED BY <1>2, <1>3 DEF NotLocked

LEMMA RefuseToResolveStep == LockAssumption /\ IInv /\ RefuseToResolve => IInv'
<1> SUFFICES ASSUME LockAssumption, IInv, RefuseToResolve PROVE IInv'
  OBVIOUS
<1>1. Visiting /\ holder # Free /\ Place = "resolve" BY DEF RefuseToResolve, Visiting, At, Place
<1>2. PICK q \in Packages : q = Wanted.pkg BY <1>1, WantedType DEF IInv
<1>3. /\ q \notin links /\ ((q \in Native /\ NotLocked(q)) \/ Drifted(q))
      /\ Goto("refused")
      /\ UNCHANGED <<head, script, links, pins, lock, holder, cmd, node, got, synced>>
  BY <1>2 DEF RefuseToResolve, world, files
<1>4. ~Writing BY <1>1 DEF Writing, At, Place
<1>5. q \in Required BY <1>1, <1>2, WantedType DEF IInv, Required, Wanted
<1>6. ASSUME C.config \in synced, \A r \in Registry : lock[r].wrapper \in {NoHead, head}
      PROVE  FALSE
  <2>1. q \in Native => ~NotLocked(q) /\ ~Drifted(q)
    BY <1>1, <1>3, <1>4, <1>5, <1>6, SyncedIsAccepted
  <2>2. q \in Registry /\ Drifted(q) BY <1>3, <2>1 DEF Drifted
  <2>3. C.lock = lock BY <1>1, <1>4 DEF IInv, HeldInv, LoadedInv
  <2> QED BY <1>6, <2>2, <2>3 DEF Drifted
<1> QED BY <1>1, <1>3, <1>4, <1>6, PlainStep

LEMMA FilterStep == LockAssumption /\ IInv /\ Filter => IInv'
<1> SUFFICES ASSUME LockAssumption, IInv, Filter PROVE IInv'
  OBVIOUS
<1> USE DEF IInv
<1> DEFINE needed == IF C.kind = "fetch" THEN FetchNeeded ELSE (C.config \cap InGraph) \cup Extra
<1>1. /\ holder # Free /\ Place = "resolve" /\ C.visit > Len(script)
      /\ Requested \subseteq InGraph
      /\ cmd' = [cmd EXCEPT ![holder].needed = needed]
      /\ pc' = [pc EXCEPT ![holder] = "verify"]
      /\ UNCHANGED <<head, script, links, pins, lock, holder, node, got, synced>>
  BY DEF Filter, At, Place, Goto, world, files
<1>2. holder \in Procs /\ C \in Asked BY <1>1, HolderType
<1>3. needed \subseteq InGraph BY <1>1, <1>2 DEF FetchNeeded, Extra
<1>4. InGraph \subseteq Packages BY DEF InGraph
<1>5. /\ C.kind # "fetch" \/ C.named = {} => C.config \cap InGraph \subseteq needed
      /\ C.kind = "build" \/ (C.kind = "fetch" /\ C.named = {}) => needed \subseteq C.config
      /\ C.kind \in {"sync", "update", "pin"} =>
           \A q \in InGraph : PinDiffers(q) \/ q \in Requested => q \in needed
  BY DEF FetchNeeded, Extra
<1> HIDE DEF needed
<1>6. /\ C' = [C EXCEPT !.needed = needed] /\ Place' = "verify"
      /\ \A r \in Procs \ {holder} : cmd'[r] = cmd[r]
  BY <1>1, <1>2 DEF C, Place, TypeOK
<1>7. C'.needed = needed /\ C'.visit = C.visit /\ C' \in Asked /\ Kept
  BY <1>1, <1>2, <1>3, <1>4, <1>6 DEF Kept, Asked
<1>8. cmd'[holder] = C' BY <1>1 DEF C
<1>9. TypeOK'
  <2>1. cmd' \in [Procs -> Asked] BY <1>1, <1>2, <1>6, <1>7, <1>8 DEF TypeOK
  <2>2. pc' \in [Procs -> {"idle", "waiting"} \cup Holding] BY <1>1, <1>2 DEF TypeOK, Holding
  <2> QED BY <1>1, <2>1, <2>2 DEF TypeOK
<1>10. PlaceInv' BY <1>1, <1>2 DEF PlaceInv, TypeOK, Holding, Place
<1>11. KindInv'
  <2>1. KindFacts(C') BY <1>2, <1>7 DEF Kept, KindInv, KindFacts, C
  <2>2. C'.kind = cmd[holder].kind /\ pc[holder] # "idle" BY <1>1, <1>7 DEF Kept, C, Place
  <2>3. \A p \in Procs \ {holder} : pc'[p] = pc[p] BY <1>1 DEF TypeOK
  <2>4. pc'[holder] = "verify" BY <1>1, <1>2 DEF TypeOK
  <2> QED BY <1>2, <1>6, <1>8, <2>1, <2>2, <2>3, <2>4 DEF KindInv
<1>12. WholeInv' BY <1>1 DEF WholeInv
<1>13. \A x : (At(x)' <=> x = "verify") /\ (At(x) <=> x = "resolve") BY <1>1, <1>6 DEF At, Place
<1>14. LoadedInv /\ GraphInv /\ NodeInv /\ GotInv BY <1>1 DEF HeldInv
<1>15. LoadedInv'
  <2>1. ~Writing /\ ~Writing' BY <1>13 DEF Writing
  <2> QED BY <1>1, <1>7, <1>13, <1>14, <2>1, LoadedStays
<1>16. GraphInv' BY <1>1, <1>7, <1>14 DEF GraphInv
<1>17. NodeInv' BY <1>1, <1>7, <1>14, NodesStay
<1>18. NeededInv'
  <2>1. InGraph' = InGraph BY <1>1 DEF InGraph
  <2>2. \A q \in InGraph :
          (PinDiffers(q)' <=> PinDiffers(q)) /\ (q \in Requested' <=> q \in Requested)
    BY <1>7, KeptAnswers
  <2>3. C'.kind = C.kind /\ C'.named = C.named /\ C'.config = C.config BY <1>7 DEF Kept
  <2> QED BY <1>3, <1>5, <1>7, <2>1, <2>2, <2>3 DEF NeededInv
<1>19. VerifiedInv' BY <1>13 DEF VerifiedInv
<1>20. GotInv' BY <1>1, <1>13, <1>14 DEF GotInv
<1>21. HeldInv' BY <1>15, <1>16, <1>17, <1>18, <1>19, <1>20 DEF HeldInv
<1>22. SyncInv' /\ SyncedIsLocked' BY <1>1, <1>13, SyncStays, RefusedStays
<1> QED BY <1>9, <1>10, <1>11, <1>12, <1>21, <1>22

LEMMA GraphIsRequired ==
  ASSUME LockAssumption, IInv, holder # Free, Place \notin {"resolve", "refused"}
  PROVE  InGraph = Required
<1>1. GraphInv /\ C.visit > Len(script) BY DEF IInv, HeldInv, GraphInv, At, Place
<1>2. script \in Seq([pkg : Packages, allows : SUBSET Versions])
  BY DEF IInv, TypeOK, LockAssumption
<1>3. DOMAIN script = 1..Len(script) /\ Len(script) \in Nat BY <1>2
<1>4. C.visit \in Nat BY HolderType DEF IInv, Asked
<1>5. \A i \in DOMAIN script : i < C.visit /\ script[i].pkg \in Packages
  <2>1. ASSUME NEW i \in DOMAIN script PROVE i < C.visit /\ script[i].pkg \in Packages
    <3>1. script[i] \in [pkg : Packages, allows : SUBSET Versions] BY <1>2, ElementType
    <3> QED BY <1>1, <1>3, <1>4, <3>1
  <2> QED BY <2>1
<1> QED BY <1>1, <1>5 DEF GraphInv, InGraph, Required

LEMMA VerifyStep == LockAssumption /\ IInv /\ VerifyLockBeforePrepare => IInv'
<1> SUFFICES ASSUME LockAssumption, IInv, VerifyLockBeforePrepare PROVE IInv'
  OBVIOUS
<1> DEFINE refused == \E q \in C.needed \ links : NotLocked(q) \/ Drifted(q)
<1>1. /\ holder # Free /\ Place = "verify"
      /\ Goto(IF refused THEN "refused" ELSE "download")
      /\ UNCHANGED <<head, script, links, pins, lock, holder, cmd, node, got, synced>>
  BY DEF VerifyLockBeforePrepare, At, Place, world, files
<1>2. ~Writing BY <1>1 DEF Writing, At, Place
<1>3. CASE ~refused
  BY <1>1, <1>2, <1>3, PlainStep
<1>4. CASE refused
  <2>1. PICK q \in C.needed \ links : NotLocked(q) \/ Drifted(q) BY <1>4
  <2>2. ASSUME C.config \in synced, C.named = {},
               \A r \in Registry : lock[r].wrapper \in {NoHead, head}
        PROVE  FALSE
    <3>1. C.kind \in {"build", "fetch"}
      <4>1. C.locked BY <2>1 DEF NotLocked, Drifted
      <4>2. KindFacts(C) BY <1>1, HolderType DEF IInv, KindInv, C
      <4> QED BY <4>1, <4>2 DEF KindFacts
    <3>2. NeededInv BY <1>1 DEF IInv, HeldInv
    <3>3. q \in InGraph /\ q \in C.config
      BY <1>1, <2>1, <2>2, <3>1, <3>2 DEF NeededInv, At, Place
    <3>4. q \in Required /\ q \in Packages \ links
      BY <1>1, <2>1, <3>3, GraphIsRequired DEF InGraph
    <3> QED BY <1>1, <1>2, <2>1, <2>2, <3>3, <3>4, SyncedIsAccepted
  <2>3. Goto("refused") BY <1>1, <1>4
  <2> HIDE DEF refused
  <2> QED BY <1>1, <1>2, <2>2, <2>3, PlainStep
<1> QED BY <1>3, <1>4

LEMMA DownloadStep == LockAssumption /\ IInv /\ Download => IInv'
<1> SUFFICES ASSUME LockAssumption, IInv, Download PROVE IInv'
  OBVIOUS
<1> USE DEF IInv
<1>1. /\ holder # Free /\ Place = "download"
      /\ UNCHANGED <<head, script, links, pins, lock, holder, pc, cmd, node, synced>>
  BY DEF Download, At, Place, world, files
<1>2. PICK q \in C.needed \ links, commit \in Commits :
        /\ Ensure(q, Version(q), Expected(q), Ignored(q), commit)
        /\ got' = [got EXCEPT ![q] = [version |-> Version(q), commit |-> commit]]
  BY DEF Download
<1>3. C \in Asked /\ holder \in Procs BY <1>1, HolderType
<1>4. LoadedInv /\ GraphInv /\ NodeInv /\ NeededInv /\ VerifiedInv /\ GotInv
  BY <1>1 DEF HeldInv
<1>5. q \in InGraph /\ q \in Packages \ links
  BY <1>1, <1>2, <1>4 DEF NeededInv, InGraph, At, Place
<1>6. Version(q) \in 0..MaxVersion BY <1>3, <1>4, <1>5, VersionIsAllowed
<1>7. Expected(q) # NoCommit => commit = Expected(q) BY <1>2 DEF Ensure
<1>8. /\ got' \in [Packages -> ASources]
      /\ got'[q] = [version |-> Version(q), commit |-> commit]
      /\ \A r \in Packages \ {q} : got'[r] = got[r]
  BY <1>2, <1>5, <1>6 DEF TypeOK, ASources
<1>9. Kept /\ C' = C /\ Place' = Place BY <1>1 DEF Kept, C, Place
<1>10. TypeOK' BY <1>1, <1>8 DEF TypeOK
<1>11. PlaceInv' BY <1>1 DEF PlaceInv
<1>12. KindInv' /\ WholeInv' BY <1>1 DEF KindInv, WholeInv
<1>13. \A x : (At(x)' <=> x = "download") /\ (At(x) <=> x = "download")
  BY <1>1, <1>9 DEF At, Place
<1>14. LoadedInv'
  <2>1. ~Writing /\ ~Writing' BY <1>13 DEF Writing
  <2> QED BY <1>1, <1>4, <1>9, <1>13, <2>1, LoadedStays
<1>15. GraphInv' BY <1>1, <1>4, <1>9, GraphStays
<1>16. NodeInv' BY <1>1, <1>4, <1>9, NodesStay
<1>17. NeededInv' BY <1>1, <1>4, <1>9, NeededStays
<1>18. VerifiedInv' BY <1>4, <1>9, VerifiedStays
<1>19. GotInv'
  <2>1. ASSUME NEW r \in Packages, got'[r] # Nothing
        PROVE  /\ r \in C'.needed \ links'
               /\ got'[r].commit \in Commits /\ got'[r].version = Version(r)'
               /\ Expected(r)' # NoCommit => got'[r].commit = Expected(r)'
    <3>1. Version(r)' = Version(r) /\ Expected(r)' = Expected(r) BY <1>1, <1>9, KeptVersion
    <3>2. CASE r = q BY <1>1, <1>2, <1>7, <1>8, <1>9, <3>1, <3>2
    <3>3. CASE r # q BY <1>1, <1>4, <1>8, <1>9, <2>1, <3>1, <3>3 DEF GotInv
    <3> QED BY <3>2, <3>3
  <2> QED BY <1>13, <2>1 DEF GotInv
<1>20. HeldInv' BY <1>14, <1>15, <1>16, <1>17, <1>18, <1>19 DEF HeldInv
<1>21. SyncInv' /\ SyncedIsLocked' BY <1>1, <1>9, <1>13, SyncStays, RefusedStays
<1> QED BY <1>10, <1>11, <1>12, <1>20, <1>21

-----------------------------------------------------------------------------
(* Recording                                                               *)

(* The entry of what was made, and how it suits its pin                    *)
LEMMA MadeEntry ==
  ASSUME LockAssumption, IInv, holder # Free, Place \notin {"resolve", "refused"},
         NEW q \in Packages \ links, got[q] # Nothing
  PROVE  /\ q \in InGraph /\ q \in C.needed
         /\ Entry(q) = [version |-> Version(q), commit |-> got[q].commit,
                        wrapper |-> IF q \in Registry THEN head ELSE NoHead]
         /\ got[q].commit \in Commits
         /\ Expected(q) # NoCommit => got[q].commit = Expected(q)
         /\ Target(q) = C.pins[q] =>
              /\ Suits(Entry(q), C.pins[q])
              /\ C.pins[q] \in Commits => Entry(q).version = None
<1>1. C \in Asked BY HolderType DEF IInv
<1>2. GotInv /\ NeededInv BY DEF IInv, HeldInv
<1>3. /\ q \in C.needed /\ got[q].commit \in Commits /\ got[q].version = Version(q)
      /\ Expected(q) # NoCommit => got[q].commit = Expected(q)
  BY <1>2 DEF GotInv
<1>4. q \in InGraph BY <1>2, <1>3 DEF NeededInv, At, Place
<1>5. Entry(q) = [version |-> Version(q), commit |-> got[q].commit,
                  wrapper |-> IF q \in Registry THEN head ELSE NoHead]
  BY <1>3, <1>4, EntryCases DEF InGraph
<1>6. Entry(q).version = Version(q) /\ Entry(q).commit = got[q].commit BY <1>5
<1>7. ASSUME Target(q) = C.pins[q]
      PROVE  /\ Suits(Entry(q), C.pins[q])
             /\ C.pins[q] \in Commits => Entry(q).version = None
  <2>1. CASE Target(q) = None
    <3>1. C.pins[q] \notin Commits BY <1>7, <2>1 DEF LockAssumption, None
    <3> QED BY <1>7, <2>1, <3>1 DEF Suits
  <2>2. CASE Target(q) # None
    <3>1. Target(q) \in Commits => Target(q) # NoCommit BY DEF LockAssumption
    <3> QED BY <1>1, <1>3, <1>6, <1>7, <2>2, <3>1, TargetIsMade DEF Suits
  <2> QED BY <2>1, <2>2
<1> QED BY <1>3, <1>4, <1>5, <1>7

(* Whatever is recorded is of a commit, and NoEntry if nothing is.         *)
LEMMA UpdatedIsWhole ==
  ASSUME LockAssumption, IInv, Downloaded, NEW q \in Packages
  PROVE  /\ Entry(q) \in [version : 0..MaxVersion, commit : Commits \cup {NoCommit},
                          wrapper : Heads \cup {NoHead}]
         /\ Entry(q) # NoEntry => Entry(q).commit \in Commits
         /\ q \in Native => Entry(q).wrapper = NoHead
<1>1. holder # Free /\ Place = "download" BY DEF Downloaded, At, Place
<1>2. C \in Asked BY <1>1, HolderType DEF IInv
<1>3. LoadedInv /\ NodeInv BY <1>1 DEF IInv, HeldInv
<1>4. C.lock[q] \in [version : 0..MaxVersion, commit : Commits \cup {NoCommit},
                     wrapper : Heads \cup {NoHead}]
  BY <1>2 DEF Asked, Entries
<1>5. /\ C.lock[q] # NoEntry => C.lock[q].commit \in Commits
      /\ q \in Native => C.lock[q].wrapper = NoHead
  BY <1>3 DEF LoadedInv
<1>6. NoEntry \in [version : 0..MaxVersion, commit : Commits \cup {NoCommit},
                   wrapper : Heads \cup {NoHead}]
  BY DEF NoEntry, None, LockAssumption
<1>7. CASE q \in links BY <1>4, <1>5, <1>7, EntryCases
<1>8. CASE q \notin links /\ got[q] # Nothing
  <2>1. /\ q \in InGraph /\ got[q].commit \in Commits
        /\ Entry(q) = [version |-> Version(q), commit |-> got[q].commit,
                       wrapper |-> IF q \in Registry THEN head ELSE NoHead]
    BY <1>1, <1>8, MadeEntry
  <2>2. Version(q) \in 0..MaxVersion
    BY <1>2, <1>3, <1>8, <2>1, VersionIsAllowed DEF IInv
  <2>3. head \in Heads BY DEF IInv, TypeOK
  <2>4. q \in Native => q \notin Registry BY DEF LockAssumption
  <2> QED BY <2>1, <2>2, <2>3, <2>4
<1>9. CASE q \notin links /\ got[q] = Nothing /\ node[q].in
  <2>1. CASE Locked(q) # NoEntry
    <3>1. Entry(q) = C.lock[q] BY <1>9, <2>1, EntryCases DEF Locked
    <3> QED BY <1>4, <1>5, <3>1
  <2>2. CASE Locked(q) = NoEntry
    <3>1. Entry(q) = [NoEntry EXCEPT !.version = node[q].version, !.commit = node[q].commit]
      BY <1>9, <2>2, EntryCases
    <3>2. Entry(q) = [version |-> node[q].version, commit |-> node[q].commit, wrapper |-> NoHead]
      BY <3>1 DEF NoEntry
    <3>3. node[q].version \in 0..MaxVersion /\ node[q].commit \in Commits \cup {NoCommit}
      BY DEF IInv, TypeOK, Nodes
    <3>4. q \in InGraph \ links BY <1>9 DEF InGraph
    <3>5. CASE q \in Native
      <4>1. node[q].commit \in Commits BY <1>3, <3>4, <3>5 DEF NodeInv, NativeInv
      <4> QED BY <3>2, <3>3, <4>1
    <3>6. CASE q \in Registry
      <4>1. node[q].version = None /\ node[q].commit = NoCommit
        BY <1>3, <3>4, <3>6 DEF NodeInv, RegistryInv
      <4>2. Entry(q) = NoEntry BY <3>2, <4>1 DEF NoEntry
      <4>3. Entry(q).wrapper = NoHead BY <3>2
      <4> QED BY <1>6, <4>2, <4>3
    <3> QED BY <3>5, <3>6 DEF Packages
  <2> QED BY <2>1, <2>2
<1>10. CASE q \notin links /\ got[q] = Nothing /\ ~node[q].in
  <2>1. Entry(q) = NoEntry BY <1>10, EntryCases
  <2>2. NoEntry.wrapper = NoHead BY DEF NoEntry
  <2> QED BY <1>6, <2>1, <2>2
<1> QED BY <1>7, <1>8, <1>9, <1>10

(* With --locked, a configuration that was synced builds what is locked.   *)
LEMMA SyncedIsWhole ==
  ASSUME LockAssumption, IInv, Downloaded, C.locked, C.kind = "build", C.config \in synced
  PROVE  C.lock = Updated
<1>1. holder # Free /\ Place = "download" BY DEF Downloaded, At, Place
<1>2. C \in Asked /\ KindFacts(C) BY <1>1, HolderType DEF IInv, KindInv, C
<1>3. LoadedInv /\ NodeInv /\ NeededInv /\ VerifiedInv BY <1>1 DEF IInv, HeldInv
<1>4. C.lock = lock /\ C.pins = pins
  BY <1>1, <1>3 DEF LoadedInv, Writing, At, Place
<1>5. SyncedFor(lock, C.config, pins) BY DEF IInv, SyncInv
<1>6. ASSUME NEW q \in Packages PROVE Entry(q) = C.lock[q]
  <2>1. ~Ignored(q) /\ Locked(q) = C.lock[q]
    BY <1>2 DEF KindFacts, Ignored, NoTargets, Locked
  <2>2. CASE q \in links BY <2>2, EntryCases
  <2>3. CASE q \notin links /\ got[q] # Nothing
    <3>1. /\ q \in InGraph /\ q \in C.needed
          /\ Entry(q) = [version |-> Version(q), commit |-> got[q].commit,
                         wrapper |-> IF q \in Registry THEN head ELSE NoHead]
          /\ Expected(q) # NoCommit => got[q].commit = Expected(q)
      BY <1>1, <2>3, MadeEntry
    <3>2. q \in Required /\ q \in C.config
      BY <1>1, <1>3, <3>1, GraphIsRequired DEF NeededInv, At, Place
    <3>3. ~NotLocked(q) BY <1>1, <1>3, <2>3, <3>1 DEF VerifiedInv, At, Place
    <3>4. C.lock[q].commit # NoCommit /\ ~PinDiffers(q) BY <3>3 DEF NotLocked
    <3>5. C.lock[q].commit \in Commits BY <1>2, <3>4, LockedType
    <3>6. /\ Expected(q) = C.lock[q].commit
          /\ \/ Version(q) = C.lock[q].version
             \/ Version(q) = None /\ C.pins[q] = C.lock[q].commit /\ C.pins[q] \in Commits
      BY <1>2, <1>3, <2>1, <2>3, <3>1, <3>4, <3>5, ExpectedIsLocked
    <3>7. /\ q \in Registry => C.lock[q].wrapper = head
          /\ C.pins[q] \in Commits => C.lock[q].version = None
      BY <1>4, <1>5, <2>3, <3>2 DEF SyncedFor
    <3>8. Version(q) = C.lock[q].version BY <3>6, <3>7
    <3>9. C.lock[q].wrapper = IF q \in Registry THEN head ELSE NoHead
      BY <1>3, <3>7 DEF LoadedInv, Packages
    <3>10. C.lock[q] = [version |-> C.lock[q].version, commit |-> C.lock[q].commit,
                        wrapper |-> C.lock[q].wrapper]
      BY <1>2, LockedType
    <3> QED BY <3>1, <3>4, <3>6, <3>8, <3>9, <3>10
  <2>4. CASE q \notin links /\ got[q] = Nothing /\ node[q].in
    <3>1. CASE C.lock[q] # NoEntry BY <2>1, <2>4, <3>1, EntryCases
    <3>2. CASE C.lock[q] = NoEntry
      <4>1. q \in InGraph /\ q \in Required BY <1>1, <2>4, GraphIsRequired DEF InGraph
      <4>2. q \notin Native BY <1>4, <1>5, <2>4, <3>2, <4>1 DEF SyncedFor
      <4>3. node[q].version = None /\ node[q].commit = NoCommit
        BY <1>3, <2>4, <4>1, <4>2 DEF NodeInv, RegistryInv, Packages
      <4>4. Entry(q) = [NoEntry EXCEPT !.version = None, !.commit = NoCommit]
        BY <2>1, <2>4, <3>2, <4>3, EntryCases
      <4> QED BY <3>2, <4>4 DEF NoEntry
    <3> QED BY <3>1, <3>2
  <2>5. CASE q \notin links /\ got[q] = Nothing /\ ~node[q].in
    <3>1. q \notin Required BY <1>1, <2>5, GraphIsRequired DEF InGraph
    <3> QED BY <1>4, <1>5, <2>5, <3>1, EntryCases DEF SyncedFor
  <2> QED BY <2>2, <2>3, <2>4, <2>5
<1>7. C.lock = [q \in Packages |-> C.lock[q]] BY <1>2 DEF Asked, Entries
<1> QED BY <1>6, <1>7 DEF Updated

(* "deps sync", "update" and "pin" leave an entry that suits its pin for   *)
(* every package that a build of the configuration asks for.               *)
LEMMA SyncMakes ==
  ASSUME LockAssumption, IInv, Downloaded, C.kind \in {"sync", "update", "pin"}, ~Overtaken
  PROVE  SyncedFor(Updated, C.config, C.pins)
<1>1. holder # Free /\ Place = "download" BY DEF Downloaded, At, Place
<1>2. C \in Asked /\ KindFacts(C) BY <1>1, HolderType DEF IInv, KindInv, C
<1>3. LoadedInv /\ NodeInv /\ NeededInv BY <1>1 DEF IInv, HeldInv
<1>4. ASSUME NEW q \in Packages PROVE C.pins[q] # None => Target(q) = C.pins[q]
  <2>1. CASE C.kind = "sync" BY <1>2, <2>1 DEF KindFacts, Target, NoTargets
  <2>2. CASE C.kind = "pin" BY <1>2, <2>2 DEF KindFacts, Target
  <2>3. CASE C.kind = "update"
    <3>1. q \in Requested => C.pins[q] = None BY <2>3 DEF Overtaken
    <3> QED BY <3>1 DEF Requested, Target
  <2> QED BY <2>1, <2>2, <2>3
<1>5. ASSUME NEW q \in Packages \ links
      PROVE  /\ q \notin Required => Entry(q) = NoEntry
             /\ q \in Required /\ (q \in Native \/ q \in C.config) =>
                  Entry(q) # NoEntry /\ Suits(Entry(q), C.pins[q])
             /\ q \in Required \cap C.config =>
                  /\ q \in Registry => Entry(q).wrapper = head
                  /\ C.pins[q] \in Commits => Entry(q).version = None
  <2>1. q \in Required <=> q \in InGraph BY <1>1, GraphIsRequired
  <2>2. CASE got[q] # Nothing
    <3>1. /\ q \in InGraph /\ got[q].commit \in Commits
          /\ Entry(q) = [version |-> Version(q), commit |-> got[q].commit,
                         wrapper |-> IF q \in Registry THEN head ELSE NoHead]
          /\ Target(q) = C.pins[q] =>
               /\ Suits(Entry(q), C.pins[q])
               /\ C.pins[q] \in Commits => Entry(q).version = None
      BY <1>1, <2>2, MadeEntry
    <3>2. Entry(q).commit \in Commits /\ Entry(q) # NoEntry
      BY <3>1 DEF NoEntry, LockAssumption
    <3>3. q \in Registry => Entry(q).wrapper = head BY <3>1
    <3>4. CASE C.pins[q] = None
      <4>1. C.pins[q] \notin Commits BY <3>4 DEF LockAssumption, None
      <4>2. Suits(Entry(q), C.pins[q]) BY <3>4 DEF Suits
      <4> QED BY <2>1, <3>1, <3>2, <3>3, <4>1, <4>2
    <3>5. CASE C.pins[q] # None
      <4>1. Target(q) = C.pins[q] BY <1>4, <3>5
      <4>2. /\ Suits(Entry(q), C.pins[q])
            /\ C.pins[q] \in Commits => Entry(q).version = None
        BY <3>1, <4>1
      <4> QED BY <2>1, <3>1, <3>2, <3>3, <4>2
    <3> QED BY <3>4, <3>5
  <2>3. CASE got[q] = Nothing /\ q \in InGraph
    <3>1. q \notin C.needed BY <2>3 DEF Downloaded
    <3>2. q \notin C.config /\ ~PinDiffers(q) /\ q \notin Requested
      BY <1>1, <1>2, <1>3, <2>3, <3>1 DEF NeededInv, KindFacts, At, Place
    <3>3. ASSUME q \in Native PROVE Entry(q) # NoEntry /\ Suits(Entry(q), C.pins[q])
      <4>1. NativeInv(q) BY <1>3, <2>3, <3>3 DEF NodeInv
      <4>2. CASE Locked(q) # NoEntry
        <5>1. Locked(q) = C.lock[q] BY <4>2 DEF Locked
        <5>2. Entry(q) = C.lock[q] BY <2>3, <4>2, <5>1, EntryCases DEF InGraph
        <5>3. Suits(C.lock[q], C.pins[q]) BY <3>2 DEF PinDiffers, Suits
        <5> QED BY <4>2, <5>1, <5>2, <5>3
      <4>3. CASE Locked(q) = NoEntry
        <5>1. Entry(q) = [NoEntry EXCEPT !.version = node[q].version, !.commit = node[q].commit]
          BY <2>3, <4>3, EntryCases DEF InGraph
        <5>2. Entry(q).version = node[q].version /\ Entry(q).commit = node[q].commit
          BY <5>1 DEF NoEntry
        <5>3. Entry(q) # NoEntry BY <4>1, <5>2 DEF NativeInv, NoEntry, LockAssumption
        <5>4. CASE C.pins[q] = None BY <5>3, <5>4 DEF Suits
        <5>5. CASE C.pins[q] # None
          <6>1. Target(q) = C.pins[q] /\ Target(q) \in Targets \cup {None}
            BY <1>2, <1>4, <5>5, TargetType
          <6>2. CASE C.pins[q] \in Commits
            <7>1. Pinned(q).commit = C.pins[q] /\ C.pins[q] # NoCommit
              BY <1>2, <6>1, <6>2, PinnedCases DEF LockAssumption
            <7> QED BY <4>1, <5>2, <5>3, <6>2, <7>1 DEF NativeInv, Suits
          <6>3. CASE C.pins[q] \notin Commits
            <7>1. Target(q) \in Versions BY <5>5, <6>1, <6>3, TargetCases
            <7>2. Pinned(q).version = C.pins[q] BY <1>2, <6>1, <7>1, PinnedCases
            <7> QED BY <4>1, <5>2, <5>3, <5>5, <6>3, <7>2 DEF NativeInv, Suits
          <6> QED BY <6>2, <6>3
        <5> QED BY <5>4, <5>5
      <4> QED BY <4>2, <4>3
    <3> QED BY <2>1, <2>3, <3>2, <3>3
  <2>4. CASE got[q] = Nothing /\ q \notin InGraph
    BY <2>1, <2>4, EntryCases DEF InGraph
  <2> QED BY <2>2, <2>3, <2>4
<1>6. ASSUME NEW q \in Packages PROVE Updated[q] = Entry(q) BY DEF Updated
<1> QED BY <1>5, <1>6 DEF SyncedFor

(* A build of any configuration keeps what was synced for another.         *)
LEMMA BuildKeepsSynced ==
  ASSUME LockAssumption, IInv, Downloaded, C.kind = "build", NEW config \in synced
  PROVE  SyncedFor(Updated, config, pins)
<1>1. holder # Free /\ Place = "download" BY DEF Downloaded, At, Place
<1>2. C \in Asked /\ KindFacts(C) BY <1>1, HolderType DEF IInv, KindInv, C
<1>3. LoadedInv BY <1>1 DEF IInv, HeldInv
<1>4. C.lock = lock /\ C.pins = pins
  BY <1>1, <1>3 DEF LoadedInv, Writing, At, Place
<1>5. SyncedFor(lock, config, pins) BY DEF IInv, SyncInv
<1>6. ASSUME NEW q \in Packages \ links
      PROVE  /\ q \notin Required => Entry(q) = NoEntry
             /\ q \in Required /\ (q \in Native \/ q \in config) =>
                  Entry(q) # NoEntry /\ Suits(Entry(q), pins[q])
             /\ q \in Required \cap config =>
                  /\ q \in Registry => Entry(q).wrapper = head
                  /\ pins[q] \in Commits => Entry(q).version = None
  <2>1. q \in Required <=> q \in InGraph BY <1>1, GraphIsRequired
  <2>2. Locked(q) = lock[q] /\ Target(q) = pins[q]
    BY <1>2, <1>4 DEF KindFacts, NoTargets, Ignored, Locked, Target
  <2>3. CASE got[q] # Nothing
    <3>1. /\ q \in InGraph /\ got[q].commit \in Commits
          /\ Entry(q) = [version |-> Version(q), commit |-> got[q].commit,
                         wrapper |-> IF q \in Registry THEN head ELSE NoHead]
          /\ Suits(Entry(q), pins[q])
          /\ pins[q] \in Commits => Entry(q).version = None
      BY <1>1, <1>4, <2>2, <2>3, MadeEntry
    <3>2. Entry(q).commit \in Commits /\ Entry(q) # NoEntry
      BY <3>1 DEF NoEntry, LockAssumption
    <3>3. q \in Registry => Entry(q).wrapper = head BY <3>1
    <3> QED BY <2>1, <3>1, <3>2, <3>3
  <2>4. CASE got[q] = Nothing /\ q \in InGraph
    <3>1. ASSUME q \in Native \/ q \in config PROVE Entry(q) = lock[q]
      <4>1. lock[q] # NoEntry BY <1>5, <2>1, <2>4, <3>1 DEF SyncedFor
      <4> QED BY <2>2, <2>4, <4>1, EntryCases DEF InGraph
    <3> QED BY <1>5, <2>1, <2>4, <3>1 DEF SyncedFor
  <2>5. CASE got[q] = Nothing /\ q \notin InGraph
    BY <2>1, <2>5, EntryCases DEF InGraph
  <2> QED BY <2>3, <2>4, <2>5
<1>7. ASSUME NEW q \in Packages PROVE Updated[q] = Entry(q) BY DEF Updated
<1> QED BY <1>6, <1>7 DEF SyncedFor

LEMMA FetchedStep == LockAssumption /\ IInv /\ Fetched => IInv'
<1> SUFFICES ASSUME LockAssumption, IInv, Fetched PROVE IInv'
  OBVIOUS
<1>1. /\ holder # Free /\ Place = "download" /\ C.kind = "fetch" /\ Goto("done")
      /\ \A q \in C.needed \ links : got[q] # Nothing
      /\ UNCHANGED <<head, script, links, pins, lock, holder, cmd, node, got, synced>>
  BY DEF Fetched, Downloaded, At, Place, world, files
<1>2. C.locked
  <2>1. KindFacts(C) BY <1>1, HolderType DEF IInv, KindInv, C
  <2> QED BY <1>1, <2>1 DEF KindFacts
<1>3. \A q \in C.needed \ links : ~NotLocked(q) /\ ~Drifted(q)
  BY <1>1 DEF IInv, HeldInv, VerifiedInv, At, Place
<1>4. ~Writing BY <1>1 DEF Writing, At, Place
<1> QED BY <1>1, <1>2, <1>3, <1>4, PlainStep

LEMMA VerifyLockedStep == LockAssumption /\ IInv /\ VerifyLocked => IInv'
<1> SUFFICES ASSUME LockAssumption, IInv, VerifyLocked PROVE IInv'
  OBVIOUS
<1>1. /\ holder # Free /\ Place = "download" /\ C.kind = "build" /\ C.locked /\ Downloaded
      /\ Goto(IF C.lock = Updated THEN "done" ELSE "refused")
      /\ \A q \in C.needed \ links : got[q] # Nothing
      /\ UNCHANGED <<head, script, links, pins, lock, holder, cmd, node, got, synced>>
  BY DEF VerifyLocked, Downloaded, At, Place, world, files
<1>2. \A q \in C.needed \ links : ~NotLocked(q) /\ ~Drifted(q)
  BY <1>1 DEF IInv, HeldInv, VerifiedInv, At, Place
<1>3. ~Writing BY <1>1 DEF Writing, At, Place
<1>4. CASE C.lock = Updated BY <1>1, <1>2, <1>3, <1>4, PlainStep
<1>5. CASE C.lock # Updated
  <2>1. C.config \notin synced BY <1>1, <1>5, SyncedIsWhole
  <2>2. Goto("refused") BY <1>1, <1>5
  <2> QED BY <1>1, <1>3, <2>1, <2>2, PlainStep
<1> QED BY <1>4, <1>5

LEMMA WriteLockfileStep == LockAssumption /\ IInv /\ WriteLockfile => IInv'
<1> SUFFICES ASSUME LockAssumption, IInv, WriteLockfile PROVE IInv'
  OBVIOUS
<1> USE DEF IInv
<1> DEFINE b == IF C.kind = "pin" THEN "pins" ELSE "done"
<1>1. /\ holder # Free /\ Place = "download" /\ ~C.locked /\ Downloaded /\ Goto(b)
      /\ lock' = Updated
      /\ synced' = CASE C.kind = "build" -> synced
                     [] C.kind = "pin" \/ Overtaken -> {}
                     [] C.kind \in {"sync", "update"} /\ ~Overtaken -> {C.config}
      /\ \A q \in C.needed \ links : got[q] # Nothing
      /\ UNCHANGED <<head, script, links, pins, holder, cmd, node, got>>
  BY DEF WriteLockfile, Downloaded, At, Place, world, files
<1>2. holder \in Procs /\ C \in Asked BY <1>1, HolderType
<1>3. KindFacts(C) /\ C.kind # "none"
  BY <1>1, <1>2 DEF KindInv, C, Place
<1>4. C.kind \in {"build", "sync", "update", "pin"}
  BY <1>1, <1>2, <1>3 DEF KindFacts, Asked, Kinds
<1>5. LoadedInv /\ VerifiedInv BY <1>1 DEF HeldInv
<1>6. \A q \in C.needed \ links : ~NotLocked(q) /\ ~Drifted(q)
  BY <1>1, <1>5 DEF VerifiedInv, At, Place
<1>7. b \in {"refused", "download", "pins", "done"} OBVIOUS
<1>8. /\ Kept /\ C' = C /\ Place' = b
      /\ pc' \in [Procs -> {"idle", "waiting"} \cup Holding]
      /\ PlaceInv' /\ KindInv'
      /\ GraphInv' /\ NodeInv' /\ NeededInv' /\ VerifiedInv' /\ GotInv'
  <2> HIDE DEF b
  <2> QED BY <1>1, <1>6, <1>7, MoveStep
<1>9. /\ C.kind = "build" => synced' = synced
      /\ C.kind # "build" => synced' = {} \/ (synced' = {C.config} /\ ~Overtaken)
      /\ C.kind = "pin" => synced' = {}
  <2> DEFINE overtaken == Overtaken
  <2>1. synced' = CASE C.kind = "build" -> synced
                    [] C.kind = "pin" \/ overtaken -> {}
                    [] C.kind \in {"sync", "update"} /\ ~overtaken -> {C.config}
    BY <1>1
  <2>2. overtaken \in BOOLEAN BY DEF Overtaken
  <2>3. C.kind = "build" => ~overtaken BY DEF Overtaken
  <2>4. overtaken = Overtaken OBVIOUS
  <2> HIDE DEF overtaken
  <2>5. CASE overtaken = TRUE BY <1>4, <2>1, <2>3, <2>5
  <2>6. CASE overtaken = FALSE BY <1>4, <2>1, <2>4, <2>6
  <2> QED BY <2>2, <2>5, <2>6
<1>10. lock' \in Entries BY <1>1, UpdatedIsWhole DEF Updated, Entries
<1>11. TypeOK'
  <2>1. synced' \subseteq SUBSET Packages BY <1>2, <1>4, <1>9 DEF TypeOK, Asked
  <2> QED BY <1>1, <1>8, <1>10, <2>1 DEF TypeOK
<1>12. WholeInv'
  <2>1. ASSUME NEW q \in Packages
        PROVE  /\ lock'[q] # NoEntry => lock'[q].commit \in Commits
               /\ q \in Native => lock'[q].wrapper = NoHead
    <3>1. lock'[q] = Entry(q) BY <1>1 DEF Updated
    <3> QED BY <1>1, <3>1, UpdatedIsWhole
  <2> HIDE DEF IInv
  <2> QED BY <2>1 DEF WholeInv
<1>13. \A x : At(x)' <=> x = b BY <1>1, <1>8 DEF At, Place
<1>14. Writing' BY <1>1, <1>8, <1>13 DEF Writing
<1>15. LoadedInv'
  <2>1. Updated' = Updated BY <1>1, <1>8, KeptUpdated
  <2>2. C.kind # "fetch" /\ (At("pins")' => C.kind = "pin") BY <1>4, <1>13
  <2> QED BY <1>1, <1>5, <1>8, <1>14, <2>1, <2>2 DEF LoadedInv
<1>16. HeldInv' BY <1>8, <1>15 DEF HeldInv
<1>17. SyncInv'
  <2>3. CASE C.kind = "build"
    <3>1. ASSUME NEW c \in synced PROVE SyncedFor(lock, c, pins)'
      <4>1. SyncedFor(Updated, c, pins) BY <1>1, <2>3, BuildKeepsSynced
      <4> QED BY <1>1, <4>1 DEF SyncedFor, Required
    <3> QED BY <1>9, <1>13, <2>3, <3>1 DEF SyncInv
  <2>4. CASE C.kind = "pin"
    <3>1. ~Overtaken BY <2>4 DEF Overtaken
    <3>2. SyncedFor(Updated, C.config, C.pins) BY <1>1, <2>4, <3>1, SyncMakes
    <3>3. SyncedFor(lock, C.config, C.pins)'
      BY <1>1, <1>8, <3>2 DEF SyncedFor, Required
    <3> QED BY <1>9, <2>4, <3>3 DEF SyncInv
  <2>5. CASE C.kind \in {"sync", "update"}
    <3>1. C.pins = pins BY <1>5, <2>5 DEF LoadedInv
    <3>2. ~At("pins")' BY <1>13, <2>5
    <3>3. CASE synced' = {} BY <3>2, <3>3 DEF SyncInv
    <3>4. CASE synced' = {C.config} /\ ~Overtaken
      <4>1. SyncedFor(Updated, C.config, C.pins) BY <1>1, <2>5, <3>4, SyncMakes
      <4>2. SyncedFor(Updated, C.config, pins) BY <3>1, <4>1
      <4>3. PICK c : c = C.config OBVIOUS
      <4>4. SyncedFor(lock, c, pins)' BY <1>1, <4>2, <4>3 DEF SyncedFor, Required
      <4> QED BY <3>2, <3>4, <4>3, <4>4 DEF SyncInv
    <3> QED BY <1>9, <2>5, <3>3, <3>4
  <2> QED BY <1>4, <2>3, <2>4, <2>5
<1>18. SyncedIsLocked' BY <1>13 DEF SyncedIsLocked
<1> QED BY <1>8, <1>11, <1>12, <1>16, <1>17, <1>18

LEMMA SavePinsStep == LockAssumption /\ IInv /\ SaveProjectPins => IInv'
<1> SUFFICES ASSUME LockAssumption, IInv, SaveProjectPins PROVE IInv'
  OBVIOUS
<1> USE DEF IInv
<1>1. /\ holder # Free /\ Place = "pins" /\ Goto("done")
      /\ pins' = C.pins /\ synced' = {C.config}
      /\ UNCHANGED <<head, script, links, lock, holder, cmd, node, got>>
  BY DEF SaveProjectPins, At, Place, world
<1>2. C \in Asked /\ KindFacts(C) BY <1>1, HolderType DEF KindInv, C
<1>3. LoadedInv /\ VerifiedInv /\ GotInv BY <1>1 DEF HeldInv
<1>4. C.kind = "pin" /\ ~C.locked
  BY <1>1, <1>2, <1>3 DEF LoadedInv, KindFacts, At, Place
<1>5. \A q \in C.needed \ links : ~NotLocked(q) /\ ~Drifted(q) /\ got[q] # Nothing
  BY <1>1, <1>3 DEF VerifiedInv, GotInv, At, Place
<1>6. /\ Kept /\ C' = C /\ Place' = "done"
      /\ pc' \in [Procs -> {"idle", "waiting"} \cup Holding]
      /\ PlaceInv' /\ KindInv'
      /\ GraphInv' /\ NodeInv' /\ NeededInv' /\ VerifiedInv' /\ GotInv'
  BY <1>1, <1>4, <1>5, MoveStep
<1>7. TypeOK'
  <2>1. C.pins \in Pins /\ C.config \subseteq Packages BY <1>2 DEF Asked
  <2> QED BY <1>1, <1>6, <2>1 DEF TypeOK
<1>8. WholeInv' BY <1>1 DEF WholeInv
<1>9. \A x : (At(x)' <=> x = "done") /\ (At(x) <=> x = "pins") BY <1>1, <1>6 DEF At, Place
<1>10. LoadedInv'
  <2>1. Updated' = Updated BY <1>1, <1>6, KeptUpdated
  <2>2. Writing /\ Writing' BY <1>4, <1>6, <1>9 DEF Writing
  <2> QED BY <1>1, <1>3, <1>4, <1>6, <1>9, <2>1, <2>2 DEF LoadedInv
<1>11. HeldInv' BY <1>6, <1>10 DEF HeldInv
<1>12. SyncInv'
  <2>1. SyncedFor(lock, C.config, C.pins) BY <1>9 DEF SyncInv
  <2>2. PICK c : c = C.config OBVIOUS
  <2>3. SyncedFor(lock, c, pins)' BY <1>1, <2>1, <2>2 DEF SyncedFor, Required
  <2> QED BY <1>1, <1>9, <2>2, <2>3 DEF SyncInv
<1>13. SyncedIsLocked' BY <1>9 DEF SyncedIsLocked
<1> QED BY <1>6, <1>7, <1>8, <1>11, <1>12, <1>13

-----------------------------------------------------------------------------
LEMMA InitInv == LockAssumption /\ Init => IInv
<1> SUFFICES ASSUME LockAssumption, Init PROVE IInv
  OBVIOUS
<1> USE DEF Init
<1>1. NoCommand \in Asked /\ NoNode \in Nodes /\ Nothing \in ASources BY NoCommandType
<1>2. NoEntry \in [version : 0..MaxVersion, commit : Commits \cup {NoCommit},
                   wrapper : Heads \cup {NoHead}]
  BY DEF NoEntry, None, LockAssumption
<1>3. TypeOK BY <1>1, <1>2 DEF TypeOK, Entries, Pins
<1>4. PlaceInv BY DEF PlaceInv, LockAssumption, Holding
<1>5. KindInv
  <2>1. KindFacts(NoCommand) BY DEF KindFacts, NoCommand
  <2>2. \A p \in Procs : cmd[p] = NoCommand /\ pc[p] = "idle" OBVIOUS
  <2> QED BY <2>1, <2>2 DEF KindInv
<1>6. WholeInv BY DEF WholeInv, NoEntry, Packages
<1>7. HeldInv BY DEF HeldInv
<1>8. SyncInv BY DEF SyncInv, At
<1>9. SyncedIsLocked BY DEF SyncedIsLocked, At
<1> QED BY <1>3, <1>4, <1>5, <1>6, <1>7, <1>8, <1>9 DEF IInv

LEMMA UnchangedStep == LockAssumption /\ IInv /\ UNCHANGED vars => IInv'
<1> SUFFICES ASSUME LockAssumption, IInv, UNCHANGED vars PROVE IInv'
  OBVIOUS
<1> USE DEF IInv
<1>1. UNCHANGED <<head, script, pins, links, lock, holder, pc, cmd, node, got, synced>>
  BY DEF vars, world, files
<1>2. C' = C /\ Place' = Place /\ \A x : At(x)' <=> At(x) BY <1>1 DEF C, Place, At
<1>3. TypeOK' /\ PlaceInv' /\ KindInv' /\ WholeInv'
  BY <1>1 DEF TypeOK, PlaceInv, KindInv, WholeInv
<1>4. HeldInv'
  <2>1. CASE holder # Free BY <1>1, <1>2, <2>1, StillHeld
  <2>2. CASE holder = Free BY <1>1, <2>2 DEF HeldInv
  <2> QED BY <2>1, <2>2
<1>5. SyncInv' BY <1>1, <1>2, SyncStays
<1>6. SyncedIsLocked' BY <1>1, <1>2, RefusedStays
<1> QED BY <1>3, <1>4, <1>5, <1>6

LEMMA NextStep == LockAssumption /\ IInv /\ Next => IInv'
<1> SUFFICES ASSUME LockAssumption, IInv, Next PROVE IInv'
  OBVIOUS
<1>1. CASE User BY <1>1, UserStep
<1>2. ASSUME NEW p \in Procs, Start(p) PROVE IInv'
  <2>1. Asks(p) \/ Load(p) BY <1>2 DEF Start, Asks
  <2> QED BY <2>1, AskedStep, LoadStep
<1>3. CASE Resolve
  BY <1>3, ResolveLinkStep, ResolveRegistryStep, ResolvePinnedStep, ResolveListedStep, RevisitStep,
     RefuseToResolveStep DEF Resolve
<1>4. CASE Prepare BY <1>4, FilterStep, VerifyStep, DownloadStep DEF Prepare
<1>5. CASE Record
  BY <1>5, FetchedStep, VerifyLockedStep, WriteLockfileStep, SavePinsStep DEF Record
<1>6. CASE End BY <1>6, EndStep
<1> QED BY <1>1, <1>2, <1>3, <1>4, <1>5, <1>6 DEF Next

(* What a command has read stays true while it holds the project lock, and *)
(* what was synced stays synced (loadResolveInputs, ResolveAll,            *)
(* downloadRemoteSources, buildLockfile, SyncOrUpdateDeps).                *)
THEOREM Invariant == ASSUME LockAssumption PROVE Spec => []IInv
<1>1. Init => IInv BY InitInv
<1>2. IInv /\ [Next]_vars => IInv' BY NextStep, UnchangedStep
<1> QED BY <1>1, <1>2, PTL DEF Spec

-----------------------------------------------------------------------------
(* What follows for a command that is done, and for "deps status".         *)
LEMMA HeldFacts ==
  ASSUME LockAssumption, IInv, holder # Free
  PROVE  /\ TypeOK /\ C \in Asked /\ KindFacts(C)
         /\ LoadedInv /\ NodeInv /\ NeededInv /\ VerifiedInv /\ GotInv
<1>1. C \in Asked /\ KindFacts(C) BY HolderType DEF IInv, KindInv, C
<1> QED BY <1>1 DEF IInv, HeldInv

LEMMA ExactWhenDone == LockAssumption /\ IInv => LockedIsExact
<1> SUFFICES ASSUME LockAssumption, IInv, At("done"), C.locked
             PROVE  /\ lock = C.lock
                    /\ \A q \in C.needed \ links :
                         /\ got[q].commit = lock[q].commit
                         /\ \/ got[q].version = lock[q].version
                            \/ C.kind = "fetch" /\ C.pins[q] = lock[q].commit
  BY DEF LockedIsExact
<1>1. holder # Free /\ ~At("pins") BY DEF At
<1>2. /\ C \in Asked /\ KindFacts(C)
      /\ LoadedInv /\ NodeInv /\ NeededInv /\ VerifiedInv /\ GotInv
  BY <1>1, HeldFacts
<1>3. lock = C.lock BY <1>1, <1>2 DEF LoadedInv, Writing
<1>4. C.kind = "fetch" \/ (C.kind = "build" /\ C.lock = Updated)
  BY <1>2 DEF KindFacts, GotInv
<1>5. ASSUME NEW q \in C.needed \ links
      PROVE  /\ got[q].commit = lock[q].commit
             /\ \/ got[q].version = lock[q].version
                \/ C.kind = "fetch" /\ C.pins[q] = lock[q].commit
  <2>1. q \in InGraph \ links /\ q \in Packages
    BY <1>1, <1>2 DEF NeededInv, InGraph, At
  <2>2. C.lock[q].commit # NoCommit /\ ~PinDiffers(q)
    BY <1>2 DEF VerifiedInv, NotLocked
  <2>3. C.lock[q].commit \in Commits BY <1>2, <2>1, <2>2 DEF LoadedInv, NoEntry
  <2>4. ~Ignored(q) BY <1>2, <2>1 DEF KindFacts, Ignored, NoTargets
  <2>5. /\ Expected(q) = C.lock[q].commit
        /\ Version(q) = C.lock[q].version \/ C.pins[q] = C.lock[q].commit
    BY <1>2, <2>1, <2>2, <2>3, <2>4, ExpectedIsLocked
  <2>6. /\ got[q] # Nothing /\ got[q].version = Version(q)
        /\ Expected(q) # NoCommit => got[q].commit = Expected(q)
    BY <1>2, <2>1 DEF GotInv
  <2>7. got[q].commit = lock[q].commit BY <1>3, <2>2, <2>5, <2>6
  <2>8. CASE C.kind = "fetch" BY <1>3, <2>5, <2>6, <2>7, <2>8
  <2>9. CASE C.kind = "build" /\ C.lock = Updated
    <3>1. Entry(q).version = got[q].version
      <4>1. q \notin links /\ q \in Packages /\ node[q].in BY <2>1 DEF InGraph
      <4>2. Entry(q) = [version |-> got[q].version, commit |-> got[q].commit,
                        wrapper |-> IF q \in Registry THEN head ELSE NoHead]
        BY <2>6, <4>1, EntryCases
      <4> QED BY <4>2
    <3>2. C.lock[q] = Entry(q) BY <2>1, <2>9 DEF Updated
    <3> QED BY <1>3, <2>7, <3>1, <3>2
  <2> QED BY <1>4, <2>8, <2>9
<1> QED BY <1>3, <1>5

LEMMA StayWhenDone == LockAssumption /\ IInv => EntriesStay
<1> SUFFICES ASSUME LockAssumption, IInv, At("done"), NEW q \in Packages, C.lock[q] # NoEntry
             PROVE  IF q \in links THEN lock[q] = C.lock[q]
                    ELSE \/ C.all \/ q \in Requested \/ PinDiffers(q) \/ ~node[q].in
                         \/ lock[q].commit = C.lock[q].commit
  BY DEF EntriesStay
<1>1. holder # Free /\ ~At("pins") /\ Place = "done" BY DEF At, Place
<1>2. C \in Asked /\ LoadedInv /\ NodeInv /\ GotInv BY <1>1, HeldFacts
<1>3. CASE C.locked
  <2>1. lock = C.lock BY <1>1, <1>2, <1>3 DEF LoadedInv, Writing
  <2> QED BY <2>1
<1>4. CASE ~C.locked
  <2>1. lock[q] = Entry(q) BY <1>2, <1>4 DEF LoadedInv, Writing, Updated
  <2>2. CASE q \in links BY <2>1, <2>2, EntryCases
  <2>3. ASSUME q \notin links, ~C.all, q \notin Requested, ~PinDiffers(q), node[q].in
        PROVE  lock[q].commit = C.lock[q].commit
    <3>1. ~Ignored(q) BY <2>3 DEF Ignored, Requested
    <3>2. Locked(q) = C.lock[q] BY <3>1 DEF Locked
    <3>3. CASE got[q] = Nothing BY <2>1, <2>3, <3>2, <3>3, EntryCases
    <3>4. CASE got[q] # Nothing
      <4>1. q \in InGraph \ links BY <2>3 DEF InGraph
      <4>2. C.lock[q].commit \in Commits BY <1>2 DEF LoadedInv
      <4>3. Expected(q) = C.lock[q].commit /\ Expected(q) # NoCommit
        BY <1>2, <2>3, <3>1, <4>1, <4>2, ExpectedIsLocked DEF LockAssumption
      <4>4. got[q].commit = Expected(q) BY <1>2, <3>4, <4>3 DEF GotInv
      <4>5. Entry(q) = [version |-> got[q].version, commit |-> got[q].commit,
                        wrapper |-> IF q \in Registry THEN head ELSE NoHead]
        BY <2>3, <3>4, EntryCases
      <4> QED BY <2>1, <4>3, <4>4, <4>5
    <3> QED BY <3>3, <3>4
  <2> QED BY <2>2, <2>3
<1> QED BY <1>3, <1>4

LEMMA AllowedWhenDone == LockAssumption /\ IInv => SelectionIsAllowed
<1> SUFFICES ASSUME LockAssumption, IInv, At("done"), NEW q \in C.needed \ links
             PROVE  /\ got[q].version # None => got[q].version \in node[q].allows
                    /\ Target(q) # None => Target(q) \in {got[q].version, got[q].commit}
  BY DEF SelectionIsAllowed
<1>1. holder # Free /\ ~At("resolve") /\ ~At("refused") BY DEF At
<1>2. TypeOK /\ C \in Asked /\ NodeInv /\ NeededInv /\ GotInv BY <1>1, HeldFacts
<1>3. q \in InGraph \ links /\ q \in Packages BY <1>1, <1>2 DEF NeededInv, InGraph
<1>4. /\ got[q].version = Version(q)
      /\ Expected(q) # NoCommit => got[q].commit = Expected(q)
  BY <1>2, <1>3 DEF GotInv
<1>5. got[q].version # None => got[q].version \in node[q].allows
  BY <1>2, <1>3, <1>4, VersionIsAllowed
<1>6. ASSUME Target(q) # None PROVE Target(q) \in {got[q].version, got[q].commit}
  <2>1. CASE Target(q) \in Commits
    <3>1. Expected(q) = Target(q) BY <1>2, <1>3, <1>6, <2>1, TargetIsMade
    <3>2. Expected(q) # NoCommit BY <2>1, <3>1 DEF LockAssumption
    <3> QED BY <1>4, <3>1, <3>2
  <2>2. CASE Target(q) \notin Commits
    <3>1. Version(q) = Target(q) BY <1>2, <1>3, <1>6, <2>2, TargetIsMade
    <3> QED BY <1>4, <3>1
  <2> QED BY <2>1, <2>2
<1> QED BY <1>5, <1>6

LEMMA StatusCases ==
  ASSUME NEW q
  PROVE  /\ q \in links => StatusOf(q) = "linked"
         /\ q \notin links /\ C.lock[q] = NoEntry => StatusOf(q) = "unlocked"
         /\ q \notin links /\ C.lock[q] # NoEntry /\ PinDiffers(q) => StatusOf(q) = "pin_mismatch"
         /\ q \notin links /\ C.lock[q] # NoEntry /\ ~PinDiffers(q) =>
              StatusOf(q) =
                IF q \in Registry /\ C.lock[q].wrapper \notin {NoHead, head} THEN "wrapper_outdated"
                ELSE IF ~Materialized(q) THEN "missing"
                ELSE IF C.pins[q] # None THEN "pinned" ELSE "locked"
<1> DEFINE differs == PinDiffers(q)
           there == Materialized(q)
           none == C.lock[q] = NoEntry
<1>1. StatusOf(q) =
        CASE q \in links -> "linked"
          [] q \notin links /\ none -> "unlocked"
          [] q \notin links /\ ~none /\ differs -> "pin_mismatch"
          [] OTHER -> IF q \in Registry /\ C.lock[q].wrapper \notin {NoHead, head}
                      THEN "wrapper_outdated"
                      ELSE IF ~there THEN "missing"
                      ELSE IF C.pins[q] # None THEN "pinned" ELSE "locked"
  BY DEF StatusOf
<1>2. differs \in BOOLEAN /\ there \in BOOLEAN /\ none \in BOOLEAN
  BY DEF PinDiffers, Materialized
<1> HIDE DEF differs, there, none
<1>3. /\ q \in links => StatusOf(q) = "linked"
      /\ q \notin links /\ none => StatusOf(q) = "unlocked"
      /\ q \notin links /\ ~none /\ differs => StatusOf(q) = "pin_mismatch"
      /\ q \notin links /\ ~none /\ ~differs =>
           StatusOf(q) =
             IF q \in Registry /\ C.lock[q].wrapper \notin {NoHead, head} THEN "wrapper_outdated"
             ELSE IF ~there THEN "missing"
             ELSE IF C.pins[q] # None THEN "pinned" ELSE "locked"
  BY <1>1, <1>2
<1> QED BY <1>3 DEF differs, there, none

LEMMA StatusWhenHeld == LockAssumption /\ IInv => StatusIsTrue
<1>1. ASSUME LockAssumption, IInv, At("verify"), C.locked
      PROVE  (\E q \in C.needed \ links : NotLocked(q) \/ Drifted(q)) <=>
             (\E q \in C.needed : StatusOf(q) \in {"unlocked", "pin_mismatch", "wrapper_outdated"})
  <2>1. holder # Free BY <1>1 DEF At
  <2>2. C \in Asked /\ LoadedInv BY <1>1, <2>1, HeldFacts
  <2>3. ASSUME NEW q \in C.needed \ links
        PROVE  NotLocked(q) \/ Drifted(q) <=>
               StatusOf(q) \in {"unlocked", "pin_mismatch", "wrapper_outdated"}
    <3>1. C.lock[q].commit = NoCommit <=> C.lock[q] = NoEntry
      BY <1>1, <2>2 DEF LoadedInv, NoEntry, LockAssumption, Asked
    <3>2. NotLocked(q) <=> C.lock[q] = NoEntry \/ PinDiffers(q) BY <1>1, <3>1 DEF NotLocked
    <3>3. Drifted(q) <=> q \in Registry /\ C.lock[q].wrapper \notin {NoHead, head}
      BY <1>1 DEF Drifted
    <3>4. CASE C.lock[q] = NoEntry BY <3>2, <3>4, StatusCases
    <3>5. CASE C.lock[q] # NoEntry /\ PinDiffers(q) BY <3>2, <3>5, StatusCases
    <3>6. CASE C.lock[q] # NoEntry /\ ~PinDiffers(q)
      <4>1. StatusOf(q) = IF Drifted(q) THEN "wrapper_outdated"
                          ELSE IF ~Materialized(q) THEN "missing"
                          ELSE IF C.pins[q] # None THEN "pinned" ELSE "locked"
        BY <3>3, <3>6, StatusCases
      <4>2. CASE Drifted(q) BY <4>1, <4>2
      <4>3. CASE ~Drifted(q) BY <3>2, <3>6, <4>1, <4>3
      <4> QED BY <4>2, <4>3
    <3> QED BY <3>4, <3>5, <3>6
  <2>4. \A q \in C.needed \cap links : StatusOf(q) = "linked" BY StatusCases
  <2> QED BY <2>3, <2>4
<1>2. ASSUME LockAssumption, IInv, At("download"), C.kind \in {"build", "fetch", "sync"},
             NEW q \in C.needed, StatusOf(q) \in {"locked", "pinned"}
      PROVE  Expected(q) = tree[q].commit
  <2>1. holder # Free /\ ~At("resolve") /\ ~At("refused") BY <1>2 DEF At
  <2>2. C \in Asked /\ KindFacts(C) /\ LoadedInv /\ NodeInv /\ NeededInv
    BY <1>2, <2>1, HeldFacts
  <2>3. /\ q \notin links /\ C.lock[q] # NoEntry /\ ~PinDiffers(q)
    BY <1>2, StatusCases
  <2>4. Materialized(q) BY <1>2, <2>3, StatusCases
  <2>5. q \in InGraph \ links /\ q \in Packages BY <2>1, <2>2, <2>3 DEF NeededInv, InGraph
  <2>6. C.lock[q].commit \in Commits BY <2>2, <2>3, <2>5 DEF LoadedInv
  <2>7. ~Ignored(q) BY <1>2, <2>2, <2>5 DEF KindFacts, Ignored, NoTargets
  <2>8. Expected(q) = C.lock[q].commit
    BY <1>2, <2>2, <2>3, <2>5, <2>6, <2>7, ExpectedIsLocked
  <2>9. C.pins[q] \in Commits => C.pins[q] = C.lock[q].commit
    BY <1>2, <2>3 DEF PinDiffers, LockAssumption, None
  <2>10. tree[q].commit = C.lock[q].commit BY <2>3, <2>4, <2>9 DEF Materialized
  <2> QED BY <2>8, <2>10
<1> QED BY <1>1, <1>2 DEF StatusIsTrue

(* What --locked builds is what the lock file names, after "deps sync" it  *)
(* is not refused, an entry changes by commands about its package only,    *)
(* "deps status" tells what a build then does, and what is built is what   *)
(* all requirements and the pin allow: for any processes, packages,        *)
(* scripts, configurations and registry, while tags move and commands end  *)
(* anywhere.                                                               *)
THEOREM LockHolds == ASSUME LockAssumption PROVE Spec => []LockIsKept
<1>1. IInv => LockIsKept
  BY ExactWhenDone, StayWhenDone, StatusWhenHeld, AllowedWhenDone DEF LockIsKept, IInv
<1> QED BY <1>1, Invariant, PTL

-----------------------------------------------------------------------------
(* The configuration editor *)

GlobalValues == [Globals -> Values]
KConfigs == [preset : {Unset} \cup Presets, edits : {0, 1}]
Configurations ==
  [global : GlobalValues, opt : {0, 1}, entry : BOOLEAN, preset : {Unset} \cup Presets, kconfig : KConfigs]
Editors ==
  [pc : {"main", "ensure", "menuconfig", "confirm"}, values : GlobalValues, orig : GlobalValues,
   derived : SUBSET Derivable, origDerived : SUBSET Derivable, opt : {0, 1},
   preset : {Unset} \cup Presets, ran : BOOLEAN, changed : BOOLEAN, wants : [Derivable -> Values]]
EditorTypeOK ==
  /\ file \in Configurations /\ dotConfig \in KConfigs
  /\ ed = Closed \/ ed \in Editors
  /\ intended = NoSave \/ intended \in [Derivable -> Values]

(* What the editor would save of an option that can be derived.            *)
SavedOf(e, n) == IF n \in e.derived THEN Unset ELSE e.values[n]

(* The editor knows what the user wants, what it started from, and whether *)
(* anything that it shows differs from that.                               *)
WantsAreKept(e) == \A n \in Derivable : e.wants[n] = SavedOf(e, n)
StartIsKept(e) ==
  /\ \A n \in Derivable : n \in e.origDerived <=> file.global[n] = Unset
  /\ \A n \in Derivable \ e.origDerived : e.orig[n] = file.global[n]
ChangesAreSeen(e) == (~e.changed => ~CheckChanges(e)) /\ (e.pc = "confirm" => e.changed)

EditorInvariant ==
  /\ EditorTypeOK
  /\ ed # Closed => WantsAreKept(ed) /\ StartIsKept(ed) /\ ChangesAreSeen(ed)
  /\ \A n \in DOMAIN intended : file.global[n] = intended[n]

LEMMA NotClosed == \A e \in Editors : e # Closed
BY DEF Editors, Closed

LEMMA ValuesOfOptions ==
  /\ Unset \in Values /\ Globals = {"chip"} \cup Derivable
  /\ \A n \in Globals : ValuesOf(n) \subseteq Values
  /\ \A chip : ProfileOf(chip).toolchain \in Values /\ ProfileOf(chip).target \in Values
  /\ \A a, b \in Values : Or(a, b) \in Values
BY EditorAssumption DEF Values, Globals, Derivable, ValuesOf, ProfileOf, NoProfile, Or

LEMMA PreferredType == \A values : PreferredForDisplay(values) \in Values
<1> SUFFICES ASSUME NEW values PROVE PreferredForDisplay(values) \in Values
  OBVIOUS
<1> DEFINE profiles == {Profile[c] : c \in Chips}
<1>1. \A p \in profiles : p.toolchain \in Values
  BY EditorAssumption DEF Values
<1>2. ASSUME Cardinality(profiles) = 1 PROVE (CHOOSE p \in profiles : TRUE) \in profiles
  <2>1. profiles # {}
    BY <1>2, FS_EmptySet
  <2> QED
    BY <2>1
<1>3. DisplayChip(values) \in Chips => Profile[DisplayChip(values)].toolchain \in Values
  BY EditorAssumption DEF Values
<1> QED
  BY <1>1, <1>2, <1>3, ValuesOfOptions DEF PreferredForDisplay

-----------------------------------------------------------------------------
(* An edit: what it does to the values, and what is derived then           *)

(* e becomes f with only n, and what is derived, changed.                  *)
Moves(e, f, n, derived) ==
  /\ f \in Editors /\ f.derived = derived
  /\ f.pc = e.pc /\ f.orig = e.orig /\ f.origDerived = e.origDerived /\ f.wants = e.wants
  /\ f.changed = e.changed
  /\ \A m \in Derivable \ (derived \cup {n}) : f.values[m] = e.values[m]

LEMMA ChangedValues ==
  ASSUME NEW e \in Editors, NEW values \in GlobalValues, NEW derived \in SUBSET Derivable, NEW n,
         \A m \in Derivable \ (derived \cup {n}) : values[m] = e.values[m]
  PROVE  Moves(e, [e EXCEPT !.values = values, !.derived = derived], n, derived)
BY DEF Editors, Moves

LEMMA ProfileApplied ==
  ASSUME NEW e \in Editors, NEW chip
  PROVE  Moves(e, ApplyChipProfile(e, chip), "chip", e.derived)
<1> DEFINE f == ApplyChipProfile(e, chip)
<1>1. f.values \in GlobalValues /\ \A m \in Derivable \ e.derived : f.values[m] = e.values[m]
  BY ValuesOfOptions DEF ApplyChipProfile, Editors, GlobalValues, Derivable, Globals
<1>2. f = [e EXCEPT !.values = f.values, !.derived = e.derived]
  BY DEF ApplyChipProfile, Editors
<1>3. e.derived \in SUBSET Derivable
  BY DEF Editors
<1>4. Moves(e, [e EXCEPT !.values = f.values, !.derived = e.derived], "chip", e.derived)
  <2> HIDE DEF f
  <2> QED
    BY <1>1, <1>3, ChangedValues
<1> QED
  BY <1>2, <1>4

LEMMA ValueSet ==
  ASSUME NEW e \in Editors, NEW n \in Globals, NEW v \in Values
  PROVE  /\ Moves(e, SetGlobal(e, n, v), n, e.derived \ {n})
         /\ n \in Derivable => SetGlobal(e, n, v).values[n] = v
<1> DEFINE set == [e EXCEPT !.values[n] = v, !.derived = @ \ {n}]
<1> DEFINE values == [e.values EXCEPT ![n] = v]
<1>0. /\ values \in GlobalValues /\ e.derived \ {n} \in SUBSET Derivable
      /\ values[n] = v /\ \A m \in Derivable \ {n} : values[m] = e.values[m]
      /\ set = [e EXCEPT !.values = values, !.derived = e.derived \ {n}]
  BY DEF Editors, GlobalValues
<1>1. Moves(e, set, n, e.derived \ {n}) /\ set.values[n] = v
  <2>1. Moves(e, [e EXCEPT !.values = values, !.derived = e.derived \ {n}], n, e.derived \ {n})
    <3> HIDE DEF values
    <3> QED
      BY <1>0, ChangedValues
  <2>2. set.values = values
    BY DEF Editors
  <2> QED
    BY <1>0, <2>1, <2>2
<1>2. CASE n # "chip"
  BY <1>1, <1>2 DEF SetGlobal
<1>3. CASE n = "chip"
  <2>1. Moves(set, ApplyChipProfile(set, v), "chip", set.derived)
    BY <1>1, ProfileApplied DEF Moves
  <2> HIDE DEF set
  <2>2. SetGlobal(e, n, v) = ApplyChipProfile(set, v)
    BY <1>3 DEF SetGlobal, set
  <2> QED
    BY <1>1, <1>3, <2>1, <2>2 DEF Moves, Derivable
<1> QED
  BY <1>2, <1>3

LEMMA ValueCleared ==
  ASSUME NEW e \in Editors, NEW n \in Globals
  PROVE  Moves(e, ClearGlobalValue(e, n), n, e.derived \cup ({n} \cap Derivable))
<1> DEFINE cleared == [e EXCEPT !.values[n] = Unset]
<1>1. Moves(e, cleared, n, e.derived)
  BY ValuesOfOptions DEF Editors, GlobalValues, Moves
<1>2. CASE n = "chip"
  <2>1. Moves(cleared, ApplyChipProfile(cleared, DisplayChip(cleared.values)), "chip", cleared.derived)
    BY <1>1, ProfileApplied DEF Moves
  <2> HIDE DEF cleared
  <2>2. ClearGlobalValue(e, n) = ApplyChipProfile(cleared, DisplayChip(cleared.values))
    BY <1>2 DEF ClearGlobalValue, cleared
  <2> QED
    BY <1>1, <1>2, <2>1, <2>2 DEF Moves, Derivable
<1>3. CASE n = "toolchain"
  BY <1>3, ValuesOfOptions DEF ClearGlobalValue, Editors, GlobalValues, Moves, Derivable
<1>4. CASE n = "target"
  BY <1>4, ValuesOfOptions DEF ClearGlobalValue, Editors, GlobalValues, Moves, Derivable
<1> QED
  BY <1>2, <1>3, <1>4 DEF Globals

LEMMA EditedKeeps ==
  ASSUME EditorInvariant, NEW e \in Editors, e.pc = "main", WantsAreKept(e), StartIsKept(e), Edited(e)
  PROVE  EditorInvariant' /\ ed' # Closed
<1>1. Recounted(e).changed = CheckChanges(e) /\ Recounted(e) \in Editors
  <2>1. CheckChanges(e) \in BOOLEAN
    BY DEF CheckChanges
  <2> HIDE DEF CheckChanges
  <2> QED
    BY <2>1 DEF Recounted, Editors
<1>2. ed' = Recounted(e) /\ file' = file /\ dotConfig' = dotConfig /\ intended' = intended
  BY DEF Edited
<1>3. /\ \A x \in {"pc", "values", "orig", "derived", "origDerived", "opt", "preset", "wants"} :
           Recounted(e)[x] = e[x]
      /\ Recounted(e).changed = CheckChanges(e)
  BY <1>1 DEF Recounted, Editors
<1>4. WantsAreKept(ed)' /\ StartIsKept(ed)'
  BY <1>2, <1>3 DEF WantsAreKept, StartIsKept, SavedOf
<1>5. ChangesAreSeen(ed)'
  BY <1>2, <1>3 DEF ChangesAreSeen, CheckChanges
<1> QED
  BY <1>1, <1>2, <1>4, <1>5, NotClosed DEF EditorInvariant, EditorTypeOK

(* An edit of one option: what is wanted of it is what would be saved.     *)
LEMMA OptionEdited ==
  ASSUME EditorInvariant, InMain, NEW f, NEW n \in Globals, NEW derived, Moves(ed, f, n, derived),
         derived \ {n} = ed.derived \ {n},
         NEW v \in Values, n \in Derivable => v = SavedOf(f, n), Edited(Wants(f, n, v))
  PROVE  EditorInvariant' /\ ed' # Closed
<1> DEFINE e == Wants(f, n, v)
<1>0. ed \in Editors /\ ed.pc = "main" /\ WantsAreKept(ed) /\ StartIsKept(ed) /\ f \in Editors
  BY NotClosed DEF EditorInvariant, EditorTypeOK, InMain, Closed, Moves
<1>1. e.wants \in [Derivable -> Values] /\ e = [f EXCEPT !.wants = e.wants]
  BY <1>0 DEF Wants, Editors
<1>2. e \in Editors /\ \A x \in {"pc", "values", "orig", "derived", "origDerived"} : e[x] = f[x]
  <2> HIDE DEF e
  <2> QED
    BY <1>0, <1>1 DEF Editors
<1>3. \A m \in Derivable : e.wants[m] = IF m = n THEN v ELSE ed.wants[m]
  BY <1>0 DEF Wants, Editors, Moves
<1> HIDE DEF e
<1>4. WantsAreKept(e)
  BY <1>0, <1>2, <1>3 DEF WantsAreKept, SavedOf, Moves
<1>5. StartIsKept(e) /\ e.pc = "main"
  BY <1>0, <1>2 DEF StartIsKept, Moves
<1> QED
  BY <1>2, <1>4, <1>5, EditedKeeps DEF e

LEMMA SetKeeps ==
  ASSUME EditorInvariant, InMain, NEW n \in Globals, NEW v \in Values, Edited(Wants(SetGlobal(ed, n, v), n, v))
  PROVE  EditorInvariant' /\ ed' # Closed
<1>1. ed \in Editors
  BY DEF EditorInvariant, EditorTypeOK, InMain, Closed
<1>2. n \in Derivable => v = SavedOf(SetGlobal(ed, n, v), n)
  BY <1>1, ValueSet DEF SavedOf, Moves
<1> QED
  BY <1>1, <1>2, ValueSet, OptionEdited

LEMMA ClearKeeps ==
  ASSUME EditorInvariant, InMain, NEW n \in Globals, NEW v \in Values, n \in Derivable => v = Unset,
         Edited(Wants(ClearGlobalValue(ed, n), n, v))
  PROVE  EditorInvariant' /\ ed' # Closed
<1>1. ed \in Editors
  BY DEF EditorInvariant, EditorTypeOK, InMain, Closed
<1>2. n \in Derivable => v = SavedOf(ClearGlobalValue(ed, n), n)
  BY <1>1, ValueCleared DEF SavedOf, Moves
<1> QED
  BY <1>1, <1>2, ValueCleared, OptionEdited

LEMMA ResetKeeps == EditorInvariant /\ ResetToOpened => EditorInvariant' /\ ed' # Closed
<1> SUFFICES ASSUME EditorInvariant, ResetToOpened PROVE EditorInvariant' /\ ed' # Closed
  OBVIOUS
<1>1. PICK n \in Globals :
        Edited(Wants(
          IF (n \in Derivable /\ n \in ed.origDerived) \/ ed.orig[n] = Unset
          THEN ClearGlobalValue(ed, n) ELSE SetGlobal(ed, n, ed.orig[n]), n, file.global[n]))
  BY DEF ResetToOpened
<1>2. InMain /\ ed \in Editors /\ StartIsKept(ed) /\ file.global[n] \in Values /\ ed.orig[n] \in Values
  BY NotClosed DEF ResetToOpened, EditorInvariant, EditorTypeOK, InMain, Closed, Editors, Configurations, GlobalValues
<1>3. CASE (n \in Derivable /\ n \in ed.origDerived) \/ ed.orig[n] = Unset
  <2>1. n \in Derivable => file.global[n] = Unset
    BY <1>2, <1>3 DEF StartIsKept
  <2> QED
    BY <1>1, <1>2, <1>3, <2>1, ClearKeeps
<1>4. CASE ~((n \in Derivable /\ n \in ed.origDerived) \/ ed.orig[n] = Unset)
  <2>1. Edited(Wants(SetGlobal(ed, n, ed.orig[n]), n, file.global[n]))
    BY <1>1, <1>4
  <2>2. n \in Derivable => file.global[n] = SavedOf(SetGlobal(ed, n, ed.orig[n]), n)
    BY <1>2, <1>4, ValueSet DEF SavedOf, Moves, StartIsKept
  <2> QED
    BY <1>2, <2>1, <2>2, ValueSet, OptionEdited
<1> QED
  BY <1>3, <1>4

LEMMA DefaultType == \A e \in Editors, n \in Globals : DeclaredDefault(e, n) \in Values
BY ValuesOfOptions, EditorAssumption DEF DeclaredDefault, TargetsApply, Values

LEMMA DefaultKeeps == EditorInvariant /\ ResetOptionToDefault => EditorInvariant' /\ ed' # Closed
<1> SUFFICES ASSUME EditorInvariant, ResetOptionToDefault PROVE EditorInvariant' /\ ed' # Closed
  OBVIOUS
<1> DEFINE default(n) == DeclaredDefault(ed, n)
           set(n) == SetGlobal(ed, n, default(n))
           out(n) == [set(n) EXCEPT !.derived = IF n \in Derivable THEN @ \cup {n} ELSE @]
<1>1. PICK n \in Globals :
        Edited(Wants(IF default(n) = Unset THEN ClearGlobalValue(ed, n) ELSE out(n), n, Unset))
  BY DEF ResetOptionToDefault
<1>2. InMain /\ ed \in Editors /\ default(n) \in Values /\ Unset \in Values
  BY DefaultType, ValuesOfOptions DEF ResetOptionToDefault, EditorInvariant, EditorTypeOK, InMain, Closed
<1>3. CASE default(n) = Unset
  BY <1>1, <1>2, <1>3, ClearKeeps
<1>4. CASE default(n) # Unset
  <2> DEFINE D == IF n \in Derivable THEN (ed.derived \ {n}) \cup {n} ELSE ed.derived \ {n}
  <2>1. Moves(ed, set(n), n, ed.derived \ {n})
    BY <1>2, ValueSet
  <2> HIDE DEF set
  <2>2. Moves(ed, out(n), n, D)
    BY <1>2, <2>1 DEF Moves, Editors
  <2>3. n \in Derivable => Unset = SavedOf(out(n), n)
    BY <2>2 DEF Moves, SavedOf
  <2> HIDE DEF out
  <2>4. Edited(Wants(out(n), n, Unset))
    BY <1>1, <1>4
  <2> QED
    BY <1>2, <2>2, <2>3, <2>4, OptionEdited
<1> QED
  BY <1>3, <1>4

LEMMA OpenKeeps == EditorInvariant /\ Open => EditorInvariant'
<1> SUFFICES ASSUME EditorInvariant, Open PROVE EditorInvariant'
  OBVIOUS
<1> DEFINE derived == {n \in Derivable : file.global[n] = Unset}
<1>1. file \in Configurations /\ file.global \in GlobalValues
  BY DEF EditorInvariant, EditorTypeOK, Configurations
<1>2. /\ Opened.values \in GlobalValues /\ Opened.derived = derived
      /\ \A n \in Derivable \ derived : Opened.values[n] = file.global[n]
  <2>1. "host" \in Values /\ PreferredForDisplay(file.global) \in Values /\ \A n \in Globals : Declared[n] \in Values
    BY PreferredType, EditorAssumption DEF Values
  <2> QED
    BY <1>1, <2>1, ValuesOfOptions DEF Opened, GlobalValues, Or, Globals, Derivable
<1>3. /\ Opened = [pc |-> "main", values |-> Opened.values, orig |-> Opened.values, derived |-> Opened.derived,
                   origDerived |-> Opened.derived, opt |-> file.opt, preset |-> Unset, ran |-> FALSE,
                   changed |-> FALSE, wants |-> [n \in Derivable |-> file.global[n]]]
  BY DEF Opened
<1>4. [n \in Derivable |-> file.global[n]] \in [Derivable -> Values]
  BY <1>1 DEF GlobalValues, Derivable, Globals
<1> HIDE DEF derived
<1>5. Opened \in Editors
  <2>1. \A v \in GlobalValues, d \in SUBSET Derivable, w \in [Derivable -> Values], o \in {0, 1} :
          [pc |-> "main", values |-> v, orig |-> v, derived |-> d, origDerived |-> d, opt |-> o,
           preset |-> Unset, ran |-> FALSE, changed |-> FALSE, wants |-> w] \in Editors
    BY DEF Editors
  <2>2. derived \in SUBSET Derivable /\ file.opt \in {0, 1}
    BY <1>1 DEF Configurations, derived
  <2> QED
    BY <1>2, <1>3, <1>4, <2>1, <2>2
<1>6. /\ Opened.orig = Opened.values /\ Opened.origDerived = derived /\ Opened.opt = file.opt /\ Opened.preset = Unset
      /\ Opened.pc = "main" /\ \A n \in Derivable : Opened.wants[n] = file.global[n]
  BY <1>2, <1>3
<1>7. WantsAreKept(Opened) /\ StartIsKept(Opened) /\ ChangesAreSeen(Opened)
  BY <1>2, <1>6 DEF WantsAreKept, StartIsKept, ChangesAreSeen, CheckChanges, SavedOf, derived
<1>8. ed' = Opened /\ file' = file /\ dotConfig' = dotConfig /\ intended' = NoSave
  BY DEF Open
<1>9. StartIsKept(ed)' /\ ChangesAreSeen(ed)'
  BY <1>7, <1>8 DEF StartIsKept, ChangesAreSeen, CheckChanges
<1> QED
  BY <1>5, <1>7, <1>8, <1>9 DEF EditorInvariant, EditorTypeOK, NoSave, WantsAreKept, SavedOf

LEMMA SaveKeeps ==
  ASSUME EditorInvariant, ed # Closed, Save
  PROVE  EditorInvariant'
<1>1. ed \in Editors /\ file \in Configurations /\ dotConfig \in KConfigs /\ WantsAreKept(ed)
  BY DEF EditorInvariant, EditorTypeOK
<1>2. Saved.global \in GlobalValues /\ \A n \in Derivable : Saved.global[n] = SavedOf(ed, n)
  BY <1>1, ValuesOfOptions DEF Saved, SavedOf, Editors, Configurations, GlobalValues, Or, Globals, Derivable
<1>3. Saved.kconfig \in KConfigs
  BY <1>1 DEF Saved, Configurations, KConfigs, NoKConfig
<1>4. Saved = [global |-> Saved.global, opt |-> ed.opt, entry |-> TRUE, preset |-> Or(ed.preset, file.preset),
               kconfig |-> Saved.kconfig]
  BY DEF Saved
<1>5. Saved \in Configurations
  <2>1. ed.opt \in {0, 1} /\ Or(ed.preset, file.preset) \in {Unset} \cup Presets
    BY <1>1 DEF Configurations, Editors, Or
  <2>2. \A g \in GlobalValues, o \in {0, 1}, p \in {Unset} \cup Presets, k \in KConfigs :
          [global |-> g, opt |-> o, entry |-> TRUE, preset |-> p, kconfig |-> k] \in Configurations
    BY DEF Configurations
  <2> QED
    BY <1>2, <1>3, <1>4, <2>1, <2>2
<1>6. file' = Saved /\ ed' = Closed /\ intended' = ed.wants /\ dotConfig' = dotConfig
  BY DEF Save
<1>7. ed.wants \in [Derivable -> Values] /\ \A n \in Derivable : Saved.global[n] = ed.wants[n]
  BY <1>1, <1>2 DEF WantsAreKept, Editors
<1> QED
  BY <1>1, <1>5, <1>6, <1>7 DEF EditorInvariant, EditorTypeOK

(* Steps that leave the editor but for its place and what it remembers of  *)
(* menuconfig.                                                             *)
LEMMA PlaceKeeps ==
  ASSUME EditorInvariant, ed # Closed, NEW f \in Editors, ed' = f, dotConfig' \in KConfigs,
         f.values = ed.values, f.orig = ed.orig, f.derived = ed.derived, f.origDerived = ed.origDerived,
         f.opt = ed.opt, f.preset = ed.preset, f.wants = ed.wants,
         f.changed \/ f.changed = ed.changed, f.pc = "confirm" => f.changed,
         UNCHANGED <<file, intended>>
  PROVE  EditorInvariant' /\ ed' # Closed
<1>1. WantsAreKept(ed)' /\ StartIsKept(ed)' /\ ChangesAreSeen(ed)'
  BY DEF EditorInvariant, WantsAreKept, StartIsKept, ChangesAreSeen, CheckChanges, SavedOf
<1> QED
  BY <1>1, NotClosed DEF EditorInvariant, EditorTypeOK

LEMMA MenuconfigKeeps == EditorInvariant /\ (StartMenuconfig \/ EnsureConfig \/ RunMenuconfig) => EditorInvariant' /\ ed' # Closed
<1> SUFFICES ASSUME EditorInvariant, StartMenuconfig \/ EnsureConfig \/ RunMenuconfig PROVE EditorInvariant' /\ ed' # Closed
  OBVIOUS
<1>1. ed \in Editors /\ ed # Closed /\ dotConfig \in KConfigs /\ file.preset \in {Unset} \cup Presets
  <2>1. ed.pc # "closed"
    BY DEF StartMenuconfig, EnsureConfig, RunMenuconfig, InMain
  <2> QED
    BY <2>1 DEF EditorInvariant, EditorTypeOK, Closed, Configurations
<1>2. Generated(Or(file.preset, DefaultPreset)) \in KConfigs /\ NoKConfig \in KConfigs
  BY <1>1, EditorAssumption DEF Generated, KConfigs, NoKConfig, Or
<1>3. CASE StartMenuconfig
  BY <1>1, <1>3, PlaceKeeps DEF StartMenuconfig, Editors
<1>4. CASE EnsureConfig
  <2>1. dotConfig' \in KConfigs
    BY <1>1, <1>2, <1>4 DEF EnsureConfig
  <2> QED
    BY <1>1, <1>4, <2>1, PlaceKeeps DEF EnsureConfig, Editors
<1>5. CASE RunMenuconfig
  <2>1. dotConfig' \in KConfigs
    BY <1>1, <1>5 DEF RunMenuconfig, KConfigs
  <2>2. PICK ok \in BOOLEAN : ed' = [ed EXCEPT !.pc = "main", !.changed = TRUE, !.ran = @ \/ ok]
    BY <1>5 DEF RunMenuconfig
  <2> QED
    <3> DEFINE f == [ed EXCEPT !.pc = "main", !.changed = TRUE, !.ran = @ \/ ok]
    <3>1. (ed.ran \/ ok) \in BOOLEAN
      BY <1>1 DEF Editors
    <3>2. f \in Editors
      BY <1>1, <3>1 DEF Editors
    <3> QED
      BY <1>1, <1>5, <2>1, <2>2, <3>2, PlaceKeeps DEF RunMenuconfig, Editors
<1> QED
  BY <1>3, <1>4, <1>5

LEMMA OtherKeeps == EditorInvariant /\ (ChangeOther \/ SelectPreset) => EditorInvariant' /\ ed' # Closed
<1> SUFFICES ASSUME EditorInvariant, ChangeOther \/ SelectPreset PROVE EditorInvariant' /\ ed' # Closed
  OBVIOUS
<1>1. ed \in Editors /\ ed.pc = "main" /\ WantsAreKept(ed) /\ StartIsKept(ed)
  BY NotClosed DEF EditorInvariant, EditorTypeOK, ChangeOther, SelectPreset, InMain, Closed
<1>2. PICK e \in Editors :
        /\ Edited(e)
        /\ \A x \in {"pc", "values", "orig", "derived", "origDerived", "wants"} : e[x] = ed[x]
  <2>1. CASE ChangeOther
    BY <1>1, <2>1 DEF ChangeOther, Editors
  <2>2. CASE SelectPreset
    BY <1>1, <2>2 DEF SelectPreset, Editors
  <2> QED
    BY <2>1, <2>2
<1>3. WantsAreKept(e) /\ StartIsKept(e) /\ e.pc = "main"
  BY <1>1, <1>2 DEF WantsAreKept, StartIsKept, SavedOf
<1> QED
  BY <1>2, <1>3, EditedKeeps

LEMMA OptionKeeps == EditorInvariant /\ (CycleOption \/ PickOption \/ TypeOption) => EditorInvariant' /\ ed' # Closed
<1> SUFFICES ASSUME EditorInvariant, CycleOption \/ PickOption \/ TypeOption PROVE EditorInvariant' /\ ed' # Closed
  OBVIOUS
<1>1. PICK n \in Globals : \E v \in ValuesOf(n) : InMain /\ Edited(Wants(SetGlobal(ed, n, v), n, v))
  BY DEF CycleOption, PickOption, TypeOption, Globals
<1>2. PICK v \in ValuesOf(n) : InMain /\ Edited(Wants(SetGlobal(ed, n, v), n, v))
  BY <1>1
<1> QED
  BY <1>1, <1>2, SetKeeps, ValuesOfOptions

LEMMA EditorStep == EditorInvariant /\ [EditorNext]_editorVars => EditorInvariant'
<1> SUFFICES ASSUME EditorInvariant, [EditorNext]_editorVars PROVE EditorInvariant'
  OBVIOUS
<1>1. CASE CycleOption \/ PickOption \/ TypeOption
  BY <1>1, OptionKeeps
<1>2. CASE ChangeOther \/ SelectPreset
  BY <1>2, OtherKeeps
<1>3. CASE ResetToOpened \/ ResetOptionToDefault
  BY <1>3, ResetKeeps, DefaultKeeps
<1>4. CASE Open \/ StartMenuconfig \/ EnsureConfig \/ RunMenuconfig
  BY <1>4, OpenKeeps, MenuconfigKeeps
<1>5. CASE SaveKey \/ ConfirmSave
  BY <1>5, SaveKeeps DEF SaveKey, ConfirmSave, InMain, Closed
<1>6. CASE QuitUnasked \/ ConfirmDiscard
  BY <1>6 DEF QuitUnasked, ConfirmDiscard, Discard, EditorInvariant, EditorTypeOK
<1>7. CASE AskToSave \/ Cancel
  <2>1. ed \in Editors /\ ed # Closed /\ dotConfig \in KConfigs
    BY <1>7, NotClosed DEF AskToSave, Cancel, InMain, Closed, EditorInvariant, EditorTypeOK
  <2> QED
    BY <1>7, <2>1, PlaceKeeps DEF AskToSave, Cancel, InMain, Editors
<1>8. CASE SetFlags
  <2>1. PICK names \in (SUBSET Globals) \ {{}} : \E values \in [names -> UNION {ValuesOf(n) : n \in names}] :
          /\ \A n \in names : values[n] \in ValuesOf(n)
          /\ file' = [file EXCEPT !.global = [n \in Globals |-> IF n \in names THEN values[n] ELSE @[n]]]
    BY <1>8 DEF SetFlags
  <2>2. PICK values : /\ \A n \in names : values[n] \in ValuesOf(n)
                      /\ file' = [file EXCEPT !.global = [n \in Globals |-> IF n \in names THEN values[n] ELSE @[n]]]
    BY <2>1
  <2> DEFINE g == [n \in Globals |-> IF n \in names THEN values[n] ELSE file.global[n]]
  <2>3. file \in Configurations /\ g \in GlobalValues
    BY <2>2, ValuesOfOptions DEF EditorInvariant, EditorTypeOK, Configurations, GlobalValues
  <2>4. file' = [file EXCEPT !.global = g]
    BY <2>2
  <2> HIDE DEF g
  <2>5. file' \in Configurations
    BY <2>3, <2>4 DEF Configurations
  <2> QED
    BY <1>8, <2>5 DEF SetFlags, EditorInvariant, EditorTypeOK, NoSave
<1>9. CASE ConfiguredBuild
  <2>1. dotConfig' \in KConfigs
    BY <1>9, EditorAssumption
       DEF ConfiguredBuild, EditorInvariant, EditorTypeOK, Configurations, KConfigs, Generated, Or
  <2> QED
    BY <1>9, <2>1 DEF ConfiguredBuild, EditorInvariant, EditorTypeOK
<1>10. CASE UNCHANGED editorVars
  BY <1>10 DEF editorVars, EditorInvariant, EditorTypeOK, WantsAreKept, StartIsKept, ChangesAreSeen, CheckChanges, SavedOf
<1> QED
  BY <1>1, <1>2, <1>3, <1>4, <1>5, <1>6, <1>7, <1>8, <1>9, <1>10 DEF EditorNext

(* The editor keeps, edit by edit, what the user wants of each option that *)
(* can be derived, and knows whether it shows a change.                    *)
THEOREM EditorInductive == EditorSpec => []EditorInvariant
<1>1. EditorInit => EditorInvariant
  <2> SUFFICES ASSUME EditorInit PROVE EditorInvariant
    OBVIOUS
  <2>1. file.global \in GlobalValues
    BY ValuesOfOptions DEF EditorInit, Files, GlobalValues
  <2>2. NoKConfig \in KConfigs /\ Generated(DefaultPreset) \in KConfigs
    BY EditorAssumption DEF NoKConfig, Generated, KConfigs
  <2>3. file \in Configurations
    BY <2>1, <2>2 DEF EditorInit, Files, Configurations
  <2> QED
    BY <2>2, <2>3 DEF EditorInit, EditorInvariant, EditorTypeOK, NoSave
<1> QED
  BY <1>1, EditorStep, PTL DEF EditorSpec

(* What the user has chosen is what is saved and what is built.            *)
THEOREM ChosenHolds == EditorSpec => []ExplicitIsBuilt
<1>1. EditorInvariant => ExplicitIsBuilt
  BY DEF EditorInvariant, EditorTypeOK, ExplicitIsBuilt, BuildToolchain, BuildTarget, Or, NoSave, Derivable
<1> QED
  BY <1>1, EditorInductive, PTL

(* The editor is not left without a question while it shows a change.      *)
THEOREM AskedHolds == EditorSpec => AskedBeforeLosing
<1>1. EditorInvariant /\ [EditorNext]_editorVars =>
        [(ed # Closed /\ InMain /\ ed' = Closed /\ intended' = NoSave) => ~CheckChanges(ed)]_ed
  <2> SUFFICES ASSUME EditorInvariant, [EditorNext]_editorVars, ed # Closed, InMain, ed' = Closed, intended' = NoSave
               PROVE  ~CheckChanges(ed)
    OBVIOUS
  <2>1. ed \in Editors
    BY DEF EditorInvariant, EditorTypeOK
  <2>2. ~SaveKey
    <3>1. ed.wants \in [Derivable -> Values] /\ ed.wants # NoSave
      BY <2>1 DEF Editors, NoSave, Derivable
    <3> QED
      BY <3>1 DEF SaveKey, Save
  <2>3. CASE CycleOption \/ PickOption \/ TypeOption
    BY <2>3, OptionKeeps
  <2>4. CASE ResetToOpened \/ ResetOptionToDefault \/ ChangeOther \/ SelectPreset \/ StartMenuconfig
    BY <2>4, ResetKeeps, DefaultKeeps, OtherKeeps, MenuconfigKeeps
  <2>5. ~AskToSave
    BY <2>1 DEF AskToSave, Editors, Closed
  <2>6. CASE QuitUnasked
    BY <2>6 DEF QuitUnasked, EditorInvariant, ChangesAreSeen
  <2>7. ed' # ed
    OBVIOUS
  <2> QED
    BY <2>2, <2>3, <2>4, <2>5, <2>6, <2>7
       DEF EditorNext, editorVars, Open, EnsureConfig, RunMenuconfig, Cancel, ConfirmSave, ConfirmDiscard, SetFlags,
           ConfiguredBuild, InMain
<1> QED
  BY <1>1, EditorInductive, PTL DEF EditorSpec, AskedBeforeLosing

-----------------------------------------------------------------------------
(* The screen of the editor.                                               *)

Places == ToSet(Tree)
PanelFields ==
  {"expanded", "hideEmpty", "query", "filtering", "cursor", "off", "height", "selected", "opt",
   "focus", "flat"}
IsPanel(u) ==
  /\ u = [f \in PanelFields |-> u[f]]
  /\ u.flat \in Seq(Places) /\ u.cursor \in Nat \ {0} /\ u.off \in Nat /\ u.height \in Nat

(* One thing takes the keys; what is asked in an overlay or typed is asked *)
(* of the option it goes to.                                               *)
OneTakesKeys ==
  /\ open = {} \/ \E what \in {"confirm", "edit", "description", "menuconfig"} : open = {what}
  /\ open # {} => overlay = "none" /\ ~ui.filtering
  /\ overlay # "none" => ~ui.filtering
AskedHere ==
  /\ overlay = "choice" => choiceOpt = <<ui.selected, choiceOpt[2]>>
  /\ "edit" \in open => choiceOpt = Current
ScreenInvariant == IsPanel(ui) /\ OneTakesKeys /\ AskedHere /\ ScreenIsTrue

(* There is a row for each node that is shown, and for no other: the rank  *)
(* of a node among those that are is one of as many numbers.               *)
LEMMA RowsAreShown ==
  ASSUME Tree \in Seq(Places), NEW S \in SUBSET DOMAIN Tree
  PROVE  /\ Rows(S) \in Seq(Places)
         /\ \A i \in S : \E k \in DOMAIN Rows(S) : Rows(S)[k] = Tree[i]
<1>1. DOMAIN Tree = 1..Len(Tree) /\ Len(Tree) \in Nat
  OBVIOUS
<1>2. IsFiniteSet(S)
  <2>1. IsFiniteSet(1..Len(Tree))
    BY <1>1, FS_Interval
  <2> QED BY <1>1, <2>1, FS_Subset
<1> DEFINE N == Cardinality(S)
           low(i) == {j \in S : j <= i}
           rank == [i \in S |-> Cardinality(low(i))]
<1>3. N \in Nat
  BY <1>2, FS_CardinalityType
<1>4. \A i \in S : IsFiniteSet(low(i)) /\ i \in low(i) /\ Cardinality(low(i)) \in 1..N
  <2> SUFFICES ASSUME NEW i \in S PROVE IsFiniteSet(low(i)) /\ i \in low(i) /\ Cardinality(low(i)) \in 1..N
    OBVIOUS
  <2>0. i \in Nat
    BY <1>1
  <2>1. i \in low(i) /\ low(i) \in SUBSET S
    BY <2>0
  <2> HIDE DEF low
  <2>2. IsFiniteSet(low(i)) /\ Cardinality(low(i)) <= N
    BY <2>1, <1>2, FS_Subset
  <2>3. Cardinality(low(i)) \in Nat
    BY <2>2, FS_CardinalityType
  <2>4. Cardinality(low(i)) # 0
    BY <2>1, <2>2, FS_EmptySet
  <2> QED BY <2>1, <2>2, <2>3, <2>4, <1>3
<1>5. \A i, j \in S : i < j => Cardinality(low(i)) # Cardinality(low(j))
  <2> SUFFICES ASSUME NEW i \in S, NEW j \in S, i < j, Cardinality(low(i)) = Cardinality(low(j)) PROVE FALSE
    OBVIOUS
  <2>1. low(i) \in SUBSET low(j) /\ j \notin low(i)
    BY <1>1
  <2>2. j \in low(j) /\ IsFiniteSet(low(j))
    BY <1>4
  <2> HIDE DEF low
  <2>3. low(j) = low(i)
    BY <2>1, <2>2, FS_Subset
  <2> QED BY <2>1, <2>2, <2>3
<1>6. rank \in Injection(S, 1..N)
  <2>1. rank \in [S -> 1..N]
    BY <1>4
  <2>2. \A i, j \in S : rank[i] = rank[j] => i = j
    <3> SUFFICES ASSUME NEW i \in S, NEW j \in S, rank[i] = rank[j], i # j PROVE FALSE
      OBVIOUS
    <3>1. i < j \/ j < i
      BY <1>1
    <3> HIDE DEF low
    <3> QED BY <3>1, <1>5
  <2> HIDE DEF rank
  <2> QED BY <2>1, <2>2 DEF Injection, IsInjective
<1>7. rank \in Surjection(S, 1..N)
  <2>1. IsFiniteSet(1..N) /\ Cardinality(1..N) = N
    BY <1>3, FS_Interval
  <2> HIDE DEF rank
  <2> QED BY <1>6, <2>1, FS_Injection
<1>8. \A n \in 1..N : \E i \in S : Cardinality(low(i)) = n
  BY <1>7 DEF Surjection
<1> DEFINE at(n) == CHOOSE i \in S : Cardinality({j \in S : j <= i}) = n
<1>9. \A n \in 1..N : at(n) \in S /\ Cardinality(low(at(n))) = n
  <2> SUFFICES ASSUME NEW n \in 1..N PROVE at(n) \in S /\ Cardinality(low(at(n))) = n
    OBVIOUS
  <2> \E i \in S : Cardinality({j \in S : j <= i}) = n
    BY <1>8
  <2> QED OBVIOUS
<1>10. Rows(S) = [n \in 1..N |-> Tree[at(n)]]
  BY DEF Rows
<1> HIDE DEF at, N
<1>11. \A i \in S : Tree[i] \in Places
  BY <1>1 DEF Places
<1>12. Rows(S) \in Seq(Places)
  <2>1. Rows(S) \in [1..N -> Places]
    BY <1>9, <1>10, <1>11
  <2> QED BY <2>1, <1>3
<1>13. \A i \in S : rank[i] \in 1..N /\ at(rank[i]) = i
  <2> SUFFICES ASSUME NEW i \in S PROVE rank[i] \in 1..N /\ at(rank[i]) = i
    OBVIOUS
  <2>1. rank[i] = Cardinality(low(i))
    OBVIOUS
  <2>2. rank[i] \in 1..N
    BY <2>1, <1>4
  <2>3. at(rank[i]) \in S /\ rank[at(rank[i])] = rank[i]
    BY <2>2, <1>9
  <2> HIDE DEF rank, low
  <2> QED BY <2>2, <2>3, <1>6 DEF Injection, IsInjective
<1> HIDE DEF rank
<1> QED BY <1>10, <1>12, <1>13

LEMMA MinIsIn ==
  ASSUME NEW S, S \subseteq Nat, S # {}
  PROVE  Min(S) \in S
<1>1. \E n \in S : \A m \in S : n <= m
  BY LeastNumber
<1> QED BY <1>1 DEF Min

(* What the helpers leave alone of the panel, and what they make of it.    *)
PanelSame(u, v) == v.query = u.query /\ v.filtering = u.filtering /\ v.hideEmpty = u.hideEmpty

LEMMA PanelFlat ==
  ASSUME NEW u, IsPanel(u), NEW rows \in Seq(Places)
  PROVE  LET v == [u EXCEPT !.flat = rows] IN IsPanel(v) /\ PanelSame(u, v) /\ v.flat = rows
  BY DEF IsPanel, PanelFields, PanelSame

LEMMA RebuildKeeps ==
  ASSUME NEW u, IsPanel(u)
  PROVE  /\ IsPanel(RebuildFlat(u)) /\ PanelSame(u, RebuildFlat(u))
         /\ \A i \in DOMAIN Tree :
              Shown(u, Tree[i]) => \E k \in DOMAIN RebuildFlat(u).flat : RebuildFlat(u).flat[k] = Tree[i]
<1> DEFINE S == {i \in DOMAIN Tree : Shown(u, Tree[i])}
<1>1. Tree \in Seq(Places) /\ S \in SUBSET DOMAIN Tree
  BY ScreenAssumption DEF Places
<1>2. RebuildFlat(u) = [u EXCEPT !.flat = Rows(S)]
  BY DEF RebuildFlat
<1>3. \A i \in DOMAIN Tree : Shown(u, Tree[i]) => i \in S
  OBVIOUS
<1> HIDE DEF S
<1>4. /\ Rows(S) \in Seq(Places)
      /\ \A i \in S : \E k \in DOMAIN Rows(S) : Rows(S)[k] = Tree[i]
  BY <1>1, RowsAreShown
<1>5. IsPanel(RebuildFlat(u)) /\ PanelSame(u, RebuildFlat(u)) /\ RebuildFlat(u).flat = Rows(S)
  BY <1>2, <1>4, PanelFlat
<1> QED BY <1>3, <1>4, <1>5

LEMMA TreeRowsType ==
  ASSUME NEW u, IsPanel(u) PROVE TreeItemRows(u) \in Nat \ {0}
  BY DEF IsPanel, TreeItemRows, AtLeast

(* However far the tree was scrolled, the row of the cursor is drawn.      *)
LEMMA EnsureKeeps ==
  ASSUME NEW u, IsPanel(u)
  PROVE  LET v == EnsureTreeCursorVisible(u) IN
         /\ IsPanel(v) /\ PanelSame(u, v) /\ v.selected = u.selected /\ v.cursor = u.cursor /\ v.flat = u.flat
         /\ v.opt = u.opt
         /\ u.cursor \in DOMAIN u.flat => v.cursor \in Drawn(v)
<1> DEFINE total == Len(u.flat)
           rows == TreeItemRows(u)
           up == AtMost(u.off, u.cursor - 1)
           down == IF u.cursor > up + rows THEN u.cursor - rows ELSE up
           to == IF rows >= total THEN 0 ELSE AtMost(down, total - rows)
           v == IF total = 0 THEN u ELSE [u EXCEPT !.off = to]
<1>1. /\ u.flat \in Seq(Places) /\ total \in Nat /\ u.cursor \in Nat \ {0} /\ u.off \in Nat
      /\ DOMAIN u.flat = 1..total
  BY DEF IsPanel
<1>2. rows \in Nat \ {0}
  BY TreeRowsType
<1>3. EnsureTreeCursorVisible(u) = v
  BY DEF EnsureTreeCursorVisible
<1> HIDE DEF total, rows
<1>4. up \in Nat /\ up < u.cursor
  BY <1>1 DEF AtMost
<1> HIDE DEF up
<1>5. down \in Nat /\ down < u.cursor /\ u.cursor <= down + rows
  BY <1>1, <1>2, <1>4
<1> HIDE DEF down
<1>6. to \in Nat /\ (u.cursor <= total => to < u.cursor /\ u.cursor <= to + rows)
  BY <1>1, <1>2, <1>5 DEF AtMost
<1> HIDE DEF to
<1>7. /\ IsPanel(v) /\ PanelSame(u, v) /\ v.selected = u.selected /\ v.cursor = u.cursor /\ v.flat = u.flat
      /\ v.opt = u.opt /\ v.height = u.height /\ (total # 0 => v.off = to)
  BY <1>6 DEF IsPanel, PanelFields, PanelSame
<1>8. TreeItemRows(v) = rows
  BY <1>7 DEF TreeItemRows, PanelSame, ShowingFilter, rows
<1>9. u.cursor \in DOMAIN u.flat => u.cursor \in Drawn(v)
  <2> HAVE u.cursor \in DOMAIN u.flat
  <2>1. total # 0 /\ u.cursor <= total
    BY <1>1
  <2>2. v.off = to /\ to < u.cursor /\ u.cursor <= to + rows
    BY <2>1, <1>6, <1>7
  <2> HIDE DEF v
  <2> QED BY <2>2, <1>1, <1>6, <1>7, <1>8 DEF Drawn
<1> HIDE DEF v
<1> QED BY <1>3, <1>7, <1>9

LEMMA SelectKeeps ==
  ASSUME NEW u, IsPanel(u)
  PROVE  /\ IsPanel(SelectCurrentNode(u)) /\ PanelSame(u, SelectCurrentNode(u))
         /\ SelectCurrentNode(u).cursor = u.cursor /\ SelectCurrentNode(u).flat = u.flat
         /\ u.cursor \in DOMAIN u.flat => SelectCurrentNode(u).selected = Name(u.flat[u.cursor])
  BY DEF IsPanel, PanelFields, PanelSame, SelectCurrentNode

LEMMA FirstKeeps ==
  ASSUME NEW u, IsPanel(u)
  PROVE  IsPanel(SelectFirstPkg(u)) /\ PanelSame(u, SelectFirstPkg(u))
  BY DEF IsPanel, PanelFields, PanelSame, SelectFirstPkg

LEMMA ClampKeeps ==
  ASSUME NEW u, IsPanel(u)
  PROVE  IsPanel(ClampCursor(u)) /\ PanelSame(u, ClampCursor(u))
<1>1. Len(u.flat) \in Nat /\ u.cursor \in Nat
  BY DEF IsPanel
<1>2. Clamp(u.cursor, 1, AtLeast(Len(u.flat), 1)) \in Nat \ {0}
  BY <1>1 DEF Clamp, AtLeast
<1> QED BY <1>2 DEF IsPanel, PanelFields, PanelSame, ClampCursor

LEMMA MovedKeeps ==
  ASSUME NEW u, IsPanel(u), NEW delta
  PROVE  IsPanel(Moved(u, delta)) /\ PanelSame(u, Moved(u, delta))
<1> DEFINE next == IF delta = "up" THEN Clamp(u.cursor - 1, 1, Len(u.flat))
                   ELSE Clamp(u.cursor + 1, 1, Len(u.flat))
           v == [u EXCEPT !.cursor = next]
           w == SelectCurrentNode(v)
<1>1. CASE u.flat = <<>> \/ next = u.cursor
  BY <1>1 DEF Moved, PanelSame
<1>2. CASE ~(u.flat = <<>> \/ next = u.cursor)
  <2>1. u.flat \in Seq(Places) /\ u.cursor \in Nat \ {0}
    BY DEF IsPanel
  <2>2. Len(u.flat) \in Nat \ {0}
    BY <2>1, <1>2
  <2>3. next \in Nat \ {0}
    BY <2>1, <2>2 DEF Clamp
  <2>4. Moved(u, delta) = EnsureTreeCursorVisible(w)
    BY <1>2 DEF Moved
  <2> HIDE DEF next
  <2>5. IsPanel(v) /\ PanelSame(u, v)
    BY <2>3 DEF IsPanel, PanelFields, PanelSame
  <2> HIDE DEF v
  <2>6. IsPanel(w) /\ PanelSame(v, w)
    BY <2>5, SelectKeeps
  <2> HIDE DEF w
  <2>7. IsPanel(EnsureTreeCursorVisible(w)) /\ PanelSame(w, EnsureTreeCursorVisible(w))
    BY <2>6, EnsureKeeps
  <2> QED BY <2>4, <2>5, <2>6, <2>7 DEF PanelSame
<1> QED BY <1>1, <1>2

LEMMA WithFieldKeeps ==
  ASSUME NEW u, IsPanel(u), NEW x
  PROVE  /\ IsPanel([u EXCEPT !.expanded = x]) /\ IsPanel([u EXCEPT !.query = x])
         /\ IsPanel([u EXCEPT !.filtering = x]) /\ IsPanel([u EXCEPT !.hideEmpty = x])
         /\ IsPanel([u EXCEPT !.focus = x]) /\ IsPanel([u EXCEPT !.opt = x])
         /\ x \in Nat => IsPanel([u EXCEPT !.height = x])
         /\ x \in Nat \ {0} => IsPanel([u EXCEPT !.cursor = x])
  BY DEF IsPanel, PanelFields

LEMMA ExpandKeeps ==
  ASSUME NEW u, IsPanel(u), NEW x
  PROVE  LET v == EnsureTreeCursorVisible(RebuildFlat([u EXCEPT !.expanded = x])) IN
         IsPanel(v) /\ PanelSame(u, v)
<1> DEFINE e == [u EXCEPT !.expanded = x]
<1>1. IsPanel(e) /\ PanelSame(u, e)
  BY WithFieldKeeps DEF IsPanel, PanelFields, PanelSame
<1> HIDE DEF e
<1>2. IsPanel(RebuildFlat(e)) /\ PanelSame(e, RebuildFlat(e))
  BY <1>1, RebuildKeeps
<1>3. LET v == EnsureTreeCursorVisible(RebuildFlat(e)) IN IsPanel(v) /\ PanelSame(RebuildFlat(e), v)
  BY <1>2, EnsureKeeps
<1>4. LET v == EnsureTreeCursorVisible(RebuildFlat(e)) IN IsPanel(v) /\ PanelSame(u, v)
  BY <1>1, <1>2, <1>3 DEF PanelSame
<1> QED BY <1>4 DEF e

LEMMA AgainKeeps ==
  ASSUME NEW u, IsPanel(u)
  PROVE  IsPanel(EnsureTreeCursorVisible(SelectCurrentNode(ClampCursor(RebuildFlat(u)))))
<1>1. IsPanel(RebuildFlat(u))
  BY RebuildKeeps
<1>2. IsPanel(ClampCursor(RebuildFlat(u)))
  BY <1>1, ClampKeeps
<1>3. IsPanel(SelectCurrentNode(ClampCursor(RebuildFlat(u))))
  BY <1>2, SelectKeeps
<1> QED BY <1>3, EnsureKeeps

LEMMA StartKeeps ==
  ASSUME NEW h \in Nat
  PROVE  IsPanel(StartScreen(h)) /\ StartScreen(h).filtering = FALSE
<1> DEFINE e == {Global} \cup {n \in ToSet(Tree) \ {Remote} : n[1] = Remote[1] /\ HasChildren(n)}
           u == [expanded |-> e, hideEmpty |-> FALSE, query |-> NoQuery, filtering |-> FALSE,
                 cursor |-> 1, off |-> 0, height |-> h, selected |-> Global, opt |-> 1,
                 focus |-> "tree", flat |-> <<>>]
<1>1. StartScreen(h) = SelectFirstPkg(RebuildFlat(u))
  BY DEF StartScreen
<1> HIDE DEF e
<1>2. IsPanel(u) /\ u.filtering = FALSE
  BY DEF IsPanel, PanelFields
<1> HIDE DEF u
<1>3. IsPanel(RebuildFlat(u)) /\ PanelSame(u, RebuildFlat(u))
  BY <1>2, RebuildKeeps
<1> HIDE DEF RebuildFlat
<1>4. LET v == SelectFirstPkg(RebuildFlat(u)) IN IsPanel(v) /\ PanelSame(RebuildFlat(u), v)
  BY <1>3, FirstKeeps
<1> QED BY <1>1, <1>2, <1>3, <1>4 DEF PanelSame

(* A jump ends on the package it names: what is above its first node has   *)
(* been opened, so the node is in a row, unless it is hidden as empty; the *)
(* cursor goes to the first row of the package, and it is drawn.           *)
LEMMA JumpArrives ==
  ASSUME NEW u, IsPanel(u), u.query = NoQuery, NEW p, NEW option,
         NEW k \in DOMAIN Tree, Name(Tree[k]) = p
  PROVE  LET v == JumpToMatch(u, p, option) IN
         /\ IsPanel(v) /\ PanelSame(u, v)
         /\ \/ v.hideEmpty /\ ~Displayable(FirstNode(p))
            \/ v.cursor \in Drawn(v) /\ Name(v.flat[v.cursor]) = p /\ v.selected = p
<1> DEFINE nodes == {i \in DOMAIN Tree : Name(Tree[i]) = p}
           first == Min(nodes)
           more == IF p = Remote THEN {Remote} ELSE Above(FirstNode(p))
           wide == ExpandToPkg(u, p)
           shown == RebuildFlat(wide)
           rows == {i \in DOMAIN shown.flat : Name(shown.flat[i]) = p}
           there == IF rows = {} THEN shown ELSE SelectCurrentNode([shown EXCEPT !.cursor = Min(rows)])
           options == VisibleOptions(there.selected)
           row == {i \in DOMAIN options : options[i] = option}
           o == IF row = {} THEN there.opt ELSE CHOOSE i \in row : TRUE
           set == [there EXCEPT !.focus = "tree", !.opt = IF row = {} THEN @ ELSE CHOOSE i \in row : TRUE]
           v == EnsureTreeCursorVisible(set)
<1>0. JumpToMatch(u, p, option) = v
  BY DEF JumpToMatch
<1>1. Tree \in Seq(Places) /\ \A n \in Places : Name(n) = Remote => n = Remote
  BY ScreenAssumption DEF Places
<1>2. first \in DOMAIN Tree /\ Name(Tree[first]) = p /\ FirstNode(p) = Tree[first]
  <2>1. nodes \subseteq Nat /\ nodes # {}
    BY <1>1
  <2> HIDE DEF nodes
  <2>2. first \in nodes
    BY <2>1, MinIsIn
  <2> QED BY <2>2 DEF nodes, FirstNode
<1>3. Above(Tree[first]) \subseteq more
  <2>1. CASE p = Remote
    <3>1. Tree[first] = Remote
      BY <1>1, <1>2, <2>1
    <3>2. Above(Remote) = {}
      BY DEF Above, Remote
    <3> QED BY <3>1, <3>2
  <2>2. CASE p # Remote
    BY <1>2, <2>2
  <2> QED BY <2>1, <2>2
<1>4. wide = [u EXCEPT !.expanded = @ \cup more]
  BY DEF ExpandToPkg
<1> HIDE DEF more, first
<1>5. IsPanel(wide) /\ PanelSame(u, wide) /\ wide.expanded = u.expanded \cup more
  BY <1>4 DEF IsPanel, PanelFields, PanelSame
<1> HIDE DEF wide
<1>6. /\ IsPanel(shown) /\ PanelSame(wide, shown)
      /\ Shown(wide, Tree[first]) => \E i \in DOMAIN shown.flat : shown.flat[i] = Tree[first]
  BY <1>2, <1>5, RebuildKeeps
<1> HIDE DEF shown
<1>7. shown.flat \in Seq(Places) /\ rows \subseteq Nat
  BY <1>6 DEF IsPanel
<1>8. rows # {} => Min(rows) \in rows
  <2> HIDE DEF rows
  <2> QED BY <1>7, MinIsIn
<1>9. IsPanel(there) /\ PanelSame(shown, there)
  <2>1. CASE rows = {}
    BY <2>1, <1>6 DEF PanelSame
  <2>2. CASE rows # {}
    <3> DEFINE c == [shown EXCEPT !.cursor = Min(rows)]
    <3>1. Min(rows) \in Nat \ {0}
      BY <1>7, <1>8, <2>2
    <3> HIDE DEF rows
    <3>2. IsPanel(c) /\ PanelSame(shown, c)
      BY <1>6, <3>1 DEF IsPanel, PanelFields, PanelSame
    <3> HIDE DEF c
    <3>3. IsPanel(SelectCurrentNode(c)) /\ PanelSame(c, SelectCurrentNode(c))
      BY <3>2, SelectKeeps
    <3> QED BY <2>2, <3>2, <3>3 DEF PanelSame, c
  <2> QED BY <2>1, <2>2
<1>10. rows # {} => /\ there.cursor \in DOMAIN there.flat /\ Name(there.flat[there.cursor]) = p
                    /\ there.selected = p
  <2> HAVE rows # {}
  <2> DEFINE c == [shown EXCEPT !.cursor = Min(rows)]
  <2>1. Min(rows) \in DOMAIN shown.flat /\ Name(shown.flat[Min(rows)]) = p /\ Min(rows) \in Nat \ {0}
    BY <1>7, <1>8
  <2> HIDE DEF rows
  <2>2. IsPanel(c) /\ c.cursor = Min(rows) /\ c.flat = shown.flat
    BY <1>6, <2>1 DEF IsPanel, PanelFields
  <2>3. there = SelectCurrentNode(c)
    OBVIOUS
  <2> HIDE DEF c, there
  <2> QED BY <2>1, <2>2, <2>3, SelectKeeps
<1> HIDE DEF there
<1>11. set = [there EXCEPT !.focus = "tree", !.opt = o]
  BY <1>9 DEF IsPanel, PanelFields
<1> HIDE DEF o
<1>12. /\ IsPanel(set) /\ PanelSame(there, set) /\ set.cursor = there.cursor /\ set.flat = there.flat
       /\ set.selected = there.selected
  BY <1>9, <1>11 DEF IsPanel, PanelFields, PanelSame
<1> HIDE DEF set
<1>13. /\ IsPanel(v) /\ PanelSame(set, v) /\ v.cursor = set.cursor /\ v.flat = set.flat
       /\ v.selected = set.selected /\ (set.cursor \in DOMAIN set.flat => v.cursor \in Drawn(v))
  BY <1>12, EnsureKeeps
<1> HIDE DEF v
<1>14. PanelSame(u, v)
  BY <1>5, <1>6, <1>9, <1>12, <1>13 DEF PanelSame
<1>15. ~(v.hideEmpty /\ ~Displayable(FirstNode(p))) => rows # {}
  <2>1. HAVE ~(v.hideEmpty /\ ~Displayable(FirstNode(p)))
  <2>2. wide.query = NoQuery /\ wide.hideEmpty = v.hideEmpty
    BY <1>5, <1>14 DEF PanelSame
  <2>3. Shown(wide, Tree[first])
    BY <2>1, <2>2, <1>2, <1>3, <1>5 DEF Shown
  <2>4. PICK i \in DOMAIN shown.flat : shown.flat[i] = Tree[first]
    BY <2>3, <1>6
  <2> QED BY <2>4, <1>2
<1> QED BY <1>0, <1>10, <1>12, <1>13, <1>14, <1>15

LEMMA CountOpen ==
  /\ Cardinality({}) = 0 /\ \A what : Cardinality({what}) = 1
  BY FS_EmptySet, FS_Singleton

LEMMA OneIsTrue ==
  ASSUME OneTakesKeys
  PROVE  Cardinality(open) + (IF overlay = "none" THEN 0 ELSE 1) + (IF ui.filtering THEN 1 ELSE 0) <= 1
<1>1. CASE open = {}
  BY <1>1, CountOpen DEF OneTakesKeys
<1>2. CASE open # {}
  <2>1. PICK what : open = {what}
    BY <1>2 DEF OneTakesKeys
  <2>2. Cardinality(open) = 1
    BY <2>1, CountOpen
  <2> QED BY <1>2, <2>2 DEF OneTakesKeys
<1> QED BY <1>1, <1>2

(* What every step has to show, when it is no jump.                        *)
LEMMA Concluded ==
  ASSUME IsPanel(ui'), OneTakesKeys', AskedHere', did'.what # "jump",
         did'.what = "set" => did'.got = did'.asked
  PROVE  ScreenInvariant'
<1>1. (Cardinality(open) + (IF overlay = "none" THEN 0 ELSE 1) + (IF ui.filtering THEN 1 ELSE 0) <= 1)'
  BY OneIsTrue, PTL
<1> QED BY <1>1 DEF ScreenInvariant, ScreenIsTrue, AnswersGoWhereAsked, JumpsLand

Idle == open = {} /\ overlay = "none"

LEMMA ShowsStep ==
  ASSUME Idle, NEW u, IsPanel(u), Shows(u)
  PROVE  ScreenInvariant'
<1>1. ui' = u /\ did' = NoEffect /\ open' = {} /\ overlay' = "none"
  BY DEF Shows, Idle
<1>2. OneTakesKeys' /\ AskedHere'
  BY <1>1 DEF OneTakesKeys, AskedHere
<1> QED BY <1>1, <1>2, Concluded DEF NoEffect

LEMMA OpensStep ==
  ASSUME ScreenInvariant, Idle, ~ui.filtering,
         NEW what \in {"confirm", "description", "menuconfig"}, Opens(what)
  PROVE  ScreenInvariant'
<1>1. ui' = ui /\ did' = NoEffect /\ open' = {what} /\ overlay' = "none" /\ IsPanel(ui)
  BY DEF Opens, Idle, ScreenInvariant
<1>2. OneTakesKeys' /\ AskedHere'
  BY <1>1 DEF OneTakesKeys, AskedHere
<1> QED BY <1>1, <1>2, Concluded DEF NoEffect

LEMMA QuitsStep ==
  ASSUME ScreenInvariant, Quits
  PROVE  ScreenInvariant'
<1>1. ui' = StartScreen(ui.height) /\ did' = NoEffect /\ open' = {} /\ overlay' = "none"
  BY DEF Quits
<1>2. ui.height \in Nat
  BY DEF ScreenInvariant, IsPanel
<1>3. IsPanel(ui')
  BY <1>1, <1>2, StartKeeps
<1>4. OneTakesKeys' /\ AskedHere'
  BY <1>1 DEF OneTakesKeys, AskedHere
<1> QED BY <1>1, <1>3, <1>4, Concluded DEF NoEffect

LEMMA LeaveStep ==
  ASSUME ScreenInvariant, Idle, ~ui.filtering, Leave
  PROVE  ScreenInvariant'
  BY OpensStep, QuitsStep DEF Leave

(* A value set while nothing is open.                                      *)
LEMMA SetStep ==
  ASSUME Idle, NEW u, IsPanel(u), ui' = u, open' = {}, overlay' = "none",
         NEW item, SetValue(item, item)
  PROVE  ScreenInvariant'
<1>1. did' = [what |-> "set", asked |-> item, got |-> item]
  BY DEF SetValue
<1>2. did'.what = "set" /\ did'.got = did'.asked
  BY <1>1
<1>3. OneTakesKeys' /\ AskedHere'
  BY DEF OneTakesKeys, AskedHere
<1> QED BY <1>2, <1>3, Concluded

LEMMA JumpsStep ==
  ASSUME Idle, NEW u, IsPanel(u), u.query = NoQuery, NEW p, NEW option, Jumps(u, p, option),
         NEW k \in DOMAIN Tree, Name(Tree[k]) = p
  PROVE  ScreenInvariant'
<1> DEFINE v == JumpToMatch(u, p, option)
<1>1. /\ ui' = v /\ did' = [what |-> "jump", asked |-> p, got |-> v.selected]
      /\ open' = {} /\ overlay' = "none"
  BY DEF Jumps, Idle
<1>2. /\ IsPanel(v)
      /\ \/ v.hideEmpty /\ ~Displayable(FirstNode(p))
         \/ v.cursor \in Drawn(v) /\ Name(v.flat[v.cursor]) = p /\ v.selected = p
  BY JumpArrives
<1> HIDE DEF v
<1>3. OneTakesKeys' /\ AskedHere'
  BY <1>1 DEF OneTakesKeys, AskedHere
<1>4. (Cardinality(open) + (IF overlay = "none" THEN 0 ELSE 1) + (IF ui.filtering THEN 1 ELSE 0) <= 1)'
  BY <1>3, OneIsTrue, PTL
<1>5. did'.what = "jump" /\ did'.asked = p /\ did'.got = v.selected
  BY <1>1
<1>6. JumpsLand'
  BY <1>1, <1>2, <1>5 DEF JumpsLand
<1> QED BY <1>1, <1>2, <1>3, <1>4, <1>5, <1>6 DEF ScreenInvariant, ScreenIsTrue, AnswersGoWhereAsked

(* What a key or a click does to a row.                                    *)
LEMMA ActStep ==
  ASSUME Idle, NEW u, IsPanel(u), ~u.filtering, NEW key, Act(u, key)
  PROVE  ScreenInvariant'
<1> DEFINE visible == VisibleOptions(u.selected)
           item == <<u.selected, visible[u.opt]>>
<1>1. ui' = u /\ IsPanel(ui')
  BY DEF Act
<1>2. CASE SetValue(item, item) /\ UNCHANGED <<open, overlay, choiceOpt>>
  BY <1>1, <1>2, SetStep DEF Idle
<1>3. CASE /\ overlay' = "choice" /\ choiceOpt' = item /\ did' = NoEffect
           /\ UNCHANGED <<on, open>>
  <2>1. OneTakesKeys'
    BY <1>1, <1>3 DEF OneTakesKeys, Idle
  <2>2. AskedHere'
    BY <1>1, <1>3 DEF AskedHere, Idle
  <2> QED BY <1>1, <1>3, <2>1, <2>2, Concluded DEF NoEffect
<1>4. CASE /\ u.opt \in DOMAIN visible /\ open' = open \cup {"edit"} /\ choiceOpt' = item
           /\ did' = NoEffect /\ UNCHANGED <<on, overlay>>
  <2>1. OneTakesKeys'
    BY <1>1, <1>4 DEF OneTakesKeys, Idle
  <2>2. Current' = item
    BY <1>1, <1>4 DEF Current, Visible, VisibleOptions
  <2>3. AskedHere'
    BY <2>2, <1>4 DEF AskedHere, Idle
  <2> QED BY <1>1, <1>4, <2>1, <2>3, Concluded DEF NoEffect
<1>5. CASE did' = NoEffect /\ UNCHANGED <<on, open, overlay, choiceOpt>>
  <2>1. OneTakesKeys' /\ AskedHere'
    BY <1>1, <1>5 DEF OneTakesKeys, AskedHere, Idle
  <2> QED BY <1>1, <1>5, <2>1, Concluded DEF NoEffect
<1>6. CASE open' = open \cup {"menuconfig"} /\ did' = NoEffect /\ UNCHANGED <<on, overlay, choiceOpt>>
  <2>1. OneTakesKeys' /\ AskedHere'
    BY <1>1, <1>6 DEF OneTakesKeys, AskedHere, Idle
  <2> QED BY <1>1, <1>6, <2>1, Concluded DEF NoEffect
<1> QED BY <1>2, <1>3, <1>4, <1>5, <1>6 DEF Act

LEMMA WhenIdle ==
  ASSUME ScreenInvariant
  PROVE  /\ Main => Idle /\ ~ui.filtering
         /\ Clickable => Idle /\ ~ui.filtering
         /\ InFilter => Idle
         /\ IsPanel(ui)
  BY DEF ScreenInvariant, OneTakesKeys, Main, Clickable, InFilter, Idle

LEMMA TreeKeysStep ==
  ASSUME ScreenInvariant,
         MoveTreeCursor \/ FoldNode \/ UnfoldNode \/ ToggleNode \/ CollapseAll \/ ExpandAll \/ HideEmpty
  PROVE  ScreenInvariant'
<1>0. Idle /\ IsPanel(ui)
  BY WhenIdle DEF InTree, MoveTreeCursor, FoldNode, UnfoldNode, ToggleNode, CollapseAll, ExpandAll, HideEmpty
<1>1. CASE MoveTreeCursor
  <2>1. PICK delta \in {"up", "down"} : Shows(Moved(ui, delta))
    BY <1>1 DEF MoveTreeCursor
  <2>2. IsPanel(Moved(ui, delta))
    BY <1>0, MovedKeeps
  <2> QED BY <1>0, <2>1, <2>2, ShowsStep
<1>2. \A nodes : IsPanel(Fold(ui, nodes)) /\ IsPanel(Unfold(ui, nodes))
  BY <1>0, ExpandKeeps DEF Fold, Unfold
<1>3. CASE FoldNode \/ CollapseAll
  BY <1>0, <1>2, <1>3, ShowsStep DEF FoldNode, CollapseAll
<1>4. CASE UnfoldNode \/ ExpandAll
  BY <1>0, <1>2, <1>4, ShowsStep DEF UnfoldNode, ExpandAll
<1>5. CASE ToggleNode
  BY <1>0, <1>2, <1>5, ShowsStep DEF ToggleNode
<1>6. CASE HideEmpty
  <2>1. IsPanel([ui EXCEPT !.hideEmpty = ~@])
    BY <1>0 DEF IsPanel, PanelFields
  <2>2. IsPanel(EnsureTreeCursorVisible(SelectCurrentNode(ClampCursor(
                  RebuildFlat([ui EXCEPT !.hideEmpty = ~@])))))
    BY <2>1, AgainKeeps
  <2> QED BY <1>0, <1>6, <2>2, ShowsStep DEF HideEmpty
<1> QED BY <1>1, <1>3, <1>4, <1>5, <1>6

LEMMA NoQueryKeeps ==
  ASSUME NEW u, IsPanel(u)
  PROVE  LET v == [u EXCEPT !.query = NoQuery] IN
         IsPanel(v) /\ v.query = NoQuery /\ v.flat = u.flat /\ v.filtering = u.filtering
  BY DEF IsPanel, PanelFields

LEMMA NodeOfRow ==
  ASSUME NEW u, IsPanel(u), NEW i \in DOMAIN u.flat
  PROVE  \E k \in DOMAIN Tree : Name(Tree[k]) = Name(u.flat[i])
<1>1. u.flat[i] \in ToSet(Tree)
  BY DEF IsPanel, Places
<1> QED BY <1>1 DEF ToSet

LEMMA MainKeysStep ==
  ASSUME ScreenInvariant,
         Interrupt \/ SaveAndQuit \/ StartSearch \/ Escape \/ SwitchPanel \/ JumpFromList
  PROVE  ScreenInvariant'
<1>0. Idle /\ IsPanel(ui) /\ ~ui.filtering
  BY WhenIdle DEF InTree, Interrupt, SaveAndQuit, StartSearch, Escape, SwitchPanel, JumpFromList
<1>1. CASE Interrupt
  BY <1>0, <1>1, LeaveStep DEF Interrupt
<1>2. CASE SaveAndQuit
  BY <1>2, QuitsStep DEF SaveAndQuit
<1>3. CASE StartSearch
  BY <1>0, <1>3, WithFieldKeeps, ShowsStep DEF StartSearch
<1>4. CASE Escape
  <2>1. CASE Shows(EnsureTreeCursorVisible(SelectCurrentNode(ClampCursor(
                     RebuildFlat([ui EXCEPT !.query = NoQuery])))))
    <3>1. IsPanel([ui EXCEPT !.query = NoQuery])
      BY <1>0, NoQueryKeeps
    <3>2. IsPanel(EnsureTreeCursorVisible(SelectCurrentNode(ClampCursor(
                    RebuildFlat([ui EXCEPT !.query = NoQuery])))))
      BY <3>1, AgainKeeps
    <3> QED BY <1>0, <2>1, <3>2, ShowsStep
  <2>2. CASE Leave
    BY <1>0, <2>2, LeaveStep
  <2>3. CASE Shows([ui EXCEPT !.focus = "tree"])
    <3>1. IsPanel([ui EXCEPT !.focus = "tree"])
      BY <1>0, WithFieldKeeps
    <3> QED BY <1>0, <2>3, <3>1, ShowsStep
  <2> QED BY <1>4, <2>1, <2>2, <2>3 DEF Escape
<1>5. CASE SwitchPanel
  <2>1. IsPanel([ui EXCEPT !.focus = IF @ = "tree" THEN "options" ELSE "tree"])
    BY <1>0 DEF IsPanel, PanelFields
  <2> QED BY <1>0, <1>5, <2>1, ShowsStep DEF SwitchPanel
<1>6. CASE JumpFromList
  <2> DEFINE left == [ui EXCEPT !.query = NoQuery]
  <2>1. IsPanel(left) /\ left.query = NoQuery
    BY <1>0, NoQueryKeeps
  <2>2. CASE Shows(RebuildFlat(left))
    <3> HIDE DEF left
    <3>1. IsPanel(RebuildFlat(left))
      BY <2>1, RebuildKeeps
    <3> QED BY <1>0, <2>2, <3>1, ShowsStep
  <2>3. CASE ui.cursor \in DOMAIN ui.flat /\ \E option : Jumps(left, Name(AtCursor), option)
    <3>1. PICK k \in DOMAIN Tree : Name(Tree[k]) = Name(AtCursor)
      BY <1>0, <2>3, NodeOfRow DEF AtCursor
    <3>2. PICK option : Jumps(left, Name(AtCursor), option)
      BY <2>3
    <3> HIDE DEF left
    <3> QED BY <1>0, <2>1, <3>1, <3>2, JumpsStep
  <2> QED BY <1>6, <2>2, <2>3 DEF JumpFromList
<1> QED BY <1>1, <1>2, <1>3, <1>4, <1>5, <1>6

LEMMA SearchKeysStep ==
  ASSUME ScreenInvariant, TypeQuery \/ CancelSearch \/ ConfirmSearch
  PROVE  ScreenInvariant'
<1>0. Idle /\ IsPanel(ui)
  BY WhenIdle DEF TypeQuery, CancelSearch, ConfirmSearch
<1>1. CASE TypeQuery
  <2>1. PICK q : Shows(RebuildFlat([ui EXCEPT !.query = q]))
    BY <1>1 DEF TypeQuery
  <2>2. IsPanel([ui EXCEPT !.query = q])
    BY <1>0, WithFieldKeeps
  <2>3. IsPanel(RebuildFlat([ui EXCEPT !.query = q]))
    BY <2>2, RebuildKeeps
  <2> QED BY <1>0, <2>1, <2>3, ShowsStep
<1>2. CASE CancelSearch
  <2> DEFINE u == [ui EXCEPT !.query = NoQuery, !.filtering = FALSE]
  <2>1. IsPanel(u)
    BY <1>0 DEF IsPanel, PanelFields
  <2>2. Shows(SelectFirstPkg(RebuildFlat(u)))
    BY <1>2 DEF CancelSearch
  <2> HIDE DEF u
  <2>3. IsPanel(SelectFirstPkg(RebuildFlat(u)))
    BY <2>1, RebuildKeeps, FirstKeeps
  <2> QED BY <1>0, <2>2, <2>3, ShowsStep
<1>3. CASE ConfirmSearch
  <2> DEFINE left == [ui EXCEPT !.filtering = FALSE]
             bare == [left EXCEPT !.query = NoQuery]
             shut == RebuildFlat(bare)
             direct == {i \in DOMAIN left.flat : DirectMatch(left.flat[i], ui.query)}
             row == IF ui.query = NoQuery \/ direct = {} THEN 1 ELSE Min(direct)
             there == [left EXCEPT !.focus = "tree", !.cursor = row]
  <2>1. IsPanel(left)
    BY <1>0, WithFieldKeeps
  <2>2. IsPanel(bare) /\ bare.query = NoQuery
    <3> HIDE DEF left
    <3> QED BY <2>1, NoQueryKeeps
  <2>3. IsPanel(shut) /\ shut.query = NoQuery
    <3> HIDE DEF bare
    <3> QED BY <2>2, RebuildKeeps DEF PanelSame
  <2>4. CASE Shows(SelectFirstPkg(shut))
    <3> HIDE DEF shut
    <3>1. IsPanel(SelectFirstPkg(shut))
      BY <2>3, FirstKeeps
    <3> QED BY <1>0, <2>4, <3>1, ShowsStep
  <2>5. CASE Shows(shut)
    <3> HIDE DEF shut
    <3> QED BY <1>0, <2>3, <2>5, ShowsStep
  <2>6. CASE Matching(ui.query) # {} /\ \E option : Jumps(shut, FirstMatch(ui.query), option)
    <3>1. PICK option : Jumps(shut, FirstMatch(ui.query), option)
      BY <2>6
    <3>2. Matching(ui.query) \subseteq DOMAIN Tree /\ DOMAIN Tree \subseteq Nat
      BY ScreenAssumption DEF Matching
    <3>3. Min(Matching(ui.query)) \in Matching(ui.query)
      BY <2>6, <3>2, MinIsIn
    <3>4. PICK k \in DOMAIN Tree : Name(Tree[k]) = FirstMatch(ui.query)
      BY <3>2, <3>3 DEF FirstMatch
    <3> HIDE DEF shut
    <3> QED BY <1>0, <2>3, <3>1, <3>4, JumpsStep
  <2>7. CASE Shows(EnsureTreeCursorVisible(SelectCurrentNode(there)))
    <3>1. direct \subseteq Nat \ {0}
      BY <2>1 DEF IsPanel
    <3>2. row \in Nat \ {0}
      <4> HIDE DEF direct
      <4>1. direct # {} => Min(direct) \in direct
        BY <3>1, MinIsIn
      <4>2. direct # {} => Min(direct) \in Nat \ {0}
        <5> DEFINE least == Min(direct)
        <5>1. direct # {} => least \in direct
          BY <4>1
        <5> HIDE DEF least
        <5>2. direct # {} => least \in Nat \ {0}
          BY <3>1, <5>1
        <5> QED BY <5>2 DEF least
      <4>3. 1 \in Nat \ {0}
        OBVIOUS
      <4> QED BY <4>2, <4>3, Zenon
    <3> HIDE DEF left, row
    <3>3. IsPanel(there)
      BY <2>1, <3>2 DEF IsPanel, PanelFields
    <3> HIDE DEF there
    <3>4. IsPanel(EnsureTreeCursorVisible(SelectCurrentNode(there)))
      BY <3>3, SelectKeeps, EnsureKeeps
    <3> QED BY <1>0, <2>7, <3>4, ShowsStep
  <2>8. \/ Shows(SelectFirstPkg(shut)) \/ Shows(shut)
        \/ Matching(ui.query) # {} /\ \E option : Jumps(shut, FirstMatch(ui.query), option)
        \/ Shows(EnsureTreeCursorVisible(SelectCurrentNode(there)))
    BY <1>3 DEF ConfirmSearch
  <2> QED BY <2>4, <2>5, <2>6, <2>7, <2>8
<1> QED BY <1>1, <1>2, <1>3

LEMMA OptionKeysStep ==
  ASSUME ScreenInvariant,
         MoveOptionCursor \/ ActOnOption \/ ResetOption \/ OpenDetail \/ StartDescription
  PROVE  ScreenInvariant'
<1>0. Idle /\ IsPanel(ui) /\ ~ui.filtering
  BY WhenIdle DEF InOptions, MoveOptionCursor, ActOnOption, ResetOption, OpenDetail, StartDescription
<1>1. CASE MoveOptionCursor
  <2>1. PICK delta : Shows(MoveOption(ui, delta))
    BY <1>1 DEF MoveOptionCursor
  <2>2. IsPanel(MoveOption(ui, delta))
    BY <1>0 DEF IsPanel, PanelFields, MoveOption
  <2> QED BY <1>0, <2>1, <2>2, ShowsStep
<1>2. CASE ActOnOption
  BY <1>0, <1>2, ActStep DEF ActOnOption
<1>3. CASE ResetOption
  <2>1. CASE Sets(Current, Current)
    BY <1>0, <2>1, SetStep DEF Sets, Idle
  <2>2. CASE Shows(ui)
    BY <1>0, <2>2, ShowsStep
  <2> QED BY <1>3, <2>1, <2>2 DEF ResetOption, Shows
<1>4. CASE OpenDetail
  <2>1. ui' = ui /\ open' = {} /\ overlay' = "detail" /\ did' = NoEffect
    BY <1>0, <1>4 DEF OpenDetail, Idle
  <2>2. OneTakesKeys' /\ AskedHere'
    BY <1>0, <2>1 DEF OneTakesKeys, AskedHere
  <2> QED BY <1>0, <2>1, <2>2, Concluded DEF NoEffect
<1>5. CASE StartDescription
  BY <1>0, <1>5, OpensStep DEF StartDescription
<1> QED BY <1>1, <1>2, <1>3, <1>4, <1>5

(* What is open is closed, and nothing else is open then.                  *)
LEMMA ClosedStep ==
  ASSUME ScreenInvariant, open # {} \/ overlay # "none",
         ui' = ui, did' = NoEffect, overlay' = "none", open' = {}
  PROVE  ScreenInvariant'
<1>1. OneTakesKeys' /\ AskedHere'
  BY DEF OneTakesKeys, AskedHere
<1> QED BY <1>1, Concluded DEF NoEffect, ScreenInvariant

LEMMA OneOpen ==
  ASSUME ScreenInvariant, NEW what \in open
  PROVE  overlay = "none" /\ open \ {what} = {}
  BY DEF ScreenInvariant, OneTakesKeys

LEMMA DialogStep ==
  ASSUME ScreenInvariant,
         ConfirmQuit \/ CancelQuit \/ CancelEdit \/ EndDescription \/ MenuconfigDone
  PROVE  ScreenInvariant'
<1>1. CASE ConfirmQuit
  BY <1>1, QuitsStep DEF ConfirmQuit
<1>2. CASE CancelQuit
  BY <1>2, OneOpen, ClosedStep DEF CancelQuit, InConfirm, Shuts
<1>3. CASE CancelEdit
  BY <1>3, OneOpen, ClosedStep DEF CancelEdit, InEdit
<1>4. CASE EndDescription
  BY <1>4, OneOpen, ClosedStep DEF EndDescription, InDescription
<1>5. CASE MenuconfigDone
  BY <1>5, OneOpen, ClosedStep DEF MenuconfigDone
<1> QED BY <1>1, <1>2, <1>3, <1>4, <1>5

(* The answer goes to the option that was asked: nothing has moved since.  *)
LEMMA AnswerStep ==
  ASSUME ScreenInvariant, CloseOverlay \/ Choose \/ CommitEdit
  PROVE  ScreenInvariant'
<1>1. CASE CloseOverlay
  <2>1. open = {}
    BY <1>1 DEF CloseOverlay, InOverlay, ScreenInvariant, OneTakesKeys
  <2> QED BY <1>1, <2>1, ClosedStep DEF CloseOverlay, InOverlay
<1>2. CASE Choose
  <2>1. open = {} /\ choiceOpt = <<ui.selected, choiceOpt[2]>>
    BY <1>2 DEF Choose, InOverlay, ScreenInvariant, OneTakesKeys, AskedHere
  <2>2. did' = [what |-> "set", asked |-> choiceOpt, got |-> <<ui.selected, choiceOpt[2]>>]
    BY <1>2 DEF Choose, SetValue
  <2>3. ui' = ui /\ open' = {} /\ overlay' = "none"
    BY <1>2, <2>1 DEF Choose
  <2>4. OneTakesKeys' /\ AskedHere'
    BY <2>3 DEF OneTakesKeys, AskedHere
  <2>5. did'.what = "set" /\ did'.got = did'.asked
    BY <2>1, <2>2
  <2> QED BY <2>3, <2>4, <2>5, Concluded DEF ScreenInvariant
<1>3. CASE CommitEdit
  <2>1. "edit" \in open /\ open \ {"edit"} = {} /\ choiceOpt = Current /\ overlay = "none"
    BY <1>3, OneOpen DEF CommitEdit, InEdit, ScreenInvariant, AskedHere
  <2>2. did' = [what |-> "set", asked |-> choiceOpt, got |-> Current]
    BY <1>3 DEF CommitEdit, SetValue
  <2>3. ui' = ui /\ open' = {} /\ overlay' = "none"
    BY <1>3, <2>1 DEF CommitEdit
  <2>4. OneTakesKeys' /\ AskedHere'
    BY <2>3 DEF OneTakesKeys, AskedHere
  <2>5. did'.what = "set" /\ did'.got = did'.asked
    BY <2>1, <2>2
  <2> QED BY <2>3, <2>4, <2>5, Concluded DEF ScreenInvariant
<1> QED BY <1>1, <1>2, <1>3

(* The screen is resized whatever is open: the cursors stay.               *)
LEMMA ResizeStep ==
  ASSUME ScreenInvariant, Resize
  PROVE  ScreenInvariant'
<1>1. PICK h \in Heights : Shows(EnsureTreeCursorVisible([ui EXCEPT !.height = h]))
  BY DEF Resize
<1> DEFINE u == [ui EXCEPT !.height = h]
           v == EnsureTreeCursorVisible(u)
<1>2. h \in Nat /\ IsPanel(ui)
  BY ScreenAssumption DEF ScreenInvariant
<1>3. /\ IsPanel(u) /\ PanelSame(ui, u) /\ u.selected = ui.selected /\ u.opt = ui.opt
  BY <1>2 DEF IsPanel, PanelFields, PanelSame
<1> HIDE DEF u
<1>4. IsPanel(v) /\ PanelSame(u, v) /\ v.selected = u.selected /\ v.opt = u.opt
  BY <1>3, EnsureKeeps
<1>5. ui' = v /\ did' = NoEffect /\ UNCHANGED <<on, open, overlay, choiceOpt>>
  BY <1>1 DEF Shows, u
<1> HIDE DEF v
<1>6. ui'.selected = ui.selected /\ ui'.opt = ui.opt /\ ui'.filtering = ui.filtering
  BY <1>3, <1>4, <1>5 DEF PanelSame
<1>7. OneTakesKeys'
  BY <1>5, <1>6 DEF ScreenInvariant, OneTakesKeys
<1>8. Current' = Current
  BY <1>5, <1>6 DEF Current, Visible, VisibleOptions
<1>9. AskedHere'
  BY <1>5, <1>6, <1>8 DEF ScreenInvariant, AskedHere
<1> QED BY <1>4, <1>5, <1>7, <1>9, Concluded DEF NoEffect

LEMMA MouseStep ==
  ASSUME ScreenInvariant,
         ClickTree \/ WheelTree \/ ClickOption \/ WheelOptions \/ ClickDescription \/ ClickLanguage
  PROVE  ScreenInvariant'
<1>0. Idle /\ IsPanel(ui) /\ ~ui.filtering
  <2>1. /\ ClickTree => Clickable
        /\ WheelTree => Clickable
        /\ ClickOption => Clickable
        /\ WheelOptions => Clickable
        /\ ClickDescription => Clickable
        /\ ClickLanguage => Clickable
    BY Zenon DEF ClickTree, WheelTree, ClickOption, WheelOptions, ClickDescription, ClickLanguage
  <2> QED BY <2>1, WhenIdle
<1>1. CASE ClickTree
  <2> DEFINE moved(i) == [ui EXCEPT !.focus = "tree", !.cursor = i]
             there(i) == SelectCurrentNode(moved(i))
             other(i, x) == RebuildFlat([there(i) EXCEPT !.expanded = x])
  <2>1. PICK i \in Drawn(ui) :
          \/ Shows(EnsureTreeCursorVisible(there(i)))
          \/ \E x : Shows(EnsureTreeCursorVisible(other(i, x)))
    <3>1. PICK i \in Drawn(ui) :
            Shows(EnsureTreeCursorVisible(
              IF ~HasChildren(ui.flat[i]) THEN there(i)
              ELSE RebuildFlat([there(i) EXCEPT !.expanded =
                     IF ui.flat[i] \in @ THEN @ \ {ui.flat[i]} ELSE @ \cup {ui.flat[i]}])))
      BY <1>1, Zenon DEF ClickTree
    <3> HIDE DEF there
    <3>2. CASE ~HasChildren(ui.flat[i])
      BY <3>1, <3>2
    <3>3. CASE HasChildren(ui.flat[i])
      BY <3>1, <3>3
    <3> QED BY <3>2, <3>3
  <2>2. i \in Nat \ {0}
    BY <1>0 DEF Drawn, IsPanel
  <2>3. IsPanel(moved(i))
    BY <1>0, <2>2 DEF IsPanel, PanelFields
  <2> HIDE DEF moved
  <2>4. IsPanel(there(i))
    BY <2>3, SelectKeeps
  <2> HIDE DEF there
  <2>5. IsPanel(EnsureTreeCursorVisible(there(i))) /\ \A x : IsPanel(EnsureTreeCursorVisible(other(i, x)))
    BY <2>4, EnsureKeeps, ExpandKeeps
  <2> HIDE DEF other
  <2> QED BY <1>0, <2>1, <2>5, ShowsStep
<1>2. CASE WheelTree
  <2> DEFINE u == [ui EXCEPT !.focus = "tree"]
  <2>1. PICK delta : Shows(Moved(u, delta))
    BY <1>2 DEF WheelTree
  <2>2. IsPanel(u)
    BY <1>0, WithFieldKeeps
  <2> HIDE DEF u
  <2>3. IsPanel(Moved(u, delta))
    BY <2>2, MovedKeeps
  <2> QED BY <1>0, <2>1, <2>3, ShowsStep
<1>3. CASE ClickOption
  <2>1. PICK i : Act([ui EXCEPT !.focus = "options", !.opt = i], "enter")
    BY <1>3, Zenon DEF ClickOption
  <2>2. LET u == [ui EXCEPT !.focus = "options", !.opt = i] IN IsPanel(u) /\ ~u.filtering
    BY <1>0 DEF IsPanel, PanelFields
  <2> QED BY <1>0, <2>1, <2>2, ActStep
<1>4. CASE WheelOptions
  <2> DEFINE u == [ui EXCEPT !.focus = "options"]
  <2>1. PICK delta : Shows(MoveOption(u, delta))
    BY <1>4 DEF WheelOptions
  <2>2. IsPanel(u)
    BY <1>0, WithFieldKeeps
  <2> HIDE DEF u
  <2>3. IsPanel(MoveOption(u, delta))
    BY <2>2 DEF IsPanel, PanelFields, MoveOption
  <2> QED BY <1>0, <2>1, <2>3, ShowsStep
<1>5. CASE ClickDescription
  <2>1. /\ ui' = [ui EXCEPT !.focus = "options"] /\ open' = {"description"} /\ overlay' = "none"
        /\ did' = NoEffect
    BY <1>0, <1>5 DEF ClickDescription, Idle
  <2>2. IsPanel(ui') /\ ui'.filtering = ui.filtering
    BY <1>0, <2>1 DEF IsPanel, PanelFields
  <2>3. OneTakesKeys' /\ AskedHere'
    BY <1>0, <2>1, <2>2 DEF OneTakesKeys, AskedHere
  <2> QED BY <2>1, <2>2, <2>3, Concluded DEF NoEffect
<1>6. CASE ClickLanguage
  <2>1. ui' = ui /\ open' = {} /\ overlay' = "language" /\ did' = NoEffect
    BY <1>0, <1>6 DEF ClickLanguage, Idle
  <2>2. OneTakesKeys' /\ AskedHere'
    BY <1>0, <2>1 DEF OneTakesKeys, AskedHere
  <2> QED BY <1>0, <2>1, <2>2, Concluded DEF NoEffect
<1> QED BY <1>1, <1>2, <1>3, <1>4, <1>5, <1>6

LEMMA ScreenStep == ScreenInvariant /\ [ScreenNext]_screenVars => ScreenInvariant'
<1> SUFFICES ASSUME ScreenInvariant, [ScreenNext]_screenVars PROVE ScreenInvariant'
  OBVIOUS
<1>1. CASE UNCHANGED screenVars
  <2>1. Current' = Current
    BY <1>1 DEF screenVars, Current, Visible, VisibleOptions
  <2>2. IsPanel(ui)' /\ OneTakesKeys' /\ AskedHere'
    BY <1>1, <2>1 DEF screenVars, ScreenInvariant, OneTakesKeys, AskedHere
  <2>3. ScreenIsTrue'
    BY <1>1 DEF screenVars, ScreenInvariant, ScreenIsTrue, AnswersGoWhereAsked, JumpsLand
  <2> QED BY <2>2, <2>3 DEF ScreenInvariant
<1>2. CASE ScreenNext
  BY <1>2, MainKeysStep, TreeKeysStep, SearchKeysStep, OptionKeysStep, DialogStep, AnswerStep,
     ResizeStep, MouseStep DEF ScreenNext
<1> QED BY <1>1, <1>2

(* The inductive invariant of the screen: one thing takes the keys, an     *)
(* answer is asked of the option it goes to, and the tree panel has rows   *)
(* of nodes and a cursor.                                                  *)
THEOREM ScreenInductive == ScreenSpec => []ScreenInvariant
<1>1. ScreenInit => ScreenInvariant
  <2> HAVE ScreenInit
  <2>1. PICK h \in Heights : ui = StartScreen(h)
    BY DEF ScreenInit
  <2>2. IsPanel(ui)
    BY <2>1, StartKeeps, ScreenAssumption
  <2>3. OneTakesKeys /\ AskedHere
    BY DEF ScreenInit, OneTakesKeys, AskedHere
  <2>4. did.what # "jump" /\ did.what # "set"
    BY DEF ScreenInit, NoEffect
  <2> QED BY <2>2, <2>3, <2>4, OneIsTrue
         DEF ScreenInvariant, ScreenIsTrue, AnswersGoWhereAsked, JumpsLand
<1> QED BY <1>1, ScreenStep, PTL DEF ScreenSpec

(* A value goes to the option it was typed or picked for, one thing takes  *)
(* the keys at a time, and a jump ends on the package it names: whatever   *)
(* the tree, the options and what the search finds.                        *)
THEOREM ScreenHolds == ScreenSpec => []ScreenIsTrue
<1>1. ScreenInvariant => ScreenIsTrue
  BY DEF ScreenInvariant
<1> QED BY <1>1, ScreenInductive, PTL
=============================================================================
