------------------------------- MODULE Catalog -------------------------------
(***************************************************************************)
(* TargetCatalog::discover_all_targets: for every Android user, judge from *)
(* the storage whether the credential-encrypted (CE) part is unlocked,     *)
(* collect the cache directories the judgement allows into a staging map,  *)
(* and publish that as the new snapshot.  Users unlock and leave, and apps *)
(* come and go, between any two of these steps.                            *)
(*                                                                         *)
(* A package has one cache directory per area; the sixteen names           *)
(* KNOWN_CACHE_SUBDIRS lists are alike.                                    *)
(***************************************************************************)
EXTENDS Naturals, Sequences, FiniteSets

CONSTANTS
  Users,        \* user ids; 0 is the system user
  Caches,       \* the cache directories there can be: [user, pkg, area]
  ProbeLimit,   \* entries of the CE directory that are tested (8)
  MaxTargets,   \* size at which collecting packages stops (5000)
  MaxGen,       \* the last catalog generation (2^64 - 1)
  MaxMoves      \* bound on what users and apps do

VARIABLES
  ce,         \* per user, the CE directory: "absent", "unreadable", "readable"
  locked,     \* per user, packages whose CE entry cannot be accessed
  de,         \* per user, does the device-encrypted (DE) directory exist?
  caches,     \* the cache directories on disk
  junk,       \* is one of SYSTEM_JUNK_LOCATIONS there?
  moves,      \* what users and apps have done so far
  step,       \* "idle", "users", "fallback"
  users,      \* users the discovery has not treated yet
  who, areas, \* the user it collects for, the areas still to read
  judged,     \* what it judged of each user
  staging, nextGen,
  snapshot,   \* the published [gen, targets]
  steady,     \* history: caches that could be opened since the discovery began
  basis       \* history: judgements and steady caches behind the snapshot, and
              \* whether one has named targets

envVars == <<ce, locked, de, caches, junk, moves>>
catVars == <<envVars, step, users, who, areas, judged, staging, nextGen, snapshot,
             steady, basis>>

Packages == {c.pkg : c \in Caches}

\* "system" stands for the ids of SYSTEM_JUNK_LOCATIONS, which have a prefix of
\* their own.
ASSUME CatalogAssumption ==
  /\ 0 \in Users
  /\ IsFiniteSet(Caches)
  /\ \A c \in Caches :
       /\ c = [user |-> c.user, pkg |-> c.pkg, area |-> c.area]
       /\ c.user \in Users /\ c.area \in {"ce", "de", "ext"} /\ c.pkg # "system"
  /\ MaxTargets \in Nat
  /\ MaxGen \in Nat \ {0}

\* SafeDirHandle::open_root succeeds on a cache directory.
Openable(c) ==
  /\ c \in caches
  /\ c.area = "ce" => ce[c.user] = "readable" /\ c.pkg \notin locked[c.user]
  /\ c.area = "de" => de[c.user]

\* The id of an internal cache names the user and the package, not the area.
TargetIdOf(c) == [user |-> c.user, pkg |-> c.pkg, ext |-> c.area = "ext"]
SystemCache == [user |-> 0, pkg |-> "system", area |-> "junk"]
Describe(c) == [id |-> TargetIdOf(c), of |-> c, gen |-> nextGen]

CatInit ==
  /\ ce \in [Users -> {"absent", "unreadable", "readable"}]
  /\ locked \in [Users -> SUBSET Packages]
  /\ de \in [Users -> BOOLEAN]
  /\ caches \in SUBSET Caches
  /\ junk \in BOOLEAN
  /\ moves = 0
  /\ step = "idle"
  /\ users = {}
  /\ who = 0 /\ areas = << >>
  /\ judged = [u \in Users |-> "none"]
  /\ staging = {}
  /\ nextGen = 1
  /\ snapshot = [gen |-> 1, targets |-> {}]
  /\ steady = {}
  /\ basis = [judged |-> judged, steady |-> {}, filled |-> FALSE]

-----------------------------------------------------------------------------
\* Users and apps.

Moves ==
  /\ moves < MaxMoves /\ moves' = moves + 1
  /\ steady' = {c \in steady : Openable(c)'}
  /\ UNCHANGED <<junk, step, users, who, areas, judged, staging, nextGen, snapshot, basis>>

KeyChanges(u) ==
  /\ locked' = [locked EXCEPT ![u] = IF @ = {} THEN Packages ELSE {}]
  /\ UNCHANGED <<ce, de, caches>>
  /\ Moves

CacheChanges(c) ==
  /\ caches' = IF c \in caches THEN caches \ {c} ELSE caches \cup {c}
  /\ UNCHANGED <<ce, locked, de>>
  /\ Moves

UserRemoved(u) ==
  /\ u # 0
  /\ ce' = [ce EXCEPT ![u] = "absent"]
  /\ de' = [de EXCEPT ![u] = FALSE]
  /\ caches' = {c \in caches : c.user # u}
  /\ UNCHANGED locked
  /\ Moves

-----------------------------------------------------------------------------
\* discover_all_targets

\* User 0 and whoever has a directory below /data; other sources may name more.
enumerate_users == {0} \cup {u \in Users : ce[u] # "absent" \/ de[u]}

DiscoveryBegins ==
  /\ step = "idle"
  /\ \E more \in SUBSET Users : users' = enumerate_users \cup more
  /\ step' = "users"
  /\ nextGen' = IF snapshot.gen = MaxGen THEN snapshot.gen ELSE snapshot.gen + 1
  /\ staging' = {}
  /\ judged' = [u \in Users |-> "none"]
  /\ steady' = {c \in Caches : Openable(c)}
  /\ UNCHANGED <<envVars, who, areas, snapshot, basis>>

\* An app's CE directory comes and goes with its cache.
Entries(u) == {c.pkg : c \in {x \in caches : x.user = u /\ x.area = "ce"}}

\* The entries tested: the first ones, in the order the directory lists them.
Probes(u) ==
  {S \in SUBSET Entries(u) :
     Cardinality(S) <= ProbeLimit /\ (S = Entries(u) \/ Cardinality(S) = ProbeLimit)}

\* /data exists: without it everybody is Unencrypted and nothing can be opened.
check_encryption_state(u, probe) ==
  IF ce[u] = "readable" /\ probe # {} /\ probe \cap locked[u] = {}
  THEN "FullyUnlocked"
  ELSE IF de[u] THEN "DeviceEncryptedOnly" ELSE "Unknown"

\* Mutation: the CE directory of a locked user is tried all the same.
AreasUnlessUnknown(state) == IF state = "Unknown" THEN << >> ELSE <<"ce", "de", "ext">>

AreasFor(state) ==
  CASE state = "FullyUnlocked" -> <<"ce", "de", "ext">>
    [] state = "DeviceEncryptedOnly" -> <<"de">>
    [] state = "Unknown" -> << >>

JudgeUser(u) ==
  /\ step = "users" /\ areas = << >>
  /\ u \in users /\ \A v \in users : u <= v
  /\ \E probe \in Probes(u) :
       LET state == check_encryption_state(u, probe)
       IN /\ judged' = [judged EXCEPT ![u] = state]
          /\ areas' = AreasFor(state)
  /\ users' = users \ {u}
  /\ who' = u
  /\ UNCHANGED <<envVars, step, staging, nextGen, snapshot, steady, basis>>

\* Packages are left out once there are more than MaxTargets, except on
\* external storage.
Room(area) ==
  IF area = "ext" THEN Cardinality(Caches)
  ELSE IF Cardinality(staging) > MaxTargets THEN 0
  ELSE MaxTargets + 1 - Cardinality(staging)

\* collect_android_user_targets and collect_android_external_targets on one
\* directory; an id that is staged already is kept as it is.
Collect ==
  /\ step # "idle" /\ areas # << >>
  /\ LET area == Head(areas)
         fresh == {c \in Caches : /\ c.user = who /\ c.area = area /\ Openable(c)
                                  /\ TargetIdOf(c) \notin {t.id : t \in staging}}
     IN \E S \in SUBSET fresh :
          /\ Cardinality(S) <= Room(area) /\ (S = fresh \/ Cardinality(S) = Room(area))
          /\ staging' = staging \cup {Describe(c) : c \in S}
  /\ areas' = Tail(areas)
  /\ UNCHANGED <<envVars, step, users, who, judged, nextGen, snapshot, steady, basis>>

NobodyRecognised == \A u \in Users : judged[u] \in {"none", "Unknown"}

\* No user was recognised: the directories of user 0 are read unjudged.
FallBack ==
  /\ step = "users" /\ users = {} /\ areas = << >>
  /\ NobodyRecognised
  /\ step' = "fallback"
  /\ who' = 0 /\ areas' = <<"ce", "de", "ce">>
  /\ UNCHANGED <<envVars, users, judged, staging, nextGen, snapshot, steady, basis>>

AllStaged == staging \cup IF junk THEN {Describe(SystemCache)} ELSE {}

\* An empty discovery does not replace a snapshot that is not empty.
PublishStaged ==
  IF AllStaged # {} \/ snapshot.targets = {}
  THEN /\ snapshot' = [gen |-> nextGen, targets |-> AllStaged]
       /\ basis' = [judged |-> judged, steady |-> steady, filled |-> basis.filled \/ AllStaged # {}]
  ELSE UNCHANGED <<snapshot, basis>>

Publish ==
  /\ \/ step = "users" /\ users = {} /\ areas = << >> /\ ~NobodyRecognised
     \/ step = "fallback" /\ areas = << >>
  /\ PublishStaged
  /\ step' = "idle"
  /\ UNCHANGED <<envVars, users, who, areas, judged, staging, nextGen, steady>>

-----------------------------------------------------------------------------

CatNext ==
  \/ \E u \in Users : KeyChanges(u) \/ UserRemoved(u)
  \/ \E c \in Caches : CacheChanges(c)
  \/ DiscoveryBegins
  \/ \E u \in Users : JudgeUser(u)
  \/ Collect \/ FallBack \/ Publish

CatSpec == CatInit /\ [][CatNext]_catVars

-----------------------------------------------------------------------------

CatTypeOK ==
  /\ step \in {"idle", "users", "fallback"}
  /\ users \subseteq Users /\ who \in Users
  /\ nextGen \in 1 .. MaxGen /\ snapshot.gen \in 1 .. MaxGen
  /\ {t.of : t \in staging \cup snapshot.targets} \subseteq Caches \cup {SystemCache}

Recognised(u) == basis.judged[u] \notin {"none", "Unknown"}

\* The snapshot a job works from: one descriptor per id, all of one
\* generation, as the mutation boundary demands; external directories only of
\* users judged unlocked in the discovery that published it, and CE directories
\* too if that discovery recognised any user at all (UnknownNeverCleaned is about
\* the others); and no cache of a recognised user is left out that could be
\* opened throughout, unless its CE twin holds its id or the limit was reached.
\* Once it names targets it is never replaced by an empty one: storage that
\* cannot be read for a moment leaves the last valid one.
SnapshotSound ==
  /\ basis.filled => snapshot.targets # {}
  /\ \A t \in snapshot.targets :
       /\ t.gen = snapshot.gen
       /\ \A s \in snapshot.targets : s.id = t.id => s = t
       /\ t.of.area = "ext" => basis.judged[t.of.user] = "FullyUnlocked"
       /\ t.of.area = "ce" /\ (\E u \in Users : Recognised(u)) =>
            basis.judged[t.of.user] = "FullyUnlocked"
  /\ \A c \in basis.steady :
       \/ ~Recognised(c.user)
       \/ basis.judged[c.user] = "DeviceEncryptedOnly" /\ c.area # "de"
       \/ TargetIdOf(c) \in {t.id : t \in snapshot.targets}
       \/ Cardinality(snapshot.targets) > MaxTargets

\* encryption.rs says of Unknown "Unverified/Ambiguous -> fail-closed (NEVER
\* clean)": no job gets the CE directory of a user whose storage the discovery
\* could not verify.
UnknownNeverCleaned ==
  \A t \in snapshot.targets :
    t.of.area = "ce" => basis.judged[t.of.user] # "Unknown"
=============================================================================
