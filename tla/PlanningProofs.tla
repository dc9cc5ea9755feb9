--------------------------- MODULE PlanningProofs ---------------------------
(***************************************************************************)
(* What a job works on: every snapshot of the catalog is sound, and every  *)
(* plan is executable and keeps the rules, for all storages, trees,        *)
(* configurations and limits.                                              *)
(*                                                                         *)
(* The inductive invariant PlanInv follows a job from its scan to its      *)
(* plan: the open directories are nested and hold what has not been found  *)
(* yet, what was read of an entry no app touched is how it stands, nothing *)
(* is passed over unnoticed, every permit was judged, and the plan is the  *)
(* one the permits give.  That a complete scan found every untouched entry *)
(* is shown for the shallowest one it did not find.                        *)
(***************************************************************************)
EXTENDS Catalog, Planning, FiniteSetTheorems, WellFoundedInduction, TLAPS

-----------------------------------------------------------------------------
(***************************************************************************)
(* The catalog                                                             *)
(***************************************************************************)
\* Where a cache is: credential- or device-encrypted storage, or external.
Areas == {"ce", "de", "ext"}
\* What the discovery knows of a user.
Judgements == {"none", "FullyUnlocked", "DeviceEncryptedOnly", "Unknown"}
\* The ids of the targets staged so far.
StagedIds == {t.id : t \in staging}

\* The types of the catalog's variables, staging in progress included.
CatTyped ==
  /\ CatTypeOK
  /\ areas \in Seq(Areas)
  /\ judged \in [Users -> Judgements]
  /\ basis.judged \in [Users -> Judgements]
  /\ steady \subseteq Caches /\ basis.steady \subseteq Caches
  /\ IsFiniteSet(staging)
  /\ step = "idle" => areas = << >>

\* What is staged: descriptors of caches, of the generation to come, one per id,
\* CE and external ones only of users judged unlocked, CE ones also after nobody was.
StagedAsJudged ==
  /\ \A t \in staging : \E c \in Caches : t = Describe(c)
  /\ \A s, t \in staging : s.id = t.id => s = t
  /\ \A t \in staging : t.of.area \in {"ce", "ext"} =>
       \/ judged[t.of.user] = "FullyUnlocked"
       \/ t.of.area = "ce" /\ step # "users" /\ NobodyRecognised

\* What is about to be read, and of whom.
ReadingAsJudged ==
  /\ step = "users" => \A u \in users : judged[u] = "none"
  /\ step = "fallback" => NobodyRecognised /\ \A i \in 1 .. Len(areas) : areas[i] # "ext"
  /\ step = "users" => \A i \in 1 .. Len(areas) :
       areas[i] \in {"ce", "ext"} => judged[who] = "FullyUnlocked"

\* Who could be opened all along is staged, about to be read, or has a reason.
NoneForgotten ==
  \A c \in steady :
    /\ Openable(c)
    /\ \/ judged[c.user] \in {"none", "Unknown"}
       \/ judged[c.user] = "DeviceEncryptedOnly" /\ c.area # "de"
       \/ TargetIdOf(c) \in StagedIds
       \/ Cardinality(staging) > MaxTargets
       \/ c.user = who /\ \E i \in 1 .. Len(areas) : areas[i] = c.area

\* The inductive invariant of Catalog.
CatInv == CatTyped /\ StagedAsJudged /\ ReadingAsJudged /\ NoneForgotten /\ SnapshotSound

\* What Tail leaves of a sequence.
LEMMA TailIs ==
  ASSUME NEW S, NEW s \in Seq(S), s # << >>
  PROVE  /\ Tail(s) \in Seq(S) /\ Len(Tail(s)) = Len(s) - 1
         /\ \A i \in 1 .. Len(s) - 1 : Tail(s)[i] = s[i + 1]
OBVIOUS

\* A cache belongs to a known user and an area, and to no package called system.
LEMMA CacheFacts ==
  ASSUME NEW c \in Caches
  PROVE  /\ c = [user |-> c.user, pkg |-> c.pkg, area |-> c.area]
         /\ c.user \in Users /\ c.area \in Areas /\ c.pkg # "system"
BY CatalogAssumption, Zenon DEF Areas

\* What a TargetDescriptor has from its cache.
LEMMA DescribeFields ==
  ASSUME NEW c
  PROVE  Describe(c).id = TargetIdOf(c) /\ Describe(c).of = c /\ Describe(c).gen = nextGen
BY DEF Describe

\* An id tells caches of one area apart, and a cache from the system's.
LEMMA IdsTellApart ==
  /\ \A c, d \in Caches : c.area = d.area /\ TargetIdOf(c) = TargetIdOf(d) => c = d
  /\ \A c \in Caches : TargetIdOf(c) # TargetIdOf(SystemCache)
<1>1. ASSUME NEW c \in Caches, NEW d \in Caches, c.area = d.area, TargetIdOf(c) = TargetIdOf(d)
      PROVE  c = d
  <2>1. c.user = d.user /\ c.pkg = d.pkg
    BY <1>1 DEF TargetIdOf
  <2> QED
    BY <1>1, <2>1, CacheFacts, Zenon
<1>2. ASSUME NEW c \in Caches, TargetIdOf(c) = TargetIdOf(SystemCache)
      PROVE  FALSE
  <2>1. c.pkg = "system"
    BY <1>2 DEF TargetIdOf, SystemCache
  <2> QED
    BY <2>1, CacheFacts, Zenon
<1> QED
  BY <1>1, <1>2, Zenon

\* Users and apps change what can be opened and nothing else.
LEMMA MovesKeep ==
  ASSUME CatInv, Moves
  PROVE  CatInv'
<1>1. /\ steady' = {c \in steady : Openable(c)'}
      /\ UNCHANGED <<junk, step, users, who, areas, judged, staging, nextGen, snapshot, basis>>
  BY Zenon DEF Moves
<1>2. CatTyped'
  BY <1>1, Zenon DEF CatInv, CatTyped, CatTypeOK
<1>3. StagedAsJudged' /\ ReadingAsJudged' /\ SnapshotSound'
  BY <1>1, Zenon DEF CatInv, StagedAsJudged, ReadingAsJudged, SnapshotSound, Recognised, Describe, NobodyRecognised
<1>4. NoneForgotten'
  <2> SUFFICES ASSUME NEW c \in steady'
               PROVE  /\ Openable(c)'
                      /\ \/ judged'[c.user] \in {"none", "Unknown"}
                         \/ judged'[c.user] = "DeviceEncryptedOnly" /\ c.area # "de"
                         \/ TargetIdOf(c) \in StagedIds'
                         \/ Cardinality(staging') > MaxTargets
                         \/ c.user = who' /\ \E i \in 1 .. Len(areas') : areas'[i] = c.area
    BY Zenon DEF NoneForgotten
  <2>1. c \in steady /\ Openable(c)'
    BY <1>1, Zenon
  <2>2. StagedIds' = StagedIds
    BY <1>1, Zenon DEF StagedIds
  <2> QED
    BY <1>1, <2>1, <2>2, Zenon DEF CatInv, NoneForgotten
<1> QED
  BY <1>2, <1>3, <1>4, Zenon DEF CatInv

\* Openable depends on the storage alone.
LEMMA SameStorage ==
  ASSUME UNCHANGED envVars, NEW c
  PROVE  Openable(c)' <=> Openable(c)
BY Zenon DEF envVars, Openable

\* A discovery starts with nothing judged and nothing staged.
LEMMA DiscoveryBeginsKeeps ==
  ASSUME CatInv, DiscoveryBegins
  PROVE  CatInv'
<1>1. /\ step = "idle" /\ step' = "users" /\ staging' = {}
      /\ judged' = [u \in Users |-> "none"]
      /\ steady' = {c \in Caches : Openable(c)}
      /\ UNCHANGED <<envVars, who, areas, snapshot, basis>>
  BY Zenon DEF DiscoveryBegins
<1>2. nextGen' \in 1 .. MaxGen
  BY CatalogAssumption DEF DiscoveryBegins, CatInv, CatTyped, CatTypeOK
<1>3. users' \subseteq Users
  BY CatalogAssumption, Zenon DEF DiscoveryBegins, enumerate_users
<1>4. areas = << >>
  BY <1>1, Zenon DEF CatInv, CatTyped
<1>5. {t.of : t \in staging' \cup snapshot'.targets} \subseteq Caches \cup {SystemCache}
  BY <1>1, Zenon DEF CatInv, CatTyped, CatTypeOK
<1>6. "none" \in Judgements /\ "users" \in {"idle", "users", "fallback"} /\ "users" # "fallback"
      /\ "users" # "idle"
  BY DEF Judgements
<1>7. IsFiniteSet(staging')
  BY <1>1, FS_EmptySet, Zenon
<1>8. CatTyped'
  BY <1>1, <1>2, <1>3, <1>5, <1>6, <1>7, Zenon DEF CatInv, CatTyped, CatTypeOK
<1>9. StagedAsJudged' /\ SnapshotSound'
  BY <1>1, Zenon DEF CatInv, StagedAsJudged, SnapshotSound, Recognised
<1>10. Len(areas') = 0
  BY <1>1, <1>4
<1>11. 1 .. Len(areas') = {}
  BY <1>10
<1>12. ReadingAsJudged'
  BY <1>1, <1>3, <1>6, <1>11, Zenon DEF ReadingAsJudged
<1>13. NoneForgotten'
  BY <1>1, SameStorage, CacheFacts, Zenon DEF NoneForgotten
<1> QED
  BY <1>8, <1>9, <1>12, <1>13, Zenon DEF CatInv

\* What the judgement lets be read.
LEMMA AreasForJudgement ==
  ASSUME NEW state \in {"FullyUnlocked", "DeviceEncryptedOnly", "Unknown"}
  PROVE  /\ AreasFor(state) \in Seq(Areas)
         /\ \A i \in 1 .. Len(AreasFor(state)) :
              AreasFor(state)[i] \in {"ce", "ext"} => state = "FullyUnlocked"
         /\ \A a \in Areas :
              \/ state = "Unknown"
              \/ state = "DeviceEncryptedOnly" /\ a # "de"
              \/ \E i \in 1 .. Len(AreasFor(state)) : AreasFor(state)[i] = a
<1>1. CASE state = "FullyUnlocked"
  <2>1. AreasFor(state) = <<"ce", "de", "ext">>
    BY <1>1 DEF AreasFor
  <2>2. /\ <<"ce", "de", "ext">> \in Seq(Areas)
        /\ \A a \in Areas : \E i \in 1 .. Len(<<"ce", "de", "ext">>) : <<"ce", "de", "ext">>[i] = a
    BY DEF Areas
  <2> QED
    BY <1>1, <2>1, <2>2, Zenon
<1>2. CASE state = "DeviceEncryptedOnly"
  <2>1. AreasFor(state) = <<"de">>
    BY <1>2 DEF AreasFor
  <2>2. /\ <<"de">> \in Seq(Areas)
        /\ \E i \in 1 .. Len(<<"de">>) : <<"de">>[i] = "de"
        /\ \A i \in 1 .. Len(<<"de">>) : <<"de">>[i] \notin {"ce", "ext"}
    BY DEF Areas
  <2> QED
    BY <1>2, <2>1, <2>2, Zenon
<1>3. CASE state = "Unknown"
  <2>1. AreasFor(state) = << >>
    BY <1>3 DEF AreasFor
  <2>2. << >> \in Seq(Areas) /\ 1 .. Len(<< >>) = {}
    OBVIOUS
  <2> QED
    BY <1>3, <2>1, <2>2, Zenon
<1> QED
  BY <1>1, <1>2, <1>3, Zenon

\* Judging a user keeps the invariant: the areas to read fit the judgement.
LEMMA JudgeUserKeeps ==
  ASSUME CatInv, NEW u \in Users, JudgeUser(u)
  PROVE  CatInv'
<1>1. /\ step = "users" /\ areas = << >> /\ u \in users
      /\ users' = users \ {u} /\ who' = u
      /\ UNCHANGED <<envVars, step, staging, nextGen, snapshot, steady, basis>>
  BY Zenon DEF JudgeUser
<1>2. PICK probe \in Probes(u) :
        /\ judged' = [judged EXCEPT ![u] = check_encryption_state(u, probe)]
        /\ areas' = AreasFor(check_encryption_state(u, probe))
  BY Zenon DEF JudgeUser
<1> DEFINE state == check_encryption_state(u, probe)
<1>3. state \in {"FullyUnlocked", "DeviceEncryptedOnly", "Unknown"}
  BY Zenon DEF check_encryption_state
<1> HIDE DEF state
<1>4. judged' = [judged EXCEPT ![u] = state] /\ areas' = AreasFor(state)
  BY <1>2, Zenon DEF state
<1>5. /\ judged' \in [Users -> Judgements] /\ judged'[u] = state
      /\ \A v \in Users \ {u} : judged'[v] = judged[v]
  BY <1>3, <1>4, Zenon DEF CatInv, CatTyped, Judgements
<1>6. CatTyped'
  BY <1>1, <1>3, <1>4, <1>5, AreasForJudgement, Zenon DEF CatInv, CatTyped, CatTypeOK
<1>7. judged[u] = "none"
  BY <1>1, Zenon DEF CatInv, ReadingAsJudged
<1>8. StagedAsJudged'
  <2>1. \A t \in staging : t.of \in Caches
    <3>1. ASSUME NEW t \in staging PROVE t.of \in Caches
      <4>1. PICK c \in Caches : t = Describe(c)
        BY Zenon DEF CatInv, StagedAsJudged
      <4> QED
        BY <4>1, DescribeFields, Zenon
    <3> QED
      BY <3>1, Zenon
  <2>2. ASSUME NEW t \in staging, t.of.area \in {"ce", "ext"}
        PROVE  judged'[t.of.user] = "FullyUnlocked"
    <3>1. judged[t.of.user] = "FullyUnlocked" /\ t.of.user \in Users
      BY <1>1, <2>1, <2>2, CacheFacts, Zenon DEF CatInv, StagedAsJudged
    <3>2. t.of.user # u
      BY <1>7, <3>1
    <3> QED
      BY <1>5, <3>1, <3>2, Zenon
  <2> QED
    BY <1>1, <2>2, Zenon DEF CatInv, StagedAsJudged, Describe
<1>9. ReadingAsJudged'
  <2>1. "users" # "fallback" /\ users \subseteq Users
    BY DEF CatInv, CatTyped, CatTypeOK
  <2>2. \A v \in users' : judged'[v] = "none"
    BY <1>1, <1>5, <2>1, Zenon DEF CatInv, ReadingAsJudged
  <2>3. \A i \in 1 .. Len(areas') : areas'[i] \in {"ce", "ext"} => judged'[who'] = "FullyUnlocked"
    BY <1>1, <1>3, <1>4, <1>5, AreasForJudgement, Zenon
  <2> QED
    BY <1>1, <2>1, <2>2, <2>3, Zenon DEF ReadingAsJudged
<1>10. NoneForgotten'
  <2> SUFFICES ASSUME NEW c \in steady
               PROVE  /\ Openable(c)'
                      /\ \/ judged'[c.user] \in {"none", "Unknown"}
                         \/ judged'[c.user] = "DeviceEncryptedOnly" /\ c.area # "de"
                         \/ TargetIdOf(c) \in StagedIds'
                         \/ Cardinality(staging') > MaxTargets
                         \/ c.user = who' /\ \E i \in 1 .. Len(areas') : areas'[i] = c.area
    BY <1>1, Zenon DEF NoneForgotten
  <2>1. c.user \in Users /\ c.area \in Areas
    BY CacheFacts, Zenon DEF CatInv, CatTyped
  <2>2. Openable(c)'
    BY <1>1, SameStorage, Zenon DEF CatInv, NoneForgotten
  <2>3. CASE c.user = u
    <3>1. judged'[c.user] = state /\ who' = c.user
      BY <1>1, <1>5, <2>3, Zenon
    <3>2. \/ state = "Unknown"
          \/ state = "DeviceEncryptedOnly" /\ c.area # "de"
          \/ \E i \in 1 .. Len(areas') : areas'[i] = c.area
      BY <1>3, <1>4, <2>1, AreasForJudgement, Zenon
    <3> QED
      BY <2>2, <3>1, <3>2, Zenon
  <2>4. CASE c.user # u
    <3>1. judged'[c.user] = judged[c.user]
      BY <1>5, <2>1, <2>4, Zenon
    <3>2. 1 .. Len(areas) = {}
      BY <1>1
    <3>3. StagedIds' = StagedIds
      BY <1>1, Zenon DEF StagedIds
    <3> QED
      BY <1>1, <2>2, <3>1, <3>2, <3>3, Zenon DEF CatInv, NoneForgotten
  <2> QED
    BY <2>3, <2>4, Zenon
<1>11. SnapshotSound'
  BY <1>1, Zenon DEF CatInv, SnapshotSound, Recognised
<1> QED
  BY <1>6, <1>8, <1>9, <1>10, <1>11, Zenon DEF CatInv

\* How many descriptors a directory adds.
LEMMA StagedGrows ==
  ASSUME IsFiniteSet(staging), NEW S \in SUBSET Caches,
         \A c \in S : TargetIdOf(c) \notin StagedIds
  PROVE  LET all == staging \cup {Describe(c) : c \in S}
         IN /\ IsFiniteSet(all)
            /\ IsFiniteSet(S) /\ Cardinality(S) \in Nat /\ Cardinality(staging) \in Nat
            /\ Cardinality(all) = Cardinality(staging) + Cardinality(S)
<1> DEFINE new == {Describe(c) : c \in S}
           f == [c \in S |-> Describe(c)]
<1>1. IsFiniteSet(S)
  BY CatalogAssumption, FS_Subset, Zenon
<1>2. f \in Bijection(S, new)
  <2>1. ASSUME NEW c \in S, NEW d \in S, f[c] = f[d] PROVE c = d
    <3>1. Describe(c) = Describe(d)
      BY <2>1, Zenon
    <3>2. Describe(c).of = c /\ Describe(d).of = d
      BY DescribeFields, Zenon
    <3> QED
      BY <3>1, <3>2, Zenon
  <2> QED
    BY <2>1, Zenon DEF Bijection, Injection, Surjection, IsInjective
<1>3. IsFiniteSet(new) /\ Cardinality(new) = Cardinality(S)
  BY <1>1, <1>2, FS_Bijection, Zenon DEF ExistsBijection
<1>4. staging \cap new = {}
  <2> SUFFICES ASSUME NEW c \in S, Describe(c) \in staging PROVE FALSE
    BY Zenon
  <2>1. Describe(c).id \in StagedIds
    BY Zenon DEF StagedIds
  <2> QED
    BY <2>1, DescribeFields, Zenon
<1> HIDE DEF new, f
<1>5. /\ IsFiniteSet(staging \cup new)
      /\ Cardinality(staging \cup new) = Cardinality(staging) + Cardinality(new) - Cardinality(staging \cap new)
  BY <1>3, FS_Union, Zenon
<1>6. Cardinality(staging) \in Nat /\ Cardinality(S) \in Nat /\ Cardinality(staging \cap new) = 0
  BY <1>1, <1>4, FS_CardinalityType, FS_EmptySet, Zenon
<1>7. Cardinality(staging \cup new) = Cardinality(staging) + Cardinality(S)
  BY <1>3, <1>5, <1>6
<1> QED
  BY <1>1, <1>5, <1>6, <1>7, Zenon DEF new

\* Reading an area keeps the invariant: the openable caches of the user are staged
\* under their ids, or the limit is met.
LEMMA CollectKeeps ==
  ASSUME CatInv, Collect
  PROVE  CatInv'
<1> DEFINE area == Head(areas)
           fresh == {c \in Caches : /\ c.user = who /\ c.area = area /\ Openable(c)
                                    /\ TargetIdOf(c) \notin StagedIds}
<1>1. PICK S \in SUBSET fresh :
        /\ Cardinality(S) <= Room(area) /\ (S = fresh \/ Cardinality(S) = Room(area))
        /\ staging' = staging \cup {Describe(c) : c \in S}
  BY Zenon DEF Collect, StagedIds
<1>2. /\ step # "idle" /\ areas # << >> /\ areas' = Tail(areas)
      /\ UNCHANGED <<envVars, step, users, who, judged, nextGen, snapshot, steady, basis>>
  BY Zenon DEF Collect
<1>3. \A c \in S : /\ c \in Caches /\ c.user = who /\ c.area = area /\ Openable(c)
                    /\ TargetIdOf(c) \notin StagedIds
  BY <1>1, Zenon
<1>4. /\ areas \in Seq(Areas) /\ Len(areas) \in Nat /\ Len(areas) > 0 /\ area = areas[1]
      /\ area \in Areas
  BY <1>2 DEF CatInv, CatTyped
<1>5. /\ areas' \in Seq(Areas) /\ Len(areas') = Len(areas) - 1
      /\ \A i \in 1 .. Len(areas') : areas'[i] = areas[i + 1]
  BY <1>2, <1>4, TailIs, Zenon
<1> HIDE DEF area
<1>6. \A c \in Caches : Describe(c)' = Describe(c)
  BY <1>2, Zenon DEF Describe
<1>7. /\ IsFiniteSet(staging') /\ IsFiniteSet(S) /\ Cardinality(S) \in Nat
      /\ Cardinality(staging) \in Nat
      /\ Cardinality(staging') = Cardinality(staging) + Cardinality(S)
  BY <1>1, <1>3, StagedGrows, Zenon DEF CatInv, CatTyped
<1>8. \A t \in staging' : t \in staging \/ \E c \in S : t = Describe(c)
  BY <1>1, Zenon
<1>9. CatTyped'
  <2>1. ASSUME NEW t \in staging' \cup snapshot'.targets
        PROVE  t.of \in Caches \cup {SystemCache}
    <3>1. CASE t \in staging \cup snapshot.targets
      BY <3>1, Zenon DEF CatInv, CatTyped, CatTypeOK
    <3>2. CASE t \in staging' /\ t \notin staging
      <4>1. PICK c \in S : t = Describe(c)
        BY <1>8, <3>2, Zenon
      <4> QED
        BY <1>3, <4>1, DescribeFields, Zenon
    <3> QED
      BY <1>2, <2>1, <3>1, <3>2, Zenon
  <2>2. {t.of : t \in staging' \cup snapshot'.targets} \subseteq Caches \cup {SystemCache}
    BY <2>1, Zenon
  <2> QED
    BY <1>2, <1>5, <1>7, <2>2, Zenon DEF CatInv, CatTyped, CatTypeOK
<1>10. StagedAsJudged'
  <2>1. ASSUME NEW t \in staging'
        PROVE  \E c \in Caches : t = Describe(c)'
    <3>1. PICK c \in Caches : t = Describe(c)
      <4>1. CASE t \in staging
        BY <4>1, Zenon DEF CatInv, StagedAsJudged
      <4>2. CASE t \notin staging
        BY <1>3, <1>8, <4>2, Zenon
      <4> QED
        BY <4>1, <4>2, Zenon
    <3> QED
      BY <1>6, <3>1, Zenon
  <2>2. ASSUME NEW s \in staging', NEW t \in staging', s.id = t.id
        PROVE  s = t
    <3>1. CASE s \in staging /\ t \in staging
      BY <2>2, <3>1, Zenon DEF CatInv, StagedAsJudged
    <3>2. CASE s \in staging /\ t \notin staging
      <4>1. PICK c \in S : t = Describe(c)
        BY <1>8, <3>2, Zenon
      <4>2. t.id = TargetIdOf(c) /\ TargetIdOf(c) \notin StagedIds /\ s.id \in StagedIds
        BY <1>3, <3>2, <4>1, DescribeFields, Zenon DEF StagedIds
      <4> QED
        BY <2>2, <4>2, Zenon
    <3>3. CASE s \notin staging /\ t \in staging
      <4>1. PICK c \in S : s = Describe(c)
        BY <1>8, <3>3, Zenon
      <4>2. s.id = TargetIdOf(c) /\ TargetIdOf(c) \notin StagedIds /\ t.id \in StagedIds
        BY <1>3, <3>3, <4>1, DescribeFields, Zenon DEF StagedIds
      <4> QED
        BY <2>2, <4>2, Zenon
    <3>4. CASE s \notin staging /\ t \notin staging
      <4>1. PICK c \in S : s = Describe(c)
        BY <1>8, <3>4, Zenon
      <4>2. PICK d \in S : t = Describe(d)
        BY <1>8, <3>4, Zenon
      <4>3. TargetIdOf(c) = TargetIdOf(d) /\ c.area = d.area /\ c \in Caches /\ d \in Caches
        BY <1>3, <2>2, <4>1, <4>2, DescribeFields, Zenon
      <4> QED
        BY <4>1, <4>2, <4>3, IdsTellApart, Zenon
    <3> QED
      BY <3>1, <3>2, <3>3, <3>4, Zenon
  <2>3. ASSUME NEW t \in staging', t.of.area \in {"ce", "ext"}
        PROVE  \/ judged[t.of.user] = "FullyUnlocked"
               \/ t.of.area = "ce" /\ step # "users" /\ NobodyRecognised
    <3>1. CASE t \in staging
      BY <2>3, <3>1, Zenon DEF CatInv, StagedAsJudged
    <3>2. CASE t \notin staging
      <4>1. PICK c \in S : t = Describe(c)
        BY <1>8, <3>2, Zenon
      <4>2. t.of = c /\ c.user = who /\ c.area = area
        BY <1>3, <4>1, DescribeFields, Zenon
      <4>3. 1 \in 1 .. Len(areas)
        BY <1>4
      <4>4. CASE step = "users"
        BY <1>4, <2>3, <4>2, <4>3, <4>4, Zenon DEF CatInv, ReadingAsJudged
      <4>5. CASE step = "fallback"
        <5>1. step # "users"
          BY <4>5
        <5>2. NobodyRecognised /\ area # "ext"
          BY <1>4, <4>3, <4>5, Zenon DEF CatInv, ReadingAsJudged
        <5> QED
          BY <2>3, <4>2, <5>1, <5>2, Zenon
      <4>6. step = "users" \/ step = "fallback"
        BY <1>2, Zenon DEF CatInv, CatTyped, CatTypeOK
      <4> QED
        BY <4>4, <4>5, <4>6, Zenon
    <3> QED
      BY <3>1, <3>2, Zenon
  <2>4. NobodyRecognised' <=> NobodyRecognised
    BY <1>2, Zenon DEF NobodyRecognised
  <2> QED
    BY <1>2, <2>1, <2>2, <2>3, <2>4, Zenon DEF StagedAsJudged
<1>11. ReadingAsJudged'
  <2>1. NobodyRecognised' <=> NobodyRecognised
    BY <1>2, Zenon DEF NobodyRecognised
  <2>2. ASSUME step = "users", NEW i \in 1 .. Len(areas'), areas'[i] \in {"ce", "ext"}
        PROVE  judged[who] = "FullyUnlocked"
    <3>1. i + 1 \in 1 .. Len(areas)
      BY <1>4, <1>5, <2>2
    <3> QED
      BY <1>5, <2>2, <3>1, Zenon DEF CatInv, ReadingAsJudged
  <2>3. ASSUME step = "fallback", NEW i \in 1 .. Len(areas')
        PROVE  areas'[i] # "ext"
    <3>1. i + 1 \in 1 .. Len(areas)
      BY <1>4, <1>5, <2>3
    <3> QED
      BY <1>5, <2>3, <3>1, Zenon DEF CatInv, ReadingAsJudged
  <2> QED
    BY <1>2, <2>1, <2>2, <2>3, Zenon DEF CatInv, ReadingAsJudged
<1>12. NoneForgotten'
  <2> SUFFICES ASSUME NEW c \in steady
               PROVE  /\ Openable(c)'
                      /\ \/ judged[c.user] \in {"none", "Unknown"}
                         \/ judged[c.user] = "DeviceEncryptedOnly" /\ c.area # "de"
                         \/ TargetIdOf(c) \in StagedIds'
                         \/ Cardinality(staging') > MaxTargets
                         \/ c.user = who /\ \E i \in 1 .. Len(areas') : areas'[i] = c.area
    BY <1>2, Zenon DEF NoneForgotten
  <2>1. Openable(c) /\ Openable(c)' /\ c \in Caches
    BY <1>2, SameStorage, Zenon DEF CatInv, CatTyped, NoneForgotten
  <2>2. StagedIds \subseteq StagedIds'
    BY <1>1, Zenon DEF StagedIds
  <2>3. CASE Cardinality(staging) > MaxTargets
    <3>1. Cardinality(staging') > MaxTargets
      BY <1>7, <2>3, CatalogAssumption
    <3> QED
      BY <2>1, <3>1, Zenon
  <2>4. CASE c.user = who /\ c.area = area /\ ~(Cardinality(staging) > MaxTargets)
    <3>1. CASE TargetIdOf(c) \in StagedIds
      BY <2>1, <2>2, <3>1, Zenon
    <3>2. CASE S = fresh /\ TargetIdOf(c) \notin StagedIds
      <4>1. c \in S
        BY <2>1, <2>4, <3>2, Zenon
      <4>2. Describe(c) \in staging'
        BY <1>1, <4>1, Zenon
      <4>3. TargetIdOf(c) \in StagedIds'
        BY <4>2, DescribeFields, Zenon DEF StagedIds
      <4> QED
        BY <2>1, <4>3, Zenon
    <3>3. CASE S # fresh
      <4>1. Cardinality(S) = Room(area)
        BY <1>1, <3>3, Zenon
      <4>2. CASE area = "ext"
        <5>1. Cardinality(S) = Cardinality(Caches) /\ S \in SUBSET Caches
          BY <1>3, <4>1, <4>2, Zenon DEF Room
        <5>2. S = Caches
          BY <5>1, CatalogAssumption, FS_Subset, Zenon
        <5> QED
          BY <3>3, <5>2, Zenon
      <4>3. CASE area # "ext"
        <5>1. Cardinality(S) = MaxTargets + 1 - Cardinality(staging)
          BY <2>4, <4>1, <4>3, Zenon DEF Room
        <5>2. Cardinality(staging') > MaxTargets
          BY <1>7, <5>1, CatalogAssumption
        <5> QED
          BY <2>1, <5>2, Zenon
      <4> QED
        BY <4>2, <4>3, Zenon
    <3> QED
      BY <3>1, <3>2, <3>3, Zenon
  <2>5. CASE \E i \in 1 .. Len(areas) : areas[i] = c.area /\ c.area # area
    <3>1. PICK i \in 1 .. Len(areas) : areas[i] = c.area /\ c.area # area
      BY <2>5, Zenon
    <3>2. i # 1
      BY <1>4, <3>1, Zenon
    <3>3. i - 1 \in 1 .. Len(areas') /\ (i - 1) + 1 = i
      BY <1>4, <1>5, <3>1, <3>2
    <3>4. areas'[i - 1] = c.area
      BY <1>5, <3>1, <3>3, Zenon
    <3> QED
      BY <2>1, <2>2, <3>3, <3>4, <2>3, Zenon DEF CatInv, NoneForgotten
  <2> QED
    BY <2>1, <2>2, <2>3, <2>4, <2>5, Zenon DEF CatInv, NoneForgotten
<1>13. SnapshotSound'
  BY <1>2, Zenon DEF CatInv, SnapshotSound, Recognised
<1> QED
  BY <1>9, <1>10, <1>11, <1>12, <1>13, Zenon DEF CatInv

\* When nobody was recognised, user 0 is read alone.
LEMMA FallBackKeeps ==
  ASSUME CatInv, FallBack
  PROVE  CatInv'
<1>1. /\ step = "users" /\ NobodyRecognised /\ step' = "fallback"
      /\ who' = 0 /\ areas' = <<"ce", "de", "ce">>
      /\ UNCHANGED <<envVars, users, judged, staging, nextGen, snapshot, steady, basis>>
  BY Zenon DEF FallBack
<1>2. <<"ce", "de", "ce">> \in Seq(Areas)
  BY DEF Areas
<1>3. "fallback" # "users" /\ "fallback" # "idle"
  OBVIOUS
<1>4. CatTyped'
  BY <1>1, <1>2, <1>3, CatalogAssumption, Zenon DEF CatInv, CatTyped, CatTypeOK
<1>5. NobodyRecognised'
  BY <1>1, Zenon DEF NobodyRecognised
<1>a. \A i \in 1 .. Len(areas') : areas'[i] # "ext"
  BY <1>1
<1>6. StagedAsJudged' /\ ReadingAsJudged' /\ SnapshotSound'
  <2>1. StagedAsJudged' /\ ReadingAsJudged'
    BY <1>1, <1>3, <1>5, <1>a, Zenon DEF CatInv, StagedAsJudged, ReadingAsJudged, Describe
  <2>2. SnapshotSound'
    BY <1>1, Zenon DEF CatInv, SnapshotSound, Recognised
  <2> QED
    BY <2>1, <2>2, Zenon
<1>7. NoneForgotten'
  <2> SUFFICES ASSUME NEW c \in steady
               PROVE  Openable(c)' /\ judged'[c.user] \in {"none", "Unknown"}
    BY <1>1, Zenon DEF NoneForgotten
  <2>1. c.user \in Users
    BY CacheFacts, Zenon DEF CatInv, CatTyped
  <2> QED
    BY <1>1, <2>1, SameStorage, Zenon DEF CatInv, NoneForgotten, NobodyRecognised
<1> QED
  BY <1>4, <1>6, <1>7, Zenon DEF CatInv

\* Publishing makes what was staged the snapshot, unless nothing was.
LEMMA PublishKeeps ==
  ASSUME CatInv, Publish
  PROVE  CatInv'
<1>1. /\ step # "idle" /\ areas = << >> /\ step' = "idle" /\ PublishStaged
      /\ UNCHANGED <<envVars, users, who, areas, judged, staging, nextGen, steady>>
  <2>1. "users" # "idle" /\ "fallback" # "idle"
    OBVIOUS
  <2> QED
    BY <2>1, Zenon DEF Publish
<1>2. \A c \in Caches : c.user \in Users
  BY CacheFacts, Zenon
<1>3. \A t \in staging : t.gen = nextGen /\ t.of \in Caches /\ t.id = TargetIdOf(t.of)
  <2> SUFFICES ASSUME NEW t \in staging
               PROVE  t.gen = nextGen /\ t.of \in Caches /\ t.id = TargetIdOf(t.of)
    BY Zenon
  <2>1. PICK c \in Caches : t = Describe(c)
    BY Zenon DEF CatInv, StagedAsJudged
  <2> QED
    BY <2>1, DescribeFields, Zenon
<1>4. \A t \in AllStaged : t \in staging \/ t = Describe(SystemCache)
  BY Zenon DEF AllStaged
<1>5. staging \subseteq AllStaged /\ IsFiniteSet(AllStaged)
  <2>1. staging \subseteq AllStaged
    BY Zenon DEF AllStaged
  <2>2. IsFiniteSet(staging \cup {Describe(SystemCache)})
    BY FS_AddElement, Zenon DEF CatInv, CatTyped
  <2>3. AllStaged \in SUBSET (staging \cup {Describe(SystemCache)})
    BY Zenon DEF AllStaged
  <2> QED
    BY <2>1, <2>2, <2>3, FS_Subset, Zenon
<1>6. Cardinality(staging) > MaxTargets => Cardinality(AllStaged) > MaxTargets
  <2>1. Cardinality(staging) <= Cardinality(AllStaged)
        /\ Cardinality(staging) \in Nat /\ Cardinality(AllStaged) \in Nat
    BY <1>5, FS_Subset, FS_CardinalityType, Zenon DEF CatInv, CatTyped
  <2> QED
    BY <2>1, CatalogAssumption
<1>7. SystemCache.area \notin {"ce", "ext"}
  BY DEF SystemCache
<1>8. ASSUME AllStaged # {} \/ snapshot.targets = {}
      PROVE  CatTyped' /\ SnapshotSound'
  <2>1. /\ snapshot' = [gen |-> nextGen, targets |-> AllStaged]
        /\ basis' = [judged |-> judged, steady |-> steady, filled |-> basis.filled \/ AllStaged # {}]
    BY <1>1, <1>8, Zenon DEF PublishStaged
  <2>2. /\ snapshot'.gen = nextGen /\ snapshot'.targets = AllStaged
        /\ basis'.judged = judged /\ basis'.steady = steady
        /\ basis'.filled <=> basis.filled \/ AllStaged # {}
    BY <2>1, Zenon
  <2>3. SnapshotSound'
    <3>1. basis'.filled => snapshot'.targets # {}
      BY <1>8, <2>2, Zenon DEF CatInv, SnapshotSound, Recognised
    <3>2. ASSUME NEW t \in AllStaged PROVE t.gen = nextGen
      BY <1>3, <1>4, DescribeFields, Zenon
    <3>3. ASSUME NEW s \in AllStaged, NEW t \in AllStaged, s.id = t.id
          PROVE  s = t
      <4>1. CASE s \in staging /\ t \in staging
        BY <3>3, <4>1, Zenon DEF CatInv, StagedAsJudged
      <4>2. CASE s \in staging /\ t = Describe(SystemCache)
        <5>1. t.id = TargetIdOf(SystemCache)
          BY <4>2, DescribeFields, Zenon
        <5>2. s.id = TargetIdOf(s.of) /\ s.of \in Caches
          BY <1>3, <4>2, Zenon
        <5> QED
          BY <3>3, <5>1, <5>2, IdsTellApart, Zenon
      <4>3. CASE s = Describe(SystemCache) /\ t \in staging
        <5>1. s.id = TargetIdOf(SystemCache)
          BY <4>3, DescribeFields, Zenon
        <5>2. t.id = TargetIdOf(t.of) /\ t.of \in Caches
          BY <1>3, <4>3, Zenon
        <5> QED
          BY <3>3, <5>1, <5>2, IdsTellApart, Zenon
      <4> QED
        BY <1>4, <4>1, <4>2, <4>3, Zenon
    <3>4. ASSUME NEW t \in AllStaged, t.of.area \in {"ce", "ext"}
          PROVE  \/ judged[t.of.user] = "FullyUnlocked"
                 \/ t.of.area = "ce" /\ \A u \in Users : judged[u] \in {"none", "Unknown"}
      <4>1. t \in staging
        BY <1>4, <1>7, <3>4, DescribeFields, Zenon
      <4> QED
        BY <3>4, <4>1, Zenon DEF CatInv, StagedAsJudged, NobodyRecognised
    <3>5. ASSUME NEW c \in steady
          PROVE  \/ judged[c.user] \in {"none", "Unknown"}
                 \/ judged[c.user] = "DeviceEncryptedOnly" /\ c.area # "de"
                 \/ TargetIdOf(c) \in {t.id : t \in AllStaged}
                 \/ Cardinality(AllStaged) > MaxTargets
      <4>1. 1 .. Len(areas) = {}
        BY <1>1
      <4>2. StagedIds \subseteq {t.id : t \in AllStaged}
        BY <1>5, Zenon DEF StagedIds
      <4> QED
        BY <1>6, <4>1, <4>2, Zenon DEF CatInv, NoneForgotten
    <3>6. "ext" # "ce"
      OBVIOUS
    <3>7. ASSUME NEW t \in AllStaged
          PROVE  /\ t.of.area = "ext" => judged[t.of.user] = "FullyUnlocked"
                 /\ t.of.area = "ce" /\ (\E u \in Users : judged[u] \notin {"none", "Unknown"}) =>
                      judged[t.of.user] = "FullyUnlocked"
      BY <3>4, <3>6, Zenon
    <3>8. \A u : Recognised(u)' <=> judged[u] \notin {"none", "Unknown"}
      BY <2>2, Zenon DEF Recognised
    <3> QED
      BY <2>2, <3>1, <3>2, <3>3, <3>5, <3>7, <3>8, Zenon DEF SnapshotSound
  <2>4. CatTyped'
    <3>1. ASSUME NEW t \in staging' \cup snapshot'.targets
          PROVE  t.of \in Caches \cup {SystemCache}
      <4>1. t \in staging \/ t = Describe(SystemCache)
        BY <1>1, <1>4, <2>2, <3>1, Zenon
      <4> QED
        BY <1>3, <4>1, DescribeFields, Zenon
    <3>2. {t.of : t \in staging' \cup snapshot'.targets} \subseteq Caches \cup {SystemCache}
      BY <3>1, Zenon
    <3> QED
      BY <1>1, <2>2, <3>2, Zenon DEF CatInv, CatTyped, CatTypeOK
  <2> QED
    BY <2>3, <2>4, Zenon
<1>9. ASSUME ~(AllStaged # {} \/ snapshot.targets = {})
      PROVE  CatTyped' /\ SnapshotSound'
  <2>1. UNCHANGED <<snapshot, basis>>
    BY <1>1, <1>9, Zenon DEF PublishStaged
  <2> QED
    BY <1>1, <2>1, Zenon DEF CatInv, CatTyped, CatTypeOK, SnapshotSound, Recognised
<1>10. CatTyped' /\ SnapshotSound'
  BY <1>8, <1>9, Zenon
<1>11. "idle" # "users" /\ "idle" # "fallback"
  OBVIOUS
<1>12. StagedAsJudged' /\ ReadingAsJudged'
  BY <1>1, <1>11, Zenon DEF CatInv, StagedAsJudged, ReadingAsJudged, Describe, NobodyRecognised
<1>13. NoneForgotten'
  <2>1. StagedIds' = StagedIds
    BY <1>1, Zenon DEF StagedIds
  <2> QED
    BY <1>1, <2>1, SameStorage, Zenon DEF CatInv, NoneForgotten
<1> QED
  BY <1>10, <1>12, <1>13, Zenon DEF CatInv

\* Every snapshot that discover_all_targets publishes is sound, for all users,
\* caches and limits: one descriptor per id and all of its generation, external
\* directories only of users judged unlocked, CE directories too unless the
\* discovery recognised nobody, no cache of a recognised user forgotten that could
\* be opened throughout, and never an empty one after one that was not.
THEOREM SnapshotAlwaysSound == CatSpec => [](CatTypeOK /\ SnapshotSound)
<1>1. CatInit => CatInv
  <2> SUFFICES ASSUME CatInit PROVE CatInv
    OBVIOUS
  <2>1. /\ step = "idle" /\ users = {} /\ who = 0 /\ areas = << >> /\ staging = {} /\ nextGen = 1
        /\ judged = [u \in Users |-> "none"] /\ steady = {}
        /\ snapshot = [gen |-> 1, targets |-> {}]
        /\ basis = [judged |-> judged, steady |-> {}, filled |-> FALSE]
    BY Zenon DEF CatInit
  <2>2. /\ snapshot.gen = 1 /\ snapshot.targets = {}
        /\ basis.judged = judged /\ basis.steady = {} /\ basis.filled = FALSE
    BY <2>1
  <2>3. 1 \in 1 .. MaxGen /\ << >> \in Seq(Areas) /\ "none" \in Judgements
    BY CatalogAssumption DEF Judgements
  <2>4. "idle" # "users" /\ "idle" # "fallback"
    OBVIOUS
  <2>5. CatTyped
    BY <2>1, <2>2, <2>3, CatalogAssumption, FS_EmptySet, Zenon DEF CatTyped, CatTypeOK
  <2>6. StagedAsJudged /\ ReadingAsJudged /\ NoneForgotten
    BY <2>1, <2>4, Zenon DEF StagedAsJudged, ReadingAsJudged, NoneForgotten
  <2>7. SnapshotSound
    BY <2>2, Zenon DEF SnapshotSound, Recognised
  <2> QED
    BY <2>5, <2>6, <2>7, Zenon DEF CatInv
<1>2. CatInv /\ [CatNext]_catVars => CatInv'
  <2> SUFFICES ASSUME CatInv, [CatNext]_catVars PROVE CatInv'
    OBVIOUS
  <2>1. CASE UNCHANGED catVars
    <3>1. UNCHANGED <<envVars, step, users, who, areas, judged, staging, nextGen, snapshot,
                      steady, basis>>
      BY <2>1, Zenon DEF catVars
    <3>2. CatTyped' /\ SnapshotSound'
      BY <3>1, Zenon DEF CatInv, CatTyped, CatTypeOK, SnapshotSound, Recognised
    <3>3. StagedAsJudged' /\ ReadingAsJudged'
      BY <3>1, Zenon DEF CatInv, StagedAsJudged, ReadingAsJudged, Describe, NobodyRecognised
    <3>4. StagedIds' = StagedIds
      BY <3>1, Zenon DEF StagedIds
    <3>5. NoneForgotten'
      BY <3>1, <3>4, SameStorage, Zenon DEF CatInv, NoneForgotten
    <3> QED
      BY <3>2, <3>3, <3>5, Zenon DEF CatInv
  <2>2. ASSUME NEW u \in Users, KeyChanges(u) \/ UserRemoved(u)
        PROVE  CatInv'
    BY <2>2, MovesKeep, Zenon DEF KeyChanges, UserRemoved
  <2>3. ASSUME NEW c \in Caches, CacheChanges(c)
        PROVE  CatInv'
    BY <2>3, MovesKeep, Zenon DEF CacheChanges
  <2> QED
    BY <2>1, <2>2, <2>3, DiscoveryBeginsKeeps, JudgeUserKeeps, CollectKeeps, FallBackKeeps,
       PublishKeeps, Zenon DEF CatNext
<1>3. CatInv => CatTypeOK /\ SnapshotSound
  BY Zenon DEF CatInv, CatTyped
<1> QED
  BY <1>1, <1>2, <1>3, PTL DEF CatSpec

-----------------------------------------------------------------------------
(***************************************************************************)
(* The plan of a job                                                       *)
(***************************************************************************)
\* The candidates there can be.
CandidateRecords == [target : Ids, path : Paths, dir : BOOLEAN, mtime : Nat, dev : Nat]
\* An entry as read_entries_fd lists it.
Pieces == [path : Paths, entry : TreeEntries]
\* An open directory and what is left to visit in it.
Frames == [at : Paths \cup {<< >>}, left : SUBSET Pieces]

\* The candidate an entry would give as it stands.
Standing(i, p) ==
  [target |-> i, path |-> p, dir |-> tree[i][p].kind = "dir",
   mtime |-> tree[i][p].mtime, dev |-> tree[i][p].dev]

\* The paths found so far.
FoundPaths == {c.path : c \in found}

\* The types of the job's variables.
PlanTyped ==
  /\ stage \in {"scan", "planned", "failed"}
  /\ visiting \in Ids \cup {NoScan} /\ todo \subseteq Ids
  /\ statuses \in [Ids -> {"none", "Complete", "Partial", "Failed"}]
  /\ tree \in [Ids -> [Paths -> TreeEntries]]
  /\ kept \in [Ids -> SUBSET Paths]
  /\ found \subseteq CandidateRecords /\ IsFiniteSet(found)
  /\ Cardinality(found) <= MaxCandidates
  /\ permits \subseteq CandidateRecords /\ IsFiniteSet(permits)
  /\ stack \in Seq(Frames)
  /\ hitLimit \in BOOLEAN /\ errors \in BOOLEAN
  /\ visiting = NoScan => stack = << >> /\ found = {}

\* What apps leave is a tree, and what none of them touched is still there
\* with the directories above it.
TreesStand ==
  \A i \in Ids :
    /\ IsTree(tree[i])
    /\ \A p \in kept[i] : tree[i][p] # Absent /\ (Len(p) > 1 => Parent(p) \in kept[i])

\* The open directories s are nested, each was found before it was opened, and
\* what is left in one has not been found yet.
Nested(s, paths) ==
  \A k \in 1 .. Len(s) :
    /\ Len(s[k].at) = k - 1 /\ k <= ScanDepth
    /\ k > 1 => s[k].at \in paths
    /\ \A e \in s[k].left :
         /\ Parent(e.path) = s[k].at
         /\ e.path \notin paths
         /\ \A g \in s[k].left : g.path = e.path => g = e

\* What they still hold of the paths K is how it is in the tree t.
Fresh(s, t, K) ==
  \A k \in 1 .. Len(s) : \A e \in s[k].left : e.path \in K => e.entry = t[e.path]

\* A path is still to be visited.
Pending(s, p) == \E k \in 1 .. Len(s) : \E e \in s[k].left : e.path = p

\* The open directories and what was found are in order.
StackNested ==
  /\ Nested(stack, FoundPaths)
  /\ \A c \in found : Len(c.path) > 1 => Parent(c.path) \in FoundPaths

\* No path of a target becomes a candidate twice and no target is scanned twice.
OneCandidate ==
  /\ \A c \in found : c.target = visiting /\ \A d \in found : c.path = d.path => c = d
  /\ \A c, d \in permits : c.target = d.target /\ c.path = d.path => c = d
  /\ visiting \notin todo
  /\ \A i \in todo \cup ({visiting} \ {NoScan}) :
       statuses[i] = "none" /\ \A c \in permits : c.target # i

\* What was read of an untouched entry is how it stands.
ReadingsStand ==
  /\ \A c \in found \cup permits : c.path \in kept[c.target] => c = Standing(c.target, c.path)
  /\ Fresh(stack, tree[visiting], kept[visiting])

\* A scan that noted no limit, no error and passed nothing over has found, or
\* has still to visit, every untouched entry of the directories it found.
NothingSkipped ==
  visiting # NoScan /\ ~hitLimit /\ ~errors /\ visiting \notin missed =>
    \A p \in kept[visiting] :
      p \in FoundPaths \/ (Len(p) > 1 /\ Parent(p) \notin FoundPaths) \/ Pending(stack, p)

\* Every permit was judged, and so was every untouched entry of a target whose
\* scan was complete.
JudgedAll ==
  /\ \A c \in permits :
       validate_candidate(c, Target(c.target)) /\ evaluate_candidate(c, Target(c.target))
  /\ \A i \in Ids : statuses[i] = "Complete" /\ i \notin missed =>
       \A p \in kept[i] : Refused(i, p) \/ Standing(i, p) \in permits

\* The plan is the one the permits give.
PlanMade ==
  /\ stage \in {"scan", "failed"} => plan = << >> /\ grant = {}
  /\ stage = "failed" => Cardinality(permits) > MaxOperations
  /\ stage = "planned" => plan = Operations /\ grant = authorize_plan(plan)

\* The inductive invariant of Planning.
PlanInv ==
  /\ PlanTyped /\ TreesStand /\ StackNested /\ OneCandidate /\ ReadingsStand
  /\ NothingSkipped /\ JudgedAll /\ PlanMade

\* All but the last element.
ButLast(s) == SubSeq(s, 1, Len(s) - 1)

\* What the provers need of sequences: their length and elements,
LEMMA SequenceIs ==
  ASSUME NEW S, NEW s \in Seq(S)
  PROVE  /\ Len(s) \in Nat /\ (s # << >> => Len(s) # 0)
         /\ \A k \in 1 .. Len(s) : s[k] \in S
OBVIOUS

\* of Append,
LEMMA AppendIs ==
  ASSUME NEW S, NEW s \in Seq(S), NEW e \in S
  PROVE  /\ Append(s, e) \in Seq(S) /\ Len(Append(s, e)) = Len(s) + 1
         /\ \A k \in 1 .. Len(s) : Append(s, e)[k] = s[k]
         /\ Append(s, e)[Len(s) + 1] = e
OBVIOUS

\* of a sequence with one element replaced,
LEMMA ExceptIs ==
  ASSUME NEW S, NEW s \in Seq(S), NEW i \in 1 .. Len(s), NEW e \in S
  PROVE  /\ [s EXCEPT ![i] = e] \in Seq(S) /\ Len([s EXCEPT ![i] = e]) = Len(s)
         /\ \A j \in 1 .. Len(s) : [s EXCEPT ![i] = e][j] = IF j = i THEN e ELSE s[j]
OBVIOUS

\* of SubSeq when it takes all,
LEMMA WholeIs ==
  ASSUME NEW S, NEW s \in Seq(S)
  PROVE  SubSeq(s, 1, Len(s)) = s
OBVIOUS

\* and when it takes all but the last element.
LEMMA ButLastIs ==
  ASSUME NEW S, NEW s \in Seq(S), s # << >>
  PROVE  /\ ButLast(s) \in Seq(S) /\ Len(ButLast(s)) = Len(s) - 1 /\ Len(s) \in Nat \ {0}
         /\ \A k \in 1 .. Len(s) - 1 : ButLast(s)[k] = s[k]
<1>1. Len(s) \in Nat \ {0}
  OBVIOUS
<1> DEFINE n == Len(s) - 1
<1>2. n \in Nat /\ n <= Len(s) /\ ButLast(s) = SubSeq(s, 1, n)
  BY <1>1 DEF ButLast
<1> HIDE DEF n
<1>3. SubSeq(s, 1, n) \in Seq(S) /\ Len(SubSeq(s, 1, n)) = n
  BY <1>1, <1>2
<1>4. \A k \in 1 .. n : SubSeq(s, 1, n)[k] = s[k]
  BY <1>1, <1>2
<1> QED
  BY <1>1, <1>2, <1>3, <1>4, Zenon DEF n

\* Every non-empty set of natural numbers, such as the depths of some paths, has a
\* least one: what an argument by a shallowest counterexample needs.
LEMMA LeastDepth ==
  ASSUME NEW T \in SUBSET Nat, T # {}
  PROVE  \E x \in T : \A y \in T : x <= y
<1> DEFINE R == OpToRel(<, Nat)
<1>1. IsWellFoundedOn(R, Nat)
  BY NatLessThanWellFounded, Zenon
<1>2. \A x, y \in Nat : <<y, x>> \in R <=> y < x
  BY DEF OpToRel
<1> HIDE DEF R
<1>3. PICK x \in T : \A y \in T : <<y, x>> \notin R
  BY <1>1, WFMin, Zenon
<1>4. ASSUME NEW y \in T PROVE x <= y
  <2>1. x \in Nat /\ y \in Nat /\ ~(y < x)
    BY <1>2, <1>3, Zenon
  <2> QED
    BY <2>1
<1> QED
  BY <1>3, <1>4, Zenon

\* A path has a name, and a parent unless it is directly below the root.
LEMMA PathsClosed ==
  ASSUME NEW p \in Paths
  PROVE  /\ p \in Seq(STRING) /\ p # << >> /\ Len(p) \in Nat \ {0}
         /\ Len(Parent(p)) = Len(p) - 1
         /\ Len(p) = 1 <=> Parent(p) = << >>
         /\ Len(p) > 1 => Parent(p) \in Paths
<1>1. p \in Seq(STRING) /\ p # << >> /\ (Len(p) > 1 => Parent(p) \in Paths)
  BY PlanningAssumption, Zenon
<1>2. Parent(p) \in Seq(STRING) /\ Len(Parent(p)) = Len(p) - 1 /\ Len(p) \in Nat \ {0}
  BY <1>1, ButLastIs, Zenon DEF Parent, ButLast
<1>3. Parent(p) = << >> <=> Len(Parent(p)) = 0
  BY <1>2
<1> QED
  BY <1>1, <1>2, <1>3

\* What is left of an open directory are entries with a path.
LEMMA FrameFacts ==
  ASSUME NEW s \in Seq(Frames), NEW k \in 1 .. Len(s)
  PROVE  /\ s[k] \in Frames
         /\ s[k].at \in Paths \cup {<< >>} /\ s[k].left \subseteq Pieces
         /\ \A e \in s[k].left : e.path \in Paths /\ e.entry \in TreeEntries
<1>1. s[k] \in Frames
  BY SequenceIs, Zenon
<1> QED
  BY <1>1 DEF Frames, Pieces

\* The open directories once an entry of the innermost one has been taken.
Taken(s, e) == [s EXCEPT ![Len(s)].left = @ \ {e}]

\* Taking an entry changes the innermost directory only.
LEMMA TakenFrames ==
  ASSUME NEW s \in Seq(Frames), s # << >>, NEW e
  PROVE  /\ Len(s) \in Nat \ {0}
         /\ Taken(s, e) \in Seq(Frames) /\ Len(Taken(s, e)) = Len(s)
         /\ \A k \in 1 .. Len(s) :
              /\ Taken(s, e)[k].at = s[k].at
              /\ k # Len(s) => Taken(s, e)[k].left = s[k].left
              /\ k = Len(s) => Taken(s, e)[k].left = s[k].left \ {e}
<1> DEFINE f == [s[Len(s)] EXCEPT !.left = @ \ {e}]
<1>1. Len(s) \in Nat \ {0} /\ Len(s) \in 1 .. Len(s)
  BY SequenceIs
<1>2. s[Len(s)] \in Frames
  BY <1>1, SequenceIs, Zenon
<1>3. f \in Frames /\ f.at = s[Len(s)].at /\ f.left = s[Len(s)].left \ {e}
  BY <1>2 DEF Frames
<1>4. Taken(s, e) = [s EXCEPT ![Len(s)] = f]
  BY Zenon DEF Taken
<1> HIDE DEF f
<1>5. /\ Taken(s, e) \in Seq(Frames) /\ Len(Taken(s, e)) = Len(s)
      /\ \A j \in 1 .. Len(s) : Taken(s, e)[j] = IF j = Len(s) THEN f ELSE s[j]
  <2>1. /\ [s EXCEPT ![Len(s)] = f] \in Seq(Frames)
        /\ Len([s EXCEPT ![Len(s)] = f]) = Len(s)
        /\ \A j \in 1 .. Len(s) : [s EXCEPT ![Len(s)] = f][j] = IF j = Len(s) THEN f ELSE s[j]
    BY <1>1, <1>3, ExceptIs
  <2> QED
    BY <2>1, <1>4, Zenon
<1> QED
  BY <1>1, <1>3, <1>5, Zenon

\* Visiting an entry keeps the open directories in order: its path is left nowhere else.
LEMMA TakenNested ==
  ASSUME NEW s \in Seq(Frames), s # << >>, NEW F, Nested(s, F), NEW e \in s[Len(s)].left
  PROVE  Nested(Taken(s, e), F \cup {e.path})
<1>1. /\ Len(s) \in Nat \ {0} /\ Len(Taken(s, e)) = Len(s)
      /\ \A k \in 1 .. Len(s) :
           /\ Taken(s, e)[k].at = s[k].at
           /\ k # Len(s) => Taken(s, e)[k].left = s[k].left
           /\ k = Len(s) => Taken(s, e)[k].left = s[k].left \ {e}
  BY TakenFrames, Zenon
<1>2. ASSUME NEW k \in 1 .. Len(s), NEW g \in Taken(s, e)[k].left PROVE g \in s[k].left /\ g.path # e.path
  <2>1. CASE k = Len(s)
    <3>1. g \in s[k].left /\ g # e
      BY <1>1, <2>1, Zenon
    <3> QED
      BY <3>1, <2>1, Zenon DEF Nested
  <2>2. CASE k # Len(s)
    <3>1. g \in s[k].left
      BY <1>1, <2>2, Zenon
    <3>2. Parent(g.path) = s[k].at /\ Len(s[k].at) = k - 1
      BY <3>1, Zenon DEF Nested
    <3>3. Len(s) \in 1 .. Len(s)
      BY <1>1
    <3>4. Parent(e.path) = s[Len(s)].at /\ Len(s[Len(s)].at) = Len(s) - 1
      BY <3>3, Zenon DEF Nested
    <3>5. k - 1 # Len(s) - 1
      BY <2>2, <1>1
    <3> QED
      BY <3>1, <3>2, <3>4, <3>5, Zenon
  <2> QED
    BY <2>1, <2>2, Zenon
<1>3. ASSUME NEW k \in 1 .. Len(s)
      PROVE  /\ Len(Taken(s, e)[k].at) = k - 1 /\ k <= ScanDepth
             /\ k > 1 => Taken(s, e)[k].at \in F
             /\ \A g \in Taken(s, e)[k].left :
                  /\ Parent(g.path) = Taken(s, e)[k].at
                  /\ g.path \notin F
                  /\ \A h \in Taken(s, e)[k].left : h.path = g.path => h = g
  BY <1>1, <1>2, Zenon DEF Nested
<1>4. ASSUME NEW k \in 1 .. Len(s)
      PROVE  /\ Len(Taken(s, e)[k].at) = k - 1 /\ k <= ScanDepth
             /\ k > 1 => Taken(s, e)[k].at \in F \cup {e.path}
             /\ \A g \in Taken(s, e)[k].left :
                  /\ Parent(g.path) = Taken(s, e)[k].at
                  /\ g.path \notin F \cup {e.path}
                  /\ \A h \in Taken(s, e)[k].left : h.path = g.path => h = g
  BY <1>2, <1>3, Zenon
<1> QED
  BY <1>1, <1>4, Zenon DEF Nested

\* A directory that was just found is opened below the others.
LEMMA OpenedNested ==
  ASSUME NEW s \in Seq(Frames), NEW F, Nested(s, F), NEW f \in Frames,
         f.at \in F, Len(f.at) = Len(s), Len(f.at) < ScanDepth,
         \A e \in f.left : Parent(e.path) = f.at /\ e.path \notin F,
         \A e, g \in f.left : g.path = e.path => g = e
  PROVE  Nested(Append(s, f), F)
<1>1. /\ Len(s) \in Nat /\ Len(Append(s, f)) = Len(s) + 1
      /\ \A k \in 1 .. Len(s) : Append(s, f)[k] = s[k]
      /\ Append(s, f)[Len(s) + 1] = f
  BY AppendIs, SequenceIs
<1>2. \A k \in 1 .. Len(s) + 1 : k \in 1 .. Len(s) \/ k = Len(s) + 1
  BY <1>1
<1>3. Len(s) = (Len(s) + 1) - 1 /\ Len(s) + 1 <= ScanDepth
  BY <1>1, PlanningAssumption
<1> DEFINE Fits(k, g) ==
      /\ Len(g.at) = k - 1 /\ k <= ScanDepth
      /\ k > 1 => g.at \in F
      /\ \A e \in g.left :
           /\ Parent(e.path) = g.at
           /\ e.path \notin F
           /\ \A h \in g.left : h.path = e.path => h = e
<1>4. Fits(Len(s) + 1, f)
  BY <1>3, Zenon
<1>5. \A k \in 1 .. Len(s) : Fits(k, s[k])
  BY Zenon DEF Nested
<1> HIDE DEF Fits
<1>6. \A k \in 1 .. Len(Append(s, f)) : Fits(k, Append(s, f)[k])
  BY <1>1, <1>2, <1>4, <1>5, Zenon
<1> QED
  BY <1>6, Zenon DEF Nested, Fits

\* Leaving a directory keeps the others in order.
LEMMA LeftNested ==
  ASSUME NEW s \in Seq(Frames), s # << >>, NEW F, Nested(s, F)
  PROVE  Nested(ButLast(s), F)
<1>1. /\ Len(ButLast(s)) = Len(s) - 1 /\ Len(s) \in Nat \ {0}
      /\ \A k \in 1 .. Len(s) - 1 : ButLast(s)[k] = s[k]
  BY ButLastIs, Zenon
<1>2. \A k \in 1 .. Len(s) - 1 : k \in 1 .. Len(s)
  BY <1>1
<1> QED
  BY <1>1, <1>2, Zenon DEF Nested

\* Taking an entry leaves every other one pending and as it was read.
LEMMA TakenLeft ==
  ASSUME NEW s \in Seq(Frames), s # << >>, NEW e
  PROVE  /\ \A t, K : Fresh(s, t, K) => Fresh(Taken(s, e), t, K)
         /\ \A p : Pending(s, p) /\ p # e.path => Pending(Taken(s, e), p)
<1>1. /\ Len(s) \in Nat \ {0}
      /\ Taken(s, e) \in Seq(Frames) /\ Len(Taken(s, e)) = Len(s)
      /\ \A k \in 1 .. Len(s) :
           /\ Taken(s, e)[k].at = s[k].at
           /\ k # Len(s) => Taken(s, e)[k].left = s[k].left
           /\ k = Len(s) => Taken(s, e)[k].left = s[k].left \ {e}
  BY TakenFrames, Zenon
<1>2. \A k \in 1 .. Len(s) : \A g :
        /\ g \in Taken(s, e)[k].left => g \in s[k].left
        /\ g \in s[k].left /\ g # e => g \in Taken(s, e)[k].left
  BY <1>1, Zenon
<1>3. \A t, K : Fresh(s, t, K) => Fresh(Taken(s, e), t, K)
  BY <1>1, <1>2, Zenon DEF Fresh
<1>4. \A p : Pending(s, p) /\ p # e.path => Pending(Taken(s, e), p)
  BY <1>1, <1>2, Zenon DEF Pending
<1> QED
  BY <1>3, <1>4, Zenon

\* Opening a directory makes its entries pending and leaves the others so.
LEMMA OpenedLeft ==
  ASSUME NEW s \in Seq(Frames), NEW f \in Frames
  PROVE  /\ \A t, K : Fresh(s, t, K) /\ (\A e \in f.left : e.path \in K => e.entry = t[e.path])
                        => Fresh(Append(s, f), t, K)
         /\ \A p : Pending(s, p) => Pending(Append(s, f), p)
         /\ \A e \in f.left : Pending(Append(s, f), e.path)
<1>1. /\ Len(s) \in Nat /\ Len(Append(s, f)) = Len(s) + 1
      /\ \A k \in 1 .. Len(s) : Append(s, f)[k] = s[k]
      /\ Append(s, f)[Len(s) + 1] = f
  BY AppendIs, SequenceIs
<1>2. /\ \A k \in 1 .. Len(s) + 1 : k \in 1 .. Len(s) \/ k = Len(s) + 1
      /\ \A k \in 1 .. Len(s) : k \in 1 .. Len(s) + 1
      /\ Len(s) + 1 \in 1 .. Len(s) + 1
  BY <1>1
<1>3. \A t, K : Fresh(s, t, K) /\ (\A e \in f.left : e.path \in K => e.entry = t[e.path])
                        => Fresh(Append(s, f), t, K)
  BY <1>1, <1>2, Zenon DEF Fresh
<1>4. \A p : Pending(s, p) => Pending(Append(s, f), p)
  BY <1>1, <1>2, Zenon DEF Pending
<1>5. \A e \in f.left : Pending(Append(s, f), e.path)
  BY <1>1, <1>2, Zenon DEF Pending
<1> QED
  BY <1>3, <1>4, <1>5, Zenon

\* Leaving a directory that is done leaves the other entries pending.
LEMMA LeftLeft ==
  ASSUME NEW s \in Seq(Frames), s # << >>
  PROVE  /\ \A t, K : Fresh(s, t, K) => Fresh(ButLast(s), t, K)
         /\ s[Len(s)].left = {} => \A p : Pending(s, p) => Pending(ButLast(s), p)
<1>1. /\ Len(ButLast(s)) = Len(s) - 1 /\ Len(s) \in Nat \ {0}
      /\ \A k \in 1 .. Len(s) - 1 : ButLast(s)[k] = s[k]
  BY ButLastIs, Zenon
<1>2. /\ \A k \in 1 .. Len(s) - 1 : k \in 1 .. Len(s)
      /\ \A k \in 1 .. Len(s) : k \in 1 .. Len(s) - 1 \/ k = Len(s)
  BY <1>1
<1>3. \A k \in 1 .. Len(ButLast(s)) : k \in 1 .. Len(s) /\ ButLast(s)[k] = s[k]
  BY <1>1, <1>2, Zenon
<1>4. \A t, K : Fresh(s, t, K) => Fresh(ButLast(s), t, K)
  BY <1>3, Zenon DEF Fresh
<1>5. s[Len(s)].left = {} => \A p : Pending(s, p) => Pending(ButLast(s), p)
  BY <1>1, <1>2, Zenon DEF Pending
<1> QED
  BY <1>4, <1>5, Zenon

\* No target has the id that stands for none.
LEMMA IdsNumbered ==
  Ids \subseteq Nat \ {0} /\ NoScan \notin Ids /\ \A J \in JobTargets : J \subseteq Ids
<1>1. \A i \in Ids : i \in Nat /\ i # 0
  BY PlanningAssumption, Zenon DEF Ids
<1>2. \A J \in JobTargets : J \subseteq Ids
  BY PlanningAssumption, Zenon DEF Ids
<1> QED
  BY <1>1, <1>2, Zenon DEF NoScan

\* A directory is not an absent entry.
LEMMA DirsArePresent == \A x : x.kind = "dir" => x # Absent
  BY DEF Absent

\* An app changes one entry, and with it only what no theorem speaks of.
LEMMA AppKeeps ==
  ASSUME PlanInv, stage = "scan", NEW id \in Ids, NEW p \in Paths, NEW x \in TreeEntries,
         tree' = [tree EXCEPT ![id][p] = x], EntryChanges(id, p),
         IsTree(tree'[id]), \A q \in kept[id] : Len(q) > 1 => Parent(q) # p,
         UNCHANGED <<stage, stopping, todo, visiting, stack, found, hitLimit, errors,
                     missed, statuses, permits, plan, grant>>
  PROVE  PlanInv'
<1>1. /\ tree \in [Ids -> [Paths -> TreeEntries]] /\ kept \in [Ids -> SUBSET Paths]
  BY Zenon DEF PlanInv, PlanTyped
<1>2. /\ tree' \in [Ids -> [Paths -> TreeEntries]]
      /\ \A i \in Ids \ {id} : tree'[i] = tree[i]
      /\ \A q \in Paths \ {p} : tree'[id][q] = tree[id][q]
  <2>1. tree' = [tree EXCEPT ![id] = [tree[id] EXCEPT ![p] = x]]
    BY Zenon
  <2> DEFINE t == [tree[id] EXCEPT ![p] = x]
  <2>2. t \in [Paths -> TreeEntries] /\ \A q \in Paths \ {p} : t[q] = tree[id][q]
    BY <1>1, Zenon
  <2> HIDE DEF t
  <2>3. tree' = [tree EXCEPT ![id] = t]
    BY <2>1, Zenon DEF t
  <2> QED
    BY <1>1, <2>2, <2>3, Zenon
<1>3. /\ kept' \in [Ids -> SUBSET Paths]
      /\ kept'[id] = kept[id] \ {p}
      /\ \A i \in Ids \ {id} : kept'[i] = kept[i]
  BY <1>1, Zenon DEF EntryChanges
<1>4. \A i \in Ids : kept'[i] \subseteq kept[i]
  BY <1>3, Zenon
<1>5. \A i \in Ids : \A q \in kept'[i] : tree'[i][q] = tree[i][q]
  BY <1>1, <1>2, <1>3, Zenon
<1>6. \A i \in Ids : \A q \in kept'[i] :
        Standing(i, q)' = Standing(i, q) /\ (Refused(i, q) => Refused(i, q)')
  BY <1>5, Zenon DEF Standing, Refused
<1>7. PlanTyped'
  BY <1>2, <1>3, Zenon DEF PlanInv, PlanTyped
<1>8. TreesStand'
  <2>1. ASSUME NEW i \in Ids PROVE IsTree(tree'[i])
    BY <1>2, Zenon DEF PlanInv, TreesStand
  <2>2. ASSUME NEW i \in Ids, NEW q \in kept'[i]
        PROVE  tree'[i][q] # Absent /\ (Len(q) > 1 => Parent(q) \in kept'[i])
    <3>1. q \in kept[i] /\ tree'[i][q] = tree[i][q]
      BY <1>4, <1>5, Zenon
    <3>2. tree[i][q] # Absent /\ (Len(q) > 1 => Parent(q) \in kept[i])
      BY <3>1, Zenon DEF PlanInv, TreesStand
    <3> QED
      BY <3>1, <3>2, <1>3, Zenon
  <2> QED
    BY <2>1, <2>2, Zenon DEF TreesStand
<1>9. FoundPaths' = FoundPaths
  BY Zenon DEF FoundPaths
<1>10. StackNested' /\ OneCandidate'
  BY <1>9, Zenon DEF PlanInv, StackNested, OneCandidate
<1>11. ReadingsStand'
  <2>1. \A c \in found \cup permits : c.target \in Ids
    BY DEF PlanInv, PlanTyped, CandidateRecords
  <2>2. ASSUME NEW c \in found \cup permits, c.path \in kept'[c.target]
        PROVE  c = Standing(c.target, c.path)'
    <3>1. c = Standing(c.target, c.path)
      BY <2>1, <2>2, <1>4, Zenon DEF PlanInv, ReadingsStand
    <3> QED
      BY <3>1, <2>1, <2>2, <1>6, Zenon
  <2>3. Fresh(stack, tree'[visiting], kept'[visiting])
    <3>1. CASE visiting \in Ids
      <4>1. Fresh(stack, tree[visiting], kept[visiting])
        BY Zenon DEF PlanInv, ReadingsStand
      <4> QED
        BY <4>1, <3>1, <1>4, <1>5, Zenon DEF Fresh
    <3>2. CASE visiting = NoScan
      <4>1. stack = << >>
        BY <3>2, Zenon DEF PlanInv, PlanTyped
      <4>2. 1 .. Len(stack) = {}
        BY <4>1
      <4> QED
        BY <4>2, Zenon DEF Fresh
    <3> QED
      BY <3>1, <3>2, Zenon DEF PlanInv, PlanTyped
  <2> QED
    BY <2>2, <2>3, Zenon DEF ReadingsStand
<1>12. NothingSkipped'
  <2>1. visiting # NoScan => visiting \in Ids
    BY Zenon DEF PlanInv, PlanTyped
  <2> QED
    BY <2>1, <1>4, <1>9, Zenon DEF PlanInv, NothingSkipped
<1>13. JudgedAll'
  <2>1. ASSUME NEW i \in Ids, statuses[i] = "Complete", i \notin missed, NEW q \in kept'[i]
        PROVE  Refused(i, q)' \/ Standing(i, q)' \in permits
    <3>1. q \in kept[i]
      BY <1>4, Zenon
    <3>2. Refused(i, q) \/ Standing(i, q) \in permits
      BY <3>1, <2>1, Zenon DEF PlanInv, JudgedAll
    <3> QED
      BY <3>2, <1>6, Zenon
  <2> QED
    BY <2>1, Zenon DEF PlanInv, JudgedAll
<1>14. PlanMade'
  BY Zenon DEF PlanInv, PlanMade
<1> QED
  BY <1>7, <1>8, <1>10, <1>11, <1>12, <1>13, <1>14, Zenon DEF PlanInv

\* The entry that is visited: a path of the innermost open directory that was not found yet.
LEMMA EntryFacts ==
  ASSUME PlanInv, Scanning, NEW e \in Top.left
  PROVE  /\ stack \in Seq(Frames) /\ stack # << >> /\ Len(stack) \in Nat \ {0}
         /\ visiting \in Ids /\ e \in stack[Len(stack)].left
         /\ e.path \in Paths /\ e.entry \in TreeEntries
         /\ Parent(e.path) = stack[Len(stack)].at /\ Len(e.path) = Len(stack)
         /\ e.path \notin FoundPaths
         /\ Len(e.path) > 1 => Parent(e.path) \in FoundPaths
         /\ AsCandidate(e) \in CandidateRecords
         /\ AsCandidate(e).path = e.path /\ AsCandidate(e).target = visiting
         /\ e.path \in kept[visiting] => e.entry = tree[visiting][e.path]
<1>1. stack \in Seq(Frames) /\ stack # << >> /\ visiting \in Ids
  BY Zenon DEF PlanInv, PlanTyped, Scanning
<1>2. Len(stack) \in Nat \ {0} /\ Len(stack) \in 1 .. Len(stack)
  BY <1>1, SequenceIs
<1>3. e \in stack[Len(stack)].left
  BY Zenon DEF Top
<1>4. e.path \in Paths /\ e.entry \in TreeEntries
  BY <1>1, <1>2, <1>3, FrameFacts, Zenon
<1>5. /\ Parent(e.path) = stack[Len(stack)].at /\ Len(stack[Len(stack)].at) = Len(stack) - 1
      /\ e.path \notin FoundPaths
      /\ Len(stack) > 1 => stack[Len(stack)].at \in FoundPaths
  BY <1>2, <1>3, Zenon DEF PlanInv, StackNested, Nested
<1>6. Len(e.path) \in Nat \ {0} /\ Len(Parent(e.path)) = Len(e.path) - 1
  BY <1>4, PathsClosed, Zenon
<1>7. Len(e.path) = Len(stack)
  BY <1>2, <1>5, <1>6
<1>8. /\ AsCandidate(e) \in CandidateRecords
      /\ AsCandidate(e).path = e.path /\ AsCandidate(e).target = visiting
  BY <1>1, <1>4 DEF AsCandidate, CandidateRecords, TreeEntries
<1>9. e.path \in kept[visiting] => e.entry = tree[visiting][e.path]
  BY <1>2, <1>3, Zenon DEF PlanInv, ReadingsStand, Fresh
<1> QED
  BY <1>1, <1>2, <1>3, <1>4, <1>5, <1>7, <1>8, <1>9, Zenon

\* How the open directories, and what was noted of the scan, may be after a visit.
VisitedWith(e) ==
  \/ /\ stack' = Taken(stack, e)
     /\ visiting \in missed' \/ hitLimit' \/ errors'
  \/ /\ \E listing \in Listings(visiting, e.path) :
          /\ stack' = Append(Taken(stack, e), [at |-> e.path, left |-> listing])
          /\ missed' = missed \cup Omits(visiting, e.path, listing)
     /\ Len(e.path) < ScanDepth
     /\ UNCHANGED <<hitLimit, errors>>
  \/ /\ e.entry.kind # "dir"
     /\ stack' = Taken(stack, e)
     /\ UNCHANGED <<hitLimit, errors, missed>>

\* The branches of VisitEntry, as VisitedWith states them.
LEMMA VisitCases ==
  ASSUME PlanInv, NEW e, VisitEntry(e)
  PROVE  /\ Scanning /\ e \in Top.left
         /\ Cardinality(found) < MaxCandidates
         /\ found' = found \cup {AsCandidate(e)}
         /\ VisitedWith(e)
         /\ missed \subseteq missed' /\ hitLimit' \in BOOLEAN /\ errors' \in BOOLEAN
         /\ UNCHANGED <<tree, changes, stage, stopping, todo, visiting, statuses, permits,
                        plan, grant, kept>>
<1>1. hitLimit \in BOOLEAN /\ errors \in BOOLEAN
  BY Zenon DEF PlanInv, PlanTyped
<1> DEFINE rest == [stack EXCEPT ![Len(stack)].left = @ \ {e}]
<1>2. rest = Taken(stack, e)
  BY Zenon DEF Taken
<1>3. \/ /\ e.entry.kind = "dir" /\ tree[visiting][e.path].kind = "dir"
         /\ Enter(e.path, rest, found')
      \/ /\ e.entry.kind = "dir"
         /\ stack' = rest
         /\ missed' = missed \cup {visiting}
         /\ UNCHANGED <<hitLimit, errors>>
      \/ /\ e.entry.kind # "dir"
         /\ stack' = rest
         /\ UNCHANGED <<hitLimit, errors, missed>>
  BY Zenon DEF VisitEntry
<1> HIDE DEF rest
<1>4. ASSUME Enter(e.path, rest, found')
      PROVE  /\ VisitedWith(e)
             /\ missed \subseteq missed' /\ hitLimit' \in BOOLEAN /\ errors' \in BOOLEAN
  BY <1>1, <1>2, <1>4, Zenon DEF Enter, VisitedWith
<1>5. /\ VisitedWith(e)
      /\ missed \subseteq missed' /\ hitLimit' \in BOOLEAN /\ errors' \in BOOLEAN
  BY <1>1, <1>2, <1>3, <1>4, Zenon DEF VisitedWith
<1> QED
  BY <1>5, Zenon DEF VisitEntry

\* A listing has present entries of a directory once each, as they stand, and all
\* of them unless it omits one.
ListsAsItStands(id, d, listing) ==
  /\ [at |-> d, left |-> listing] \in Frames
  /\ \A g \in listing :
       /\ g.path \in Paths /\ Parent(g.path) = d
       /\ g.entry = tree[id][g.path]
       /\ \A h \in listing : h.path = g.path => h = g
  /\ id \notin Omits(id, d, listing) =>
       \A p \in Paths : Parent(p) = d /\ tree[id][p] # Absent => \E g \in listing : g.path = p

\* So read_entries_fd lists a directory.
LEMMA ListedFacts ==
  ASSUME PlanInv, NEW id \in Ids, NEW d \in Paths \cup {<< >>}, NEW listing \in Listings(id, d)
  PROVE  ListsAsItStands(id, d, listing)
<1> DEFINE piece(p) == [path |-> p, entry |-> tree[id][p]]
<1>1. \A p \in Paths : piece(p) \in Pieces /\ piece(p).path = p /\ piece(p).entry = tree[id][p]
  <2>1. \A p \in Paths : tree[id][p] \in TreeEntries
    BY Zenon DEF PlanInv, PlanTyped
  <2> QED
    BY <2>1 DEF Pieces
<1>2. Children(id, d) = {piece(p) : p \in {q \in Paths : Parent(q) = d /\ tree[id][q] # Absent}}
  BY Zenon DEF Children
<1> HIDE DEF piece
<1>3. listing \subseteq Children(id, d) /\ Children(id, d) \subseteq Pieces
  BY <1>1, <1>2, Zenon DEF Listings
<1>4. \A g \in Children(id, d) : g.path \in Paths /\ Parent(g.path) = d
         /\ g.entry = tree[id][g.path] /\ g = piece(g.path)
  BY <1>1, <1>2, Zenon
<1>5. ASSUME id \notin Omits(id, d, listing), NEW p \in Paths, Parent(p) = d, tree[id][p] # Absent
      PROVE  \E g \in listing : g.path = p
  <2>1. listing = Children(id, d)
    BY <1>5, Zenon DEF Omits
  <2> QED
    BY <1>1, <1>2, <1>5, <2>1, Zenon
<1>6. [at |-> d, left |-> listing] \in Frames
  BY <1>3, Zenon DEF Frames
<1>7. ASSUME NEW g \in listing
      PROVE  /\ g.path \in Paths /\ Parent(g.path) = d
             /\ g.entry = tree[id][g.path]
             /\ \A h \in listing : h.path = g.path => h = g
  <2>1. g \in Children(id, d) /\ \A h \in listing : h \in Children(id, d)
    BY <1>3, Zenon
  <2>2. \A h \in listing : h = piece(h.path)
    BY <1>4, <2>1, Zenon
  <2>3. g = piece(g.path)
    BY <1>4, <2>1, Zenon
  <2>4. ASSUME NEW h \in listing, h.path = g.path PROVE h = g
    BY <2>2, <2>3, <2>4, Zenon
  <2> QED
    BY <1>4, <2>1, <2>4, Zenon
<1> QED
  BY <1>5, <1>6, <1>7, Zenon DEF ListsAsItStands

\* The frame of a directory that was just found fits below the others.
LEMMA OpenedFits ==
  ASSUME PlanInv, Scanning, NEW e \in Top.left, Len(e.path) < ScanDepth,
         NEW listing \in Listings(visiting, e.path)
  PROVE  LET new == [at |-> e.path, left |-> listing]
             F == FoundPaths \cup {e.path}
         IN  /\ new \in Frames
             /\ Nested(Append(Taken(stack, e), new), F)
             /\ Append(Taken(stack, e), new) \in Seq(Frames)
<1> DEFINE new == [at |-> e.path, left |-> listing]
           F == FoundPaths \cup {e.path}
           rest == Taken(stack, e)
<1>1. /\ stack \in Seq(Frames) /\ stack # << >> /\ Len(stack) \in Nat \ {0}
      /\ visiting \in Ids /\ e \in stack[Len(stack)].left
      /\ e.path \in Paths
      /\ Len(e.path) = Len(stack)
      /\ e.path \notin FoundPaths
  BY EntryFacts, Zenon
<1>2. rest \in Seq(Frames) /\ Len(rest) = Len(stack)
  BY <1>1, TakenFrames, Zenon
<1>3. Nested(rest, F)
  BY <1>1, TakenNested, Zenon DEF PlanInv, StackNested
<1>4. /\ new \in Frames
      /\ \A g \in listing :
           /\ g.path \in Paths /\ Parent(g.path) = e.path
           /\ g.entry = tree[visiting][g.path]
           /\ \A h \in listing : h.path = g.path => h = g
  <2>1. e.path \in Paths \cup {<< >>}
    BY <1>1, Zenon
  <2>2. ListsAsItStands(visiting, e.path, listing)
    BY <1>1, <2>1, ListedFacts, Zenon
  <2> QED
    BY <2>2, Zenon DEF ListsAsItStands
<1>5. new.at = e.path /\ new.left = listing
  BY Zenon
<1> HIDE DEF new
<1>6. ASSUME NEW g \in new.left PROVE Parent(g.path) = new.at /\ g.path \notin F
  <2>1. g.path \in Paths /\ Parent(g.path) = e.path
    BY <1>4, <1>5, Zenon
  <2>2. Len(Parent(g.path)) = Len(g.path) - 1 /\ Len(g.path) \in Nat
    BY <2>1, PathsClosed, Zenon
  <2>3. Len(g.path) = Len(e.path) + 1 /\ Len(g.path) > 1
    BY <2>1, <2>2, <1>1
  <2>4. g.path # e.path
    BY <2>3, <1>1
  <2>5. ASSUME g.path \in FoundPaths PROVE FALSE
    <3>1. PICK c \in found : c.path = g.path
      BY <2>5, Zenon DEF FoundPaths
    <3>2. Len(c.path) > 1 => Parent(c.path) \in FoundPaths
      BY Zenon DEF PlanInv, StackNested
    <3> QED
      BY <3>1, <3>2, <2>1, <2>3, <1>1, Zenon
  <2> QED
    BY <2>1, <2>4, <2>5, <1>5, Zenon
<1>7. \A g, h \in new.left : h.path = g.path => h = g
  BY <1>4, <1>5, Zenon
<1>8. new.at \in F /\ Len(new.at) = Len(rest) /\ Len(new.at) < ScanDepth
  BY <1>1, <1>2, <1>5, Zenon
<1> HIDE DEF F, rest
<1>9. Nested(Append(rest, new), F)
  BY <1>2, <1>3, <1>4, <1>6, <1>7, <1>8, OpenedNested, Zenon
<1>10. Append(rest, new) \in Seq(Frames)
  BY <1>2, <1>4, AppendIs, Zenon
<1> QED
  BY <1>4, <1>9, <1>10, Zenon DEF F, rest, new

\* A visit leaves the stack in order and loses no untouched entry.
LEMMA VisitStack ==
  ASSUME PlanInv, NEW e, VisitEntry(e), FoundPaths' = FoundPaths \cup {e.path}
  PROVE  /\ stack' \in Seq(Frames) /\ Nested(stack', FoundPaths')
         /\ Fresh(stack', tree[visiting], kept[visiting])
         /\ NothingSkipped'
<1>1. /\ Scanning /\ e \in Top.left
      /\ VisitedWith(e)
      /\ missed \subseteq missed' /\ hitLimit' \in BOOLEAN /\ errors' \in BOOLEAN
      /\ UNCHANGED <<tree, changes, stage, stopping, todo, visiting, statuses, permits,
                     plan, grant, kept>>
  BY VisitCases, Zenon
<1>2. /\ stack \in Seq(Frames) /\ stack # << >>
      /\ visiting \in Ids /\ e \in stack[Len(stack)].left
      /\ e.path \in Paths /\ e.entry \in TreeEntries
      /\ e.path \in kept[visiting] => e.entry = tree[visiting][e.path]
  BY <1>1, EntryFacts, Zenon
<1>3. Taken(stack, e) \in Seq(Frames)
  BY <1>2, TakenFrames, Zenon
<1>4. Nested(Taken(stack, e), FoundPaths')
  BY <1>2, TakenNested, Zenon DEF PlanInv, StackNested
<1>5. Fresh(Taken(stack, e), tree[visiting], kept[visiting])
  BY <1>2, TakenLeft, Zenon DEF PlanInv, ReadingsStand
<1>6. \A p : Pending(stack, p) /\ p # e.path => Pending(Taken(stack, e), p)
  BY <1>2, TakenLeft, Zenon
<1>7. \A p \in kept[visiting] : p \in Paths /\ tree[visiting][p] # Absent
         /\ (Len(p) > 1 => Parent(p) \in kept[visiting] /\ tree[visiting][Parent(p)].kind = "dir")
  <2>1. kept[visiting] \subseteq Paths
    BY <1>2, Zenon DEF PlanInv, PlanTyped
  <2>2. /\ IsTree(tree[visiting])
        /\ \A p \in kept[visiting] : tree[visiting][p] # Absent /\ (Len(p) > 1 => Parent(p) \in kept[visiting])
    BY <1>2, Zenon DEF PlanInv, TreesStand
  <2> QED
    BY <2>1, <2>2, Zenon DEF IsTree
<1>8. ASSUME ~hitLimit, ~errors, visiting \notin missed, NEW p \in kept[visiting]
      PROVE  p \in FoundPaths \/ (Len(p) > 1 /\ Parent(p) \notin FoundPaths) \/ Pending(stack, p)
  BY <1>1, <1>8, Zenon DEF PlanInv, NothingSkipped, Scanning
<1>9. CASE /\ stack' = Taken(stack, e)
           /\ visiting \in missed' \/ hitLimit' \/ errors'
  <2>1. NothingSkipped'
    BY <1>1, <1>9, Zenon DEF NothingSkipped
  <2> QED
    BY <2>1, <1>3, <1>4, <1>5, <1>9, Zenon
<1>10. CASE /\ \E listing \in Listings(visiting, e.path) :
                 /\ stack' = Append(Taken(stack, e), [at |-> e.path, left |-> listing])
                 /\ missed' = missed \cup Omits(visiting, e.path, listing)
            /\ Len(e.path) < ScanDepth
            /\ UNCHANGED <<hitLimit, errors>>
  <2>a. PICK listing \in Listings(visiting, e.path) :
             /\ stack' = Append(Taken(stack, e), [at |-> e.path, left |-> listing])
             /\ missed' = missed \cup Omits(visiting, e.path, listing)
    BY <1>10, Zenon
  <2> DEFINE new == [at |-> e.path, left |-> listing]
  <2>1. new \in Frames /\ stack' \in Seq(Frames) /\ Nested(stack', FoundPaths')
    BY <1>1, <1>10, <2>a, OpenedFits, Zenon
  <2>2. /\ \A g \in listing : g.entry = tree[visiting][g.path]
        /\ visiting \notin missed' =>
             \A p \in Paths : Parent(p) = e.path /\ tree[visiting][p] # Absent =>
               \E g \in listing : g.path = p
    <3>1. e.path \in Paths \cup {<< >>}
      BY <1>2, Zenon
    <3>a. ListsAsItStands(visiting, e.path, listing)
      BY <1>2, <3>1, ListedFacts, Zenon
    <3>2. \A g \in listing : g.entry = tree[visiting][g.path]
      BY <3>a, Zenon DEF ListsAsItStands
    <3>3. ASSUME visiting \notin missed', NEW p \in Paths, Parent(p) = e.path, tree[visiting][p] # Absent
          PROVE  \E g \in listing : g.path = p
      <4>1. visiting \notin Omits(visiting, e.path, listing)
        BY <2>a, <3>3, Zenon
      <4> QED
        BY <3>a, <3>3, <4>1, Zenon DEF ListsAsItStands
    <3> QED
      BY <3>2, <3>3, Zenon
  <2>3. new.left = listing /\ stack' = Append(Taken(stack, e), new)
    BY <2>a, Zenon
  <2> HIDE DEF new
  <2>4. \A g \in new.left : g.path \in kept[visiting] => g.entry = tree[visiting][g.path]
    BY <2>2, <2>3, Zenon
  <2>5. /\ \A t, K : Fresh(Taken(stack, e), t, K) /\ (\A g \in new.left : g.path \in K => g.entry = t[g.path])
                        => Fresh(stack', t, K)
        /\ \A p : Pending(Taken(stack, e), p) => Pending(stack', p)
        /\ \A g \in new.left : Pending(stack', g.path)
    BY <1>3, <2>1, <2>3, OpenedLeft, Zenon
  <2>6. Fresh(stack', tree[visiting], kept[visiting])
    BY <1>5, <2>4, <2>5, Zenon
  <2>7. ASSUME ~hitLimit, ~errors, visiting \notin missed', NEW p \in kept[visiting]
        PROVE  p \in FoundPaths' \/ (Len(p) > 1 /\ Parent(p) \notin FoundPaths') \/ Pending(stack', p)
    <3>1. CASE p \in FoundPaths
      BY <3>1, Zenon
    <3>2. CASE Len(p) > 1 /\ Parent(p) \notin FoundPaths
      <4>1. CASE Parent(p) = e.path
        <5>1. PICK g \in new.left : g.path = p
          BY <4>1, <1>7, <2>2, <2>3, <2>7, Zenon
        <5> QED
          BY <5>1, <2>5, Zenon
      <4> QED
        BY <3>2, <4>1, Zenon
    <3>3. CASE Pending(stack, p)
      BY <3>3, <1>6, <2>5, Zenon
    <3> QED
      BY <1>1, <3>1, <3>2, <3>3, <2>7, <1>8, Zenon
  <2>8. NothingSkipped'
    BY <2>7, <1>1, <1>10, Zenon DEF NothingSkipped
  <2> QED
    BY <2>1, <2>6, <2>8, Zenon
<1>11. CASE /\ e.entry.kind # "dir"
            /\ stack' = Taken(stack, e)
            /\ UNCHANGED <<hitLimit, errors, missed>>
  <2>1. ASSUME ~hitLimit, ~errors, visiting \notin missed, NEW p \in kept[visiting]
        PROVE  p \in FoundPaths' \/ (Len(p) > 1 /\ Parent(p) \notin FoundPaths') \/ Pending(stack', p)
    <3>1. CASE p \in FoundPaths
      BY <3>1, Zenon
    <3>2. CASE Len(p) > 1 /\ Parent(p) \notin FoundPaths
      <4>1. Parent(p) # e.path
        BY <3>2, <1>2, <1>7, <1>11, Zenon
      <4> QED
        BY <3>2, <4>1, Zenon
    <3>3. CASE Pending(stack, p)
      BY <3>3, <1>6, <1>11, Zenon
    <3> QED
      BY <3>1, <3>2, <3>3, <2>1, <1>8, Zenon
  <2>2. NothingSkipped'
    BY <2>1, <1>1, <1>11, Zenon DEF NothingSkipped
  <2> QED
    BY <2>2, <1>3, <1>4, <1>5, <1>11, Zenon
<1> QED
  BY <1>1, <1>9, <1>10, <1>11, Zenon DEF VisitedWith

\* What a step of the scan leaves alone.
LEMMA ScanKeepsRest ==
  ASSUME PlanInv, missed \subseteq missed',
         UNCHANGED <<tree, stage, statuses, permits, plan, grant, kept>>, stage = "scan"
  PROVE  TreesStand' /\ JudgedAll' /\ PlanMade'
<1>1. \A i, p : Standing(i, p)' = Standing(i, p) /\ Refused(i, p)' = Refused(i, p)
  BY Zenon DEF Standing, Refused
<1>2. TreesStand'
  BY Zenon DEF PlanInv, TreesStand
<1>3. JudgedAll'
  BY <1>1, Zenon DEF PlanInv, JudgedAll
<1>4. PlanMade'
  BY Zenon DEF PlanInv, PlanMade
<1> QED
  BY <1>2, <1>3, <1>4, Zenon

\* VisitEntry keeps the invariant.
LEMMA VisitKeeps ==
  ASSUME PlanInv, NEW e, VisitEntry(e)
  PROVE  PlanInv'
<1>1. /\ Scanning /\ e \in Top.left
      /\ Cardinality(found) < MaxCandidates
      /\ found' = found \cup {AsCandidate(e)}
      /\ missed \subseteq missed' /\ hitLimit' \in BOOLEAN /\ errors' \in BOOLEAN
      /\ UNCHANGED <<tree, changes, stage, stopping, todo, visiting, statuses, permits,
                     plan, grant, kept>>
  BY VisitCases, Zenon
<1>2. /\ visiting \in Ids
      /\ e.path \notin FoundPaths
      /\ Len(e.path) > 1 => Parent(e.path) \in FoundPaths
      /\ AsCandidate(e) \in CandidateRecords
      /\ AsCandidate(e).path = e.path /\ AsCandidate(e).target = visiting
      /\ e.path \in kept[visiting] => e.entry = tree[visiting][e.path]
  BY <1>1, EntryFacts, Zenon
<1> DEFINE c0 == AsCandidate(e)
<1>3. FoundPaths' = FoundPaths \cup {e.path}
  BY <1>1, <1>2, Zenon DEF FoundPaths
<1>4. /\ stack' \in Seq(Frames) /\ Nested(stack', FoundPaths')
      /\ Fresh(stack', tree[visiting], kept[visiting])
      /\ NothingSkipped'
  BY <1>3, VisitStack, Zenon
<1>5. TreesStand' /\ JudgedAll' /\ PlanMade'
  BY <1>1, ScanKeepsRest, Zenon DEF Scanning
<1>6. IsFiniteSet(found') /\ Cardinality(found') <= MaxCandidates
  <2>1. IsFiniteSet(found) /\ Cardinality(found) \in Nat
    BY FS_CardinalityType, Zenon DEF PlanInv, PlanTyped
  <2>2. /\ IsFiniteSet(found \cup {c0})
        /\ Cardinality(found \cup {c0}) = IF c0 \in found THEN Cardinality(found) ELSE Cardinality(found) + 1
    BY <2>1, FS_AddElement, Zenon
  <2> HIDE DEF c0
  <2>3. found' = found \cup {c0}
    BY <1>1, Zenon DEF c0
  <2> QED
    BY <2>1, <2>2, <2>3, <1>1, PlanningAssumption
<1>7. PlanTyped'
  BY <1>1, <1>2, <1>4, <1>6, Zenon DEF PlanInv, PlanTyped, Scanning
<1>8. \A c \in found' : c \in found \/ c = c0
  BY <1>1, Zenon
<1>9. StackNested'
  <2>1. \A c \in found' : Len(c.path) > 1 => Parent(c.path) \in FoundPaths'
    BY <1>2, <1>3, <1>8, Zenon DEF PlanInv, StackNested
  <2> QED
    BY <2>1, <1>4, Zenon DEF StackNested
<1>10. \A c \in found : c.path # e.path
  BY <1>2, Zenon DEF FoundPaths
<1>11. OneCandidate'
  <2>1. \A c \in found' : c.target = visiting /\ \A d \in found' : c.path = d.path => c = d
    BY <1>2, <1>8, <1>10, Zenon DEF PlanInv, OneCandidate
  <2> QED
    BY <2>1, <1>1, Zenon DEF PlanInv, OneCandidate
<1>12. ReadingsStand'
  <2>1. \A i, p : Standing(i, p)' = Standing(i, p)
    BY <1>1, Zenon DEF Standing
  <2>2. e.path \in kept[visiting] => c0 = Standing(visiting, e.path)
    BY <1>2, Zenon DEF AsCandidate, Standing
  <2>3. \A c \in found' \cup permits : c.path \in kept[c.target] => c = Standing(c.target, c.path)
    BY <2>2, <1>2, <1>8, Zenon DEF PlanInv, ReadingsStand
  <2> QED
    BY <2>1, <2>3, <1>1, <1>4, Zenon DEF ReadingsStand
<1> QED
  BY <1>4, <1>5, <1>7, <1>9, <1>11, <1>12, Zenon DEF PlanInv

\* LeaveDirectory keeps the invariant.
LEMMA LeaveKeeps ==
  ASSUME PlanInv, LeaveDirectory
  PROVE  PlanInv'
<1>1. /\ Scanning
      /\ hitLimit' = (hitLimit \/ Top.left # {})
      /\ stack' = ButLast(stack)
      /\ UNCHANGED <<tree, changes, stage, stopping, todo, visiting, found, errors,
                     missed, statuses, permits, plan, grant, kept>>
  BY Zenon DEF LeaveDirectory, ButLast
<1>2. stack \in Seq(Frames) /\ stack # << >> /\ hitLimit' \in BOOLEAN
  BY <1>1, Zenon DEF PlanInv, PlanTyped, Scanning
<1>3. ButLast(stack) \in Seq(Frames)
  BY <1>2, ButLastIs, Zenon
<1>4. FoundPaths' = FoundPaths
  BY <1>1, Zenon DEF FoundPaths
<1>5. Nested(ButLast(stack), FoundPaths)
  BY <1>2, LeftNested, Zenon DEF PlanInv, StackNested
<1>6. /\ \A t, K : Fresh(stack, t, K) => Fresh(ButLast(stack), t, K)
      /\ stack[Len(stack)].left = {} => \A p : Pending(stack, p) => Pending(ButLast(stack), p)
  BY <1>2, LeftLeft, Zenon
<1>7. TreesStand' /\ JudgedAll' /\ PlanMade'
  BY <1>1, ScanKeepsRest, Zenon DEF Scanning
<1>8. PlanTyped'
  BY <1>1, <1>2, <1>3, Zenon DEF PlanInv, PlanTyped, Scanning
<1>9. StackNested' /\ OneCandidate'
  BY <1>1, <1>4, <1>5, Zenon DEF PlanInv, StackNested, OneCandidate
<1>10. ReadingsStand'
  <2>1. \A i, p : Standing(i, p)' = Standing(i, p)
    BY <1>1, Zenon DEF Standing
  <2> QED
    BY <2>1, <1>1, <1>6, Zenon DEF PlanInv, ReadingsStand
<1>11. NothingSkipped'
  <2>1. ~hitLimit' => ~hitLimit /\ stack[Len(stack)].left = {}
    BY <1>1, Zenon DEF Top
  <2> QED
    BY <2>1, <1>1, <1>4, <1>6, Zenon DEF PlanInv, NothingSkipped
<1> QED
  BY <1>7, <1>8, <1>9, <1>10, <1>11, Zenon DEF PlanInv

\* ScanTarget keeps the invariant.
LEMMA ScanTargetKeeps ==
  ASSUME PlanInv, NEW id, ScanTarget(id)
  PROVE  PlanInv'
<1>1. /\ stage = "scan" /\ visiting = NoScan /\ id \in todo
      /\ todo' = todo \ {id} /\ visiting' = id /\ found' = {}
      /\ kept' = [kept EXCEPT ![id] = {p \in Paths : tree[id][p] # Absent}]
      /\ hitLimit' = FALSE /\ errors' \in BOOLEAN
      /\ UNCHANGED <<tree, changes, stage, stopping, statuses, permits, plan, grant>>
  BY Zenon DEF ScanTarget
<1>a. PICK listing \in Listings(id, << >>) :
        \/ /\ stack' = <<[at |-> << >>, left |-> listing]>>
           /\ missed' = missed \cup Omits(id, << >>, listing)
        \/ stack' = << >> /\ errors' /\ missed' = missed
  <2>1. {} \in Listings(id, << >>)
    BY Zenon DEF Listings
  <2> QED
    BY <2>1, Zenon DEF ScanTarget
<1>2. id \in Ids /\ kept \in [Ids -> SUBSET Paths]
  BY <1>1, Zenon DEF PlanInv, PlanTyped
<1>3. /\ kept' \in [Ids -> SUBSET Paths]
      /\ kept'[id] = {p \in Paths : tree[id][p] # Absent}
      /\ \A i \in Ids \ {id} : kept'[i] = kept[i]
  BY <1>1, <1>2, Zenon
<1>4. \A i, p : Standing(i, p)' = Standing(i, p) /\ Refused(i, p)' = Refused(i, p)
  BY <1>1, Zenon DEF Standing, Refused
<1> DEFINE new == [at |-> << >>, left |-> listing]
<1>7. new.at = << >> /\ new.left = listing
  BY Zenon
<1>8. /\ new \in Frames
      /\ \A g \in listing :
           /\ g.path \in Paths /\ Parent(g.path) = << >>
           /\ g.entry = tree[id][g.path]
           /\ \A h \in listing : h.path = g.path => h = g
      /\ id \notin Omits(id, << >>, listing) =>
           \A p \in Paths : Parent(p) = << >> /\ tree[id][p] # Absent =>
             \E g \in listing : g.path = p
  <2>1. << >> \in Paths \cup {<< >>}
    BY Zenon
  <2>2. ListsAsItStands(id, << >>, listing)
    BY <1>2, <2>1, ListedFacts, Zenon
  <2> QED
    BY <2>2, Zenon DEF ListsAsItStands
<1> HIDE DEF new
<1>10. \A k \in 1 .. Len(stack') : k = 1 /\ stack' = <<new>> /\ stack'[k] = new
  <2>1. CASE stack' = <<new>>
    BY <2>1
  <2>2. CASE stack' = << >>
    <3>1. 1 .. Len(stack') = {}
      BY <2>2
    <3> QED
      BY <3>1, Zenon
  <2> QED
    BY <2>1, <2>2, <1>a, Zenon DEF new
<1>11. stack' \in Seq(Frames)
  <2>1. << >> \in Seq(Frames) /\ <<new>> \in Seq(Frames)
    BY <1>8
  <2> QED
    BY <2>1, <1>a, Zenon DEF new
<1>12. FoundPaths' = {}
  BY <1>1, Zenon DEF FoundPaths
<1>13. PlanTyped'
  <2>1. IsFiniteSet({}) /\ Cardinality({}) = 0
    BY FS_EmptySet, Zenon
  <2>2. 0 <= MaxCandidates
    BY PlanningAssumption
  <2>3. id # NoScan
    BY <1>2, IdsNumbered, Zenon
  <2> QED
    BY <2>1, <2>2, <2>3, <1>1, <1>2, <1>3, <1>11, Zenon DEF PlanInv, PlanTyped
<1>14. TreesStand'
  <2>1. ASSUME NEW i \in Ids, NEW p \in kept'[i]
        PROVE  tree[i][p] # Absent /\ (Len(p) > 1 => Parent(p) \in kept'[i])
    <3>1. CASE i # id
      BY <3>1, <1>3, Zenon DEF PlanInv, TreesStand
    <3>2. CASE i = id
      <4>1. p \in Paths /\ tree[id][p] # Absent
        BY <3>2, <1>3, Zenon
      <4>2. Len(p) > 1 => Parent(p) \in Paths /\ tree[id][Parent(p)].kind = "dir"
        BY <4>1, <1>2, PathsClosed, Zenon DEF PlanInv, TreesStand, IsTree
      <4> QED
        BY <4>1, <4>2, <3>2, <1>3, DirsArePresent, Zenon
    <3> QED
      BY <3>1, <3>2, Zenon
  <2> QED
    BY <2>1, <1>1, Zenon DEF PlanInv, TreesStand
<1>15. StackNested'
  <2>1. Len(new.at) = 1 - 1 /\ 1 <= ScanDepth /\ ~(1 > 1)
    BY <1>7, PlanningAssumption
  <2>2. \A e \in new.left : /\ Parent(e.path) = new.at
                            /\ e.path \notin {}
                            /\ \A g \in new.left : g.path = e.path => g = e
    BY <1>7, <1>8, Zenon
  <2>3. Nested(stack', {})
    BY <2>1, <2>2, <1>10, Zenon DEF Nested
  <2> QED
    BY <2>3, <1>1, <1>12, Zenon DEF StackNested
<1>16. OneCandidate'
  BY <1>1, Zenon DEF PlanInv, OneCandidate
<1>17. ReadingsStand'
  <2>1. \A c \in permits : c.target \in Ids \ {id}
    <3>1. \A c \in permits : c.target \in Ids
      BY DEF PlanInv, PlanTyped, CandidateRecords
    <3> QED
      BY <3>1, <1>1, Zenon DEF PlanInv, OneCandidate
  <2>2. \A c \in found' \cup permits : c.path \in kept'[c.target] => c = Standing(c.target, c.path)
    BY <2>1, <1>1, <1>3, Zenon DEF PlanInv, ReadingsStand
  <2>3. Fresh(stack', tree[id], kept'[id])
    BY <1>7, <1>8, <1>10, Zenon DEF Fresh
  <2> QED
    BY <2>2, <2>3, <1>1, <1>4, Zenon DEF ReadingsStand
<1>18. NothingSkipped'
  <2>1. ASSUME ~errors', id \notin missed', NEW p \in kept'[id], ~(Len(p) > 1)
        PROVE  Pending(stack', p)
    <3>1. p \in Paths /\ tree[id][p] # Absent
      BY <1>3, Zenon
    <3>2. Len(p) \in Nat \ {0} /\ (Len(p) = 1 <=> Parent(p) = << >>)
      BY <3>1, PathsClosed, Zenon
    <3>3. Parent(p) = << >>
      <4>1. \A n \in Nat \ {0} : ~(n > 1) => n = 1
        OBVIOUS
      <4> QED
        BY <4>1, <3>2, <2>1, Zenon
    <3>5. stack' = <<new>> /\ id \notin Omits(id, << >>, listing)
      BY <1>a, <2>1, Zenon DEF new
    <3>4. \E g \in new.left : g.path = p
      BY <3>1, <3>3, <3>5, <1>7, <1>8, Zenon
    <3>6. 1 \in 1 .. Len(stack') /\ stack'[1] = new
      BY <3>5
    <3> QED
      BY <3>4, <3>6, Zenon DEF Pending
  <2> QED
    BY <2>1, <1>1, <1>12, Zenon DEF NothingSkipped
<1>19. JudgedAll'
  <2>1. statuses[id] = "none"
    BY <1>1, Zenon DEF PlanInv, OneCandidate
  <2>2. \A i \in Ids : statuses[i] = "Complete" => kept'[i] = kept[i]
    BY <2>1, <1>3, Zenon
  <2>3. missed \subseteq missed'
    BY <1>a, Zenon
  <2> QED
    BY <2>2, <2>3, <1>1, <1>4, Zenon DEF PlanInv, JudgedAll
<1>20. PlanMade'
  BY <1>1, Zenon DEF PlanInv, PlanMade
<1> QED
  BY <1>13, <1>14, <1>15, <1>16, <1>17, <1>18, <1>19, <1>20, Zenon DEF PlanInv

\* A scan that skipped nothing found every untouched entry of its target: the
\* least deep one it did not find would be in a directory it found.
LEMMA FoundWhole ==
  ASSUME PlanInv, visiting \in Ids, stack = << >>,
         ~hitLimit, ~errors, visiting \notin missed
  PROVE  \A p \in kept[visiting] : Standing(visiting, p) \in found
<1>1. kept[visiting] \subseteq Paths
  BY Zenon DEF PlanInv, PlanTyped
<1>2. visiting # NoScan
  BY IdsNumbered, Zenon
<1>3. \A p : ~Pending(stack, p)
  <2>1. 1 .. Len(stack) = {}
    OBVIOUS
  <2> QED
    BY <2>1, Zenon DEF Pending
<1>4. \A p \in kept[visiting] : p \in FoundPaths \/ (Len(p) > 1 /\ Parent(p) \notin FoundPaths)
  BY <1>2, <1>3, Zenon DEF PlanInv, NothingSkipped
<1>5. \A p \in kept[visiting] : p \in FoundPaths
  <2> DEFINE T == {n \in Nat : \E p \in kept[visiting] : p \notin FoundPaths /\ Len(p) = n}
  <2> SUFFICES ASSUME NEW q \in kept[visiting], q \notin FoundPaths PROVE FALSE
    OBVIOUS
  <2>1. \A p \in kept[visiting] : Len(p) \in Nat
    BY <1>1, PathsClosed, Zenon
  <2>2. T \in SUBSET Nat /\ Len(q) \in T
    BY <2>1, Zenon
  <2>3. PICK n \in T : \A m \in T : n <= m
    BY <2>2, LeastDepth, Zenon
  <2>4. PICK p \in kept[visiting] : p \notin FoundPaths /\ Len(p) = n
    BY <2>3, Zenon
  <2>5. Len(p) > 1 /\ Parent(p) \notin FoundPaths
    BY <2>4, <1>4, Zenon
  <2>6. Parent(p) \in kept[visiting]
    BY <2>5, Zenon DEF PlanInv, TreesStand
  <2>7. Len(Parent(p)) = Len(p) - 1 /\ Len(p) \in Nat
    BY <1>1, PathsClosed, Zenon
  <2>8. Len(Parent(p)) \in T
    BY <2>1, <2>5, <2>6, Zenon
  <2> HIDE DEF T
  <2>9. n <= Len(Parent(p))
    BY <2>3, <2>8, Zenon
  <2> QED
    BY <2>4, <2>7, <2>9
<1>6. ASSUME NEW p \in kept[visiting] PROVE Standing(visiting, p) \in found
  <2>1. PICK c \in found : c.path = p
    BY <1>5, Zenon DEF FoundPaths
  <2>2. c.target = visiting
    BY Zenon DEF PlanInv, OneCandidate
  <2>3. c = Standing(c.target, c.path)
    BY <2>1, <2>2, Zenon DEF PlanInv, ReadingsStand
  <2> QED
    BY <2>1, <2>2, <2>3, Zenon
<1> QED
  BY <1>6, Zenon

\* JudgeCandidates keeps the invariant.
LEMMA JudgeKeeps ==
  ASSUME PlanInv, JudgeCandidates
  PROVE  PlanInv'
<1> DEFINE passed == {c \in found : validate_candidate(c, Target(visiting)) /\ evaluate_candidate(c, Target(visiting))}
<1>1. /\ stage = "scan" /\ visiting # NoScan /\ stack = << >>
      /\ statuses' = [statuses EXCEPT ![visiting] = Status]
      /\ permits' = permits \cup passed
      /\ visiting' = NoScan /\ found' = {}
      /\ hitLimit' = FALSE /\ errors' = FALSE
      /\ UNCHANGED <<tree, changes, stage, stopping, todo, stack, plan, grant, kept, missed>>
  BY Zenon DEF JudgeCandidates
<1>2. visiting \in Ids
  BY <1>1, Zenon DEF PlanInv, PlanTyped
<1>3. passed \subseteq found
      /\ \A c \in passed : validate_candidate(c, Target(visiting)) /\ evaluate_candidate(c, Target(visiting))
  BY Zenon
<1>4. \A c \in found : c \in passed \/ ~validate_candidate(c, Target(visiting)) \/ ~evaluate_candidate(c, Target(visiting))
  BY Zenon
<1> HIDE DEF passed
<1>5. Status \in {"Complete", "Partial", "Failed"} /\ (Status = "Complete" => ~hitLimit /\ ~errors)
  BY DEF Status
<1>6. /\ statuses' \in [Ids -> {"none", "Complete", "Partial", "Failed"}]
      /\ statuses'[visiting] = Status
      /\ \A i \in Ids \ {visiting} : statuses'[i] = statuses[i]
  <2>1. statuses \in [Ids -> {"none", "Complete", "Partial", "Failed"}]
    BY Zenon DEF PlanInv, PlanTyped
  <2> QED
    BY <2>1, <1>1, <1>2, <1>5, Zenon
<1>7. \A c \in found : c.target = visiting
  BY Zenon DEF PlanInv, OneCandidate
<1>8. FoundPaths' = {}
  BY <1>1, Zenon DEF FoundPaths
<1>9. \A i, p : Standing(i, p)' = Standing(i, p) /\ Refused(i, p)' = Refused(i, p)
  BY <1>1, Zenon DEF Standing, Refused
<1>10. PlanTyped'
  <2>1. IsFiniteSet({}) /\ Cardinality({}) = 0
    BY FS_EmptySet, Zenon
  <2>2. 0 <= MaxCandidates
    BY PlanningAssumption
  <2>3. permits' \subseteq CandidateRecords
    BY <1>1, <1>3, Zenon DEF PlanInv, PlanTyped
  <2>4. IsFiniteSet(permits')
    <3>1. IsFiniteSet(permits) /\ IsFiniteSet(found)
      BY Zenon DEF PlanInv, PlanTyped
    <3>2. IsFiniteSet(passed)
      BY <3>1, <1>3, FS_Subset, Zenon
    <3>3. IsFiniteSet(permits \cup passed)
      BY <3>1, <3>2, FS_Union, Zenon
    <3> QED
      BY <3>3, <1>1, Zenon
  <2> QED
    BY <2>1, <2>2, <2>3, <2>4, <1>1, <1>6, Zenon DEF PlanInv, PlanTyped
<1>11. 1 .. Len(stack) = {}
  BY <1>1
<1>12. TreesStand'
  BY <1>1, Zenon DEF PlanInv, TreesStand
<1>13. StackNested'
  BY <1>1, <1>11, Zenon DEF StackNested, Nested
<1>14. OneCandidate'
  <2>1. \A c, d \in permits' : c.target = d.target /\ c.path = d.path => c = d
    <3>1. \A c \in permits : c.target # visiting
      BY <1>1, Zenon DEF PlanInv, OneCandidate
    <3>2. \A c \in permits' : c \in permits \/ (c \in found /\ c.target = visiting)
      BY <1>1, <1>3, <1>7, Zenon
    <3> QED
      BY <3>1, <3>2, Zenon DEF PlanInv, OneCandidate
  <2>2. \A i \in todo : i # visiting /\ i \in Ids
    BY Zenon DEF PlanInv, PlanTyped, OneCandidate
  <2>3. \A i \in todo : statuses'[i] = "none" /\ \A c \in permits' : c.target # i
    <3>1. \A i \in todo : statuses[i] = "none" /\ \A c \in permits : c.target # i
      BY Zenon DEF PlanInv, OneCandidate
    <3>2. \A c \in permits' : c \in permits \/ c.target = visiting
      BY <1>1, <1>3, <1>7, Zenon
    <3> QED
      BY <2>2, <3>1, <3>2, <1>6, Zenon
  <2>4. NoScan \notin todo
    BY <2>2, IdsNumbered, Zenon
  <2> QED
    BY <2>1, <2>3, <2>4, <1>1, Zenon DEF OneCandidate
<1>15. ReadingsStand'
  <2>1. \A c \in permits' : c.path \in kept[c.target] => c = Standing(c.target, c.path)
    BY <1>1, <1>3, Zenon DEF PlanInv, ReadingsStand
  <2> QED
    BY <2>1, <1>1, <1>9, <1>11, Zenon DEF ReadingsStand, Fresh
<1>16. NothingSkipped'
  BY <1>1, Zenon DEF NothingSkipped
<1>17. JudgedAll'
  <2>1. \A c \in permits' :
          validate_candidate(c, Target(c.target)) /\ evaluate_candidate(c, Target(c.target))
    BY <1>1, <1>3, <1>7, Zenon DEF PlanInv, JudgedAll
  <2>2. ASSUME NEW i \in Ids, statuses'[i] = "Complete", i \notin missed, NEW p \in kept[i]
        PROVE  Refused(i, p) \/ Standing(i, p) \in permits'
    <3>1. CASE i # visiting
      <4>1. statuses[i] = "Complete"
        BY <3>1, <2>2, <1>6, Zenon
      <4>2. Refused(i, p) \/ Standing(i, p) \in permits
        BY <4>1, <2>2, Zenon DEF PlanInv, JudgedAll
      <4> QED
        BY <4>2, <1>1, Zenon
    <3>2. CASE i = visiting
      <4>1. ~hitLimit /\ ~errors
        BY <3>2, <2>2, <1>5, <1>6, Zenon
      <4>2. Standing(visiting, p) \in found
        BY <4>1, <3>2, <2>2, <1>1, <1>2, FoundWhole, Zenon
      <4>3. \/ Standing(visiting, p) \in passed
            \/ ~validate_candidate(Standing(visiting, p), Target(visiting))
            \/ ~evaluate_candidate(Standing(visiting, p), Target(visiting))
        BY <4>2, <1>4, Zenon
      <4>4. Standing(visiting, p) \in passed \/ Refused(visiting, p)
        BY <4>3, Zenon DEF Refused, Standing
      <4> QED
        BY <4>4, <3>2, <1>1, Zenon
    <3> QED
      BY <3>1, <3>2, Zenon
  <2> QED
    BY <2>1, <2>2, <1>1, <1>9, Zenon DEF JudgedAll
<1>18. PlanMade'
  BY <1>1, Zenon DEF PlanInv, PlanMade
<1> QED
  BY <1>10, <1>12, <1>13, <1>14, <1>15, <1>16, <1>17, <1>18, Zenon DEF PlanInv

\* What Before compares of a candidate.
LEMMA CandidateFacts ==
  ASSUME NEW c \in CandidateRecords
  PROVE  /\ c.target \in Ids /\ c.path \in Paths /\ c.dir \in BOOLEAN
         /\ c.target \in Nat /\ Len(c.path) \in Nat /\ PathOrder[c.path] \in Nat
         /\ c.mtime \in Nat
<1>1. c.target \in Ids /\ c.path \in Paths /\ c.dir \in BOOLEAN /\ c.mtime \in Nat
  BY DEF CandidateRecords
<1>2. c.target \in Nat /\ Len(c.path) \in Nat
  BY <1>1, IdsNumbered, PathsClosed, Zenon
<1>3. PathOrder[c.path] \in Nat
  BY <1>1, PlanningAssumption, Zenon
<1> QED
  BY <1>1, <1>2, <1>3, Zenon

\* The key of a candidate: Before compares these four numbers in turn.
LEMMA BeforeIsOrder ==
  ASSUME NEW a \in CandidateRecords, NEW b \in CandidateRecords, NEW c \in CandidateRecords
  PROVE  /\ ~Before(a, a)
         /\ Before(a, b) /\ Before(b, c) => Before(a, c)
         /\ Before(a, b) \/ Before(b, a) \/ (a.target = b.target /\ a.path = b.path)
<1>1. /\ a.dir \in BOOLEAN /\ a.target \in Nat /\ Len(a.path) \in Nat /\ PathOrder[a.path] \in Nat
      /\ a.path \in Paths
  BY CandidateFacts, Zenon
<1>2. /\ b.dir \in BOOLEAN /\ b.target \in Nat /\ Len(b.path) \in Nat /\ PathOrder[b.path] \in Nat
      /\ b.path \in Paths
  BY CandidateFacts, Zenon
<1>3. /\ c.dir \in BOOLEAN /\ c.target \in Nat /\ Len(c.path) \in Nat /\ PathOrder[c.path] \in Nat
  BY CandidateFacts, Zenon
<1>4. PathOrder[a.path] = PathOrder[b.path] => a.path = b.path
  BY <1>1, <1>2, PlanningAssumption, Zenon
<1>5. ~Before(a, a)
  BY <1>1 DEF Before
<1>6. Before(a, b) /\ Before(b, c) => Before(a, c)
  BY <1>1, <1>2, <1>3, SMTT(20) DEF Before
<1>7. Before(a, b) \/ Before(b, a) \/ (a.target = b.target /\ a.path = b.path)
  BY <1>1, <1>2, <1>4 DEF Before
<1> QED
  BY <1>5, <1>6, <1>7, Zenon

\* op_id numbers the permits from 1, in the order of Before, leaving none out.
LEMMA NumbersFollowOrder ==
  ASSUME PlanInv
  PROVE  /\ Cardinality(permits) \in Nat
         /\ \A c \in permits : op_id(c) \in 1 .. Cardinality(permits)
         /\ \A c, d \in permits : Before(c, d) => op_id(c) < op_id(d)
         /\ \A c, d \in permits : op_id(c) = op_id(d) => c = d
         /\ \A i \in 1 .. Cardinality(permits) : \E c \in permits : op_id(c) = i
<1> DEFINE n == Cardinality(permits)
           below(c) == {d \in permits : Before(d, c)}
<1>1. permits \subseteq CandidateRecords /\ IsFiniteSet(permits) /\ n \in Nat
  BY FS_CardinalityType, Zenon DEF PlanInv, PlanTyped
<1>2. \A c : below(c) \subseteq permits /\ IsFiniteSet(below(c)) /\ Cardinality(below(c)) \in Nat
  <2>1. ASSUME NEW c PROVE below(c) \subseteq permits /\ IsFiniteSet(below(c)) /\ Cardinality(below(c)) \in Nat
    <3>1. below(c) \subseteq permits
      BY Zenon
    <3>2. IsFiniteSet(below(c))
      BY <3>1, <1>1, FS_Subset, Zenon
    <3> QED
      BY <3>1, <3>2, FS_CardinalityType, Zenon
  <2> QED
    BY <2>1, Zenon
<1>3. \A c : op_id(c) = Cardinality(below(c)) + 1
  BY Zenon DEF op_id
<1>4. ASSUME NEW c \in permits PROVE op_id(c) \in 1 .. n
  <2>1. c \notin below(c)
    BY <1>1, BeforeIsOrder, Zenon
  <2>2. below(c) # permits
    BY <2>1, Zenon
  <2>3. Cardinality(below(c)) <= n /\ Cardinality(below(c)) # n
    BY <1>1, <1>2, <2>2, FS_Subset, Zenon
  <2> HIDE DEF below, n
  <2> QED
    BY <1>1, <1>2, <1>3, <2>3
<1>5. ASSUME NEW c \in permits, NEW d \in permits, Before(c, d)
      PROVE  op_id(c) < op_id(d)
  <2>1. below(c) \subseteq below(d)
    <3>1. \A x \in permits : Before(x, c) => Before(x, d)
      BY <1>1, <1>5, BeforeIsOrder, Zenon
    <3> QED
      BY <3>1, Zenon
  <2>2. c \in below(d) /\ c \notin below(c)
    BY <1>1, <1>5, BeforeIsOrder, Zenon
  <2>3. below(c) # below(d)
    BY <2>2, Zenon
  <2>4. Cardinality(below(c)) <= Cardinality(below(d)) /\ Cardinality(below(c)) # Cardinality(below(d))
    BY <2>1, <2>3, <1>2, FS_Subset, Zenon
  <2> HIDE DEF below
  <2> QED
    BY <1>2, <1>3, <2>4
<1>6. ASSUME NEW c \in permits, NEW d \in permits, op_id(c) = op_id(d)
      PROVE  c = d
  <2>1. ~Before(c, d) /\ ~Before(d, c)
    <3>1. op_id(c) \in 1 .. n /\ op_id(d) \in 1 .. n
      BY <1>4, Zenon
    <3>2. ~(op_id(c) < op_id(d)) /\ ~(op_id(d) < op_id(c))
      BY <3>1, <1>6, <1>1
    <3> QED
      BY <3>2, <1>5, Zenon
  <2>2. c.target = d.target /\ c.path = d.path
    BY <2>1, <1>1, BeforeIsOrder, Zenon
  <2> QED
    BY <2>2, Zenon DEF PlanInv, OneCandidate
<1>7. \A i \in 1 .. n : \E c \in permits : op_id(c) = i
  <2> DEFINE f == [c \in permits |-> op_id(c)]
  <2>1. f \in Injection(permits, 1 .. n)
    <3>1. f \in [permits -> 1 .. n]
      BY <1>4, Zenon
    <3>2. \A c, d \in permits : f[c] = f[d] => c = d
      BY <1>6, Zenon
    <3> QED
      BY <3>1, <3>2, Zenon DEF Injection, IsInjective
  <2>2. IsFiniteSet(1 .. n) /\ Cardinality(1 .. n) = n
    <3>1. 1 \in Int /\ n \in Int /\ (IF 1 > n THEN 0 ELSE n - 1 + 1) = n
      BY <1>1
    <3>2. IsFiniteSet(1 .. n) /\ Cardinality(1 .. n) = IF 1 > n THEN 0 ELSE n - 1 + 1
      BY <3>1, FS_Interval, Zenon
    <3> QED
      BY <3>1, <3>2
  <2>3. f \in Surjection(permits, 1 .. n)
    BY <2>1, <2>2, FS_Injection, Zenon
  <2>4. \A i \in 1 .. n : \E c \in permits : f[c] = i
    BY <2>3, Zenon DEF Surjection
  <2> QED
    BY <2>4, Zenon
<1> QED
  BY <1>1, <1>4, <1>5, <1>6, <1>7, Zenon

\* The i-th operation is made of the permit with that number.
LEMMA OperationsAre ==
  ASSUME PlanInv
  PROVE  /\ DOMAIN Operations = 1 .. Cardinality(permits) /\ Len(Operations) = Cardinality(permits)
         /\ \A c \in permits :
              /\ op_id(c) \in 1 .. Cardinality(permits)
              /\ Operations[op_id(c)] =
                   [target |-> c.target, path |-> c.path, dir |-> c.dir, deps |-> DependenciesOf(c)]
         /\ \A i \in 1 .. Cardinality(permits) : \E c \in permits : op_id(c) = i
<1> DEFINE n == Cardinality(permits)
           op(c) == [target |-> c.target, path |-> c.path, dir |-> c.dir, deps |-> DependenciesOf(c)]
           made(i) == op(CHOOSE x \in permits : op_id(x) = i)
<1>1. /\ n \in Nat
      /\ \A c \in permits : op_id(c) \in 1 .. n
      /\ \A c, d \in permits : op_id(c) = op_id(d) => c = d
      /\ \A i \in 1 .. n : \E c \in permits : op_id(c) = i
  BY NumbersFollowOrder, Zenon
<1>2. Operations = [i \in 1 .. n |-> made(i)]
  BY Zenon DEF Operations
<1>3. \A c \in permits : (CHOOSE x \in permits : op_id(x) = op_id(c)) = c
  BY <1>1, Zenon
<1>4. \A c \in permits : made(op_id(c)) = op(c)
  BY <1>3, Zenon
<1> HIDE DEF made, n, op
<1>5. DOMAIN Operations = 1 .. n /\ \A i \in 1 .. n : Operations[i] = made(i)
  BY <1>2, Zenon
<1>6. Len(Operations) = n
  BY <1>1, <1>2
<1>7. \A c \in permits : Operations[op_id(c)] = op(c)
  BY <1>1, <1>4, <1>5, Zenon
<1> QED
  BY <1>1, <1>5, <1>6, <1>7, Zenon DEF op, n

\* A dependency has a smaller number.
LEMMA DependenciesEarlier ==
  ASSUME PlanInv, NEW c \in permits
  PROVE  \A j \in DependenciesOf(c) : j \in 1 .. op_id(c) - 1
<1>1. /\ Cardinality(permits) \in Nat
      /\ \A d \in permits : op_id(d) \in 1 .. Cardinality(permits)
      /\ \A d \in permits : Before(d, c) => op_id(d) < op_id(c)
  BY NumbersFollowOrder, Zenon
<1>2. ASSUME NEW j \in DependenciesOf(c) PROVE j \in 1 .. op_id(c) - 1
  <2>1. PICK d \in permits : Before(d, c) /\ j = op_id(d)
    BY Zenon DEF DependenciesOf
  <2>2. op_id(d) \in 1 .. Cardinality(permits) /\ op_id(c) \in 1 .. Cardinality(permits) /\ op_id(d) < op_id(c)
    BY <2>1, <1>1, Zenon
  <2> QED
    BY <2>1, <2>2, <1>1
<1> QED
  BY <1>2, Zenon

\* validate_plan refuses no plan within the budget.
LEMMA PlansAreValid ==
  ASSUME PlanInv, Cardinality(permits) <= MaxOperations
  PROVE  validate_plan(Operations)
<1>1. /\ DOMAIN Operations = 1 .. Cardinality(permits) /\ Len(Operations) = Cardinality(permits)
      /\ \A c \in permits :
           /\ op_id(c) \in 1 .. Cardinality(permits)
           /\ Operations[op_id(c)] =
                [target |-> c.target, path |-> c.path, dir |-> c.dir, deps |-> DependenciesOf(c)]
      /\ \A i \in 1 .. Cardinality(permits) : \E c \in permits : op_id(c) = i
  BY OperationsAre, Zenon
<1>2. ASSUME NEW i \in DOMAIN Operations PROVE Operations[i].deps \subseteq 1 .. i - 1
  <2>1. PICK c \in permits : op_id(c) = i
    BY <1>1, Zenon
  <2>2. Operations[i] = [target |-> c.target, path |-> c.path, dir |-> c.dir, deps |-> DependenciesOf(c)]
    BY <2>1, <1>1, Zenon
  <2>3. Operations[i].deps = DependenciesOf(c)
    BY <2>2
  <2>4. \A j \in DependenciesOf(c) : j \in 1 .. op_id(c) - 1
    BY DependenciesEarlier, Zenon
  <2> QED
    BY <2>1, <2>3, <2>4, Zenon
<1> QED
  BY <1>1, <1>2, Zenon DEF validate_plan

\* BuildPlan keeps the invariant.
LEMMA BuildKeeps ==
  ASSUME PlanInv, BuildPlan
  PROVE  PlanInv'
<1>1. UNCHANGED <<tree, changes, stopping, todo, visiting, stack, found, hitLimit,
                  errors, missed, statuses, permits, kept>>
  BY Zenon DEF BuildPlan
<1>2. \A i, p : Standing(i, p)' = Standing(i, p) /\ Refused(i, p)' = Refused(i, p)
  BY <1>1, Zenon DEF Standing, Refused
<1>3. FoundPaths' = FoundPaths
  BY <1>1, Zenon DEF FoundPaths
<1>4. stage' \in {"scan", "planned", "failed"}
  BY Zenon DEF BuildPlan
<1>5. PlanTyped' /\ TreesStand' /\ StackNested' /\ OneCandidate'
  BY <1>1, <1>3, <1>4, Zenon DEF PlanInv, PlanTyped, TreesStand, StackNested, OneCandidate
<1>6. ReadingsStand' /\ NothingSkipped' /\ JudgedAll'
  BY <1>1, <1>2, <1>3, Zenon DEF PlanInv, ReadingsStand, NothingSkipped, JudgedAll
<1>7. Operations' = Operations
  <2>1. \A c : op_id(c)' = op_id(c)
    BY <1>1, Zenon DEF op_id
  <2>2. \A c : DependenciesOf(c)' = DependenciesOf(c)
    BY <1>1, <2>1, Zenon DEF DependenciesOf
  <2> QED
    BY <1>1, <2>1, <2>2, Zenon DEF Operations
<1>8. PlanMade'
  <2>1. plan = << >> /\ grant = {}
    BY Zenon DEF BuildPlan, PlanInv, PlanMade
  <2>2. CASE Cardinality(permits) <= MaxOperations
    <3>1. stage' = "planned" /\ plan' = Operations /\ grant' = authorize_plan(Operations)
      BY <2>2, PlansAreValid, Zenon DEF BuildPlan
    <3>2. stage' # "scan" /\ stage' # "failed"
      BY <3>1
    <3>3. authorize_plan(plan)' = authorize_plan(Operations)
      BY <3>1, Zenon DEF authorize_plan
    <3> QED
      BY <3>1, <3>2, <3>3, <1>7, Zenon DEF PlanMade
  <2>3. CASE ~(Cardinality(permits) <= MaxOperations)
    <3>1. stage' = "failed" /\ UNCHANGED <<plan, grant>>
      BY <2>3, Zenon DEF BuildPlan
    <3>2. stage' # "planned"
      BY <3>1
    <3>3. Cardinality(permits) > MaxOperations
      <4>1. Cardinality(permits) \in Nat
        BY NumbersFollowOrder, Zenon
      <4> QED
        BY <4>1, <2>3, PlanningAssumption
    <3> QED
      BY <3>1, <3>2, <3>3, <2>1, <1>1, Zenon DEF PlanMade
  <2> QED
    BY <2>2, <2>3, Zenon
<1> QED
  BY <1>5, <1>6, <1>8, Zenon DEF PlanInv

\* What is below a directory has a longer path.
LEMMA LongerBelow ==
  ASSUME NEW s \in Seq(STRING), NEW t \in Seq(STRING), IsBelow(t, s)
  PROVE  Len(t) > Len(s)
<1>1. /\ Len(s) <= Len(t) /\ SubSeq(t, 1, Len(s)) = s /\ s # t
      /\ Len(s) \in Nat /\ Len(t) \in Nat
  BY SequenceIs, Zenon DEF IsBelow, StartsWith
<1>2. SubSeq(t, 1, Len(t)) = t
  BY WholeIs, Zenon
<1>3. Len(s) # Len(t)
  BY <1>1, <1>2, Zenon
<1> QED
  BY <1>1, <1>3

\* The invariant holds initially.
LEMMA PlanInitially ==
  ASSUME PlanInit
  PROVE  PlanInv
<1>1. /\ tree \in [Ids -> UNION {Trees[i] : i \in Ids}] /\ \A i \in Ids : tree[i] \in Trees[i]
      /\ stage = "scan" /\ todo \in JobTargets /\ visiting = NoScan /\ stack = << >> /\ found = {}
      /\ hitLimit = FALSE /\ errors = FALSE /\ statuses = [i \in Ids |-> "none"]
      /\ permits = {} /\ plan = << >> /\ grant = {} /\ kept = [i \in Ids |-> {}] /\ missed = {}
  BY Zenon DEF PlanInit
<1>2. \A i \in Ids : tree[i] \in [Paths -> TreeEntries] /\ IsTree(tree[i])
  BY <1>1, PlanningAssumption, Zenon DEF Ids
<1>3. tree \in [Ids -> [Paths -> TreeEntries]]
  BY <1>1, <1>2, Zenon
<1>4. /\ \A i \in Ids : kept[i] = {} /\ statuses[i] = "none"
      /\ kept \in [Ids -> SUBSET Paths]
      /\ statuses \in [Ids -> {"none", "Complete", "Partial", "Failed"}]
  BY <1>1, Zenon
<1>5. /\ IsFiniteSet({}) /\ Cardinality({}) <= MaxCandidates
  <2>1. IsFiniteSet({}) /\ Cardinality({}) = 0
    BY FS_EmptySet, Zenon
  <2> QED
    BY <2>1, PlanningAssumption
<1>6. stack \in Seq(Frames) /\ 1 .. Len(stack) = {}
  BY <1>1
<1>7. todo \subseteq Ids /\ NoScan \notin Ids
  BY <1>1, IdsNumbered, Zenon
<1>8. PlanTyped
  BY <1>1, <1>3, <1>4, <1>5, <1>6, <1>7, Zenon DEF PlanTyped
<1>9. TreesStand /\ StackNested
  BY <1>1, <1>2, <1>4, <1>6, Zenon DEF TreesStand, StackNested, Nested
<1>10. OneCandidate
  BY <1>1, <1>4, <1>7, Zenon DEF OneCandidate
<1>11. ReadingsStand /\ NothingSkipped
  BY <1>1, <1>6, Zenon DEF ReadingsStand, Fresh, NothingSkipped
<1>12. JudgedAll
  BY <1>1, <1>4, Zenon DEF JudgedAll
<1>13. PlanMade
  BY <1>1 DEF PlanMade
<1> QED
  BY <1>8, <1>9, <1>10, <1>11, <1>12, <1>13, Zenon DEF PlanInv

\* Every step keeps the invariant.
LEMMA PlanStep ==
  ASSUME PlanInv, [PlanNext]_planVars
  PROVE  PlanInv'
<1>1. ASSUME NEW id \in Ids, NEW p \in Paths, AppWrites(id, p) PROVE PlanInv'
  <2> DEFINE x == [kind |-> "file", mtime |-> Now + 1, dev |-> 1]
  <2>1. x \in TreeEntries /\ x.kind = "file" /\ x # Absent
    BY PlanningAssumption DEF TreeEntries, Absent
  <2>2. tree' = [tree EXCEPT ![id][p] = x]
    BY <1>1, Zenon DEF AppWrites
  <2> HIDE DEF x
  <2>3. /\ stage = "scan" /\ tree[id][p].kind \in {"none", "file"} /\ EntryChanges(id, p)
        /\ Len(p) > 1 => tree[id][Parent(p)].kind = "dir"
        /\ UNCHANGED <<stage, stopping, todo, visiting, stack, found, hitLimit, errors,
                       missed, statuses, permits, plan, grant>>
    BY <1>1, Zenon DEF AppWrites
  <2>4. /\ tree \in [Ids -> [Paths -> TreeEntries]] /\ IsTree(tree[id])
        /\ kept[id] \subseteq Paths /\ \A q \in kept[id] : tree[id][q] # Absent
    BY Zenon DEF PlanInv, PlanTyped, TreesStand
  <2>5. tree'[id][p] = x /\ \A q \in Paths \ {p} : tree'[id][q] = tree[id][q]
    <3>1. tree'[id] = [tree[id] EXCEPT ![p] = x]
      BY <2>2, <2>4, Zenon
    <3>2. tree[id] \in [Paths -> TreeEntries]
      BY <2>4, Zenon
    <3> QED
      BY <3>1, <3>2, Zenon
  <2>6. tree[id][p].kind # "dir"
    BY <2>3
  <2>7. \A q \in Paths : Len(q) > 1 /\ tree[id][q] # Absent => Parent(q) # p
    BY <2>4, <2>6, Zenon DEF IsTree
  <2>8. \A q \in kept[id] : Len(q) > 1 => Parent(q) # p
    BY <2>4, <2>7, Zenon
  <2>9. IsTree(tree'[id])
    <3>1. ASSUME NEW q \in Paths, Len(q) > 1, tree'[id][q] # Absent
          PROVE  tree'[id][Parent(q)].kind = "dir"
      <4>1. Parent(q) \in Paths /\ Parent(q) # q
        <5>1. Parent(q) \in Paths /\ Len(Parent(q)) = Len(q) - 1 /\ Len(q) \in Nat
          BY <3>1, PathsClosed, Zenon
        <5>2. Len(Parent(q)) # Len(q)
          BY <5>1
        <5> QED
          BY <5>1, <5>2, Zenon
      <4>2. CASE q = p
        BY <4>1, <4>2, <3>1, <2>3, <2>5, Zenon
      <4>3. CASE q # p
        <5>1. tree[id][q] # Absent
          BY <4>3, <3>1, <2>5, Zenon
        <5>2. tree[id][Parent(q)].kind = "dir" /\ Parent(q) # p
          BY <5>1, <3>1, <2>4, <2>7, Zenon DEF IsTree
        <5> QED
          BY <5>2, <4>1, <2>5, Zenon
      <4> QED
        BY <4>2, <4>3, Zenon
    <3> QED
      BY <3>1, Zenon DEF IsTree
  <2> QED
    BY <2>1, <2>2, <2>3, <2>8, <2>9, AppKeeps, Zenon
<1>2. ASSUME NEW id \in Ids, NEW p \in Paths, AppRemoves(id, p) PROVE PlanInv'
  <2>1. Absent \in TreeEntries
    BY DEF TreeEntries, Absent
  <2>2. /\ stage = "scan" /\ tree[id][p] # Absent /\ Children(id, p) = {} /\ EntryChanges(id, p)
        /\ tree' = [tree EXCEPT ![id][p] = Absent]
        /\ UNCHANGED <<stage, stopping, todo, visiting, stack, found, hitLimit, errors,
                       missed, statuses, permits, plan, grant>>
    BY <1>2, Zenon DEF AppRemoves
  <2>3. /\ tree \in [Ids -> [Paths -> TreeEntries]] /\ IsTree(tree[id])
        /\ kept[id] \subseteq Paths /\ \A q \in kept[id] : tree[id][q] # Absent
    BY Zenon DEF PlanInv, PlanTyped, TreesStand
  <2>4. tree'[id][p] = Absent /\ \A q \in Paths \ {p} : tree'[id][q] = tree[id][q]
    <3>1. tree'[id] = [tree[id] EXCEPT ![p] = Absent]
      BY <2>2, <2>3, Zenon
    <3>2. tree[id] \in [Paths -> TreeEntries]
      BY <2>3, Zenon
    <3> QED
      BY <3>1, <3>2, Zenon
  <2>5. \A q \in Paths : tree[id][q] # Absent => Parent(q) # p
    BY <2>2, Zenon DEF Children
  <2>6. \A q \in kept[id] : Len(q) > 1 => Parent(q) # p
    BY <2>3, <2>5, Zenon
  <2>7. IsTree(tree'[id])
    <3>1. ASSUME NEW q \in Paths, Len(q) > 1, tree'[id][q] # Absent
          PROVE  tree'[id][Parent(q)].kind = "dir"
      <4>1. q # p /\ tree[id][q] # Absent
        BY <3>1, <2>4, Zenon
      <4>2. tree[id][Parent(q)].kind = "dir" /\ Parent(q) # p /\ Parent(q) \in Paths
        BY <4>1, <3>1, <2>3, <2>5, PathsClosed, Zenon DEF IsTree
      <4> QED
        BY <4>2, <2>4, Zenon
    <3> QED
      BY <3>1, Zenon DEF IsTree
  <2> QED
    BY <2>1, <2>2, <2>6, <2>7, AppKeeps, Zenon
<1>3. ASSUME UNCHANGED <<tree, changes, stage, todo, visiting, stack, found, hitLimit,
                         errors, missed, statuses, permits, plan, grant, kept>>
      PROVE  PlanInv'
  <2>1. \A i, p : Standing(i, p)' = Standing(i, p) /\ Refused(i, p)' = Refused(i, p)
    BY <1>3, Zenon DEF Standing, Refused
  <2>2. FoundPaths' = FoundPaths
    BY <1>3, Zenon DEF FoundPaths
  <2>3. PlanTyped' /\ TreesStand' /\ StackNested' /\ OneCandidate'
    BY <1>3, <2>2, Zenon DEF PlanInv, PlanTyped, TreesStand, StackNested, OneCandidate
  <2>4. ReadingsStand' /\ NothingSkipped' /\ JudgedAll'
    BY <1>3, <2>1, <2>2, Zenon DEF PlanInv, ReadingsStand, NothingSkipped, JudgedAll
  <2>5. Operations' = Operations
    <3>1. \A c : op_id(c)' = op_id(c)
      BY <1>3, Zenon DEF op_id
    <3>2. \A c : DependenciesOf(c)' = DependenciesOf(c)
      BY <1>3, <3>1, Zenon DEF DependenciesOf
    <3> QED
      BY <1>3, <3>1, <3>2, Zenon DEF Operations
  <2>6. PlanMade'
    BY <1>3, <2>5, Zenon DEF PlanInv, PlanMade
  <2> QED
    BY <2>3, <2>4, <2>6, Zenon DEF PlanInv
<1>4. CASE JobCancelled
  BY <1>3, <1>4, Zenon DEF JobCancelled
<1>5. CASE UNCHANGED planVars
  BY <1>3, <1>5, Zenon DEF planVars
<1> QED
  BY <1>1, <1>2, <1>4, <1>5, ScanTargetKeeps, VisitKeeps, LeaveKeeps, JudgeKeeps, BuildKeeps, Zenon DEF PlanNext

\* An operation of the plan and the permit it was made of.
LEMMA PlannedFrom ==
  ASSUME PlanInv, NEW i \in DOMAIN plan
  PROVE  /\ stage = "planned" /\ plan = Operations
         /\ \E c \in permits :
              /\ op_id(c) = i
              /\ plan[i].target = c.target /\ plan[i].path = c.path
              /\ plan[i].dir = c.dir /\ plan[i].deps = DependenciesOf(c)
<1>1. stage = "planned" /\ plan = Operations
  <2>1. DOMAIN << >> = {}
    OBVIOUS
  <2>2. plan # << >>
    BY <2>1, Zenon
  <2> QED
    BY <2>2, Zenon DEF PlanInv, PlanTyped, PlanMade
<1>2. PICK c \in permits : op_id(c) = i
  BY <1>1, OperationsAre, Zenon
<1>3. plan[i] = [target |-> c.target, path |-> c.path, dir |-> c.dir, deps |-> DependenciesOf(c)]
  BY <1>1, <1>2, OperationsAre, Zenon
<1>4. /\ plan[i].target = c.target /\ plan[i].path = c.path
      /\ plan[i].dir = c.dir /\ plan[i].deps = DependenciesOf(c)
  BY <1>3
<1> QED
  BY <1>1, <1>2, <1>4, Zenon

\* The operations planned for a path.
LEMMA PlannedAre ==
  ASSUME PlanInv, plan = Operations, NEW id, NEW p
  PROVE  Planned(id, p) = {op_id(d) : d \in {x \in permits : x.target = id /\ x.path = p}}
<1>1. /\ DOMAIN plan = 1 .. Cardinality(permits)
      /\ \A c \in permits :
           /\ op_id(c) \in 1 .. Cardinality(permits)
           /\ plan[op_id(c)] =
                [target |-> c.target, path |-> c.path, dir |-> c.dir, deps |-> DependenciesOf(c)]
  BY OperationsAre, Zenon
<1>2. \A c \in permits : op_id(c) \in DOMAIN plan /\ plan[op_id(c)].target = c.target /\ plan[op_id(c)].path = c.path
  <2>1. ASSUME NEW c \in permits
        PROVE  op_id(c) \in DOMAIN plan /\ plan[op_id(c)].target = c.target /\ plan[op_id(c)].path = c.path
    <3>1. plan[op_id(c)] = [target |-> c.target, path |-> c.path, dir |-> c.dir, deps |-> DependenciesOf(c)]
      BY <1>1, Zenon
    <3>2. plan[op_id(c)].target = c.target /\ plan[op_id(c)].path = c.path
      BY <3>1
    <3> QED
      BY <3>2, <1>1, Zenon
  <2> QED
    BY <2>1, Zenon
<1>3. ASSUME NEW j \in Planned(id, p)
      PROVE  j \in {op_id(d) : d \in {x \in permits : x.target = id /\ x.path = p}}
  <2>1. j \in DOMAIN plan /\ plan[j].target = id /\ plan[j].path = p
    BY Zenon DEF Planned
  <2>2. PICK c \in permits : op_id(c) = j /\ plan[j].target = c.target /\ plan[j].path = c.path
    BY <2>1, PlannedFrom, Zenon
  <2> QED
    BY <2>1, <2>2, Zenon
<1>4. \A d \in permits : d.target = id /\ d.path = p => op_id(d) \in Planned(id, p)
  BY <1>2, Zenon DEF Planned
<1> QED
  BY <1>3, <1>4, Zenon

\* The invariant gives the executable plan.
LEMMA InvPlanExecutable ==
  ASSUME PlanInv
  PROVE  PlanExecutable
<1>1. stage = "failed" => Cardinality(permits) > MaxOperations
  BY Zenon DEF PlanInv, PlanMade
<1>2. ASSUME NEW i \in DOMAIN plan, plan[i].dir
      PROVE  LET o == plan[i]
                 below == {p \in Paths : IsBelow(p, o.path)}
             IN /\ o.deps = UNION {Planned(o.target, p) : p \in below}
                /\ \A d \in o.deps : d < i
                /\ statuses[o.target] = "Complete" /\ o.target \notin missed =>
                     \A p \in below \cap kept[o.target] :
                       Planned(o.target, p) # {} \/ Refused(o.target, p)
  <2>1. PICK c \in permits :
           /\ op_id(c) = i
           /\ plan[i].target = c.target /\ plan[i].path = c.path
           /\ plan[i].dir = c.dir /\ plan[i].deps = DependenciesOf(c)
    BY PlannedFrom, Zenon
  <2>2. plan = Operations
    BY PlannedFrom, Zenon
  <2> DEFINE below == {p \in Paths : IsBelow(p, c.path)}
             chosen(p) == {x \in permits : x.target = c.target /\ x.path = p}
  <2>3. permits \subseteq CandidateRecords
    BY Zenon DEF PlanInv, PlanTyped
  <2>4. c.dir
    BY <2>1, <1>2, Zenon
  <2>5. \A p : Planned(c.target, p) = {op_id(d) : d \in chosen(p)}
    BY <2>2, PlannedAre, Zenon
  <2>6. \A x \in permits : x.path \in Paths
    BY <2>3, CandidateFacts, Zenon
  <2>7. ASSUME NEW x \in permits, x.target = c.target, IsBelow(x.path, c.path)
        PROVE  Before(x, c)
    <3>1. /\ c.path \in Seq(STRING) /\ x.path \in Seq(STRING)
      BY <2>6, PathsClosed, Zenon
    <3>2. Len(x.path) > Len(c.path)
      BY <3>1, <2>7, LongerBelow, Zenon
    <3>3. x.dir \in BOOLEAN
      BY <2>3, CandidateFacts, Zenon
    <3> QED
      BY <3>2, <3>3, <2>4, <2>7, Zenon DEF Before
  <2>8. DependenciesOf(c) = {op_id(d) : d \in {x \in permits : x.target = c.target /\ IsBelow(x.path, c.path)}}
    <3>1. {x \in permits : Before(x, c) /\ x.target = c.target /\ IsBelow(x.path, c.path)}
            = {x \in permits : x.target = c.target /\ IsBelow(x.path, c.path)}
      BY <2>7, Zenon
    <3>2. DependenciesOf(c) = {op_id(d) : d \in {x \in permits : Before(x, c) /\ x.target = c.target
                                                               /\ IsBelow(x.path, c.path)}}
      BY <2>4, Zenon DEF DependenciesOf
    <3> QED
      BY <3>1, <3>2, Zenon
  <2>9. DependenciesOf(c) = UNION {Planned(c.target, p) : p \in below}
    <3>1. ASSUME NEW j \in DependenciesOf(c) PROVE j \in UNION {Planned(c.target, p) : p \in below}
      <4>1. PICK d \in permits : d.target = c.target /\ IsBelow(d.path, c.path) /\ j = op_id(d)
        BY <2>8, Zenon
      <4>2. d.path \in below /\ j \in Planned(c.target, d.path)
        BY <4>1, <2>5, <2>6, Zenon
      <4> QED
        BY <4>2, Zenon
    <3>2. ASSUME NEW p \in below, NEW j \in Planned(c.target, p) PROVE j \in DependenciesOf(c)
      <4>1. PICK d \in permits : d.target = c.target /\ d.path = p /\ j = op_id(d)
        <5>1. j \in {op_id(d) : d \in chosen(p)}
          BY <2>5, Zenon
        <5> QED
          BY <5>1, Zenon
      <4> QED
        BY <4>1, <2>8, Zenon
    <3> QED
      BY <3>1, <3>2, Zenon
  <2>10. \A d \in DependenciesOf(c) : d < i
    <3>1. \A d \in DependenciesOf(c) : d \in 1 .. i - 1
      BY <2>1, DependenciesEarlier, Zenon
    <3>2. i \in Int
      <4>1. op_id(c) \in 1 .. Cardinality(permits) /\ Cardinality(permits) \in Nat
        BY NumbersFollowOrder, Zenon
      <4> QED
        BY <4>1, <2>1
    <3> QED
      BY <3>1, <3>2
  <2>11. ASSUME statuses[c.target] = "Complete", c.target \notin missed, NEW p \in below \cap kept[c.target]
         PROVE  Planned(c.target, p) # {} \/ Refused(c.target, p)
    <3>1. c.target \in Ids
      BY <2>3, CandidateFacts, Zenon
    <3>2. Refused(c.target, p) \/ Standing(c.target, p) \in permits
      BY <3>1, <2>11, Zenon DEF PlanInv, JudgedAll
    <3>3. Standing(c.target, p).target = c.target /\ Standing(c.target, p).path = p
      BY DEF Standing
    <3>4. ASSUME Standing(c.target, p) \in permits PROVE Planned(c.target, p) # {}
      <4>1. op_id(Standing(c.target, p)) \in Planned(c.target, p)
        BY <3>3, <3>4, <2>5, Zenon
      <4> QED
        BY <4>1, Zenon
    <3> QED
      BY <3>2, <3>4, Zenon
  <2> QED
    BY <2>1, <2>9, <2>10, <2>11, Zenon
<1> QED
  BY <1>1, <1>2, Zenon DEF PlanExecutable

\* One capability per operation: no two operations are for the same path.
LEMMA GrantCounts ==
  ASSUME PlanInv
  PROVE  Cardinality(grant) = Len(plan)
<1>1. CASE plan = << >>
  <2>1. CASE stage = "planned"
    <3>1. grant = authorize_plan(plan)
      BY <2>1, Zenon DEF PlanInv, PlanMade
    <3>2. DOMAIN plan = {} /\ Len(plan) = 0
      BY <1>1
    <3>3. grant = {}
      BY <3>1, <3>2, Zenon DEF authorize_plan, Range
    <3> QED
      BY <3>2, <3>3, FS_EmptySet, Zenon
  <2>2. CASE stage # "planned"
    <3>1. grant = {}
      BY <2>2, Zenon DEF PlanInv, PlanTyped, PlanMade
    <3>2. Len(plan) = 0
      BY <1>1
    <3> QED
      BY <3>1, <3>2, FS_EmptySet, Zenon
  <2> QED
    BY <2>1, <2>2, Zenon
<1>2. CASE plan # << >>
  <2> DEFINE n == Cardinality(permits)
             cap(i) == [dir |-> plan[i].dir, target |-> plan[i].target, path |-> plan[i].path]
             f == [i \in 1 .. n |-> cap(i)]
  <2>1. plan = Operations /\ grant = authorize_plan(plan)
    BY <1>2, Zenon DEF PlanInv, PlanTyped, PlanMade
  <2>2. DOMAIN plan = 1 .. n /\ Len(plan) = n /\ n \in Nat
    BY <2>1, OperationsAre, NumbersFollowOrder, Zenon
  <2>3. grant = {cap(i) : i \in 1 .. n}
    BY <2>1, <2>2, Zenon DEF authorize_plan, Range
  <2>4. ASSUME NEW i \in 1 .. n, NEW j \in 1 .. n, cap(i) = cap(j) PROVE i = j
    <3>1. plan[i].target = plan[j].target /\ plan[i].path = plan[j].path
      BY <2>4
    <3>2. PICK c \in permits : op_id(c) = i /\ plan[i].target = c.target /\ plan[i].path = c.path
      BY <2>2, PlannedFrom, Zenon
    <3>3. PICK d \in permits : op_id(d) = j /\ plan[j].target = d.target /\ plan[j].path = d.path
      BY <2>2, PlannedFrom, Zenon
    <3>4. c = d
      <4>1. c.target = d.target /\ c.path = d.path
        BY <3>1, <3>2, <3>3, Zenon
      <4> QED
        BY <4>1, Zenon DEF PlanInv, OneCandidate
    <3> QED
      BY <3>2, <3>3, <3>4, Zenon
  <2> HIDE DEF cap, n
  <2>5. f \in Bijection(1 .. n, grant)
    <3>1. f \in [1 .. n -> grant]
      BY <2>3, Zenon
    <3>2. f \in Injection(1 .. n, grant)
      BY <3>1, <2>4, Zenon DEF Injection, IsInjective
    <3>3. f \in Surjection(1 .. n, grant)
      BY <3>1, <2>3, Zenon DEF Surjection
    <3> QED
      BY <3>2, <3>3, Zenon DEF Bijection
  <2>6. ExistsBijection(1 .. n, grant)
    BY <2>5, Zenon DEF ExistsBijection
  <2>7. IsFiniteSet(1 .. n) /\ Cardinality(1 .. n) = n
    <3>1. 1 \in Int /\ n \in Int /\ (IF 1 > n THEN 0 ELSE n - 1 + 1) = n
      BY <2>2
    <3>2. IsFiniteSet(1 .. n) /\ Cardinality(1 .. n) = IF 1 > n THEN 0 ELSE n - 1 + 1
      BY <3>1, FS_Interval, Zenon
    <3> QED
      BY <3>1, <3>2
  <2> QED
    BY <2>2, <2>6, <2>7, FS_Bijection, Zenon
<1> QED
  BY <1>1, <1>2, Zenon

\* The invariant gives the rules.
LEMMA InvPlanKeepsRules ==
  ASSUME PlanInv
  PROVE  PlanKeepsRules
<1>1. ASSUME NEW i \in DOMAIN plan
      PROVE  LET o == plan[i]
                 t == Target(o.target)
             IN /\ t.package \notin Config.whitelist
                /\ ~CategoryDisabled(t)
                /\ \A r \in ProtectedRoots : ~StartsWith(t.base, r)
                /\ ~ProtectedBytecode(o.path)
                /\ o.path \in kept[o.target] /\ ~o.dir =>
                     Config.min_age = 0 \/ tree[o.target][o.path].mtime + Config.min_age <= Now
                /\ o.path \in kept[o.target] => tree[o.target][o.path].dev = t.dev
  <2>1. PICK c \in permits :
           plan[i].target = c.target /\ plan[i].path = c.path /\ plan[i].dir = c.dir
    BY PlannedFrom, Zenon
  <2> DEFINE t == Target(c.target)
  <2>2. validate_candidate(c, t) /\ evaluate_candidate(c, t)
    BY Zenon DEF PlanInv, JudgedAll
  <2> HIDE DEF t
  <2>3. /\ t.package \notin Config.whitelist
        /\ ~CategoryDisabled(t)
        /\ \A r \in ProtectedRoots : ~StartsWith(t.base, r)
        /\ ~ProtectedBytecode(c.path)
        /\ c.dev = t.dev
        /\ c.dir \/ age_secs(c.mtime) >= Config.min_age
    BY <2>2, Zenon DEF validate_candidate, verify_target_root_safety, evaluate_candidate
  <2>4. c.mtime \in Nat /\ Config.min_age \in Nat /\ Now \in Nat
    <3>1. c \in CandidateRecords
      BY Zenon DEF PlanInv, PlanTyped
    <3> QED
      BY <3>1, CandidateFacts, PlanningAssumption, Zenon
  <2>5. c.dir \/ Config.min_age = 0 \/ c.mtime + Config.min_age <= Now
    BY <2>3, <2>4, SMTT(20) DEF age_secs
  <2>6. ASSUME c.path \in kept[c.target]
        PROVE  c.mtime = tree[c.target][c.path].mtime /\ c.dev = tree[c.target][c.path].dev
    <3>1. c = Standing(c.target, c.path)
      BY <2>6, Zenon DEF PlanInv, ReadingsStand
    <3>2. /\ Standing(c.target, c.path).mtime = tree[c.target][c.path].mtime
          /\ Standing(c.target, c.path).dev = tree[c.target][c.path].dev
      BY DEF Standing
    <3> QED
      BY <3>1, <3>2, Zenon
  <2> QED
    BY <2>1, <2>3, <2>5, <2>6, Zenon DEF t
<1> QED
  BY <1>1, GrantCounts, Zenon DEF PlanKeepsRules

\* The invariant gives the types; the stack is bounded since it is nested.
LEMMA InvPlanTypeOK ==
  ASSUME PlanInv
  PROVE  PlanTypeOK
<1>1. \A c \in found \cup permits : c.target \in Ids /\ c.path \in Paths
  <2>1. found \cup permits \subseteq CandidateRecords
    BY Zenon DEF PlanInv, PlanTyped
  <2> QED
    BY <2>1, CandidateFacts, Zenon
<1>2. Len(stack) <= ScanDepth
  <2>1. Len(stack) \in Nat
    BY SequenceIs, Zenon DEF PlanInv, PlanTyped
  <2>2. \A k \in 1 .. Len(stack) : k <= ScanDepth
    BY Zenon DEF PlanInv, StackNested, Nested
  <2> QED
    BY <2>1, <2>2, PlanningAssumption
<1> QED
  BY <1>1, <1>2, Zenon DEF PlanInv, PlanTyped, PlanTypeOK

\* Every plan can be carried out in its order and keeps the rules, for every
\* catalog, tree, configuration and limit, and whatever apps do during the scan:
\* validate_plan refuses a plan over the budget only, an rmdir depends on all the
\* operations below it and comes after them, a complete scan that passed nothing
\* over leaves nothing untouched below a planned directory out unless it was
\* refused, every operation satisfies the rules that SafetyGate::validate_candidate
\* and evaluate_candidate_with_freezer test (PlanKeepsRules lists them), and
\* authorize_plan grants one capability per operation.
THEOREM PlanAlwaysSound == PlanSpec => [](PlanTypeOK /\ PlanExecutable /\ PlanKeepsRules)
<1>1. PlanInit => PlanInv
  BY PlanInitially, Zenon
<1>2. PlanInv /\ [PlanNext]_planVars => PlanInv'
  BY PlanStep, Zenon
<1>3. PlanInv => PlanTypeOK /\ PlanExecutable /\ PlanKeepsRules
  BY InvPlanTypeOK, InvPlanExecutable, InvPlanKeepsRules, Zenon
<1> QED
  BY <1>1, <1>2, <1>3, PTL DEF PlanSpec
=============================================================================
