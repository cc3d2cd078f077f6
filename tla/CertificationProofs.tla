-------------------------- MODULE CertificationProofs --------------------------
(***************************************************************************)
(* Proofs about Certification, for any entities, relationships and levels: *)
(* an inherited level was once given upstream (the inductive invariant is  *)
(* CInv), and a propagation reaches everyone below its source (AInv).      *)
(***************************************************************************)
EXTENDS Certification, FiniteSetTheorems, SequenceTheorems, TLAPS

\* The level l was once given to an entity from which e could be reached.
EarnedAbove(e, l) == \E u \in Entities : <<u, l>> \in earned /\ e \in Downstream(u)

\* The level an entity has was given to it.
Awarded == \A e \in Entities : level[e] # NoLevel => <<e, level[e]>> \in earned

\* What is on its way, or written and not committed, was earned above.
WalkEarned ==
    /\ walk.pc # "idle" => walk.source \in Entities
    /\ \A i \in 1 .. Len(walk.queue) : EarnedAbove(walk.queue[i].entity, walk.queue[i].level)
    /\ \A e \in Entities : walk.written[e] # NotWritten => EarnedAbove(e, walk.written[e])

CInv == CertTypeOK /\ links \subseteq linked /\ Awarded /\ WalkEarned /\ InheritedIsEarned

\* What the walk brings, or has written, is not below the level it began with;
\* whom it has visited has the level written, and what is related below them,
\* or below the source, is visited or queued.
Queued(e) == \E i \in 1 .. Len(walk.queue) : walk.queue[i].entity = e
WalkOwes ==
    /\ walk.pc # "walk" => walk.visited = {}
    /\ owed.links \subseteq links
    /\ walk.pc = "walk" =>
          /\ \A i \in 1 .. Len(walk.queue) : walk.queue[i].level >= owed.level
          /\ \A e \in walk.visited \ Untabled : Locked(e) /\ walk.written[e] >= owed.level
          /\ \A l \in owed.links : l[1] = walk.source \/ l[1] \in walk.visited =>
                l[2] \in walk.visited \/ Queued(l[2])

AInv == CInv /\ WalkOwes

-----------------------------------------------------------------------------
(* What is downstream of an entity *)

LEMMA TargetIsDownstream ==
    ASSUME NEW u, NEW c \in Entities, <<u, c>> \in linked
    PROVE  c \in Downstream(u)
BY DEF Downstream, Below

LEMMA TargetOfDownstream ==
    ASSUME NEW u, NEW e \in Downstream(u), NEW c \in Entities, <<e, c>> \in linked
    PROVE  c \in Downstream(u)
<1> SUFFICES ASSUME NEW S \in SUBSET Entities,
                    \A l \in linked : l[1] = u \/ l[1] \in S => l[2] \in S
             PROVE  c \in S
  BY DEF Downstream, Below
<1>1. e \in S
  BY DEF Downstream, Below
<1> QED BY <1>1

\* A new relationship takes nothing from those downstream of an entity.
LEMMA DownstreamGrows ==
    ASSUME linked \subseteq linked', NEW u
    PROVE  Downstream(u) \subseteq Downstream(u)'
<1> SUFFICES ASSUME NEW e \in Downstream(u) PROVE e \in Downstream(u)'
  OBVIOUS
<1>1. e \in Entities
  BY DEF Downstream, Below
<1>2. ASSUME NEW S \in SUBSET Entities,
             \A l \in linked' : l[1] = u \/ l[1] \in S => l[2] \in S
      PROVE  e \in S
  <2>1. \A l \in linked : l[1] = u \/ l[1] \in S => l[2] \in S
    BY <1>2
  <2> QED BY <2>1 DEF Downstream, Below
<1> QED BY <1>1, <1>2 DEF Downstream, Below

LEMMA EarnedStaysEarned ==
    ASSUME linked \subseteq linked', earned \subseteq earned',
           NEW e, NEW l, EarnedAbove(e, l)
    PROVE  EarnedAbove(e, l)'
BY DownstreamGrows DEF EarnedAbove

-----------------------------------------------------------------------------
(* Deliveries *)

\* A queue that brings the level l to the members of cs, and only to them.
Brings(ds, cs, l) ==
    /\ ds \in Seq(Delivery)
    /\ \A i \in 1 .. Len(ds) : ds[i].entity \in cs /\ ds[i].level = l
    /\ \A c \in cs : \E i \in 1 .. Len(ds) : ds[i].entity = c

LEMMA DeliveriesTyped ==
    ASSUME NEW cs \in SUBSET Entities, NEW l \in Level, NEW ds \in Deliveries(cs, l)
    PROVE  Brings(ds, cs, l)
<1> DEFINE n == Cardinality(cs)
<1>1. n \in Nat
  BY CertificationAssumption, FS_Subset, FS_CardinalityType
<1>2. PICK s \in SetToSeqs(cs) : ds = [i \in DOMAIN s |-> [entity |-> s[i], level |-> l]]
  BY DEF Deliveries
<1>3. s \in [1 .. n -> cs]
  BY <1>2 DEF SetToSeqs
<1>4. ds = [i \in 1 .. n |-> [entity |-> s[i], level |-> l]]
  BY <1>2, <1>3
<1>5. ds \in [1 .. n -> Delivery]
  BY <1>3, <1>4 DEF Delivery
<1>6. ds \in Seq(Delivery) /\ Len(ds) = n
  BY <1>1, <1>5
<1>7. \A c \in cs : \E i \in 1 .. n : s[i] = c
  <2>1. s \in Injection(1 .. n, cs)
    BY <1>2, <1>3 DEF SetToSeqs, Injection, IsInjective
  <2>2. IsFiniteSet(cs) /\ Cardinality(1 .. n) = n
    <3>1. IsFiniteSet(cs)
      BY CertificationAssumption, FS_Subset
    <3> HIDE DEF n
    <3>2. Cardinality(1 .. n) = n
      BY <1>1, FS_Interval
    <3> QED BY <3>1, <3>2
  <2>3. s \in Surjection(1 .. n, cs)
    <3> HIDE DEF n
    <3>1. Cardinality(1 .. n) = Cardinality(cs)
      BY <2>2 DEF n
    <3> QED BY <2>1, <2>2, <3>1, FS_Injection
  <2> QED BY <2>3 DEF Surjection
<1> QED BY <1>3, <1>4, <1>6, <1>7 DEF Brings

LEMMA Concatenated ==
    ASSUME NEW a \in Seq(Delivery), NEW b \in Seq(Delivery)
    PROVE  /\ Len(a) \in Nat /\ Len(b) \in Nat /\ Len(a \o b) = Len(a) + Len(b)
           /\ \A i \in 1 .. Len(a) : (a \o b)[i] = a[i]
           /\ \A i \in 1 .. Len(b) : (a \o b)[Len(a) + i] = b[i]
<1>1. Len(a) \in Nat /\ Len(b) \in Nat /\ Len(a \o b) = Len(a) + Len(b)
  BY LenProperties, ConcatProperties
<1>2. \A i \in 1 .. Len(a) + Len(b) :
        (a \o b)[i] = IF i <= Len(a) THEN a[i] ELSE b[i - Len(a)]
  BY ConcatProperties
<1>3. \A i \in 1 .. Len(b) :
        /\ Len(a) + i \in 1 .. Len(a) + Len(b)
        /\ ~(Len(a) + i <= Len(a)) /\ Len(a) + i - Len(a) = i
  BY <1>1
<1>4. \A i \in 1 .. Len(a) : i \in 1 .. Len(a) + Len(b) /\ i <= Len(a)
  BY <1>1
<1> QED BY <1>1, <1>2, <1>3, <1>4

-----------------------------------------------------------------------------
(* Initial states and steps that certify or relate *)

LEMMA NoWalkTyped == NoWalk \in Walk
BY CertificationAssumption DEF NoWalk, Walk, NotWritten

Owed == [level : Level \cup {NoLevel}, links : SUBSET Links]

LEMMA NothingOwedTyped == NothingOwed \in Owed
BY DEF NothingOwed, Owed

LEMMA CertInitInv == CertInit => CInv
<1> SUFFICES ASSUME CertInit PROVE CInv
  OBVIOUS
<1>2. CertTypeOK
  BY NoWalkTyped, NothingOwedTyped, CertificationAssumption DEF CertInit, CertTypeOK, NoLevel, Owed
<1>3. links \subseteq linked /\ Awarded /\ InheritedIsEarned
  BY DEF CertInit, Awarded, InheritedIsEarned
<1>4. WalkEarned
  BY DEF CertInit, WalkEarned, NoWalk
<1> QED BY <1>2, <1>3, <1>4 DEF CInv

\* Without a walk there is nothing that could be unearned.
LEMMA IdleIsEarned ==
    ASSUME walk' = NoWalk
    PROVE  WalkEarned'
BY DEF NoWalk, WalkEarned

\* What was earned before a step is earned after it.
LEMMA EarnedIsKept ==
    ASSUME CInv, linked \subseteq linked', earned \subseteq earned'
    PROVE  /\ walk' = walk => WalkEarned'
           /\ inherited' = inherited => InheritedIsEarned'
<1>1. \A e, l : EarnedAbove(e, l) => EarnedAbove(e, l)'
  BY EarnedStaysEarned
<1>2. ASSUME walk' = walk PROVE WalkEarned'
  BY <1>1, <1>2 DEF CInv, WalkEarned
<1>3. ASSUME inherited' = inherited PROVE InheritedIsEarned'
  <2>1. \A e \in Entities : inherited[e] # NoLevel => EarnedAbove(e, inherited[e])
    BY DEF CInv, InheritedIsEarned, EarnedAbove
  <2>2. \A e \in Entities : \A l :
          inherited'[e] = l /\ l # NoLevel => EarnedAbove(e, l)'
    BY <1>1, <1>3, <2>1
  <2> QED BY <2>2 DEF InheritedIsEarned, EarnedAbove
<1> QED BY <1>2, <1>3

LEMMA AwardKeeps ==
    ASSUME CInv, NEW e \in Entities, NEW l \in Level, Award(e, l)
    PROVE  /\ level' \in [Entities -> Level \cup {NoLevel}]
           /\ earned' \in SUBSET (Entities \X Level)
           /\ earned \subseteq earned'
           /\ Awarded'
<1>1. /\ level \in [Entities -> Level \cup {NoLevel}]
      /\ earned \in SUBSET (Entities \X Level)
  BY DEF CInv, CertTypeOK
<1> QED BY <1>1 DEF CInv, Award, Awarded

LEMMA CertifyStep ==
    ASSUME CInv, NEW e \in Entities, NEW l \in Level,
           Certify(e, l) \/ HandleCertify(e, l) \/ WorkflowCertify(e, l)
    PROVE  CInv'
<1>1. Award(e, l) /\ UNCHANGED <<inherited, links, linkChanges, certInterrupts, linked, owed>>
  BY DEF Certify, HandleCertify, WorkflowCertify
<1>2. walk' = walk \/ walk' = [NoWalk EXCEPT !.pc = "start", !.source = e]
  BY DEF Certify, HandleCertify, WorkflowCertify
<1>3. /\ level' \in [Entities -> Level \cup {NoLevel}]
      /\ earned' \in SUBSET (Entities \X Level)
      /\ earned \subseteq earned'
      /\ Awarded'
  BY <1>1, AwardKeeps
<1>4. [NoWalk EXCEPT !.pc = "start", !.source = e] \in Walk
  BY NoWalkTyped DEF Walk
<1>5. CertTypeOK'
  BY <1>1, <1>2, <1>3, <1>4 DEF CInv, CertTypeOK
<1>6. WalkEarned'
  <2>1. CASE walk' = walk
    BY <2>1, <1>1, <1>3, EarnedIsKept
  <2>2. CASE walk' = [NoWalk EXCEPT !.pc = "start", !.source = e]
    BY <2>2 DEF NoWalk, WalkEarned
  <2> QED BY <1>2, <2>1, <2>2
<1>7. InheritedIsEarned'
  BY <1>1, <1>3, EarnedIsKept
<1>8. (links \subseteq linked)'
  BY <1>1 DEF CInv
<1> QED BY <1>3, <1>5, <1>6, <1>7, <1>8 DEF CInv

LEMMA DecertifyStep ==
    ASSUME CInv, NEW e \in Entities, Decertify(e) \/ WorkflowDecertify(e)
    PROVE  CInv'
<1>1. /\ level' = [level EXCEPT ![e] = NoLevel]
      /\ inherited' = inherited \/ inherited' = [inherited EXCEPT ![e] = NoLevel]
      /\ UNCHANGED <<links, walk, linkChanges, certInterrupts, earned, linked, owed>>
  BY DEF Decertify, WorkflowDecertify
<1>2. /\ level \in [Entities -> Level \cup {NoLevel}]
      /\ inherited \in [Entities -> Level \cup {NoLevel}]
  BY DEF CInv, CertTypeOK
<1>3. CertTypeOK'
  BY <1>1, <1>2 DEF CInv, CertTypeOK
<1>4. Awarded' /\ (links \subseteq linked)'
  BY <1>1, <1>2 DEF CInv, Awarded
<1>5. WalkEarned'
  BY <1>1, EarnedIsKept
<1>6. InheritedIsEarned'
  <2>1. CASE inherited' = inherited
    BY <2>1, <1>1, EarnedIsKept
  <2>2. CASE inherited' = [inherited EXCEPT ![e] = NoLevel]
    <3>1. \A d : Downstream(d)' = Downstream(d)
      BY <1>1 DEF Downstream, Below
    <3>2. \A d \in Entities : inherited'[d] # NoLevel => inherited'[d] = inherited[d]
      BY <2>2, <1>2
    <3> QED BY <1>1, <3>1, <3>2 DEF CInv, InheritedIsEarned
  <2> QED BY <1>1, <2>1, <2>2
<1> QED BY <1>3, <1>4, <1>5, <1>6 DEF CInv

LEMMA RelateStep ==
    ASSUME CInv, NEW l \in Links, CreateRelationship(l) \/ DeleteRelationship(l)
    PROVE  CInv'
<1>1. PICK ls \in SUBSET Links : ChangeLinks(ls)
  <2>1. links \in SUBSET Links
    BY DEF CInv, CertTypeOK
  <2> QED BY <2>1 DEF CreateRelationship, DeleteRelationship
<1>2. /\ links' = ls /\ linked' = linked \cup ls
      /\ UNCHANGED <<level, inherited, walk, certInterrupts, earned>>
  BY <1>1 DEF ChangeLinks
<1>3. CertTypeOK'
  <2>1. owed \in Owed /\ owed' = [owed EXCEPT !.links = @ \cap ls]
    BY <1>1 DEF CInv, CertTypeOK, ChangeLinks, Owed
  <2>2. owed' \in Owed
    BY <2>1 DEF Owed
  <2> QED BY <1>1, <2>2, CertificationAssumption DEF CInv, CertTypeOK, ChangeLinks, Owed
<1>4. Awarded' /\ (links \subseteq linked)'
  BY <1>2 DEF CInv, Awarded
<1>5. WalkEarned' /\ InheritedIsEarned'
  BY <1>2, EarnedIsKept
<1> QED BY <1>3, <1>4, <1>5 DEF CInv

-----------------------------------------------------------------------------
(* Steps of the propagation *)

\* A step of the walk that writes no row keeps what the rows say.
LEMMA WalkStep ==
    ASSUME CInv, walk' \in Walk, WalkEarned',
           UNCHANGED <<level, inherited, links, linkChanges, earned, linked>>,
           certInterrupts' \in 0 .. MaxCertInterrupts, owed' \in Owed
    PROVE  CInv'
<1>1. CertTypeOK'
  BY DEF CInv, CertTypeOK, Owed
<1>2. Awarded' /\ (links \subseteq linked)'
  BY DEF CInv, Awarded
<1>3. InheritedIsEarned'
  BY EarnedIsKept
<1> QED BY <1>1, <1>2, <1>3 DEF CInv

\* Without a new award or relationship, earned above means what it meant.
LEMMA EarnedIsStable ==
    ASSUME UNCHANGED <<earned, linked>>, NEW e, NEW l, EarnedAbove(e, l)
    PROVE  EarnedAbove(e, l)'
BY EarnedStaysEarned

LEMMA StartWalkStep ==
    ASSUME CInv, StartWalk
    PROVE  CInv'
<1>1. /\ level \in [Entities -> Level \cup {NoLevel}]
      /\ certInterrupts \in 0 .. MaxCertInterrupts
      /\ links \subseteq linked /\ Awarded /\ WalkEarned
      /\ walk \in Walk /\ owed \in Owed /\ links \in SUBSET Links
  BY DEF CInv, CertTypeOK, Owed
<1>2. UNCHANGED <<level, inherited, links, linkChanges, certInterrupts, earned, linked>>
  BY DEF StartWalk
<1>3. CASE level[walk.source] = NoLevel
  <2>1. walk' = NoWalk /\ owed' = owed
    BY <1>3 DEF StartWalk
  <2> QED BY <1>1, <1>2, <2>1, NoWalkTyped, IdleIsEarned, WalkStep
<1>4. CASE level[walk.source] # NoLevel
  <2> DEFINE u == walk.source
             l == level[u]
  <2>1. u \in Entities /\ walk.pc = "start"
    BY <1>1 DEF StartWalk, WalkEarned
  <2>2. l \in Level /\ <<u, l>> \in earned
    BY <1>1, <1>4, <2>1 DEF Awarded
  <2>3. PICK ds \in Deliveries(Children(u), l) :
          walk' = [walk EXCEPT !.pc = "walk", !.queue = ds]
    BY <1>4 DEF StartWalk
  <2>4. Children(u) \in SUBSET Entities
    BY DEF Children
  <2>5. /\ ds \in Seq(Delivery)
        /\ \A i \in 1 .. Len(ds) : ds[i].entity \in Children(u) /\ ds[i].level = l
    <3>1. ds \in Deliveries(Children(u), l) /\ Children(u) \in SUBSET Entities /\ l \in Level
      BY <2>2, <2>3, <2>4
    <3>2. Brings(ds, Children(u), l)
      <4> HIDE DEF u, l
      <4> QED BY <3>1, DeliveriesTyped, Zenon
    <3> QED BY <3>2 DEF Brings
  <2>6. \A i \in 1 .. Len(ds) : EarnedAbove(ds[i].entity, ds[i].level)
    <3>1. \A c \in Children(u) : c \in Downstream(u)
      BY <1>1, TargetIsDownstream DEF Children
    <3> QED BY <2>1, <2>2, <2>5, <3>1 DEF EarnedAbove
  <2>7. walk' \in Walk
    BY <1>1, <2>3, <2>5 DEF Walk
  <2>8. WalkEarned'
    <3>1. walk'.queue = ds /\ walk'.written = walk.written /\ walk'.source = u
      BY <1>1, <2>3 DEF Walk
    <3>2. \A e, k : EarnedAbove(e, k) => EarnedAbove(e, k)'
      BY <1>2, EarnedIsStable
    <3> QED BY <1>1, <2>1, <2>6, <3>1, <3>2 DEF WalkEarned
  <2>9. owed' \in Owed
    <3>1. owed' = [level |-> l, links |-> links]
      BY <1>4 DEF StartWalk
    <3> QED BY <1>1, <2>2, <3>1 DEF Owed
  <2> QED BY <1>1, <1>2, <2>7, <2>8, <2>9, WalkStep
<1> QED BY <1>3, <1>4

LEMMA VisitStep ==
    ASSUME CInv, Visit
    PROVE  CInv'
<1> DEFINE e == Head(walk.queue).entity
           incoming == Head(walk.queue).level
           rest == Tail(walk.queue)
<1>1. /\ level \in [Entities -> Level \cup {NoLevel}]
      /\ certInterrupts \in 0 .. MaxCertInterrupts
      /\ links \subseteq linked /\ Awarded /\ WalkEarned
      /\ walk \in Walk /\ owed \in Owed
  BY DEF CInv, CertTypeOK, Owed
<1>2. UNCHANGED <<level, inherited, links, linkChanges, certInterrupts, earned, linked, owed>>
  BY DEF Visit
<1>3. /\ walk.queue \in Seq(Delivery) /\ walk.queue # <<>> /\ walk.pc = "walk"
      /\ walk.written \in [Entities -> Level \cup {NotWritten}]
      /\ walk.source \in Entities
      /\ walk.visited \in SUBSET Entities
  BY <1>1 DEF Visit, Walk, WalkEarned
<1>4. /\ rest \in Seq(Delivery) /\ Len(rest) = Len(walk.queue) - 1
      /\ \A i \in 1 .. Len(rest) : rest[i] = walk.queue[i + 1]
      /\ Head(walk.queue) = walk.queue[1] /\ Len(walk.queue) \in Nat \ {0}
  BY <1>3
<1>5. e \in Entities /\ incoming \in Level /\ EarnedAbove(e, incoming)
  <2>1. walk.queue[1] \in Delivery
    BY <1>3, <1>4
  <2> QED BY <1>1, <1>4, <2>1 DEF Delivery, WalkEarned
<1>6. \A i \in 1 .. Len(rest) : EarnedAbove(rest[i].entity, rest[i].level)
  <2>1. \A i \in 1 .. Len(rest) : i + 1 \in 1 .. Len(walk.queue)
    BY <1>4
  <2> QED BY <1>1, <1>4, <2>1 DEF WalkEarned
<1>7. \A d, k : EarnedAbove(d, k) => EarnedAbove(d, k)'
  BY <1>2, EarnedIsStable
<1>8. CASE e \in walk.visited
  <2>1. walk' = [walk EXCEPT !.queue = rest]
    BY <1>8 DEF Visit
  <2>2. walk' \in Walk
    BY <1>1, <1>4, <2>1 DEF Walk
  <2>3. walk'.queue = rest /\ walk'.written = walk.written /\ walk'.source = walk.source
    BY <1>1, <2>1 DEF Walk
  <2>4. WalkEarned'
    BY <1>1, <1>3, <1>6, <1>7, <2>3 DEF WalkEarned
  <2> QED BY <1>1, <1>2, <2>2, <2>4, WalkStep
<1>9. CASE e \notin walk.visited
  <2> DEFINE cs == Children(e) \ (walk.visited \cup {e})
             k == Passed(e, incoming)
             w == IF e \in Untabled THEN NotWritten ELSE incoming
  <2>1. PICK ds \in Deliveries(cs, k) :
          walk' = [walk EXCEPT !.queue = rest \o ds,
                               !.visited = walk.visited \cup {e},
                               !.written[e] = w]
    BY <1>9 DEF Visit, Received
  <2>2. cs \in SUBSET Entities /\ \A c \in cs : <<e, c>> \in linked
    BY <1>1 DEF Children
  <2>3. \/ k = incoming
        \/ k = level[e] /\ level[e] # NoLevel
    BY <1>1, <1>5, CertificationAssumption DEF Passed, OwnLevel, NoLevel, Level
  <2>4. k \in Level
    BY <1>1, <1>5, <2>3
  <2>5. \A c \in cs : EarnedAbove(c, k)
    <3>1. CASE k = incoming
      BY <1>5, <2>2, <3>1, TargetOfDownstream DEF EarnedAbove
    <3>2. CASE k = level[e] /\ level[e] # NoLevel
      <4>1. <<e, k>> \in earned
        BY <1>1, <1>5, <3>2 DEF Awarded
      <4> QED BY <1>5, <2>2, <4>1, TargetIsDownstream DEF EarnedAbove
    <3> QED BY <2>3, <3>1, <3>2
  <2>6. /\ ds \in Seq(Delivery)
        /\ \A i \in 1 .. Len(ds) : ds[i].entity \in cs /\ ds[i].level = k
    <3>1. ds \in Deliveries(cs, k) /\ cs \in SUBSET Entities /\ k \in Level
      BY <2>1, <2>2, <2>4
    <3>2. Brings(ds, cs, k)
      <4> HIDE DEF cs, k, e, incoming
      <4> QED BY <3>1, DeliveriesTyped, Zenon
    <3> QED BY <3>2 DEF Brings
  <2>7. /\ rest \o ds \in Seq(Delivery)
        /\ \A i \in 1 .. Len(rest \o ds) :
              EarnedAbove((rest \o ds)[i].entity, (rest \o ds)[i].level)
    <3>1. rest \o ds \in Seq(Delivery) /\ Len(rest \o ds) = Len(rest) + Len(ds)
      BY <1>4, <2>6
    <3>2. \A i \in 1 .. Len(rest) + Len(ds) :
            (rest \o ds)[i] = IF i <= Len(rest) THEN rest[i] ELSE ds[i - Len(rest)]
      BY <1>4, <2>6
    <3>3. \A i \in 1 .. Len(ds) : EarnedAbove(ds[i].entity, ds[i].level)
      BY <2>5, <2>6
    <3>4. Len(rest) \in Nat /\ Len(ds) \in Nat
      BY <1>4, <2>6
    <3>5. ASSUME NEW i \in 1 .. Len(rest \o ds)
          PROVE  EarnedAbove((rest \o ds)[i].entity, (rest \o ds)[i].level)
      <4>1. CASE i <= Len(rest)
        <5>1. i \in 1 .. Len(rest) /\ (rest \o ds)[i] = rest[i]
          BY <3>1, <3>2, <3>4, <4>1
        <5> QED BY <1>6, <5>1
      <4>2. CASE i > Len(rest)
        <5>1. i - Len(rest) \in 1 .. Len(ds) /\ (rest \o ds)[i] = ds[i - Len(rest)]
          BY <3>1, <3>2, <3>4, <4>2
        <5> QED BY <3>3, <5>1
      <4> QED BY <3>1, <3>4, <4>1, <4>2
    <3> QED BY <3>1, <3>5
  <2>8. w \in Level \cup {NotWritten} /\ (w # NotWritten => EarnedAbove(e, w))
    BY <1>5
  <2>9. /\ walk'.queue = rest \o ds /\ walk'.source = walk.source
        /\ walk'.written = [walk.written EXCEPT ![e] = w]
    BY <1>1, <2>1 DEF Walk
  <2>10. walk' \in Walk
    <3>1. [walk.written EXCEPT ![e] = w] \in [Entities -> Level \cup {NotWritten}]
      BY <1>3, <2>8
    <3>2. walk.visited \cup {e} \in SUBSET Entities
      BY <1>3, <1>5
    <3> HIDE DEF w, e, rest
    <3> QED BY <1>1, <2>1, <2>7, <3>1, <3>2 DEF Walk
  <2>11. WalkEarned'
    <3>1. \A d \in Entities : walk'.written[d] = IF d = e THEN w ELSE walk.written[d]
      BY <1>3, <2>9
    <3>2. \A d \in Entities : \A m : walk'.written[d] = m /\ m # NotWritten => EarnedAbove(d, m)'
      <4> HIDE DEF w, e
      <4> QED BY <1>1, <1>7, <2>8, <3>1 DEF WalkEarned
    <3>3. \A i \in 1 .. Len(walk'.queue) :
            EarnedAbove(walk.queue[i].entity, walk.queue[i].level)'
      <4> HIDE DEF rest
      <4> QED BY <1>7, <2>7, <2>9
    <3>4. NotWritten' = NotWritten
      BY DEF NotWritten
    <3> QED BY <1>3, <2>9, <3>2, <3>3, <3>4 DEF WalkEarned
  <2> QED BY <1>1, <1>2, <2>10, <2>11, WalkStep
<1> QED BY <1>8, <1>9

LEMMA CommitWalkStep ==
    ASSUME CInv, CommitWalk
    PROVE  CInv'
<1>1. /\ inherited \in [Entities -> Level \cup {NoLevel}]
      /\ walk \in Walk /\ WalkEarned
  BY DEF CInv, CertTypeOK
<1>2. /\ inherited' = [e \in Entities |-> IF Locked(e) THEN walk.written[e] ELSE inherited[e]]
      /\ walk' = NoWalk /\ owed' = NothingOwed
      /\ UNCHANGED <<level, links, linkChanges, certInterrupts, earned, linked>>
  BY DEF CommitWalk
<1>3. \A e \in Entities : Locked(e) => walk.written[e] \in Level
  BY <1>1 DEF Walk, Locked
<1>4. inherited' \in [Entities -> Level \cup {NoLevel}]
  BY <1>1, <1>2, <1>3
<1>5. CertTypeOK'
  BY <1>2, <1>4, NoWalkTyped, NothingOwedTyped DEF CInv, CertTypeOK, Owed
<1>6. Awarded' /\ WalkEarned' /\ (links \subseteq linked)'
  BY <1>2, IdleIsEarned DEF CInv, Awarded
<1>7. InheritedIsEarned'
  <2>1. \A e \in Entities : inherited[e] # NoLevel => EarnedAbove(e, inherited[e])
    BY DEF CInv, InheritedIsEarned, EarnedAbove
  <2>2. \A e \in Entities : Locked(e) => EarnedAbove(e, walk.written[e])
    BY <1>1 DEF WalkEarned, Locked
  <2>3. \A e, l : EarnedAbove(e, l) => EarnedAbove(e, l)'
    BY <1>2, EarnedIsStable
  <2>4. \A e \in Entities : \A l :
          inherited'[e] = l /\ l # NoLevel => EarnedAbove(e, l)'
    BY <1>2, <2>1, <2>2, <2>3
  <2> QED BY <2>4 DEF InheritedIsEarned, EarnedAbove
<1> QED BY <1>5, <1>6, <1>7 DEF CInv

LEMMA CertInterruptStep ==
    ASSUME CInv, CertInterrupt
    PROVE  CInv'
<1>1. /\ walk' = NoWalk /\ owed' = NothingOwed
      /\ certInterrupts' = certInterrupts + 1 /\ certInterrupts < MaxCertInterrupts
      /\ UNCHANGED <<level, inherited, links, linkChanges, earned, linked>>
  BY DEF CertInterrupt
<1>2. certInterrupts \in 0 .. MaxCertInterrupts
  BY DEF CInv, CertTypeOK
<1>3. certInterrupts' \in 0 .. MaxCertInterrupts
  BY <1>1, <1>2, CertificationAssumption
<1> QED BY <1>1, <1>3, NoWalkTyped, NothingOwedTyped, IdleIsEarned, WalkStep

-----------------------------------------------------------------------------
(* Every step *)

LEMMA CertStep ==
    ASSUME CInv, [CertNext]_certVars
    PROVE  CInv'
<1>1. ASSUME NEW e \in Entities, NEW l \in Level,
             Certify(e, l) \/ HandleCertify(e, l) \/ WorkflowCertify(e, l)
      PROVE  CInv'
  BY <1>1, CertifyStep
<1>2. ASSUME NEW e \in Entities, Decertify(e) \/ WorkflowDecertify(e)
      PROVE  CInv'
  BY <1>2, DecertifyStep
<1>3. ASSUME NEW l \in Links, CreateRelationship(l) \/ DeleteRelationship(l)
      PROVE  CInv'
  BY <1>3, RelateStep
<1>4. CASE StartWalk
  BY <1>4, StartWalkStep
<1>5. CASE Visit
  BY <1>5, VisitStep
<1>6. CASE CommitWalk
  BY <1>6, CommitWalkStep
<1>7. CASE CertInterrupt
  BY <1>7, CertInterruptStep
<1>8. CASE UNCHANGED certVars
  <2>1. UNCHANGED <<level, inherited, links, walk, linkChanges, certInterrupts, earned, linked, owed>>
    BY <1>8 DEF certVars
  <2>2. walk' \in Walk /\ certInterrupts' \in 0 .. MaxCertInterrupts /\ owed' \in Owed
    BY <2>1 DEF CInv, CertTypeOK, Owed
  <2> QED BY <2>1, <2>2, EarnedIsKept, WalkStep
<1> QED BY <1>1, <1>2, <1>3, <1>4, <1>5, <1>6, <1>7, <1>8 DEF CertNext

LEMMA CertInductive == CertSpec => []CInv
<1>1. CertInit => CInv
  BY CertInitInv
<1>2. CInv /\ [CertNext]_certVars => CInv'
  BY CertStep
<1> QED BY <1>1, <1>2, PTL DEF CertSpec

-----------------------------------------------------------------------------
(* What a propagation owes *)

LEMMA NothingIsOwed ==
    ASSUME walk' = NoWalk, owed' = NothingOwed
    PROVE  WalkOwes'
BY DEF NoWalk, NothingOwed, WalkOwes

\* A step that does not touch the walk leaves what it owes.
LEMMA WalkOwesStays ==
    ASSUME WalkOwes, UNCHANGED walk, owed'.links \subseteq owed.links, owed'.level = owed.level,
           owed'.links \subseteq links'
    PROVE  WalkOwes'
BY DEF WalkOwes, Queued, Locked, NotWritten

LEMMA StartWalkOwes ==
    ASSUME CInv, WalkOwes, StartWalk
    PROVE  WalkOwes'
<1>1. /\ walk \in Walk /\ walk.pc = "start" /\ walk.visited = {} /\ walk.source \in Entities
      /\ level \in [Entities -> Level \cup {NoLevel}] /\ links \in SUBSET Links
      /\ links' = links
  BY DEF CInv, CertTypeOK, StartWalk, WalkOwes, WalkEarned
<1>2. CASE level[walk.source] = NoLevel
  <2>1. walk' = NoWalk /\ owed' = owed
    BY <1>2 DEF StartWalk
  <2> QED BY <1>1, <2>1 DEF WalkOwes, NoWalk
<1>3. CASE level[walk.source] # NoLevel
  <2> DEFINE u == walk.source
             l == level[u]
  <2>1. l \in Level
    BY <1>1, <1>3
  <2>2. PICK ds \in Deliveries(Children(u), l) :
          walk' = [walk EXCEPT !.pc = "walk", !.queue = ds]
    BY <1>3 DEF StartWalk
  <2>3. owed' = [level |-> l, links |-> links]
    BY <1>3 DEF StartWalk
  <2>4. Brings(ds, Children(u), l)
    <3>1. Children(u) \in SUBSET Entities
      BY DEF Children
    <3> HIDE DEF u, l
    <3> QED BY <2>1, <2>2, <3>1, DeliveriesTyped, Zenon
  <2>5. /\ walk'.pc = "walk" /\ walk'.queue = ds /\ walk'.visited = {} /\ walk'.source = u
    BY <1>1, <2>2 DEF Walk
  <2>6. \A i \in 1 .. Len(ds) : ds[i].level >= l
    BY <2>1, <2>4 DEF Brings, Level
  <2>7. \A m \in links : m[1] = u => \E i \in 1 .. Len(ds) : ds[i].entity = m[2]
    <3>1. \A m \in links : m[2] \in Entities /\ m = <<m[1], m[2]>>
      BY <1>1, CertificationAssumption
    <3>2. \A m \in links : m[1] = u => m[2] \in Children(u)
      BY <3>1 DEF Children
    <3> QED BY <2>4, <3>2 DEF Brings
  <2> HIDE DEF l, u
  <2> QED BY <1>1, <2>3, <2>5, <2>6, <2>7 DEF WalkOwes, Queued
<1> QED BY <1>2, <1>3

LEMMA VisitOwes ==
    ASSUME CInv, WalkOwes, Visit
    PROVE  WalkOwes'
<1> DEFINE e == Head(walk.queue).entity
           incoming == Head(walk.queue).level
           rest == Tail(walk.queue)
<1>1. /\ walk \in Walk /\ walk.pc = "walk" /\ walk.queue # <<>> /\ owed \in Owed
      /\ level \in [Entities -> Level \cup {NoLevel}] /\ links \in SUBSET Links
      /\ UNCHANGED <<links, owed>>
  BY DEF CInv, CertTypeOK, Visit, Owed
<1>2. /\ walk.queue \in Seq(Delivery) /\ walk.visited \in SUBSET Entities
      /\ walk.written \in [Entities -> Level \cup {NotWritten}]
  BY <1>1 DEF Walk
<1>3. /\ rest \in Seq(Delivery) /\ Len(rest) = Len(walk.queue) - 1
      /\ \A i \in 1 .. Len(rest) : rest[i] = walk.queue[i + 1]
      /\ Head(walk.queue) = walk.queue[1] /\ Len(walk.queue) \in Nat \ {0}
  BY <1>1, <1>2
<1>4. e \in Entities /\ incoming \in Level /\ incoming >= owed.level
  <2>1. walk.queue[1] \in Delivery
    BY <1>2, <1>3
  <2> QED BY <1>1, <1>3, <2>1 DEF Delivery, WalkOwes
<1>5. \A i \in 1 .. Len(rest) : rest[i].level >= owed.level
  <2>1. \A i \in 1 .. Len(rest) : i + 1 \in 1 .. Len(walk.queue)
    BY <1>3
  <2> QED BY <1>1, <1>3, <2>1 DEF WalkOwes
\* What is queued is at the head or in the rest.
<1>6. \A c : Queued(c) => c = e \/ \E i \in 1 .. Len(rest) : rest[i].entity = c
  <2> SUFFICES ASSUME NEW c, NEW i \in 1 .. Len(walk.queue), walk.queue[i].entity = c, i # 1
               PROVE  \E j \in 1 .. Len(rest) : rest[j].entity = c
    BY <1>3 DEF Queued
  <2>1. i - 1 \in 1 .. Len(rest) /\ rest[i - 1] = walk.queue[i]
    BY <1>3
  <2> QED BY <2>1
<1>7. \A l \in owed.links : l[1] = walk.source \/ l[1] \in walk.visited =>
        \/ l[2] \in walk.visited \cup {e}
        \/ \E i \in 1 .. Len(rest) : rest[i].entity = l[2]
  BY <1>1, <1>6 DEF WalkOwes
<1>8. CASE e \in walk.visited
  <2>1. walk' = [walk EXCEPT !.queue = rest]
    BY <1>8 DEF Visit
  <2>2. /\ walk'.queue = rest /\ walk'.written = walk.written /\ walk'.source = walk.source
        /\ walk'.visited = walk.visited /\ walk'.pc = "walk"
    BY <1>1, <2>1 DEF Walk
  <2> HIDE DEF rest, e
  <2> QED BY <1>1, <1>5, <1>7, <1>8, <2>2 DEF WalkOwes, Queued, Locked, NotWritten
<1>9. CASE e \notin walk.visited
  <2> DEFINE cs == Children(e) \ (walk.visited \cup {e})
             k == Passed(e, incoming)
             w == IF e \in Untabled THEN NotWritten ELSE incoming
  <2>1. PICK ds \in Deliveries(cs, k) :
          walk' = [walk EXCEPT !.queue = rest \o ds,
                               !.visited = walk.visited \cup {e},
                               !.written[e] = w]
    BY <1>9 DEF Visit, Received
  <2>2. k \in Level /\ k >= owed.level
    BY <1>1, <1>4, CertificationAssumption DEF Passed, OwnLevel, NoLevel, Level, Owed
  <2>3. Brings(ds, cs, k)
    <3>1. cs \in SUBSET Entities
      BY DEF Children
    <3> HIDE DEF cs, k, e, incoming
    <3> QED BY <2>1, <2>2, <3>1, DeliveriesTyped, Zenon
  <2>4. /\ walk'.queue = rest \o ds /\ walk'.source = walk.source /\ walk'.pc = "walk"
        /\ walk'.visited = walk.visited \cup {e}
        /\ walk'.written = [walk.written EXCEPT ![e] = w]
    BY <1>1, <2>1 DEF Walk
  <2>5. /\ Len(rest) \in Nat /\ Len(ds) \in Nat /\ Len(rest \o ds) = Len(rest) + Len(ds)
        /\ \A i \in 1 .. Len(rest) : (rest \o ds)[i] = rest[i]
        /\ \A i \in 1 .. Len(ds) : (rest \o ds)[Len(rest) + i] = ds[i]
    <3>1. ds \in Seq(Delivery)
      BY <2>3 DEF Brings
    <3>2. rest \in Seq(Delivery)
      BY <1>3
    <3> HIDE DEF rest
    <3> QED BY <3>1, <3>2, Concatenated
  <2>6. \A i \in 1 .. Len(rest \o ds) : (rest \o ds)[i].level >= owed.level
    <3> SUFFICES ASSUME NEW i \in 1 .. Len(rest \o ds)
                 PROVE  (rest \o ds)[i].level >= owed.level
      OBVIOUS
    <3>1. CASE i <= Len(rest)
      <4>1. i \in 1 .. Len(rest)
        BY <2>5, <3>1
      <4> QED BY <1>5, <2>5, <4>1
    <3>2. CASE i > Len(rest)
      <4> DEFINE j == i - Len(rest)
      <4>1. j \in 1 .. Len(ds) /\ i = Len(rest) + j
        BY <2>5, <3>2
      <4>2. (rest \o ds)[i] = ds[j]
        <5> HIDE DEF j
        <5> QED BY <2>5, <4>1
      <4> QED BY <2>2, <2>3, <4>1, <4>2 DEF Brings
    <3> QED BY <2>5, <3>1, <3>2
  <2>7. \A c : (\E i \in 1 .. Len(rest) : rest[i].entity = c) => Queued(c)'
    <3> SUFFICES ASSUME NEW c, NEW i \in 1 .. Len(rest), rest[i].entity = c
                 PROVE  Queued(c)'
      OBVIOUS
    <3>1. i \in 1 .. Len(rest \o ds) /\ (rest \o ds)[i] = rest[i]
      BY <2>5
    <3> QED BY <2>4, <3>1 DEF Queued
  <2>8. \A c \in cs : Queued(c)'
    <3> SUFFICES ASSUME NEW c \in cs PROVE Queued(c)'
      OBVIOUS
    <3>1. PICK i \in 1 .. Len(ds) : ds[i].entity = c
      BY <2>3 DEF Brings
    <3>2. Len(rest) + i \in 1 .. Len(rest \o ds) /\ (rest \o ds)[Len(rest) + i] = ds[i]
      BY <2>5
    <3> QED BY <2>4, <3>1, <3>2 DEF Queued
  <2>9. \A l \in owed.links : l[1] = e => l[2] \in walk'.visited \/ Queued(l[2])'
    <3>1. \A l \in owed.links : l \in links /\ l[2] \in Entities /\ l = <<l[1], l[2]>>
      BY <1>1, CertificationAssumption DEF WalkOwes
    <3>2. \A l \in owed.links : l[1] = e => l[2] \in Children(e)
      BY <3>1 DEF Children
    <3> QED BY <2>4, <2>8, <3>2
  <2>10. \A l \in owed.links : l[1] = walk.source \/ l[1] \in walk.visited =>
           l[2] \in walk'.visited \/ Queued(l[2])'
    <3> SUFFICES ASSUME NEW l \in owed.links, l[1] = walk.source \/ l[1] \in walk.visited
                 PROVE  l[2] \in walk'.visited \/ Queued(l[2])'
      OBVIOUS
    <3>1. \/ l[2] \in walk.visited \cup {e}
          \/ \E i \in 1 .. Len(rest) : rest[i].entity = l[2]
      BY <1>7
    <3> HIDE DEF rest, e
    <3> QED BY <2>4, <2>7, <3>1
  <2>11. \A d \in walk'.visited \ Untabled :
           walk'.written[d] # NotWritten /\ walk'.written[d] >= owed.level
    <3> SUFFICES ASSUME NEW d \in walk.visited \cup {e}, d \notin Untabled
                 PROVE  walk'.written[d] # NotWritten /\ walk'.written[d] >= owed.level
      BY <2>4
    <3>1. CASE d = e
      BY <1>2, <1>4, <2>4, <3>1, CertificationAssumption DEF NotWritten, Level
    <3>2. CASE d # e
      BY <1>1, <1>2, <2>4, <3>2 DEF WalkOwes, Locked
    <3> QED BY <3>1, <3>2
  <2> HIDE DEF rest, e, cs, w, k
  <2> QED BY <1>1, <2>4, <2>6, <2>9, <2>10, <2>11 DEF WalkOwes, Locked, NotWritten
<1> QED BY <1>8, <1>9

LEMMA OwesInductive == CertSpec => []AInv
<1>1. CertInit => AInv
  BY CertInitInv DEF CertInit, AInv, WalkOwes, NoWalk, NothingOwed
<1>2. AInv /\ [CertNext]_certVars => AInv'
  <2> SUFFICES ASSUME CInv, WalkOwes, [CertNext]_certVars PROVE WalkOwes'
    BY CertStep DEF AInv
  <2>1. ASSUME NEW e \in Entities, NEW l \in Level,
               Certify(e, l) \/ HandleCertify(e, l) \/ WorkflowCertify(e, l)
        PROVE  WalkOwes'
    <3>1. UNCHANGED <<links, owed>>
      BY <2>1 DEF Certify, HandleCertify, WorkflowCertify
    <3>2. UNCHANGED walk \/ (walk'.pc = "start" /\ walk'.visited = {})
      BY <2>1 DEF Certify, HandleCertify, WorkflowCertify, NoWalk
    <3>3. owed.links \subseteq links
      BY DEF WalkOwes
    <3> QED BY <3>1, <3>2, <3>3, WalkOwesStays DEF WalkOwes
  <2>2. ASSUME NEW e \in Entities, Decertify(e) \/ WorkflowDecertify(e)
        PROVE  WalkOwes'
    <3>1. UNCHANGED <<links, owed, walk>> /\ owed.links \subseteq links
      BY <2>2 DEF Decertify, WorkflowDecertify, WalkOwes
    <3> QED BY <3>1, WalkOwesStays
  <2>3. ASSUME NEW l \in Links, CreateRelationship(l) \/ DeleteRelationship(l)
        PROVE  WalkOwes'
    <3>1. PICK ls : ChangeLinks(ls)
      BY <2>3 DEF CreateRelationship, DeleteRelationship
    <3>2. owed \in Owed
      BY DEF CInv, CertTypeOK, Owed
    <3>3. UNCHANGED walk /\ links' = ls /\ owed'.links = owed.links \cap ls /\ owed'.level = owed.level
      BY <3>1, <3>2 DEF ChangeLinks, Owed
    <3> QED BY <3>3, WalkOwesStays
  <2>4. CASE StartWalk
    BY <2>4, StartWalkOwes
  <2>5. CASE Visit
    BY <2>5, VisitOwes
  <2>6. CASE CommitWalk \/ CertInterrupt
    BY <2>6, NothingIsOwed DEF CommitWalk, CertInterrupt
  <2>7. CASE UNCHANGED certVars
    <3>1. UNCHANGED <<links, owed, walk>> /\ owed.links \subseteq links
      BY <2>7 DEF certVars, WalkOwes
    <3> QED BY <3>1, WalkOwesStays
  <2> QED BY <2>1, <2>2, <2>3, <2>4, <2>5, <2>6, <2>7 DEF CertNext
<1> QED BY <1>1, <1>2, PTL DEF CertSpec

\* Who is below the source of a walk that has nothing left in its queue was visited.
LEMMA BelowIsVisited ==
    ASSUME CInv, WalkOwes, walk.pc = "walk", walk.queue = <<>>
    PROVE  Below(walk.source, owed.links) \subseteq walk.visited
<1>1. walk.visited \in SUBSET Entities
  BY DEF CInv, CertTypeOK, Walk
<1>2. \A e : ~Queued(e)
  BY DEF Queued
<1>3. \A l \in owed.links : l[1] = walk.source \/ l[1] \in walk.visited => l[2] \in walk.visited
  BY <1>2 DEF WalkOwes
<1> QED BY <1>1, <1>3 DEF Below

-----------------------------------------------------------------------------
(* Theorems *)

\* The tables, the history and the locals of a propagation have their types:
\* a level that is passed on is one of the certification levels.
THEOREM CertTypes == CertSpec => []CertTypeOK
<1>1. CInv => CertTypeOK
  BY DEF CInv
<1> QED BY <1>1, CertInductive, PTL

\* For any entities, relationships, levels and interruptions: an inherited
\* level was once given to an entity upstream of the one that shows it.
THEOREM InheritedIsEarnedAlways == CertSpec => []InheritedIsEarned
<1>1. CInv => InheritedIsEarned
  BY DEF CInv
<1> QED BY <1>1, CertInductive, PTL

\* For any entities, relationships (with cycles, too), levels and interruptions:
\* a propagation that comes to its end has given everyone below its source at
\* least the level it began with, over relationships that were there all the
\* time, and no step hands out a level that was not given upstream.
THEOREM LevelsArriveAlways == CertSpec => LevelsArrive
<1>1. AInv /\ AInv' /\ [CertNext]_certVars =>
        [/\ walk.pc = "walk" /\ walk'.pc = "idle" /\ UNCHANGED certInterrupts =>
              \A e \in Below(walk.source, owed.links) \ Untabled : inherited'[e] >= owed.level
         /\ InheritedIsEarned']_certVars
  <2> SUFFICES ASSUME CInv, WalkOwes, CertNext, walk.pc = "walk", walk'.pc = "idle",
                      UNCHANGED certInterrupts,
                      NEW e \in Below(walk.source, owed.links) \ Untabled
               PROVE  inherited'[e] >= owed.level
    BY DEF AInv, CInv
  <2>1. walk \in Walk /\ certInterrupts \in Nat
    BY CertificationAssumption DEF CInv, CertTypeOK
  <2>2. ~Visit /\ ~CertInterrupt /\ ~StartWalk
    <3>1. walk.pc # "start"
      OBVIOUS
    <3>2. ~Visit
      <4> SUFFICES ASSUME Visit PROVE FALSE
        OBVIOUS
      <4> DEFINE d == Head(walk.queue).entity
                 q == Tail(walk.queue)
      <4>1. CASE d \in walk.visited
        <5>1. walk' = [walk EXCEPT !.queue = q]
          BY <4>1 DEF Visit
        <5> HIDE DEF q
        <5> QED BY <2>1, <5>1 DEF Walk
      <4>2. CASE d \notin walk.visited
        <5>1. PICK ds, w : walk' = [walk EXCEPT !.queue = q \o ds,
                                               !.visited = walk.visited \cup {d},
                                               !.written[d] = w]
          BY <4>2 DEF Visit
        <5> HIDE DEF q, d
        <5> QED BY <2>1, <5>1 DEF Walk
      <4> QED BY <4>1, <4>2
    <3>3. ~CertInterrupt /\ ~StartWalk
      BY <2>1, <3>1 DEF CertInterrupt, StartWalk
    <3> QED BY <3>2, <3>3
  <2>3. CommitWalk
    <3>1. \A d \in Entities, l \in Level :
            ~Certify(d, l) /\ ~HandleCertify(d, l) /\ ~Decertify(d)
      BY DEF Certify, HandleCertify, Decertify
    <3>2. \A d \in Entities, l \in Level : ~WorkflowCertify(d, l) /\ ~WorkflowDecertify(d)
      BY DEF WorkflowCertify, WorkflowDecertify
    <3>3. \A l \in Links : ~CreateRelationship(l) /\ ~DeleteRelationship(l)
      BY DEF CreateRelationship, DeleteRelationship, ChangeLinks
    <3>4. \A d \in Entities : ~WorkflowDecertify(d) /\ ~Decertify(d)
      BY DEF WorkflowDecertify, Decertify
    <3> QED BY <2>2, <3>1, <3>2, <3>3, <3>4 DEF CertNext
  <2>4. walk.queue = <<>> /\ e \in Entities
        /\ inherited' = [d \in Entities |-> IF Locked(d) THEN walk.written[d] ELSE inherited[d]]
    BY <2>3 DEF CommitWalk, Below
  <2>5. e \in walk.visited \ Untabled
    BY <2>4, BelowIsVisited
  <2>6. Locked(e) /\ walk.written[e] >= owed.level
    BY <2>5 DEF WalkOwes
  <2> QED BY <2>4, <2>6
<1> QED BY <1>1, OwesInductive, PTL DEF CertSpec, LevelsArrive
=============================================================================
