---------------------------- MODULE Certification ----------------------------
(***************************************************************************)
(* Certification levels and their inheritance: the routes that certify and *)
(* decertify products and contracts (routes/data_product_routes.py,        *)
(* routes/data_contracts_routes.py), the propagator                        *)
(* (controller/certification_propagator.py), the workflow step that        *)
(* certifies (common/workflow_executor.py), and the entity relationships   *)
(* that levels travel along.                                               *)
(*                                                                         *)
(* The routes that certify are coroutines: there is one at a time.         *)
(* Workflows and the routes of relationships run on threads.  The status   *)
(* of an entity is left out: any product or contract may be active.        *)
(***************************************************************************)
EXTENDS Naturals, Sequences, SequencesExt

CONSTANTS
    Products, Contracts,
    DataAssets,         \* they receive levels and are not certified themselves
    Untabled,           \* entities whose type is not in ENTITY_TABLE_MAP: datasets
    Links,              \* pairs the ontology lets a relationship connect
    FirstLinks,
    NoEntity,
    MaxLevel,           \* the certification levels are 1 .. MaxLevel
    MaxLinkChanges,     \* bound: relationships created or deleted
    MaxCertInterrupts   \* bound: certifying requests that raise or die half-way

Certifiable == Products \cup Contracts
Entities == Certifiable \cup DataAssets \cup Untabled

ASSUME CertificationAssumption ==
    /\ Products \cap Contracts = {} /\ Certifiable \cap DataAssets = {}
    /\ (Certifiable \cup DataAssets) \cap Untabled = {}
    /\ IsFiniteSet(Entities) /\ NoEntity \notin Entities
    /\ FirstLinks \subseteq Links /\ Links \subseteq Entities \X Entities
    /\ MaxLevel \in Nat /\ MaxLinkChanges \in Nat /\ MaxCertInterrupts \in Nat

VARIABLES
    level,          \* certification_level; 0 is NULL
    inherited,      \* inherited_certification_level; 0 is NULL
    links,          \* entity_relationships of an inheritable type
    walk,           \* locals of propagate_certification in a certifying route
    linkChanges, certInterrupts,
    earned,         \* history: which levels an entity was ever certified at
    linked,         \* history: every relationship there ever was
    owed            \* history: the level a walk began with, and the relationships
                    \* that have been there ever since

certVars == <<level, inherited, links, walk, linkChanges, certInterrupts, earned, linked, owed>>

Level == 1 .. MaxLevel
NoLevel == 0
Delivery == [entity : Entities, level : Level]   \* an entry of the queue
NotWritten == MaxLevel + 1
NothingOwed == [level |-> NoLevel, links |-> {}]
Walk == [pc : {"idle", "start", "walk"}, source : Entities \cup {NoEntity},
         queue : Seq(Delivery), visited : SUBSET Entities,
         written : [Entities -> Level \cup {NotWritten}]]   \* not committed yet

CertTypeOK ==
    /\ level \in [Entities -> Level \cup {NoLevel}]
    /\ inherited \in [Entities -> Level \cup {NoLevel}]
    /\ links \in SUBSET Links
    /\ walk \in Walk
    /\ linkChanges \in 0 .. MaxLinkChanges /\ certInterrupts \in 0 .. MaxCertInterrupts
    /\ earned \in SUBSET (Entities \X Level)
    /\ linked \in SUBSET Links
    /\ owed \in [level : Level \cup {NoLevel}, links : SUBSET Links]

NoWalk == [pc |-> "idle", source |-> NoEntity, queue |-> <<>>, visited |-> {},
           written |-> [e \in Entities |-> NotWritten]]

CertInit ==
    /\ level = [e \in Entities |-> NoLevel]
    /\ inherited = [e \in Entities |-> NoLevel]
    /\ links = FirstLinks
    /\ walk = NoWalk
    /\ linkChanges = 0 /\ certInterrupts = 0
    /\ earned = {}
    /\ linked = FirstLinks
    /\ owed = NothingOwed

-----------------------------------------------------------------------------
(* Certifying and decertifying *)

Award(e, l) ==
    /\ level' = [level EXCEPT ![e] = l]
    /\ earned' = earned \cup {<<e, l>>}

\* The routes that certify commit the level, then propagate it.
Certify(e, l) ==
    /\ walk.pc = "idle" /\ e \in Certifiable
    /\ Award(e, l)
    /\ walk' = [NoWalk EXCEPT !.pc = "start", !.source = e]
    /\ UNCHANGED <<inherited, links, linkChanges, certInterrupts, linked, owed>>

\* handle_contract_certification: the same for contracts, without propagation
HandleCertify(e, l) ==
    /\ walk.pc = "idle" /\ e \in Contracts
    /\ Award(e, l)
    /\ UNCHANGED <<inherited, links, walk, linkChanges, certInterrupts, linked, owed>>

\* decertify_product and decertify_contract: nothing is propagated.
Decertify(e) ==
    /\ walk.pc = "idle" /\ level[e] # NoLevel
    /\ level' = [level EXCEPT ![e] = NoLevel]
    /\ UNCHANGED <<inherited, links, walk, linkChanges, certInterrupts, earned, linked, owed>>

\* The row is locked while the propagation that wrote it is not committed.
Locked(e) == walk.written[e] # NotWritten

\* The step entity_action of a workflow certifies without propagation, ...
WorkflowCertify(e, l) ==
    /\ e \in Certifiable /\ ~Locked(e)
    /\ Award(e, l)
    /\ UNCHANGED <<inherited, links, walk, linkChanges, certInterrupts, linked, owed>>

\* ... and decertifies the inherited level, too.
WorkflowDecertify(e) ==
    /\ e \in Certifiable /\ ~Locked(e)
    /\ <<level[e], inherited[e]>> # <<NoLevel, NoLevel>>
    /\ level' = [level EXCEPT ![e] = NoLevel]
    /\ inherited' = [inherited EXCEPT ![e] = NoLevel]
    /\ UNCHANGED <<links, walk, linkChanges, certInterrupts, earned, linked, owed>>

-----------------------------------------------------------------------------
(* Relationships *)

ChangeLinks(ls) ==
    /\ linkChanges < MaxLinkChanges  \* bound
    /\ linkChanges' = linkChanges + 1
    /\ links' = ls
    /\ linked' = linked \cup ls
    /\ owed' = [owed EXCEPT !.links = @ \cap ls]
    /\ UNCHANGED <<level, inherited, walk, certInterrupts, earned>>

CreateRelationship(l) == l \notin links /\ ChangeLinks(links \cup {l})
DeleteRelationship(l) == l \in links /\ ChangeLinks(links \ {l})

-----------------------------------------------------------------------------
(* propagate_certification *)

ChildrenOfTabled(e) == {c \in Entities : e \notin Untabled /\ <<e, c>> \in links}
Children(e) == {c \in Entities : <<e, c>> \in links}

\* The rows of a query come in any order.
Deliveries(cs, l) ==
    {[i \in DOMAIN s |-> [entity |-> s[i], level |-> l]] : s \in SetToSeqs(cs)}

\* Levels of entities without a table read as NULL, and are not written.
OwnLevel(e) == IF e \in Untabled THEN NoLevel ELSE level[e]
Passed(e, incoming) == IF OwnLevel(e) > incoming THEN OwnLevel(e) ELSE incoming
Received(e, incoming) == incoming

\* Without a level at the source there is nothing to propagate.
StartWalk ==
    /\ walk.pc = "start"
    /\ IF level[walk.source] = NoLevel THEN walk' = NoWalk /\ UNCHANGED owed
       ELSE /\ \E ds \in Deliveries(Children(walk.source), level[walk.source]) :
                 walk' = [walk EXCEPT !.pc = "walk", !.queue = ds]
            /\ owed' = [level |-> level[walk.source], links |-> links]
    /\ UNCHANGED <<level, inherited, links, linkChanges, certInterrupts, earned, linked>>

\* An entity takes the level of the first delivery that reaches it, and passes
\* on the greater of that and its own.
Visit ==
    LET e == Head(walk.queue).entity
        incoming == Head(walk.queue).level IN
    /\ walk.pc = "walk" /\ walk.queue # <<>>
    /\ IF e \in walk.visited THEN walk' = [walk EXCEPT !.queue = Tail(walk.queue)]
       ELSE \E ds \in Deliveries(Children(e) \ (walk.visited \cup {e}), Passed(e, incoming)) :
              walk' = [walk EXCEPT !.queue = Tail(walk.queue) \o ds,
                                   !.visited = walk.visited \cup {e},
                                   !.written[e] = IF e \in Untabled THEN NotWritten
                                                  ELSE Received(e, incoming)]
    /\ UNCHANGED <<level, inherited, links, linkChanges, certInterrupts, earned, linked, owed>>

CommitWalk ==
    /\ walk.pc = "walk" /\ walk.queue = <<>>
    /\ inherited' = [e \in Entities |-> IF Locked(e) THEN walk.written[e] ELSE inherited[e]]
    /\ walk' = NoWalk /\ owed' = NothingOwed
    /\ UNCHANGED <<level, links, linkChanges, certInterrupts, earned, linked>>

\* The request raises, or the process dies: the level stays, the walk is lost.
CertInterrupt ==
    /\ walk.pc # "idle"
    /\ certInterrupts < MaxCertInterrupts  \* bound
    /\ certInterrupts' = certInterrupts + 1
    /\ walk' = NoWalk /\ owed' = NothingOwed
    /\ UNCHANGED <<level, inherited, links, linkChanges, earned, linked>>

CertNext ==
    \/ \E e \in Entities, l \in Level : Certify(e, l) \/ HandleCertify(e, l) \/ WorkflowCertify(e, l)
    \/ \E e \in Entities : Decertify(e) \/ WorkflowDecertify(e)
    \/ \E l \in Links : CreateRelationship(l) \/ DeleteRelationship(l)
    \/ StartWalk \/ Visit \/ CommitWalk \/ CertInterrupt

CertSpec == CertInit /\ [][CertNext]_certVars

-----------------------------------------------------------------------------
(* Properties *)

\* What is below an entity: what is in every set that holds the entity's targets
\* and, with any of its members, that member's targets.
Below(u, ls) ==
    {e \in Entities : \A S \in SUBSET Entities :
        (\A l \in ls : l[1] = u \/ l[1] \in S => l[2] \in S) => e \in S}

\* What could ever be reached from it.
Downstream(u) == Below(u, linked)

\* An inherited level was once given to some entity upstream, whatever was
\* certified, decertified, related or cut short since: levels come from above,
\* and a node's own level never returns to it as an inherited one.
InheritedIsEarned ==
    \A e \in Entities : inherited[e] # NoLevel =>
        \E u \in Entities : <<u, inherited[e]>> \in earned /\ e \in Downstream(u)

\* A propagation that comes to its end has reached everything below its source,
\* on whatever ways, round cycles and through entities that keep no level of
\* their own, although relationships and levels change while it walks: each has
\* inherited at least the level the walk began with.  (Only what was below all
\* the time can be asked for.)  And no step makes an entity inherit a level that
\* was not once given upstream.
LevelsArrive ==
    [][/\ walk.pc = "walk" /\ walk'.pc = "idle" /\ UNCHANGED certInterrupts =>
             \A e \in Below(walk.source, owed.links) \ Untabled : inherited'[e] >= owed.level
       /\ InheritedIsEarned']_certVars
=============================================================================
