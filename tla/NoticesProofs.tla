---------------------------- MODULE NoticesProofs ----------------------------
(***************************************************************************)
(* Proofs about Survey and Notices, for any streams, servers, placements,  *)
(* limits, configurations and findings, and whatever happens to the        *)
(* servers while they are asked.                                           *)
(***************************************************************************)
EXTENDS Notices, ListProofs

-----------------------------------------------------------------------------
(* The cluster and the walk.                                                *)

\* Leaders are up; who was down, or up and current, all along still is.
ClusterOK ==
  /\ down \subseteq Servers
  /\ leader \in [Groups -> Servers \cup {NoServer}]
  /\ behind \in [Groups -> SUBSET Servers]
  /\ faults \in Nat
  /\ \A g \in Groups : leader[g] = NoServer \/ leader[g] \in Placed[g] \ down
  /\ dead \subseteq down
  /\ \A p \in steady : p \notin down /\ \A g \in Groups : p \notin behind[g]

WalkOK ==
  /\ walk \in {"idle", "streams", "consumers", "done", "failed"}
  /\ todo \subseteq Streams /\ names \subseteq Consumers
  /\ \A n \in names : <<current, n>> \in Groups
  /\ walk = "idle" => seen = {} /\ listed = {}

\* A replica says what has been so all along, if anything has.
Honest(x) ==
  /\ x.name \in Servers
  /\ x.name \in dead => x.offline /\ ~x.current
  /\ x.name \in steady => x.current

\* What a group said has each server that holds it once, the leader perhaps
\* among the replicas.
Complete(r) ==
  /\ r.name \in Groups
  /\ r.leader \in Servers \cup {NoServer} /\ r.leader \notin dead
  /\ \A x \in r.replicas : Honest(x) /\ x.name \in Placed[r.name]
  /\ \A x, y \in r.replicas : x.name = y.name => x = y
  /\ r.leader # NoServer => r.leader \in Placed[r.name]
  /\ \A p \in Placed[r.name] : p = r.leader \/ \E x \in r.replicas : x.name = p

SeenOK == IsFiniteSet(seen) /\ \A r \in seen : Complete(r)

\* A placement that could be read has its leader among its servers.
Located(l) ==
  /\ l.lead \in Servers \cup {NoServer}
  /\ l.peers \subseteq Servers
  /\ l.lead # NoServer => l.lead \in l.peers

ListedOK ==
  /\ IsFiniteSet(listed)
  /\ \A r \in listed : r.stream \in Streams \ todo /\ Located(r.placement)
  /\ \A r, q \in listed : r.stream = q.stream => r = q

SurveyInv == ClusterOK /\ WalkOK /\ SeenOK /\ ListedOK

LEMMA GroupsPlaced ==
  /\ \A s \in Streams : <<s, Itself>> \in Groups
  /\ \A g \in Groups : Placed[g] \subseteq Servers
  BY GroupsAssumption

LEMMA InitSurvey == SurveyInit => SurveyInv
<1> SUFFICES ASSUME SurveyInit PROVE SurveyInv
  OBVIOUS
<1>1. down \subseteq Servers
  BY GroupsAssumption DEF SurveyInit
<1>2. \A g \in Groups : leader[g] = NoServer \/ leader[g] \in Placed[g] \ down
  <2> TAKE g \in Groups
  <2>1. leader[g] = IF Placed[g] \subseteq down THEN NoServer
                    ELSE CHOOSE p \in Placed[g] \ down : TRUE
    BY DEF SurveyInit
  <2>2. CASE Placed[g] \subseteq down
    BY <2>1, <2>2
  <2>3. CASE ~(Placed[g] \subseteq down)
    <3>1. \E p \in Placed[g] \ down : TRUE
      BY <2>3
    <3> QED BY <2>1, <2>3, <3>1
  <2> QED BY <2>2, <2>3
<1>3. ClusterOK
  BY <1>1, <1>2 DEF SurveyInit, ClusterOK
<1>4. WalkOK
  BY DEF SurveyInit, WalkOK
<1>5. SeenOK /\ ListedOK
  BY FS_EmptySet DEF SurveyInit, SeenOK, ListedOK
<1> QED BY <1>3, <1>4, <1>5 DEF SurveyInv

(* Whatever happens to the cluster; who was down all along is not called    *)
(* so of anybody else.                                                      *)
LEMMA ClusterMoves ==
  ASSUME ClusterOK, ClusterStep
  PROVE  /\ ClusterOK' /\ dead' \subseteq dead /\ steady' \subseteq steady
         /\ UNCHANGED <<kind, only, walk, todo, names, current, seen, listed>>
<1> USE DEF ClusterOK
<1>1. ASSUME NEW p \in Servers, Fail(p)
      PROVE  ClusterOK' /\ dead' \subseteq dead /\ steady' \subseteq steady
  <2>1. leader' \in [Groups -> Servers \cup {NoServer}]
    BY <1>1 DEF Fail
  <2>2. \A g \in Groups : leader'[g] = NoServer \/ leader'[g] \in Placed[g] \ down'
    BY <1>1 DEF Fail
  <2> QED BY <1>1, <2>1, <2>2 DEF Fail, Fault
<1>2. ASSUME NEW p \in Servers, Recover(p)
      PROVE  ClusterOK' /\ dead' \subseteq dead /\ steady' \subseteq steady
  <2>1. behind' \in [Groups -> SUBSET Servers]
    BY <1>2 DEF Recover
  <2>2. \A q \in steady' : q \notin down' /\ \A g \in Groups : q \notin behind'[g]
    <3> TAKE q \in steady'
    <3>1. q \in steady /\ q # p
      BY <1>2 DEF Recover
    <3> QED BY <1>2, <3>1 DEF Recover
  <2> QED BY <1>2, <2>1, <2>2 DEF Recover, Fault
<1>3. ASSUME NEW p \in Servers, CatchUp(p)
      PROVE  ClusterOK' /\ dead' \subseteq dead /\ steady' \subseteq steady
  <2>1. behind' \in [Groups -> SUBSET Servers]
    BY <1>3 DEF CatchUp
  <2>2. \A q \in steady' : q \notin down' /\ \A g \in Groups : q \notin behind'[g]
    BY <1>3 DEF CatchUp
  <2> QED BY <1>3, <2>1, <2>2 DEF CatchUp, Fault
<1>4. ASSUME NEW g \in Groups, NEW p \in Servers, Elect(g, p)
      PROVE  ClusterOK' /\ dead' \subseteq dead /\ steady' \subseteq steady
  <2>1. leader' \in [Groups -> Servers \cup {NoServer}]
    BY <1>4 DEF Elect
  <2>2. \A h \in Groups : leader'[h] = NoServer \/ leader'[h] \in Placed[h] \ down'
    BY <1>4 DEF Elect
  <2> QED BY <1>4, <2>1, <2>2 DEF Elect, Fault
<1>5. UNCHANGED <<kind, only, walk, todo, names, current, seen, listed>>
  BY DEF ClusterStep, Fail, Recover, CatchUp, Elect, Fault
<1> QED BY <1>1, <1>2, <1>3, <1>4, <1>5 DEF ClusterStep

(* What a group answers now is complete; and it stays so, as fewer and      *)
(* fewer have been down, or steady, all along.                              *)
LEMMA InfoComplete ==
  ASSUME ClusterOK, NEW g \in Groups, NEW l \in BOOLEAN
  PROVE  Complete(Info(g, l))
<1> DEFINE r == Info(g, l)
           Q == IF l THEN Placed[g] ELSE Placed[g] \ {leader[g]}
<1>1. /\ r.name = g /\ r.leader = leader[g]
      /\ r.replicas = {[name |-> p, offline |-> p \in down, current |-> p \notin down \cup behind[g]] : p \in Q}
  BY DEF Info
<1>2. leader[g] \in Servers \cup {NoServer} /\ leader[g] \notin dead
  BY ServersAssumption DEF ClusterOK
<1>3. Q \subseteq Placed[g] /\ Placed[g] \subseteq Servers
  BY GroupsPlaced
<1>4. \A p \in Placed[g] : p = leader[g] \/ p \in Q
  OBVIOUS
<1> HIDE DEF r, Q
<1>5. ASSUME NEW x \in r.replicas PROVE Honest(x) /\ x.name \in Placed[g]
  <2>1. PICK p \in Q : x = [name |-> p, offline |-> p \in down, current |-> p \notin down \cup behind[g]]
    BY <1>1
  <2>2. x.name = p /\ x.offline = (p \in down) /\ x.current = (p \notin down \cup behind[g])
    BY <2>1
  <2>3. p \in Placed[g] /\ p \in Servers
    BY <1>3
  <2>4. p \in dead => p \in down
    BY DEF ClusterOK
  <2>5. p \in steady => p \notin down \cup behind[g]
    BY DEF ClusterOK
  <2> QED BY <2>2, <2>3, <2>4, <2>5 DEF Honest
<1>6. \A x, y \in r.replicas : x.name = y.name => x = y
  BY <1>1
<1>7. leader[g] # NoServer => leader[g] \in Placed[g]
  BY DEF ClusterOK
<1>8. \A p \in Placed[g] : p = leader[g] \/ \E x \in r.replicas : x.name = p
  <2> SUFFICES ASSUME NEW p \in Q PROVE \E x \in r.replicas : x.name = p
    BY <1>4
  <2> DEFINE x == [name |-> p, offline |-> p \in down, current |-> p \notin down \cup behind[g]]
  <2>1. x \in r.replicas /\ x.name = p
    BY <1>1
  <2> QED BY <2>1
<1>9. Complete(r)
  BY <1>1, <1>2, <1>5, <1>6, <1>7, <1>8 DEF Complete
<1> QED BY <1>9 DEF r

LEMMA StillComplete ==
  ASSUME NEW r, Complete(r), dead' \subseteq dead, steady' \subseteq steady
  PROVE  Complete(r)'
  BY DEF Complete, Honest

LEMMA ClusterKeepsSurvey == SurveyInv /\ ClusterStep => SurveyInv'
<1> SUFFICES ASSUME SurveyInv, ClusterStep PROVE SurveyInv'
  OBVIOUS
<1>1. /\ ClusterOK' /\ dead' \subseteq dead /\ steady' \subseteq steady
      /\ UNCHANGED <<kind, only, walk, todo, names, current, seen, listed>>
  BY ClusterMoves DEF SurveyInv
<1>2. WalkOK' /\ ListedOK'
  BY <1>1 DEF SurveyInv, WalkOK, ListedOK, Located
<1>3. SeenOK'
  <2>1. \A r \in seen : Complete(r)'
    BY <1>1, StillComplete DEF SurveyInv, SeenOK
  <2> QED BY <1>1, <2>1 DEF SurveyInv, SeenOK
<1> QED BY <1>1, <1>2, <1>3 DEF SurveyInv

(* One group more has been read, or none.                                   *)
LEMMA ReadsOneMore ==
  ASSUME SurveyInv, NEW g \in Groups,
         seen' \in {seen} \cup {seen \cup {Info(g, l)} : l \in BOOLEAN},
         UNCHANGED <<steady, dead>>
  PROVE  SeenOK'
<1>1. \A r \in seen : Complete(r)'
  BY StillComplete DEF SurveyInv, SeenOK
<1>2. CASE seen' = seen
  BY <1>1, <1>2 DEF SurveyInv, SeenOK
<1>3. ASSUME NEW l \in BOOLEAN, seen' = seen \cup {Info(g, l)} PROVE SeenOK'
  <2>1. PICK r : r = Info(g, l)
    OBVIOUS
  <2>2. Complete(r)
    BY <2>1, InfoComplete DEF SurveyInv
  <2>3. Complete(r)'
    BY <2>2, StillComplete DEF SurveyInv
  <2>4. IsFiniteSet(seen')
    BY <1>3, FS_AddElement DEF SurveyInv, SeenOK
  <2>5. seen' = seen \cup {r}
    BY <1>3, <2>1
  <2> QED BY <1>1, <2>3, <2>4, <2>5 DEF SeenOK
<1> QED BY <1>2, <1>3

LEMMA BeginsInOrder == SurveyInv /\ BeginWalk => SurveyInv'
<1> SUFFICES ASSUME SurveyInv, BeginWalk PROVE SurveyInv'
  OBVIOUS
<1>1. ClusterOK'
  BY DEF SurveyInv, ClusterOK, BeginWalk, cluster
<1>2. seen = {} /\ listed = {} /\ UNCHANGED <<seen, listed, names, current>>
  BY DEF SurveyInv, WalkOK, BeginWalk
<1>3. WalkOK'
  <2>1. todo' \subseteq Streams /\ walk' = "streams"
    BY DEF BeginWalk
  <2> QED BY <1>2, <2>1 DEF SurveyInv, WalkOK
<1>4. SeenOK' /\ ListedOK'
  BY <1>2, FS_EmptySet DEF SeenOK, ListedOK
<1> QED BY <1>1, <1>3, <1>4 DEF SurveyInv

LEMMA ListsOneMore ==
  ASSUME SurveyInv, NEW s \in Streams, ListStream(s)
  PROVE  ListedOK'
<1>1. PICK placement \in {Unplaced, PlacementPeers(Info(<<s, Itself>>, TRUE))} :
        listed' = listed \cup {[stream |-> s, placement |-> placement]}
  BY DEF ListStream
<1>2. s \in todo /\ todo' = todo \ {s}
  BY DEF ListStream
<1>3. Located(placement)
  <2>1. Located(Unplaced)
    BY DEF Located, Unplaced
  <2> DEFINE i == Info(<<s, Itself>>, TRUE)
  <2>2. Complete(i)
    BY InfoComplete, GroupsPlaced DEF SurveyInv
  <2> HIDE DEF i
  <2>3. i.leader \in Servers \cup {NoServer} /\ \A x \in i.replicas : x.name \in Servers
    BY <2>2 DEF Complete, Honest
  <2>4. Located(PlacementPeers(i))
    BY <2>3 DEF Located, PlacementPeers
  <2> QED BY <1>1, <2>1, <2>4 DEF i
<1> DEFINE one == [stream |-> s, placement |-> placement]
<1>4. one.stream = s /\ one.placement = placement
  OBVIOUS
<1> HIDE DEF one
<1>5. listed' = listed \cup {one}
  BY <1>1 DEF one
<1>6. IsFiniteSet(listed')
  BY <1>5, FS_AddElement DEF SurveyInv, ListedOK
<1>7. \A r \in listed : r.stream \in Streams \ todo /\ Located(r.placement)
  BY DEF SurveyInv, ListedOK
<1>8. \A r \in listed' : r.stream \in Streams \ todo' /\ Located(r.placement)
  BY <1>2, <1>3, <1>4, <1>5, <1>7
<1>9. \A r, q \in listed' : r.stream = q.stream => r = q
  <2>1. \A r \in listed : r.stream # s
    BY <1>2, <1>7
  <2> QED BY <1>4, <1>5, <2>1 DEF SurveyInv, ListedOK
<1> QED BY <1>6, <1>8, <1>9 DEF ListedOK, Located

LEMMA WalkKeepsSurvey == SurveyInv /\ WalkStep => SurveyInv'
<1> SUFFICES ASSUME SurveyInv, WalkStep PROVE SurveyInv'
  OBVIOUS
<1>1. CASE BeginWalk
  BY <1>1, BeginsInOrder
<1>2. ASSUME ~BeginWalk
      PROVE  UNCHANGED unchangedButWalk /\ ClusterOK' /\ UNCHANGED <<steady, dead>>
  <2>1. UNCHANGED unchangedButWalk
    BY <1>2 DEF WalkStep, NothingToWalk, WalkExpires, PassOver, ListStream, VisitStream,
                VisitConsumer, StreamVisited, WalkDone
  <2> QED BY <2>1 DEF unchangedButWalk, SurveyInv, ClusterOK, cluster
<1>3. ASSUME ~BeginWalk, UNCHANGED <<names, current, seen, listed>>,
             todo' \subseteq todo, walk' \in {"streams", "done", "failed"}
      PROVE  SurveyInv'
  <2>1. WalkOK'
    BY <1>3 DEF SurveyInv, WalkOK
  <2>2. SeenOK'
    <3>1. \A r \in seen : Complete(r)'
      BY <1>2, <1>3, StillComplete DEF SurveyInv, SeenOK
    <3> QED BY <1>3, <3>1 DEF SurveyInv, SeenOK
  <2>3. ListedOK'
    BY <1>3 DEF SurveyInv, ListedOK, Located
  <2> QED BY <1>2, <1>3, <2>1, <2>2, <2>3 DEF SurveyInv
<1>4. CASE NothingToWalk \/ WalkExpires \/ StreamVisited \/ WalkDone
  <2>1. CASE BeginWalk
    BY <2>1, <1>1
  <2>2. CASE ~BeginWalk
    BY <1>3, <1>4, <2>2 DEF NothingToWalk, WalkExpires, StreamVisited, WalkDone
  <2> QED BY <2>1, <2>2
<1>5. ASSUME NEW s \in Streams, PassOver(s) PROVE SurveyInv'
  <2>1. CASE BeginWalk
    BY <2>1, <1>1
  <2>2. CASE ~BeginWalk
    BY <1>3, <1>5, <2>2 DEF PassOver
  <2> QED BY <2>1, <2>2
<1>6. ASSUME NEW s \in Streams, ListStream(s) PROVE SurveyInv'
  <2>1. ~BeginWalk
    BY <1>6 DEF ListStream, BeginWalk
  <2>2. ListedOK'
    BY <1>6, ListsOneMore
  <2>3. WalkOK'
    BY <1>6 DEF ListStream, SurveyInv, WalkOK
  <2>4. SeenOK'
    <3>1. UNCHANGED seen
      BY <1>6 DEF ListStream
    <3>2. \A r \in seen : Complete(r)'
      BY <1>2, <2>1, StillComplete DEF SurveyInv, SeenOK
    <3> QED BY <3>1, <3>2 DEF SurveyInv, SeenOK
  <2> QED BY <1>2, <2>1, <2>2, <2>3, <2>4 DEF SurveyInv
<1>7. ASSUME NEW s \in Streams, VisitStream(s) PROVE SurveyInv'
  <2>1. ~BeginWalk
    BY <1>7 DEF VisitStream, BeginWalk
  <2>2. SeenOK'
    BY <1>2, <1>7, <2>1, ReadsOneMore, GroupsPlaced DEF VisitStream
  <2>3. WalkOK'
    BY <1>7 DEF VisitStream, SurveyInv, WalkOK
  <2>4. ListedOK'
    BY <1>7 DEF VisitStream, SurveyInv, ListedOK, Located
  <2> QED BY <1>2, <2>1, <2>2, <2>3, <2>4 DEF SurveyInv
<1>8. ASSUME NEW n \in Consumers, VisitConsumer(n) PROVE SurveyInv'
  <2>1. ~BeginWalk
    BY <1>8 DEF VisitConsumer, BeginWalk
  <2>2. SeenOK'
    <3>1. <<current, n>> \in Groups
      BY <1>8 DEF VisitConsumer, SurveyInv, WalkOK
    <3> QED BY <1>2, <1>8, <2>1, <3>1, ReadsOneMore DEF VisitConsumer
  <2>3. WalkOK'
    BY <1>8 DEF VisitConsumer, SurveyInv, WalkOK
  <2>4. ListedOK'
    BY <1>8 DEF VisitConsumer, SurveyInv, ListedOK, Located
  <2> QED BY <1>2, <2>1, <2>2, <2>3, <2>4 DEF SurveyInv
<1> QED BY <1>1, <1>4, <1>5, <1>6, <1>7, <1>8 DEF WalkStep

-----------------------------------------------------------------------------
(* The peers.                                                               *)

Refs(p) == {g \in seen : p \in Placed[g.name]}

(* A group refers to the servers that hold it: by its leader, or by one of  *)
(* its replicas, and a server that is both counts as the leader.            *)
LEMMA RefersOnce ==
  ASSUME SeenOK, NEW p \in Servers
  PROVE  LET leads   == {g \in seen : g.leader = p}
             follows == AsReplica(seen, p)
         IN  /\ leads \cup follows = Refs(p) /\ leads \cap follows = {}
             /\ IsFiniteSet(leads) /\ IsFiniteSet(follows) /\ IsFiniteSet(Refs(p))
             /\ Cardinality(leads) + Cardinality(follows) = Cardinality(Refs(p))
             /\ Cardinality(leads) \in Nat /\ Cardinality(follows) \in Nat
<1> DEFINE leads == {g \in seen : g.leader = p}
           follows == AsReplica(seen, p)
<1>1. p # NoServer
  BY ServersAssumption
<1>2. leads \cup follows = Refs(p)
  <2>1. ASSUME NEW g \in leads PROVE g \in Refs(p)
    BY <1>1 DEF SeenOK, Complete, Refs
  <2>2. ASSUME NEW g \in follows PROVE g \in Refs(p)
    BY DEF SeenOK, Complete, Refs, AsReplica
  <2>3. ASSUME NEW g \in Refs(p) PROVE g \in leads \cup follows
    <3>1. Complete(g) /\ g \in seen /\ p \in Placed[g.name]
      BY DEF SeenOK, Refs
    <3>2. p = g.leader \/ \E x \in g.replicas : x.name = p
      BY <3>1 DEF Complete
    <3> QED BY <3>1, <3>2 DEF AsReplica
  <2> HIDE DEF leads, follows
  <2> QED BY <2>1, <2>2, <2>3
<1>3. leads \cap follows = {}
  BY DEF AsReplica
<1>4. leads \in SUBSET seen /\ follows \in SUBSET seen
  BY DEF AsReplica
<1> HIDE DEF leads, follows
<1>5. IsFiniteSet(leads) /\ IsFiniteSet(follows)
  BY <1>4, FS_Subset DEF SeenOK
<1>6. Cardinality(leads) \in Nat /\ Cardinality(follows) \in Nat
  BY <1>5, FS_CardinalityType
<1>7. /\ IsFiniteSet(leads \cup follows)
      /\ Cardinality(leads \cup follows)
           = Cardinality(leads) + Cardinality(follows) - Cardinality(leads \cap follows)
  BY <1>5, FS_Union
<1>8. Cardinality(leads \cap follows) = 0
  BY <1>3, FS_EmptySet
<1>9. /\ IsFiniteSet(Refs(p))
      /\ Cardinality(leads) + Cardinality(follows) = Cardinality(Refs(p))
  <2>1. IsFiniteSet(Refs(p)) /\ Cardinality(Refs(p)) = Cardinality(leads \cup follows)
    BY <1>2, <1>7
  <2>2. Cardinality(leads \cup follows) = Cardinality(leads) + Cardinality(follows)
    BY <1>6, <1>7, <1>8
  <2> QED BY <2>1, <2>2
<1> QED BY <1>2, <1>3, <1>5, <1>6, <1>9 DEF leads, follows

(* What the row of a server says of it.                                     *)
LEMMA RowJudges ==
  ASSUME SeenOK, NEW p \in Servers
  PROVE  /\ PeerRow(seen, p).peer = p
         /\ PeerRow(seen, p).groups = Cardinality(Refs(p))
         /\ p \in dead /\ Refs(p) # {} => PeerRow(seen, p).health = "GHOST"
         /\ p \in steady /\ Refs(p) # {} => PeerRow(seen, p).health = "OK"
         /\ Refs(p) # {} <=> p \in Mentioned(seen)
<1> DEFINE leads == {g \in seen : g.leader = p}
           follows == AsReplica(seen, p)
           off == {g \in follows : \E r \in g.replicas : r.name = p /\ r.offline}
           sync == {g \in follows : \E r \in g.replicas : r.name = p /\ r.current}
<1>1. /\ leads \cup follows = Refs(p) /\ leads \cap follows = {}
      /\ IsFiniteSet(leads) /\ IsFiniteSet(follows) /\ IsFiniteSet(Refs(p))
      /\ Cardinality(leads) + Cardinality(follows) = Cardinality(Refs(p))
      /\ Cardinality(leads) \in Nat /\ Cardinality(follows) \in Nat
  BY RefersOnce
<1>2. /\ PeerRow(seen, p).peer = p
      /\ PeerRow(seen, p).groups = Cardinality(leads) + Cardinality(follows)
      /\ PeerRow(seen, p).health =
           ClassifyPeer(Cardinality(leads) + Cardinality(follows), Cardinality(off),
                        Cardinality(leads) + Cardinality(sync), Cardinality(leads))
  BY DEF PeerRow
<1>3. off \in SUBSET follows /\ sync \in SUBSET follows
  OBVIOUS
<1>4. \A g \in follows : /\ p # g.leader
                         /\ \E r \in g.replicas : r.name = p /\ Honest(r)
  BY DEF AsReplica, SeenOK, Complete
<1>5. p \in dead => leads = {} /\ off = follows /\ sync = {}
  <2> SUFFICES ASSUME p \in dead PROVE leads = {} /\ off = follows /\ sync = {}
    OBVIOUS
  <2>1. leads = {}
    BY DEF SeenOK, Complete
  <2>2. \A g \in follows : \E r \in g.replicas : r.name = p /\ r.offline
    BY <1>4 DEF Honest
  <2>3. \A g \in follows : \A r \in g.replicas : r.name = p => ~r.current
    BY DEF AsReplica, SeenOK, Complete, Honest
  <2> QED BY <2>1, <2>2, <2>3
<1>6. p \in steady => sync = follows
  BY <1>4 DEF Honest
<1>7. Refs(p) # {} <=> p \in Mentioned(seen)
  <2>1. p \in Mentioned(seen) <=> \E g \in seen : g.leader = p \/ \E r \in g.replicas : r.name = p
    BY DEF Mentioned
  <2>2. Refs(p) # {} => p \in Mentioned(seen)
    BY <1>1, <2>1 DEF AsReplica
  <2>3. ASSUME NEW g \in seen, g.leader = p \/ \E r \in g.replicas : r.name = p
        PROVE  g \in Refs(p)
    <3>1. g \in leads \cup follows
      BY <2>3 DEF AsReplica
    <3> QED BY <1>1, <3>1
  <2> QED BY <2>1, <2>2, <2>3
<1> HIDE DEF leads, follows, off, sync
<1>8. /\ IsFiniteSet(off) /\ Cardinality(off) \in Nat
      /\ IsFiniteSet(sync) /\ Cardinality(sync) \in Nat
  BY <1>1, <1>3, FS_Subset, FS_CardinalityType
<1>9. Refs(p) # {} => Cardinality(Refs(p)) # 0
  BY <1>1, FS_EmptySet
<1>10. p \in dead /\ Refs(p) # {} => PeerRow(seen, p).health = "GHOST"
  <2> SUFFICES ASSUME p \in dead, Refs(p) # {} PROVE PeerRow(seen, p).health = "GHOST"
    OBVIOUS
  <2>1. Cardinality(leads) = 0 /\ Cardinality(sync) = 0
    BY <1>5, FS_EmptySet
  <2>2. Cardinality(off) = Cardinality(follows) /\ Cardinality(follows) > 0
    BY <1>1, <1>5, <1>9, <2>1
  <2> QED BY <1>1, <1>2, <2>1, <2>2 DEF ClassifyPeer
<1>11. p \in steady /\ Refs(p) # {} => PeerRow(seen, p).health = "OK"
  <2> SUFFICES ASSUME p \in steady, Refs(p) # {} PROVE PeerRow(seen, p).health = "OK"
    OBVIOUS
  <2>1. Cardinality(leads) + Cardinality(sync) > 0
    BY <1>1, <1>6, <1>8, <1>9
  <2> QED BY <1>2, <2>1 DEF ClassifyPeer
<1> QED BY <1>1, <1>2, <1>7, <1>10, <1>11

(* The rows are those of the servers referred to, each once, in their order.*)
LEMMA RowsInOrder ==
  ASSUME SeenOK
  PROVE  \E n \in Nat :
           LET rs == AggregatePeers(seen) IN
           /\ rs \in [1 .. n -> {PeerRow(seen, p) : p \in Mentioned(seen)}]
           /\ DOMAIN rs = 1 .. n
           /\ \A i \in 1 .. n : \E p \in Mentioned(seen) : rs[i] = PeerRow(seen, p)
           /\ \A i, j \in 1 .. n : i < j => GhostsFirst(rs[i], rs[j])
           /\ \A i, j \in 1 .. n : rs[i] = rs[j] => i = j
           /\ \A p \in Mentioned(seen) : \E i \in 1 .. n : rs[i] = PeerRow(seen, p)
<1> DEFINE M == Mentioned(seen)
           S == {PeerRow(seen, p) : p \in M}
           B == {q \in S \X S : GhostsFirst(q[1], q[2])}
           n == Cardinality(S)
           rs == AggregatePeers(seen)
<1>1. IsFiniteSet(S)
  <2>1. M \in SUBSET Servers
    BY DEF Mentioned
  <2>2. IsFiniteSet(M)
    BY <2>1, ServersAssumption, FS_Subset
  <2> DEFINE f == [p \in M |-> PeerRow(seen, p)]
  <2>3. f \in Surjection(M, S)
    BY DEF Surjection
  <2> HIDE DEF f, M, S
  <2> QED BY <2>2, <2>3, FS_Surjection
<1>2. \A x \in S : x.peer \in Servers /\ x = PeerRow(seen, x.peer)
  <2> TAKE x \in S
  <2>1. PICK p \in M : x = PeerRow(seen, p)
    OBVIOUS
  <2>2. p \in Servers
    BY DEF Mentioned
  <2> QED BY <2>1, <2>2, RowJudges
<1>3. \A x, y \in S : <<x, y>> \in B <=> GhostsFirst(x, y)
  OBVIOUS
<1>4. rs = CHOOSE s \in [1 .. n -> S] : \A i, j \in DOMAIN s : i < j => GhostsFirst(s[i], s[j])
  BY DEF AggregatePeers, SortSet
<1>5. \A p \in M : PeerRow(seen, p) \in S
  OBVIOUS
<1>6. \A x \in S : \E p \in M : x = PeerRow(seen, p)
  OBVIOUS
<1> HIDE DEF S, B, rs, M
<1>7. StrictOrder(B, S)
  <2>1. \A x, y \in S : x.peer = y.peer => x = y
    BY <1>2
  <2>2. \A x, y \in S : /\ Rank[x.peer] \in Nat /\ Rank[y.peer] \in Nat
                        /\ x.peer # y.peer => Rank[x.peer] # Rank[y.peer]
    BY <1>2, ServersAssumption
  <2>3. \A x \in S : ~GhostsFirst(x, x)
    BY <2>2 DEF GhostsFirst
  <2>4. \A x, y \in S : x # y => GhostsFirst(x, y) \/ GhostsFirst(y, x)
    BY <2>1, <2>2 DEF GhostsFirst
  <2>5. \A x, y, z \in S : GhostsFirst(x, y) /\ GhostsFirst(y, z) => GhostsFirst(x, z)
    BY <2>2 DEF GhostsFirst
  <2> QED BY <1>3, <2>3, <2>4, <2>5 DEF StrictOrder
<1>8. n \in Nat /\ rs \in [1 .. n -> S] /\ \A i, j \in 1 .. n : i < j => GhostsFirst(rs[i], rs[j])
  <2>1. n \in Nat /\ \E s \in [1 .. n -> S] : \A i, j \in 1 .. n : i < j => <<s[i], s[j]>> \in B
    BY <1>1, <1>7, Ordered
  <2>2. \E s \in [1 .. n -> S] : \A i, j \in DOMAIN s : i < j => GhostsFirst(s[i], s[j])
    BY <1>3, <2>1
  <2>3. rs \in [1 .. n -> S] /\ \A i, j \in DOMAIN rs : i < j => GhostsFirst(rs[i], rs[j])
    BY <1>4, <2>2
  <2> QED BY <2>1, <2>3
<1>9. /\ \A i, j \in 1 .. n : rs[i] = rs[j] => i = j
      /\ \A x \in S : \E i \in 1 .. n : rs[i] = x
  <2>1. \A i, j \in 1 .. n : i < j => <<rs[i], rs[j]>> \in B
    BY <1>3, <1>8
  <2> HIDE DEF n
  <2> QED BY <1>1, <1>7, <1>8, <2>1, OrderedHasAll DEF n
<1>10. DOMAIN rs = 1 .. n
  BY <1>8
<1>11. \A i \in 1 .. n : \E p \in M : rs[i] = PeerRow(seen, p)
  BY <1>6, <1>8
<1>12. \A p \in M : \E i \in 1 .. n : rs[i] = PeerRow(seen, p)
  BY <1>5, <1>9
<1> HIDE DEF n
<1> QED BY <1>8, <1>9, <1>10, <1>11, <1>12 DEF rs, M

LEMMA JudgesPeers == SeenOK => PeersJudged
<1> SUFFICES ASSUME SeenOK PROVE PeersJudged
  OBVIOUS
<1> DEFINE rs == AggregatePeers(seen)
<1>1. PICK n \in Nat :
        /\ DOMAIN rs = 1 .. n
        /\ \A i \in 1 .. n : \E p \in Mentioned(seen) : rs[i] = PeerRow(seen, p)
        /\ \A i, j \in 1 .. n : i < j => GhostsFirst(rs[i], rs[j])
        /\ \A i, j \in 1 .. n : rs[i] = rs[j] => i = j
        /\ \A p \in Mentioned(seen) : \E i \in 1 .. n : rs[i] = PeerRow(seen, p)
  BY RowsInOrder
<1> HIDE DEF rs
<1>2. ASSUME NEW i \in DOMAIN rs, NEW j \in DOMAIN rs,
             rs[j].health = "GHOST", rs[i].health # "GHOST"
      PROVE  j < i
  <2>1. i \in 1 .. n /\ j \in 1 .. n /\ i # j
    BY <1>1, <1>2
  <2>2. ~(i < j)
    BY <1>1, <1>2, <2>1 DEF GhostsFirst
  <2> QED BY <2>1, <2>2
<1>3. ASSUME NEW p \in Servers
      PROVE  LET mine == {i \in DOMAIN rs : rs[i].peer = p}
                 refs == {g \in seen : p \in Placed[g.name]}
             IN  /\ Cardinality(mine) = IF refs = {} THEN 0 ELSE 1
                 /\ \A i \in mine : /\ rs[i].groups = Cardinality(refs)
                                    /\ p \in dead => rs[i].health = "GHOST"
                                    /\ p \in steady => rs[i].health = "OK"
  <2> DEFINE mine == {i \in DOMAIN rs : rs[i].peer = p}
  <2>1. \A i \in mine : rs[i] = PeerRow(seen, p) /\ p \in Mentioned(seen)
    <3> TAKE i \in mine
    <3>1. PICK q \in Mentioned(seen) : rs[i] = PeerRow(seen, q)
      BY <1>1
    <3>2. q \in Servers
      BY DEF Mentioned
    <3>3. q = p
      BY <3>1, <3>2, RowJudges
    <3> QED BY <3>1, <3>3
  <2>2. p \in Mentioned(seen) => \E i \in mine : TRUE
    BY <1>1, RowJudges
  <2>3. \A i, j \in mine : i = j
    BY <1>1, <2>1
  <2> HIDE DEF mine
  <2>4. CASE Refs(p) = {}
    <3>1. mine = {}
      BY <2>1, <2>4, RowJudges
    <3> QED BY <2>4, <3>1, FS_EmptySet DEF mine, Refs
  <2>5. CASE Refs(p) # {}
    <3>1. PICK i \in mine : TRUE
      BY <2>2, <2>5, RowJudges
    <3>2. mine = {i}
      BY <2>3, <3>1
    <3>3. Cardinality(mine) = 1
      BY <3>2, FS_Singleton
    <3>4. \A k \in mine : /\ rs[k].groups = Cardinality(Refs(p))
                          /\ p \in dead => rs[k].health = "GHOST"
                          /\ p \in steady => rs[k].health = "OK"
      BY <2>1, <2>5, RowJudges
    <3> QED BY <2>5, <3>3, <3>4 DEF mine, Refs
  <2> QED BY <2>4, <2>5
<1> QED BY <1>2, <1>3 DEF PeersJudged, rs

-----------------------------------------------------------------------------
(* The streams.                                                             *)
Holders == UNION {r.placement.peers : r \in listed}

LedBy(p) == {r \in listed : r.placement.lead = p}

HeldBy(p) == {r \in listed : p \in r.placement.peers}

LEMMA LoadCounts ==
  ASSUME ListedOK, NEW p \in Holders
  PROVE  /\ p \in Servers
         /\ LoadRow(listed, p).server = p
         /\ IsFiniteSet(LedBy(p)) /\ LoadRow(listed, p).leads = Cardinality(LedBy(p))
         /\ IsFiniteSet(HeldBy(p)) /\ LoadRow(listed, p).replicas = Cardinality(HeldBy(p))
         /\ LoadRow(listed, p).leads \in Nat /\ LoadRow(listed, p).replicas \in Nat
<1>1. p \in Servers
  BY DEF Holders, ListedOK, Located
<1>2. LedBy(p) \in SUBSET listed /\ HeldBy(p) \in SUBSET listed
  BY DEF LedBy, HeldBy
<1>3. IsFiniteSet(LedBy(p)) /\ IsFiniteSet(HeldBy(p))
  BY <1>2, FS_Subset DEF ListedOK
<1>4. /\ LoadRow(listed, p).server = p
      /\ LoadRow(listed, p).leads = Cardinality(LedBy(p))
      /\ LoadRow(listed, p).replicas = Cardinality(HeldBy(p))
  BY DEF LoadRow, LedBy, HeldBy
<1> QED BY <1>1, <1>3, <1>4, FS_CardinalityType

(* The summary has a row for each server with a replica, the most loaded    *)
(* first.                                                                   *)
LEMMA SkewInOrder ==
  ASSUME ListedOK
  PROVE  \E n \in Nat :
           LET skew == PlacementSkew(listed) IN
           /\ DOMAIN skew = 1 .. n
           /\ \A i \in 1 .. n : \E p \in Holders : skew[i] = LoadRow(listed, p)
           /\ \A i, j \in 1 .. n : i < j => MoreLoaded(skew[i], skew[j])
           /\ \A i, j \in 1 .. n : skew[i] = skew[j] => i = j
           /\ \A p \in Holders : \E i \in 1 .. n : skew[i] = LoadRow(listed, p)
<1> DEFINE M == Holders
           S == {LoadRow(listed, p) : p \in M}
           B == {q \in S \X S : MoreLoaded(q[1], q[2])}
           n == Cardinality(S)
           skew == PlacementSkew(listed)
<1>1. IsFiniteSet(S)
  <2>1. M \in SUBSET Servers
    BY LoadCounts
  <2>2. IsFiniteSet(M)
    BY <2>1, ServersAssumption, FS_Subset
  <2> DEFINE f == [p \in M |-> LoadRow(listed, p)]
  <2>3. f \in Surjection(M, S)
    BY DEF Surjection
  <2> HIDE DEF f, M, S
  <2> QED BY <2>2, <2>3, FS_Surjection
<1>2. \A x \in S : /\ x.server \in Holders /\ x = LoadRow(listed, x.server)
                   /\ x.leads \in Nat /\ x.replicas \in Nat
                   /\ x.server \in Servers
  BY LoadCounts
<1>3. \A x, y \in S : <<x, y>> \in B <=> MoreLoaded(x, y)
  OBVIOUS
<1>4. skew = CHOOSE s \in [1 .. n -> S] : \A i, j \in DOMAIN s : i < j => MoreLoaded(s[i], s[j])
  BY DEF PlacementSkew, SortSet, Holders
<1>5. \A p \in M : LoadRow(listed, p) \in S
  OBVIOUS
<1>6. \A x \in S : \E p \in M : x = LoadRow(listed, p)
  OBVIOUS
<1> HIDE DEF S, B, skew, M
<1>7. StrictOrder(B, S)
  <2>1. \A x, y \in S : x.server = y.server => x = y
    BY <1>2
  <2>2. \A x, y \in S : /\ Rank[x.server] \in Nat /\ Rank[y.server] \in Nat
                        /\ x.server # y.server => Rank[x.server] # Rank[y.server]
    BY <1>2, ServersAssumption
  <2>3. \A x \in S : ~MoreLoaded(x, x)
    BY <1>2, <2>2 DEF MoreLoaded
  <2>4. \A x, y \in S : x # y => MoreLoaded(x, y) \/ MoreLoaded(y, x)
    BY <1>2, <2>1, <2>2 DEF MoreLoaded
  <2>5. \A x, y, z \in S : MoreLoaded(x, y) /\ MoreLoaded(y, z) => MoreLoaded(x, z)
    BY <1>2, <2>2 DEF MoreLoaded
  <2> QED BY <1>3, <2>3, <2>4, <2>5 DEF StrictOrder
<1>8. /\ n \in Nat /\ skew \in [1 .. n -> S]
      /\ \A i, j \in 1 .. n : i < j => MoreLoaded(skew[i], skew[j])
  <2>1. n \in Nat /\ \E s \in [1 .. n -> S] : \A i, j \in 1 .. n : i < j => <<s[i], s[j]>> \in B
    BY <1>1, <1>7, Ordered
  <2>2. \E s \in [1 .. n -> S] : \A i, j \in DOMAIN s : i < j => MoreLoaded(s[i], s[j])
    BY <1>3, <2>1
  <2>3. skew \in [1 .. n -> S] /\ \A i, j \in DOMAIN skew : i < j => MoreLoaded(skew[i], skew[j])
    BY <1>4, <2>2
  <2> QED BY <2>1, <2>3
<1>9. /\ \A i, j \in 1 .. n : skew[i] = skew[j] => i = j
      /\ \A x \in S : \E i \in 1 .. n : skew[i] = x
  <2>1. \A i, j \in 1 .. n : i < j => <<skew[i], skew[j]>> \in B
    BY <1>3, <1>8
  <2> HIDE DEF n
  <2> QED BY <1>1, <1>7, <1>8, <2>1, OrderedHasAll DEF n
<1>10. DOMAIN skew = 1 .. n
  BY <1>8
<1>11. \A i \in 1 .. n : \E p \in M : skew[i] = LoadRow(listed, p)
  BY <1>6, <1>8
<1>12. \A p \in M : \E i \in 1 .. n : skew[i] = LoadRow(listed, p)
  BY <1>5, <1>9
<1> HIDE DEF n
<1> QED BY <1>8, <1>9, <1>10, <1>11, <1>12 DEF skew, M

LEMMA GrowsForEver ==
  ASSUME NEW s \in Streams
  PROVE  IsUnlimited(Limits[s]) <=> CanGrowForEver(s)
<1>1. Limits[s].maxAge \in Int /\ Limits[s].maxBytes \in Int /\ Limits[s].maxMsgs \in Int
  BY LimitsAssumption DEF StreamConfig
<1>2. \A k \in Int : k \notin Nat \ {0} <=> k <= 0
  OBVIOUS
<1> QED BY <1>1, <1>2 DEF IsUnlimited, CanGrowForEver

(* Every leader that could be read is in one row.                           *)
LEMMA LeadsAddUp ==
  ASSUME ListedOK
  PROVE  LET skew == PlacementSkew(listed)
         IN  SumFunction([i \in DOMAIN skew |-> skew[i].leads]) =
               Cardinality({r \in listed : r.placement.lead # NoServer})
<1> DEFINE skew == PlacementSkew(listed)
           D == DOMAIN skew
           G == [i \in D |-> LedBy(skew[i].server)]
           f == [i \in D |-> skew[i].leads]
           L == {r \in listed : r.placement.lead # NoServer}
           P == PairsIn(D, G)
           g == [q \in P |-> q[2]]
<1>1. PICK n \in Nat :
        /\ DOMAIN skew = 1 .. n
        /\ \A i \in 1 .. n : \E p \in Holders : skew[i] = LoadRow(listed, p)
        /\ \A i, j \in 1 .. n : skew[i] = skew[j] => i = j
        /\ \A p \in Holders : \E i \in 1 .. n : skew[i] = LoadRow(listed, p)
  BY SkewInOrder
<1> HIDE DEF skew
<1>2. IsFiniteSet(D)
  BY <1>1, FS_Interval
<1>3. \A i \in D : /\ skew[i].server \in Holders /\ skew[i] = LoadRow(listed, skew[i].server)
                   /\ IsFiniteSet(LedBy(skew[i].server))
                   /\ skew[i].leads = Cardinality(LedBy(skew[i].server))
  BY <1>1, LoadCounts
<1>4. DOMAIN f = D /\ FiniteParts(G, D) /\ \A i \in D : f[i] = Cardinality(G[i])
  BY <1>3 DEF FiniteParts
<1>5. SumFunction(f) = Cardinality(P) /\ IsFiniteSet(P)
  <2> HIDE DEF f, D, G
  <2> QED BY <1>2, <1>4, SumOfSizes, FinitePairs
<1>6. \A q \in P : q[1] \in D /\ q[2] \in LedBy(skew[q[1]].server)
                   /\ q = <<q[1], q[2]>>
  BY DEF PairsIn
<1>7. \A i \in D : \A r \in LedBy(skew[i].server) : <<i, r>> \in P
  BY DEF PairsIn
<1>8. g \in [P -> L] /\ \A q \in P : g[q] = q[2]
  <2>1. \A p \in Holders : p # NoServer
    BY LoadCounts, ServersAssumption
  <2>2. ASSUME NEW q \in P PROVE q[2] \in L
    BY <1>3, <1>6, <2>1 DEF LedBy
  <2> QED BY <2>2
<1> HIDE DEF P, L, g
<1>9. \A q, r \in P : g[q] = g[r] => q = r
  <2> SUFFICES ASSUME NEW q \in P, NEW r \in P, g[q] = g[r] PROVE q = r
    OBVIOUS
  <2>1. q[2] = r[2]
    BY <1>8
  <2>2. skew[q[1]].server = skew[r[1]].server
    BY <1>6, <2>1 DEF LedBy
  <2>3. q[1] = r[1]
    BY <1>1, <1>3, <1>6, <2>2
  <2> QED BY <1>6, <2>1, <2>3
<1>10. \A r \in L : \E q \in P : g[q] = r
  <2> TAKE r \in L
  <2>1. r \in listed /\ r.placement.lead \in r.placement.peers
    BY DEF L, ListedOK, Located
  <2>2. r.placement.lead \in Holders
    BY <2>1 DEF Holders
  <2>3. PICK i \in D : skew[i] = LoadRow(listed, r.placement.lead)
    BY <1>1, <2>2
  <2>4. r \in LedBy(skew[i].server)
    BY <2>1, <2>2, <2>3, LoadCounts DEF LedBy
  <2>5. <<i, r>> \in P
    BY <1>7, <2>4
  <2>6. g[<<i, r>>] = r
    BY <1>8, <2>5
  <2> QED BY <2>5, <2>6
<1>11. Cardinality(L) = Cardinality(P)
  BY <1>5, <1>8, <1>9, <1>10, SameSize
<1> QED BY <1>5, <1>11 DEF L, skew

(* So is every replica.                                                     *)
LEMMA ReplicasAddUp ==
  ASSUME ListedOK
  PROVE  LET skew == PlacementSkew(listed)
         IN  SumFunction([i \in DOMAIN skew |-> skew[i].replicas]) =
               SumFunction([r \in listed |-> Cardinality(r.placement.peers)])
<1> DEFINE skew == PlacementSkew(listed)
           D == DOMAIN skew
           G == [i \in D |-> HeldBy(skew[i].server)]
           f == [i \in D |-> skew[i].replicas]
           P == PairsIn(D, G)
           H == [r \in listed |-> r.placement.peers]
           e == [r \in listed |-> Cardinality(r.placement.peers)]
           Q == PairsIn(listed, H)
           g == [q \in P |-> <<q[2], skew[q[1]].server>>]
<1>1. PICK n \in Nat :
        /\ DOMAIN skew = 1 .. n
        /\ \A i \in 1 .. n : \E p \in Holders : skew[i] = LoadRow(listed, p)
        /\ \A i, j \in 1 .. n : skew[i] = skew[j] => i = j
        /\ \A p \in Holders : \E i \in 1 .. n : skew[i] = LoadRow(listed, p)
  BY SkewInOrder
<1> HIDE DEF skew
<1>2. IsFiniteSet(D)
  BY <1>1, FS_Interval
<1>3. \A i \in D : /\ skew[i].server \in Holders /\ skew[i] = LoadRow(listed, skew[i].server)
                   /\ IsFiniteSet(HeldBy(skew[i].server))
                   /\ skew[i].replicas = Cardinality(HeldBy(skew[i].server))
  BY <1>1, LoadCounts
<1>4. DOMAIN f = D /\ FiniteParts(G, D) /\ \A i \in D : f[i] = Cardinality(G[i])
  BY <1>3 DEF FiniteParts
<1>5. SumFunction(f) = Cardinality(P) /\ IsFiniteSet(P)
  <2> HIDE DEF f, D, G
  <2> QED BY <1>2, <1>4, SumOfSizes, FinitePairs
<1>6. \A q \in P : q[1] \in D /\ q[2] \in HeldBy(skew[q[1]].server)
                   /\ q = <<q[1], q[2]>>
  BY DEF PairsIn
<1>7. \A i \in D : \A r \in HeldBy(skew[i].server) : <<i, r>> \in P
  BY DEF PairsIn
<1>8. SumFunction(e) = Cardinality(Q)
  <2>1. DOMAIN e = listed /\ \A r \in listed : e[r] = Cardinality(H[r])
    OBVIOUS
  <2>2. FiniteParts(H, listed)
    <3> SUFFICES ASSUME NEW r \in listed PROVE IsFiniteSet(r.placement.peers)
      BY DEF FiniteParts
    <3> QED BY ServersAssumption, FS_Subset DEF ListedOK, Located
  <2>3. IsFiniteSet(listed)
    BY DEF ListedOK
  <2> HIDE DEF e, H
  <2> QED BY <2>1, <2>2, <2>3, SumOfSizes
<1>9. \A q \in Q : q[1] \in listed /\ q[2] \in q[1].placement.peers /\ q = <<q[1], q[2]>>
  BY DEF PairsIn
<1>10. \A r \in listed : \A p \in r.placement.peers : <<r, p>> \in Q
  BY DEF PairsIn
<1>11. g \in [P -> Q] /\ \A q \in P : g[q] = <<q[2], skew[q[1]].server>>
  <2>1. ASSUME NEW q \in P PROVE <<q[2], skew[q[1]].server>> \in Q
    <3> HIDE DEF Q
    <3> QED BY <1>6, <1>10 DEF HeldBy
  <2> HIDE DEF P, Q
  <2> QED BY <2>1
<1> HIDE DEF P, Q, g
<1>12. \A q, r \in P : g[q] = g[r] => q = r
  <2> SUFFICES ASSUME NEW q \in P, NEW r \in P, g[q] = g[r] PROVE q = r
    OBVIOUS
  <2>1. q[2] = r[2] /\ skew[q[1]].server = skew[r[1]].server
    BY <1>11
  <2>2. q[1] = r[1]
    BY <1>1, <1>3, <1>6, <2>1
  <2> QED BY <1>6, <2>1, <2>2
<1>13. \A q \in Q : \E r \in P : g[r] = q
  <2> TAKE q \in Q
  <2>1. q[1] \in listed /\ q[2] \in q[1].placement.peers /\ q = <<q[1], q[2]>>
    BY <1>9
  <2>2. q[2] \in Holders
    BY <2>1 DEF Holders
  <2>3. PICK i \in D : skew[i] = LoadRow(listed, q[2])
    BY <1>1, <2>2
  <2>4. skew[i].server = q[2]
    BY <2>2, <2>3, LoadCounts
  <2>5. q[1] \in HeldBy(skew[i].server)
    BY <2>1, <2>4 DEF HeldBy
  <2>6. <<i, q[1]>> \in P
    BY <1>7, <2>5
  <2>7. g[<<i, q[1]>>] = <<q[1], q[2]>>
    BY <1>11, <2>4, <2>6
  <2> QED BY <2>1, <2>6, <2>7
<1>14. Cardinality(Q) = Cardinality(P)
  BY <1>5, <1>11, <1>12, <1>13, SameSize
<1> QED BY <1>5, <1>8, <1>14 DEF skew

LEMMA AccountsForStreams == ListedOK => StreamsAccountedFor
<1> SUFFICES ASSUME ListedOK PROVE StreamsAccountedFor
  OBVIOUS
<1> DEFINE skew == PlacementSkew(listed)
<1>1. {r.stream : r \in UnlimitedStreams} = {s \in {r.stream : r \in listed} : CanGrowForEver(s)}
  BY GrowsForEver DEF UnlimitedStreams, ListedOK
<1>2. \A r, q \in listed : r.stream = q.stream => r = q
  BY DEF ListedOK
<1>3. ASSUME NEW i \in DOMAIN skew, NEW j \in DOMAIN skew, i < j
      PROVE  skew[i].leads >= skew[j].leads
  <2>1. PICK n \in Nat :
          /\ DOMAIN skew = 1 .. n
          /\ \A k \in 1 .. n : \E p \in Holders : skew[k] = LoadRow(listed, p)
          /\ \A k, l \in 1 .. n : k < l => MoreLoaded(skew[k], skew[l])
    BY SkewInOrder
  <2> HIDE DEF skew
  <2>2. skew[i].leads \in Nat /\ skew[j].leads \in Nat
    BY <2>1, LoadCounts
  <2>3. MoreLoaded(skew[i], skew[j])
    BY <1>3, <2>1
  <2> QED BY <2>2, <2>3 DEF MoreLoaded
<1>4. /\ SumFunction([i \in DOMAIN skew |-> skew[i].leads]) =
           Cardinality({r \in listed : r.placement.lead # NoServer})
      /\ SumFunction([i \in DOMAIN skew |-> skew[i].replicas]) =
           SumFunction([r \in listed |-> Cardinality(r.placement.peers)])
  BY LeadsAddUp, ReplicasAddUp
<1> HIDE DEF skew
<1> QED BY <1>1, <1>2, <1>3, <1>4 DEF StreamsAccountedFor, skew

-----------------------------------------------------------------------------
(* Messages.                                                                *)
Thing == Streams \cup Servers \cup Entry
Notice == [sink : STRING, message : Message]
Subjects == ReportKinds \cup {"manifest", "owner", "deleted"}

\* Owners see, operators approve.
Watched(x) ==
  /\ x.message.link \/ x.message.approve => x.sink \in ToSet(config.notify)
  /\ x.message.approve => config.baseURL /\ config.signingKey

(* The lines shown and those left out make up what there is to list.        *)
LEMMA ListsAll ==
  ASSUME NEW about \in Subjects, NEW es \in Seq(Thing)
  PROVE  LET m == Listing(about, es)
         IN  /\ m \in Message /\ m.about = about /\ m.link = FALSE /\ m.approve = FALSE
             /\ m.shown \in Seq(Thing) /\ m.more \in Nat /\ Len(m.shown) + m.more = Len(es)
<1> DEFINE k == Min({Len(es), ListLimit})
<1>1. Len(es) \in Nat /\ ListLimit \in Nat
  BY FindingsAssumption
<1>2. k \in Nat /\ k <= Len(es)
  <2>1. \E x \in {Len(es), ListLimit} : \A y \in {Len(es), ListLimit} : x <= y
    BY <1>1
  <2>2. k \in {Len(es), ListLimit} /\ \A y \in {Len(es), ListLimit} : k <= y
    BY <2>1 DEF Min
  <2> QED BY <1>1, <2>2
<1> HIDE DEF k
<1>3. SubSeq(es, 1, k) \in Seq(Thing) /\ Len(SubSeq(es, 1, k)) = k
  BY <1>1, <1>2
<1>4. Len(es) - k \in Nat /\ k + (Len(es) - k) = Len(es)
  BY <1>1, <1>2
<1>5. Listing(about, es) = [about |-> about, shown |-> SubSeq(es, 1, k), more |-> Len(es) - k,
                            link |-> FALSE, approve |-> FALSE]
  BY DEF Listing, k
<1>6. [about |-> about, shown |-> SubSeq(es, 1, k), more |-> Len(es) - k,
       link |-> FALSE, approve |-> FALSE] \in Message
  BY <1>3, <1>4 DEF Message, Thing, Subjects
<1> QED BY <1>3, <1>4, <1>5, <1>6

LEMMA ConfigTypes ==
  ASSUME config \in Configs
  PROVE  /\ config.autoDelete \in BOOLEAN /\ config.baseURL \in BOOLEAN
         /\ config.signingKey \in BOOLEAN
         /\ config.notify \in Seq(STRING) /\ Owners \in Seq(OwnerBlock)
         /\ \A i \in DOMAIN Owners : Owners[i].notify \in Seq(STRING)
<1>1. /\ {config.autoDelete, config.baseURL, config.signingKey} \subseteq BOOLEAN
      /\ config.notify \in Seq(STRING) /\ Owners \in Seq(OwnerBlock)
  BY ConfigsAssumption DEF Owners
<1>2. \A i \in DOMAIN Owners : Owners[i] \in OwnerBlock
  BY <1>1
<1> QED BY <1>1, <1>2 DEF OwnerBlock

LEMMA SaysManifest ==
  ASSUME config \in Configs, NEW es \in Seq(Thing)
  PROVE  LET m == ManifestMessage(es)
         IN  /\ m \in Message /\ m.about = "manifest" /\ m.more \in Nat
             /\ Len(m.shown) + m.more = Len(es)
             /\ m.approve => config.baseURL /\ config.signingKey
<1> DEFINE l == Listing("manifest", es)
           m == ManifestMessage(es)
<1>1. l \in Message /\ Len(l.shown) + l.more = Len(es) /\ l.about = "manifest"
  BY ListsAll DEF Subjects
<1>2. m = [l EXCEPT !.link = config.baseURL, !.approve = config.baseURL /\ config.signingKey]
  BY DEF ManifestMessage
<1> HIDE DEF l, m
<1>3. config.baseURL \in BOOLEAN /\ (config.baseURL /\ config.signingKey) \in BOOLEAN
  BY ConfigTypes
<1>4. /\ m.about = l.about /\ m.shown = l.shown /\ m.more = l.more
      /\ m.approve = (config.baseURL /\ config.signingKey)
  BY <1>1, <1>2 DEF Message
<1>5. m \in Message
  BY <1>1, <1>2, <1>3 DEF Message
<1>6. m.more \in Nat
  BY <1>5 DEF Message
<1> QED BY <1>1, <1>4, <1>5, <1>6 DEF m

LEMMA ToEachIsSeq ==
  ASSUME NEW sinks \in Seq(STRING), NEW m \in Message
  PROVE  /\ ToEach(sinks, m) \in Seq(Notice) /\ Len(ToEach(sinks, m)) = Len(sinks)
         /\ \A i \in 1 .. Len(sinks) :
              ToEach(sinks, m)[i].sink = sinks[i] /\ ToEach(sinks, m)[i].message = m
<1> DEFINE t == [i \in 1 .. Len(sinks) |-> [sink |-> sinks[i], message |-> m]]
<1>1. Len(sinks) \in Nat /\ DOMAIN sinks = 1 .. Len(sinks)
      /\ \A i \in 1 .. Len(sinks) : sinks[i] \in STRING
  OBVIOUS
<1>2. ToEach(sinks, m) = t
  BY <1>1 DEF ToEach
<1>3. \A i \in 1 .. Len(sinks) : [sink |-> sinks[i], message |-> m] \in Notice
  BY <1>1 DEF Notice
<1>4. t \in [1 .. Len(sinks) -> Notice]
  BY <1>3
<1>5. t \in Seq(Notice) /\ Len(t) = Len(sinks)
  <2> HIDE DEF t
  <2> QED BY <1>1, <1>4
<1> QED BY <1>2, <1>5

-----------------------------------------------------------------------------
(* Routing.                                                                 *)

\* No two owners have one name: NewRouter does not see to it.
DistinctOwners == \A i, j \in DOMAIN Owners : Owners[i].name = Owners[j].name => i = j

\* The first owner to claim an entry.
First(i, e) == Claims(Owners[i], e) /\ \A j \in 1 .. i - 1 : ~Claims(Owners[j], e)

Falls(es, i) == Keep(es, {k \in DOMAIN es : First(i, es[k])})

Due(es) == {i \in DOMAIN Owners : Falls(es, i) # << >>}

Sinks == [i \in DOMAIN Owners |-> 1 .. Len(Owners[i].notify)]

LEMMA MatchIsFirst ==
  ASSUME config \in Configs, Valid(config), DistinctOwners, NEW e, NEW i \in DOMAIN Owners
  PROVE  Match(e) = Owners[i].name <=> First(i, e)
<1> DEFINE able == {j \in DOMAIN Owners : Claims(Owners[j], e)}
<1>1. Len(Owners) \in Nat /\ DOMAIN Owners = 1 .. Len(Owners)
  BY ConfigTypes
<1>2. Owners[i].name # ""
  BY DEF Valid, ValidOwner, Owners
<1>3. CASE able = {}
  <2>1. Match(e) = ""
    BY <1>3 DEF Match
  <2>2. ~First(i, e)
    BY <1>3 DEF First
  <2> QED BY <1>2, <2>1, <2>2
<1>4. CASE able # {}
  <2>1. Match(e) = Owners[Min(able)].name
    BY <1>4 DEF Match
  <2>2. Min(able) \in able /\ \A k \in able : Min(able) <= k
    <3>1. able \in SUBSET (1 .. Len(Owners))
      BY <1>1
    <3> HIDE DEF able
    <3> QED BY <1>1, <1>4, <3>1, Extremes
  <2>3. Match(e) = Owners[i].name <=> i = Min(able)
    BY <2>1, <2>2 DEF DistinctOwners
  <2> DEFINE m == Min(able)
  <2>4. m \in DOMAIN Owners /\ Claims(Owners[m], e) /\ \A k \in DOMAIN Owners : Claims(Owners[k], e) => m <= k
    BY <2>2
  <2> HIDE DEF m
  <2>5. m \in Nat /\ i \in Nat
    BY <1>1, <2>4
  <2>6. First(m, e)
    <3> SUFFICES ASSUME NEW j \in 1 .. m - 1, Claims(Owners[j], e) PROVE FALSE
      BY <2>4 DEF First
    <3>1. j \in DOMAIN Owners /\ ~(m <= j)
      BY <1>1, <2>4, <2>5
    <3> QED BY <2>4, <3>1
  <2>7. First(i, e) => i = m
    <3> SUFFICES ASSUME First(i, e), i # m PROVE FALSE
      OBVIOUS
    <3>1. m <= i
      BY <2>4 DEF First
    <3>2. m \in 1 .. i - 1
      BY <1>1, <2>4, <2>5, <3>1
    <3> QED BY <2>4, <3>2 DEF First
  <2> QED BY <2>3, <2>6, <2>7 DEF m
<1> QED BY <1>3, <1>4

LEMMA GroupFalls ==
  ASSUME config \in Configs, Valid(config), DistinctOwners, NEW es, NEW i \in DOMAIN Owners
  PROVE  Group(es, Owners[i].name) = Falls(es, i)
<1>1. {k \in DOMAIN es : Match(es[k]) = Owners[i].name} = {k \in DOMAIN es : First(i, es[k])}
  BY MatchIsFirst
<1> QED BY <1>1 DEF Group, Falls

LEMMA SinksOfOwner ==
  ASSUME config \in Configs, NEW name
  PROVE  /\ PerOwner(name) \in Seq(STRING)
         /\ \A i \in DOMAIN Owners :
              DistinctOwners /\ name = Owners[i].name => PerOwner(name) = Owners[i].notify
<1> DEFINE called == {i \in DOMAIN Owners : Owners[i].name = name}
<1>1. /\ Len(Owners) \in Nat /\ DOMAIN Owners = 1 .. Len(Owners)
      /\ \A i \in DOMAIN Owners : Owners[i].notify \in Seq(STRING)
  BY ConfigTypes
<1>2. PerOwner(name) = IF called = {} THEN << >> ELSE Owners[Max(called)].notify
  BY DEF PerOwner
<1>3. called # {} => Max(called) \in called
  <2>1. called \in SUBSET (1 .. Len(Owners))
    BY <1>1
  <2> HIDE DEF called
  <2> QED BY <1>1, <2>1, Extremes
<1>4. PerOwner(name) \in Seq(STRING)
  <2>1. CASE called = {}
    BY <1>2, <2>1
  <2>2. CASE called # {}
    BY <1>1, <1>2, <1>3, <2>2
  <2> QED BY <2>1, <2>2
<1>5. ASSUME NEW i \in DOMAIN Owners, DistinctOwners, name = Owners[i].name
      PROVE  PerOwner(name) = Owners[i].notify
  <2>1. i \in called
    BY <1>5
  <2>2. Max(called) = i
    BY <1>3, <1>5, <2>1 DEF DistinctOwners
  <2> QED BY <1>2, <2>1, <2>2
<1> QED BY <1>4, <1>5

(* The owners told, in whatever order the map gave.                         *)
Told(es, order) == Keep(order, {i \in DOMAIN order : Group(es, order[i]) # << >>})

LEMMA OrderOfNames ==
  ASSUME config \in Configs, NEW order \in SetToSeqs(OwnerNames)
  PROVE  /\ order \in Seq(OwnerNames)
         /\ \A i, j \in DOMAIN order : order[i] = order[j] => i = j
         /\ \A name \in OwnerNames : \E i \in DOMAIN order : order[i] = name
<1> DEFINE S == OwnerNames
           n == Cardinality(S)
<1>1. IsFiniteSet(S) /\ n \in Nat
  <2>1. DOMAIN Owners = 1 .. Len(Owners) /\ Len(Owners) \in Nat
    BY ConfigTypes
  <2>2. IsFiniteSet(DOMAIN Owners)
    BY <2>1, FS_Interval
  <2> DEFINE f == [i \in DOMAIN Owners |-> Owners[i].name]
  <2>3. f \in Surjection(DOMAIN Owners, S)
    BY DEF Surjection, OwnerNames
  <2> HIDE DEF f, S
  <2>4. IsFiniteSet(S)
    BY <2>2, <2>3, FS_Surjection
  <2> QED BY <2>4, FS_CardinalityType
<1>2. order \in [1 .. n -> S] /\ \A i, j \in 1 .. n : i # j => order[i] # order[j]
  BY DEF SetToSeqs
<1> HIDE DEF S
<1>3. order \in Surjection(1 .. n, S)
  <2>1. order \in Injection(1 .. n, S)
    BY <1>2 DEF Injection, IsInjective
  <2>2. Cardinality(1 .. n) = n
    <3>1. 1 \in Int /\ n \in Int /\ (IF 1 > n THEN 0 ELSE n - 1 + 1) = n
      BY <1>1
    <3> QED BY <3>1, FS_Interval
  <2> QED BY <1>1, <2>1, <2>2, FS_Injection
<1>4. order \in Seq(S) /\ DOMAIN order = 1 .. n
  BY <1>1, <1>2
<1>5. \A name \in S : \E i \in DOMAIN order : order[i] = name
  BY <1>3, <1>4 DEF Surjection
<1> QED BY <1>2, <1>4, <1>5 DEF S

\* t says which owner each of those told is.
Owned(told, es, t) ==
  /\ t \in [DOMAIN told -> Due(es)]
  /\ \A k \in DOMAIN told : told[k] = Owners[t[k]].name
  /\ \A k, l \in DOMAIN told : t[k] = t[l] => k = l
  /\ \A i \in Due(es) : \E k \in DOMAIN told : t[k] = i

LEMMA ToldAreDue ==
  ASSUME config \in Configs, Valid(config), DistinctOwners, NEW es,
         NEW order \in SetToSeqs(OwnerNames)
  PROVE  \E t : Owned(Told(es, order), es, t)
<1> DEFINE P == {i \in DOMAIN order : Group(es, order[i]) # << >>}
           told == Told(es, order)
           t == [k \in DOMAIN told |-> CHOOSE i \in Due(es) : told[k] = Owners[i].name]
<1>1. PICK h : Picks(told, order, P \cap DOMAIN order, h)
  BY OrderOfNames, KeepPicks DEF Told
<1>2. /\ \A i \in DOMAIN order : order[i] \in OwnerNames
      /\ \A i, j \in DOMAIN order : order[i] = order[j] => i = j
      /\ \A name \in OwnerNames : \E i \in DOMAIN order : order[i] = name
  BY OrderOfNames
<1>3. told \in Seq(OwnerNames)
  BY OrderOfNames, KeepPicks DEF Told
<1> HIDE DEF told
<1>4. \A k \in DOMAIN told : h[k] \in P /\ h[k] \in DOMAIN order /\ told[k] = order[h[k]]
  BY <1>1 DEF Picks
<1>5. \A k \in DOMAIN told : \E i \in Due(es) : told[k] = Owners[i].name
  <2> TAKE k \in DOMAIN told
  <2>1. told[k] \in OwnerNames /\ Group(es, told[k]) # << >>
    BY <1>2, <1>4
  <2>2. PICK i \in DOMAIN Owners : told[k] = Owners[i].name
    BY <2>1 DEF OwnerNames
  <2>3. Falls(es, i) # << >>
    BY <2>1, <2>2, GroupFalls
  <2> QED BY <2>2, <2>3 DEF Due
<1>6. t \in [DOMAIN told -> Due(es)] /\ \A k \in DOMAIN told : told[k] = Owners[t[k]].name
  BY <1>5
<1> HIDE DEF t
<1>7. \A k, l \in DOMAIN told : told[k] = told[l] => k = l
  <2> SUFFICES ASSUME NEW k \in DOMAIN told, NEW l \in DOMAIN told, told[k] = told[l], k # l
               PROVE  FALSE
    OBVIOUS
  <2>1. h[k] = h[l] /\ h[k] \in Nat
    <3>1. DOMAIN order \subseteq Nat
      BY OrderOfNames
    <3> QED BY <1>2, <1>4, <3>1
  <2>2. k < l \/ l < k
    BY <1>3
  <2>3. h[k] < h[l] \/ h[l] < h[k]
    BY <1>1, <2>2 DEF Picks
  <2> QED BY <2>1, <2>3
<1>8. \A i \in Due(es) : \E k \in DOMAIN told : t[k] = i
  <2> TAKE i \in Due(es)
  <2>1. i \in DOMAIN Owners /\ Falls(es, i) # << >>
    BY DEF Due
  <2>2. PICK j \in DOMAIN order : order[j] = Owners[i].name
    BY <1>2, <2>1 DEF OwnerNames
  <2>3. Group(es, order[j]) # << >>
    BY <2>1, <2>2, GroupFalls
  <2>4. PICK k \in DOMAIN told : h[k] = j
    BY <1>1, <2>3 DEF Picks
  <2>5. told[k] = Owners[i].name /\ t[k] \in DOMAIN Owners
    BY <1>4, <1>6, <2>2, <2>4 DEF Due
  <2>6. t[k] = i
    BY <1>6, <2>1, <2>5 DEF DistinctOwners
  <2> QED BY <2>6
<1>9. \A k, l \in DOMAIN told : t[k] = t[l] => k = l
  BY <1>6, <1>7
<1>10. Owned(told, es, t)
  BY <1>6, <1>8, <1>9 DEF Owned
<1> QED BY <1>10 DEF told

(* What goes to the owners.                                                 *)
OwnerNotices(es, order) ==
  [i \in DOMAIN Told(es, order) |->
     ToEach(PerOwner(Told(es, order)[i]), OwnerMessage(Group(es, Told(es, order)[i])))]

LEMMA GroupIsSeq ==
  ASSUME NEW es \in Seq(Entry), NEW name
  PROVE  Group(es, name) \in Seq(Thing)
<1>1. Group(es, name) \in Seq(Entry)
  BY KeepPicks DEF Group
<1>2. Entry \subseteq Thing
  BY DEF Thing
<1> HIDE DEF Entry, Thing
<1> QED BY <1>1, <1>2

LEMMA OwnerNoticesTyped ==
  ASSUME config \in Configs, NEW es \in Seq(Entry), NEW order \in SetToSeqs(OwnerNames)
  PROVE  LET ss == OwnerNotices(es, order)
         IN  /\ ss \in Seq(Seq(Notice)) /\ DOMAIN ss = DOMAIN Told(es, order)
             /\ \A k \in DOMAIN ss : \A i \in 1 .. Len(ss[k]) :
                  /\ ss[k][i].message.about = "owner"
                  /\ ss[k][i].message.link = FALSE /\ ss[k][i].message.approve = FALSE
<1> DEFINE told == Told(es, order)
           ss == OwnerNotices(es, order)
           sinks(k) == PerOwner(told[k])
           m(k) == OwnerMessage(Group(es, told[k]))
<1>1. told \in Seq(OwnerNames)
  BY OrderOfNames, KeepPicks DEF Told
<1>2. ss = [k \in DOMAIN told |-> ToEach(sinks(k), m(k))]
  BY DEF OwnerNotices
<1>3. \A k \in DOMAIN told :
        /\ sinks(k) \in Seq(STRING) /\ m(k) \in Message
        /\ m(k).about = "owner" /\ m(k).link = FALSE /\ m(k).approve = FALSE
  <2> TAKE k \in DOMAIN told
  <2>1. PICK g : g = Group(es, told[k])
    OBVIOUS
  <2>2. g \in Seq(Thing)
    BY <2>1, GroupIsSeq
  <2>3. "owner" \in Subjects
    BY DEF Subjects
  <2>4. m(k) = Listing("owner", g)
    BY <2>1 DEF OwnerMessage
  <2>5. LET l == Listing("owner", g)
        IN  l \in Message /\ l.about = "owner" /\ l.link = FALSE /\ l.approve = FALSE
    BY <2>2, <2>3, ListsAll
  <2>6. sinks(k) \in Seq(STRING)
    BY SinksOfOwner
  <2> HIDE DEF sinks, m
  <2> QED BY <2>4, <2>5, <2>6
<1> HIDE DEF sinks, m, told, ss
<1>4. \A k \in DOMAIN told :
        /\ ss[k] \in Seq(Notice) /\ Len(ss[k]) = Len(sinks(k))
        /\ \A i \in 1 .. Len(sinks(k)) : ss[k][i].message = m(k)
  BY <1>2, <1>3, ToEachIsSeq
<1>5. ss \in Seq(Seq(Notice)) /\ DOMAIN ss = DOMAIN told
  <2>1. DOMAIN told = 1 .. Len(told) /\ Len(told) \in Nat
    BY <1>1
  <2>2. ss \in [1 .. Len(told) -> Seq(Notice)]
    BY <1>2, <1>4, <2>1
  <2> QED BY <2>1, <2>2
<1>6. \A k \in DOMAIN ss : \A i \in 1 .. Len(ss[k]) : ss[k][i].message = m(k)
  BY <1>4, <1>5
<1> QED BY <1>3, <1>5, <1>6 DEF told, ss

LEMMA OwnersReached ==
  ASSUME config \in Configs, Valid(config), DistinctOwners, NEW es \in Seq(Entry),
         NEW order \in SetToSeqs(OwnerNames)
  PROVE  LET a == FlattenSeq(OwnerNotices(es, order))
         IN  /\ Len(a) = Cardinality(PairsIn(Due(es), Sinks))
             /\ \A i \in Due(es) : \A sink \in ToSet(Owners[i].notify) :
                  \E j \in 1 .. Len(a) : /\ a[j].sink = sink
                                         /\ a[j].message = Listing("owner", Falls(es, i))
<1> DEFINE told == Told(es, order)
           ss == OwnerNotices(es, order)
           a == FlattenSeq(ss)
           N == Len(ss)
           P == PairsIn(1 .. N, Lengths(ss))
           Q == PairsIn(Due(es), Sinks)
<1>1. ss \in Seq(Seq(Notice)) /\ DOMAIN ss = DOMAIN told
  BY OwnerNoticesTyped
<1>2. PICK t : Owned(told, es, t)
  BY ToldAreDue
<1>3. Joins(a, N, ss, Notice)
  BY <1>1, Flattened
<1>4. \A i \in Due(es) : /\ i \in DOMAIN Owners /\ Owners[i].notify \in Seq(STRING)
                         /\ Len(Owners[i].notify) \in Nat
                         /\ DOMAIN Owners[i].notify = 1 .. Len(Owners[i].notify)
  <2> TAKE i \in Due(es)
  <2>1. i \in DOMAIN Owners
    BY DEF Due
  <2> QED BY <2>1, ConfigTypes
<1>5. \A k \in 1 .. N :
        /\ k \in DOMAIN told /\ t[k] \in Due(es)
        /\ Len(ss[k]) = Len(Owners[t[k]].notify)
        /\ \A i \in 1 .. Len(ss[k]) :
             /\ ss[k][i].sink = Owners[t[k]].notify[i]
             /\ ss[k][i].message = Listing("owner", Falls(es, t[k]))
  <2> TAKE k \in 1 .. N
  <2>1. k \in DOMAIN told
    BY <1>1
  <2>2. t[k] \in Due(es) /\ told[k] = Owners[t[k]].name /\ t[k] \in DOMAIN Owners
    BY <1>2, <1>4, <2>1 DEF Owned
  <2>3. PerOwner(told[k]) = Owners[t[k]].notify /\ Owners[t[k]].notify \in Seq(STRING)
    BY <1>4, <2>2, SinksOfOwner
  <2>4. /\ OwnerMessage(Group(es, told[k])) = Listing("owner", Falls(es, t[k]))
        /\ Listing("owner", Falls(es, t[k])) \in Message
    <3>1. Group(es, told[k]) = Falls(es, t[k])
      BY <2>2, GroupFalls
    <3>2. Group(es, told[k]) \in Seq(Thing)
      BY GroupIsSeq
    <3> QED BY <3>1, <3>2, ListsAll DEF OwnerMessage, Subjects
  <2>5. ss[k] = ToEach(Owners[t[k]].notify, Listing("owner", Falls(es, t[k])))
    BY <2>1, <2>3, <2>4 DEF OwnerNotices
  <2> HIDE DEF ss, told
  <2> QED BY <2>1, <2>2, <2>3, <2>4, <2>5, ToEachIsSeq
<1>6. \A i \in Due(es) : \E k \in 1 .. N : t[k] = i
  BY <1>1, <1>2 DEF Owned
<1>7. \A k, l \in 1 .. N : t[k] = t[l] => k = l
  BY <1>1, <1>2 DEF Owned
<1> HIDE DEF ss, told, a
<1>8. Len(a) = Cardinality(P)
  BY <1>3 DEF Joins
<1>9. Cardinality(Q) = Cardinality(P)
  <2> DEFINE g == [q \in P |-> <<t[q[1]], q[2]>>]
  <2>0. N \in Nat
    BY <1>1
  <2> HIDE DEF N
  <2>1. IsFiniteSet(P)
    <3>1. FiniteParts(Lengths(ss), 1 .. N)
      <4> SUFFICES ASSUME NEW k \in 1 .. N PROVE IsFiniteSet(Lengths(ss)[k])
        BY DEF FiniteParts
      <4>1. Lengths(ss)[k] = 1 .. Len(ss[k]) /\ Len(ss[k]) \in Nat
        BY <1>4, <1>5 DEF Lengths, N
      <4> QED BY <4>1, FS_Interval
    <3>2. IsFiniteSet(1 .. N)
      BY <2>0, FS_Interval
    <3> QED BY <3>1, <3>2, FinitePairs
  <2>2. \A q \in P : /\ q = <<q[1], q[2]>> /\ q[1] \in 1 .. N
                     /\ q[2] \in 1 .. Len(Owners[t[q[1]]].notify)
    <3>1. \A q \in P : q = <<q[1], q[2]>> /\ q[1] \in 1 .. N /\ q[2] \in Lengths(ss)[q[1]]
      BY DEF PairsIn
    <3>2. \A k \in 1 .. N : Lengths(ss)[k] = 1 .. Len(Owners[t[k]].notify)
      BY <1>5 DEF Lengths, N
    <3> QED BY <3>1, <3>2
  <2>3. \A k \in 1 .. N : \A x \in 1 .. Len(Owners[t[k]].notify) : <<k, x>> \in P
    <3>1. \A k \in 1 .. N : Lengths(ss)[k] = 1 .. Len(Owners[t[k]].notify)
      BY <1>5 DEF Lengths, N
    <3> QED BY <3>1 DEF PairsIn
  <2>4. \A q \in Q : /\ q = <<q[1], q[2]>> /\ q[1] \in Due(es)
                     /\ q[2] \in 1 .. Len(Owners[q[1]].notify)
    <3>1. \A q \in Q : q = <<q[1], q[2]>> /\ q[1] \in Due(es) /\ q[2] \in Sinks[q[1]]
      BY DEF PairsIn
    <3> QED BY <1>4, <3>1 DEF Sinks
  <2>5. \A i \in Due(es) : \A x \in 1 .. Len(Owners[i].notify) : <<i, x>> \in Q
    <3>1. \A i \in Due(es) : Sinks[i] = 1 .. Len(Owners[i].notify)
      BY <1>4 DEF Sinks
    <3> QED BY <3>1 DEF PairsIn
  <2>6. g \in [P -> Q] /\ \A q \in P : g[q] = <<t[q[1]], q[2]>>
    <3>1. \A q \in P : <<t[q[1]], q[2]>> \in Q
      <4> HIDE DEF P, Q
      <4> QED BY <1>5, <2>2, <2>5 DEF N
    <3> HIDE DEF P, Q
    <3> QED BY <3>1
  <2> HIDE DEF P, Q, g
  <2>7. \A q, r \in P : g[q] = g[r] => q = r
    <3> SUFFICES ASSUME NEW q \in P, NEW r \in P, g[q] = g[r] PROVE q = r
      OBVIOUS
    <3>1. t[q[1]] = t[r[1]] /\ q[2] = r[2]
      BY <2>6
    <3>2. q[1] = r[1]
      BY <1>7, <2>2, <3>1 DEF N
    <3> QED BY <2>2, <3>1, <3>2
  <2>8. \A q \in Q : \E r \in P : g[r] = q
    <3> TAKE q \in Q
    <3>1. PICK k \in 1 .. N : t[k] = q[1]
      BY <1>6, <2>4 DEF N
    <3>2. <<k, q[2]>> \in P
      BY <2>3, <2>4, <3>1
    <3>3. g[<<k, q[2]>>] = <<q[1], q[2]>>
      BY <2>6, <3>1, <3>2
    <3> QED BY <2>4, <3>2, <3>3
  <2> QED BY <2>1, <2>6, <2>7, <2>8, SameSize
<1>10. ASSUME NEW i \in Due(es), NEW sink \in ToSet(Owners[i].notify)
       PROVE  \E j \in 1 .. Len(a) : /\ a[j].sink = sink
                                     /\ a[j].message = Listing("owner", Falls(es, i))
  <2>1. PICK x \in 1 .. Len(Owners[i].notify) : Owners[i].notify[x] = sink
    BY <1>4 DEF ToSet
  <2>2. PICK k \in 1 .. N : t[k] = i
    BY <1>6
  <2>3. x \in 1 .. Len(ss[k])
    BY <1>5, <2>1, <2>2
  <2>4. PICK j \in 1 .. Len(a) : a[j] = ss[k][x]
    BY <1>3, <2>3 DEF Joins
  <2> QED BY <1>5, <2>1, <2>2, <2>3, <2>4
<1> QED BY <1>8, <1>9, <1>10 DEF a, ss

(* Two parts: to the owners, and down the global list.                      *)
InTwoParts(pl, m) ==
  /\ m \in 0 .. Len(pl)
  /\ \A j \in 1 .. m : pl[j].message.about = "owner"
  /\ \A j \in 1 .. Len(pl) - m :
       pl[m + j].message.about # "owner" /\ pl[m + j].sink = config.notify[j]

Reaches(pl, m, es, S) ==
  /\ m = Cardinality(PairsIn(S, Sinks))
  /\ \A i \in S : \A sink \in ToSet(Owners[i].notify) :
       \E j \in 1 .. m : pl[j].sink = sink /\ pl[j].message = Listing("owner", Falls(es, i))

Counts(pl, m, n) ==
  \A j \in 1 .. Len(pl) - m : Len(pl[m + j].message.shown) + pl[m + j].message.more = n

Tells(pl, m, es, t) == \A j \in 1 .. Len(pl) - m : TellsOf(pl[m + j].message, es, t)

Says(pl, m, es, t) == IF Unattended THEN Tells(pl, m, es, t) ELSE Counts(pl, m, Len(es))

LEMMA AnnounceTyped ==
  ASSUME config \in Configs, NEW es \in Seq(Entry), NEW order \in SetToSeqs(OwnerNames)
  PROVE  /\ Announce(es, order) \in Seq(Notice)
         /\ \A j \in 1 .. Len(Announce(es, order)) : Watched(Announce(es, order)[j])
<1> DEFINE ss == OwnerNotices(es, order)
           a == FlattenSeq(ss)
           m == ManifestMessage(es)
           b == ToEach(config.notify, m)
           v == Announce(es, order)
<1>1. v = a \o b
  BY DEF Announce, OwnerNotices, Told
<1>2. ss \in Seq(Seq(Notice)) /\ DOMAIN ss = 1 .. Len(ss)
  <2>1. ss \in Seq(Seq(Notice))
    BY OwnerNoticesTyped
  <2> HIDE DEF ss
  <2> QED BY <2>1
<1>3. \A k \in DOMAIN ss : \A i \in 1 .. Len(ss[k]) :
        ss[k][i].message.link = FALSE /\ ss[k][i].message.approve = FALSE
  BY OwnerNoticesTyped
<1> HIDE DEF ss
<1>4. Joins(a, Len(ss), ss, Notice)
  BY <1>2, Flattened
<1>5. a \in Seq(Notice) /\ \A j \in 1 .. Len(a) : Watched(a[j])
  <2>1. \A j \in 1 .. Len(a) : a[j].message.link = FALSE /\ a[j].message.approve = FALSE
    <3> TAKE j \in 1 .. Len(a)
    <3>1. PICK k \in 1 .. Len(ss) : \E i \in 1 .. Len(ss[k]) : a[j] = ss[k][i]
      BY <1>4 DEF Joins
    <3> QED BY <1>2, <1>3, <3>1
  <2> HIDE DEF a
  <2> QED BY <1>4, <2>1 DEF Joins, Watched
<1>6. m \in Message /\ (m.approve => config.baseURL /\ config.signingKey)
  <2>1. es \in Seq(Thing)
    <3>1. Entry \subseteq Thing
      BY DEF Thing
    <3> HIDE DEF Entry, Thing
    <3> QED BY <3>1
  <2> QED BY <2>1, SaysManifest
<1>7. config.notify \in Seq(STRING)
  BY ConfigTypes
<1> HIDE DEF m
<1>8. /\ b \in Seq(Notice) /\ Len(b) = Len(config.notify)
      /\ \A j \in 1 .. Len(b) : b[j].sink = config.notify[j] /\ b[j].message = m
  BY <1>6, <1>7, ToEachIsSeq
<1> HIDE DEF b
<1>9. \A j \in 1 .. Len(b) : Watched(b[j])
  <2>1. \A j \in 1 .. Len(b) : config.notify[j] \in ToSet(config.notify)
    BY <1>7, <1>8 DEF ToSet
  <2> QED BY <1>6, <1>8, <2>1 DEF Watched
<1> HIDE DEF a, v
<1>10. /\ v \in Seq(Notice)
       /\ \A j \in 1 .. Len(a) : v[j] = a[j]
       /\ \A j \in 1 .. Len(v) :
            j \in 1 .. Len(a) \/ (j - Len(a) \in 1 .. Len(b) /\ v[j] = b[j - Len(a)])
  BY <1>1, <1>5, <1>8, Concat
<1>11. \A j \in 1 .. Len(v) : Watched(v[j])
  <2> TAKE j \in 1 .. Len(v)
  <2>1. \E x : Watched(x) /\ v[j] = x
    BY <1>5, <1>9, <1>10
  <2> QED BY <2>1
<1> QED BY <1>10, <1>11 DEF v

LEMMA AnnounceReaches ==
  ASSUME config \in Configs, Valid(config), DistinctOwners, NEW es \in Seq(Entry),
         NEW order \in SetToSeqs(OwnerNames)
  PROVE  \E m \in Nat : LET pl == Announce(es, order) IN
           /\ InTwoParts(pl, m) /\ Reaches(pl, m, es, Due(es))
           /\ Len(pl) - m = Len(config.notify) /\ Counts(pl, m, Len(es))
<1> DEFINE ss == OwnerNotices(es, order)
           a == FlattenSeq(ss)
           g == ManifestMessage(es)
           b == ToEach(config.notify, g)
           v == Announce(es, order)
           m == Len(a)
<1>1. v = a \o b
  BY DEF Announce, OwnerNotices, Told
<1>2. ss \in Seq(Seq(Notice)) /\ DOMAIN ss = 1 .. Len(ss)
  <2>1. ss \in Seq(Seq(Notice))
    BY OwnerNoticesTyped
  <2> HIDE DEF ss
  <2> QED BY <2>1
<1>3. \A k \in DOMAIN ss : \A i \in 1 .. Len(ss[k]) : ss[k][i].message.about = "owner"
  BY OwnerNoticesTyped
<1>4. /\ m = Cardinality(PairsIn(Due(es), Sinks))
      /\ \A i \in Due(es) : \A sink \in ToSet(Owners[i].notify) :
           \E j \in 1 .. m : a[j].sink = sink /\ a[j].message = Listing("owner", Falls(es, i))
  BY OwnersReached
<1> HIDE DEF ss
<1>5. Joins(a, Len(ss), ss, Notice)
  BY <1>2, Flattened
<1>6. a \in Seq(Notice) /\ m \in Nat /\ \A j \in 1 .. m : a[j].message.about = "owner"
  <2>1. \A j \in 1 .. m : a[j].message.about = "owner"
    <3> TAKE j \in 1 .. m
    <3>1. PICK k \in 1 .. Len(ss) : \E i \in 1 .. Len(ss[k]) : a[j] = ss[k][i]
      BY <1>5 DEF Joins
    <3> QED BY <1>2, <1>3, <3>1
  <2> HIDE DEF a
  <2>2. a \in Seq(Notice)
    BY <1>5 DEF Joins
  <2> QED BY <2>1, <2>2
<1>7. /\ g \in Message /\ g.about = "manifest" /\ Len(g.shown) + g.more = Len(es)
  <2>1. es \in Seq(Thing)
    <3>1. Entry \subseteq Thing
      BY DEF Thing
    <3> HIDE DEF Entry, Thing
    <3> QED BY <3>1
  <2> QED BY <2>1, SaysManifest
<1>8. config.notify \in Seq(STRING) /\ Len(config.notify) \in Nat
  BY ConfigTypes
<1> HIDE DEF g
<1>9. /\ b \in Seq(Notice) /\ Len(b) = Len(config.notify)
      /\ \A j \in 1 .. Len(b) : b[j].sink = config.notify[j] /\ b[j].message = g
  BY <1>7, <1>8, ToEachIsSeq
<1> HIDE DEF b, a, v
<1>10. /\ v \in Seq(Notice) /\ Len(v) = Len(a) + Len(b)
       /\ \A j \in 1 .. Len(a) : v[j] = a[j]
       /\ \A j \in 1 .. Len(b) : v[Len(a) + j] = b[j]
  BY <1>1, <1>6, <1>9, Concat
<1> HIDE DEF m
<1>11. m \in Nat /\ m \in 0 .. Len(v) /\ Len(v) - m = Len(config.notify)
  BY <1>6, <1>8, <1>9, <1>10 DEF m
<1>12. \A j \in 1 .. Len(v) - m :
         /\ v[m + j].message = g /\ v[m + j].sink = config.notify[j]
  BY <1>9, <1>10, <1>11 DEF m
<1>13. \A j \in 1 .. m : v[j] = a[j]
  BY <1>10 DEF m
<1>14. InTwoParts(v, m)
  BY <1>6, <1>7, <1>11, <1>12, <1>13 DEF InTwoParts
<1>15. Reaches(v, m, es, Due(es))
  <2> SUFFICES ASSUME NEW i \in Due(es), NEW sink \in ToSet(Owners[i].notify)
               PROVE  \E j \in 1 .. m : v[j].sink = sink /\ v[j].message = Listing("owner", Falls(es, i))
    BY <1>4 DEF Reaches
  <2>1. PICK j \in 1 .. m : a[j].sink = sink /\ a[j].message = Listing("owner", Falls(es, i))
    BY <1>4
  <2> QED BY <1>13, <2>1
<1>16. Counts(v, m, Len(es))
  BY <1>7, <1>12 DEF Counts
<1> QED BY <1>11, <1>14, <1>15, <1>16 DEF v

(* A notice for the global list only, or none.                              *)
LEMMA GlobalNotice ==
  ASSUME config \in Configs, NEW g \in Message, g.about # "owner",
         g.link = FALSE, g.approve = FALSE
  PROVE  LET pl == ToEach(config.notify, g) IN
         /\ pl \in Seq(Notice) /\ \A j \in 1 .. Len(pl) : Watched(pl[j])
         /\ InTwoParts(pl, 0) /\ Len(pl) = Len(config.notify)
         /\ \A j \in 1 .. Len(pl) - 0 : pl[0 + j].message = g
<1> DEFINE pl == ToEach(config.notify, g)
<1>2. config.notify \in Seq(STRING) /\ Len(config.notify) \in Nat
  BY ConfigTypes
<1>3. /\ pl \in Seq(Notice) /\ Len(pl) = Len(config.notify)
      /\ \A j \in 1 .. Len(pl) : pl[j].sink = config.notify[j] /\ pl[j].message = g
  BY <1>2, ToEachIsSeq
<1> HIDE DEF pl
<1>4. \A j \in 1 .. Len(pl) : Watched(pl[j])
  BY <1>3 DEF Watched
<1>5. Len(pl) - 0 = Len(pl) /\ 0 \in 0 .. Len(pl) /\ \A j \in 1 .. Len(pl) : 0 + j = j
  BY <1>2, <1>3
<1>6. InTwoParts(pl, 0)
  BY <1>3, <1>5 DEF InTwoParts
<1> QED BY <1>3, <1>4, <1>5, <1>6 DEF pl

(* What Apply did with each entry.                                          *)
Outcomes == {"DELETED", "FAIL", "OTHER", "CONN"}

LEMMA TrailTyped ==
  ASSUME NEW n \in Nat, NEW t \in Trails(n)
  PROVE  /\ t \in Seq(Outcomes) /\ DOMAIN t \subseteq 1 .. n
         /\ \A i \in DOMAIN t : t[i] \in Outcomes
         /\ Cardinality({i \in DOMAIN t : t[i] = "DELETED"}) \in Nat
<1>1. t \in Seq(Outcomes) /\ DOMAIN t \subseteq 1 .. n /\ DOMAIN t = 1 .. Len(t) /\ Len(t) \in Nat
  <2>1. CASE t = << >>
    BY <2>1
  <2>2. CASE t \in [1 .. n -> {"DELETED", "FAIL", "OTHER"}]
    <3>1. t \in [1 .. n -> Outcomes]
      BY <2>2 DEF Outcomes
    <3> HIDE DEF Outcomes
    <3> QED BY <3>1
  <2>3. CASE t = [i \in 1 .. n |-> "CONN"]
    <3>1. t \in [1 .. n -> Outcomes]
      BY <2>3 DEF Outcomes
    <3> HIDE DEF Outcomes
    <3> QED BY <3>1
  <2> QED BY <2>1, <2>2, <2>3 DEF Trails
<1>2. \A i \in DOMAIN t : t[i] \in Outcomes
  <2> HIDE DEF Outcomes
  <2> QED BY <1>1
<1>3. Cardinality({i \in DOMAIN t : t[i] = "DELETED"}) \in Nat
  <2>1. IsFiniteSet(1 .. Len(t))
    BY <1>1, FS_Interval
  <2> QED BY <1>1, <2>1, FS_Subset, FS_CardinalityType
<1> QED BY <1>1, <1>2, <1>3

LEMMA TouchedTold ==
  ASSUME NEW n \in Nat, NEW t \in Trails(n)
  PROVE  Touched(t) # {} <=> {"DELETED", "FAIL", "CONN"} \cap ToSet(t) # {}
<1>1. \A i \in DOMAIN t : t[i] \in Outcomes
  BY TrailTyped
<1> QED BY <1>1 DEF Touched, ToSet, Outcomes

(* The notice of an unattended deletion tells of removals and failures, and  *)
(* of all of them unless it says there are more.                             *)
LEMMA DeletionTold ==
  ASSUME NEW es \in Seq(Thing), NEW t \in Trails(Len(es))
  PROVE  LET g == DeletedMessage(es, t)
         IN  /\ g \in Message /\ g.about = "deleted" /\ g.link = FALSE /\ g.approve = FALSE
             /\ TellsOf(g, es, t)
<1> DEFINE P == Listed(t)
           lines == Keep(es, P)
           l == Listing("deleted", lines)
           g == DeletedMessage(es, t)
           done == {es[i] : i \in P}
           k == Min({Len(lines), ListLimit})
<1>1. P \subseteq DOMAIN es /\ Len(es) \in Nat
  <2>1. Len(es) \in Nat /\ DOMAIN es = 1 .. Len(es)
    OBVIOUS
  <2>2. DOMAIN t \subseteq 1 .. Len(es)
    BY <2>1, TrailTyped
  <2> QED BY <2>1, <2>2 DEF Listed
<1>2. PICK h : Picks(lines, es, P \cap DOMAIN es, h)
  BY KeepPicks
<1>3. lines \in Seq(Thing)
  BY KeepPicks
<1>4. P \cap DOMAIN es = P
  BY <1>1
<1> HIDE DEF P, lines
<1>5. Len(lines) \in Nat /\ DOMAIN lines = 1 .. Len(lines)
  BY <1>3
<1>6. ToSet(lines) = done
  <2>1. ToSet(lines) \subseteq done
    BY <1>2, <1>4, <1>5 DEF Picks, ToSet
  <2>2. done \subseteq ToSet(lines)
    BY <1>2, <1>4, <1>5 DEF Picks, ToSet
  <2> QED BY <2>1, <2>2
<1>7. ListLimit \in Nat
  BY FindingsAssumption
<1>8. k \in {Len(lines), ListLimit} /\ \A y \in {Len(lines), ListLimit} : k <= y
  <2>1. \E x \in {Len(lines), ListLimit} : \A y \in {Len(lines), ListLimit} : x <= y
    BY <1>5, <1>7
  <2> QED BY <2>1 DEF Min
<1> HIDE DEF k
<1>9. l = [about |-> "deleted", shown |-> SubSeq(lines, 1, k), more |-> Len(lines) - k,
           link |-> FALSE, approve |-> FALSE]
  BY DEF Listing, k
<1>10. l \in Message
  <2>1. "deleted" \in Subjects
    BY DEF Subjects
  <2> QED BY <1>3, <2>1, ListsAll
<1>11. g = [l EXCEPT !.more = Min({l.more, 1})]
  BY DEF DeletedMessage, lines, P, l
<1> HIDE DEF l, g
<1>12. Len(lines) - k \in Nat /\ k \in Nat /\ k <= Len(lines)
  BY <1>5, <1>7, <1>8
<1>13. Min({Len(lines) - k, 1}) \in Nat /\ (Len(lines) - k # 0 => Min({Len(lines) - k, 1}) > 0)
  <2> DEFINE d == Len(lines) - k
  <2>0. d \in Nat
    BY <1>12
  <2> HIDE DEF d
  <2>1. \E x \in {d, 1} : \A y \in {d, 1} : x <= y
    BY <2>0
  <2>2. Min({d, 1}) \in {d, 1}
    BY <2>1 DEF Min
  <2>3. Min({d, 1}) \in Nat /\ (d # 0 => Min({d, 1}) > 0)
    BY <2>0, <2>2
  <2> QED BY <2>3 DEF d
<1>14. /\ g.about = "deleted" /\ g.link = FALSE /\ g.approve = FALSE
       /\ g.shown = SubSeq(lines, 1, k) /\ g.more = Min({Len(lines) - k, 1})
       /\ g \in Message
  <2>1. l.more = Len(lines) - k
    BY <1>9
  <2>2. g \in Message
    BY <1>10, <1>11, <1>13, <2>1 DEF Message
  <2> QED BY <1>9, <1>11, <2>1, <2>2
<1>15. SubSeq(lines, 1, k) = [i \in 1 .. k |-> lines[i]] /\ Len(SubSeq(lines, 1, k)) = k
  BY <1>3, <1>12
<1> DEFINE cut == SubSeq(lines, 1, k)
<1>19. DOMAIN cut = 1 .. k /\ \A i \in 1 .. k : cut[i] = lines[i] /\ i \in DOMAIN lines
  BY <1>5, <1>12, <1>15
<1>20. g.shown = cut /\ Len(cut) = k
  BY <1>14, <1>15
<1> HIDE DEF cut
<1>21. ToSet(cut) = {lines[i] : i \in 1 .. k}
  BY <1>19 DEF ToSet
<1>16. ToSet(g.shown) \subseteq done
  <2>1. {lines[i] : i \in 1 .. k} \subseteq ToSet(lines)
    BY <1>19 DEF ToSet
  <2> QED BY <1>6, <1>20, <1>21, <2>1
<1>17. done \subseteq ToSet(g.shown) \/ (g.more > 0 /\ Len(g.shown) = ListLimit)
  <2>1. CASE k = Len(lines)
    <3>1. ToSet(lines) = {lines[i] : i \in 1 .. k}
      BY <1>5, <2>1 DEF ToSet
    <3>2. ToSet(g.shown) = ToSet(lines)
      BY <1>20, <1>21, <3>1
    <3>3. done \subseteq ToSet(g.shown)
      <4> HIDE DEF done
      <4> QED BY <1>6, <3>2
    <3> QED BY <3>3
  <2>2. CASE k # Len(lines)
    <3>1. k = ListLimit /\ Len(lines) - k # 0
      <4>1. k = ListLimit
        BY <1>8, <2>2
      <4>2. Len(lines) - k # 0
        <5>1. \A x, y \in Nat : y # x => x - y # 0
          OBVIOUS
        <5>2. Len(lines) \in Nat /\ k \in Nat
          BY <1>5, <1>12
        <5> QED BY <5>1, <5>2, <2>2
      <4> QED BY <4>1, <4>2
    <3> QED BY <1>13, <1>14, <1>20, <3>1
  <2> QED BY <2>1, <2>2
<1>18. TellsOf(g, es, t)
  BY <1>16, <1>17 DEF TellsOf, Listed, P
<1> QED BY <1>14, <1>18 DEF g

LEMMA NoNotice ==
  /\ << >> \in Seq(Notice) /\ InTwoParts(<< >>, 0)
  /\ \A pl, es : Reaches(pl, 0, es, {})
<1>1. PairsIn({}, Sinks) = {}
  BY DEF PairsIn
<1>2. 0 = Cardinality(PairsIn({}, Sinks))
  BY <1>1, FS_EmptySet
<1> QED BY <1>2 DEF InTwoParts, Reaches

-----------------------------------------------------------------------------
(* A run.                                                                   *)

LEMMA StreamsListed ==
  ASSUME NEW L, L \subseteq listed, ListedOK
  PROVE  SetToSeq({r.stream : r \in L}) \in Seq(Thing)
<1> DEFINE S == {r.stream : r \in L}
           f == [r \in L |-> r.stream]
<1>1. IsFiniteSet(L)
  BY FS_Subset DEF ListedOK
<1>2. f \in Surjection(L, S)
  BY DEF Surjection
<1>3. S \subseteq Thing
  BY DEF Thing, ListedOK
<1> HIDE DEF f, S, Thing
<1>4. IsFiniteSet(S)
  BY <1>1, <1>2, FS_Surjection
<1>5. SetToSeq(S) \in Seq(S)
  BY <1>4, ListsEach
<1>6. SetToSeq(S) \in Seq(Thing)
  <2> DEFINE t == SetToSeq(S)
  <2> HIDE DEF t
  <2>1. t \in Seq(S)
    BY <1>5 DEF t
  <2>2. t \in Seq(Thing)
    BY <1>3, <2>1
  <2> QED BY <2>2 DEF t
<1> QED BY <1>6 DEF S

LEMMA ReportedThings ==
  ASSUME SeenOK, ListedOK, kind \in ReportKinds
  PROVE  Reported \in Seq(Thing)
<1>1. CASE kind = "stream-unlimited"
  <2>1. Reported = SetToSeq({r.stream : r \in UnlimitedStreams})
    BY <1>1 DEF Reported
  <2> QED BY <2>1, StreamsListed DEF UnlimitedStreams
<1>2. CASE kind = "stream-report"
  <2>1. Reported = SetToSeq({r.stream : r \in UnderReplicated})
    BY <1>2 DEF Reported
  <2> QED BY <2>1, StreamsListed DEF UnderReplicated
<1>3. CASE kind = "peer-check"
  <2> DEFINE rs == AggregatePeers(seen)
             R == {PeerRow(seen, p) : p \in Mentioned(seen)}
             gs == GhostPeers(rs)
  <2>1. Reported = [i \in DOMAIN gs |-> gs[i].peer]
    BY <1>3 DEF Reported
  <2>2. rs \in Seq(R)
    <3>1. PICK n \in Nat : rs \in [1 .. n -> R]
      BY RowsInOrder
    <3> HIDE DEF rs, R
    <3> QED BY <3>1
  <2>3. \A x \in R : x.peer \in Thing
    BY RowJudges DEF Mentioned, Thing
  <2> HIDE DEF rs, R
  <2>4. gs \in Seq(R)
    BY <2>2, KeepPicks DEF GhostPeers
  <2> HIDE DEF gs, Thing
  <2>5. Len(gs) \in Nat /\ DOMAIN gs = 1 .. Len(gs) /\ \A i \in 1 .. Len(gs) : gs[i] \in R
    BY <2>4
  <2>6. [i \in 1 .. Len(gs) |-> gs[i].peer] \in [1 .. Len(gs) -> Thing]
    BY <2>3, <2>5
  <2>7. [i \in 1 .. Len(gs) |-> gs[i].peer] \in Seq(Thing)
    BY <2>5, <2>6
  <2> QED BY <2>1, <2>5, <2>7
<1> QED BY <1>1, <1>2, <1>3 DEF ReportKinds

ConfigInv ==
  /\ config \in Configs /\ kind = config.kind
  /\ job \in {"boot", "refused", "waiting", "walking", "scanning", "posting", "erring",
              "over", "error"}
  /\ job \notin {"boot", "refused"} => Valid(config)
  /\ job = "walking" => kind \in ReportKinds
  /\ job = "scanning" => kind \notin ReportKinds

PostInv ==
  /\ found \in Seq(Thing) /\ trail \in Seq(Outcomes) /\ candidates \in Nat /\ gauge \in Nat
  /\ outbox \in Seq(Notice)
  /\ offered \in Seq([sink : STRING, message : Message, taken : BOOLEAN])
  /\ \A i \in 1 .. Len(outbox) : Watched(outbox[i])
  /\ \A i \in 1 .. Len(offered) : Watched(offered[i])

\* All that a run has posted and has to post, in order.
Planned ==
  [j \in 1 .. Len(offered) + Len(outbox) |->
     IF j <= Len(offered) THEN [sink |-> offered[j].sink, message |-> offered[j].message]
     ELSE outbox[j - Len(offered)]]

AsPlanned ==
  \E m \in Nat :
    /\ InTwoParts(Planned, m) /\ Reaches(Planned, m, found, Sharing)
    /\ Len(Planned) - m = IF Tellable THEN Len(config.notify) ELSE 0
    /\ Says(Planned, m, found, trail)

Ran == job \in {"posting", "erring", "over"} \/ (job = "error" /\ audit # << >>)

RunInv ==
  /\ job \in {"boot", "refused", "waiting", "walking", "scanning"} =>
       outbox = << >> /\ offered = << >> /\ audit = << >> /\ gauge = 0 /\ trail = << >>
  /\ Ran => /\ Len(audit) = 1 /\ audit[1].entries = Len(found)
            /\ job \in {"over", "error"} => outbox = << >>
            /\ gauge = IF job = "over" THEN candidates ELSE 0
            /\ candidates = (IF Unattended
                              THEN Cardinality({i \in DOMAIN trail : trail[i] = "DELETED"})
                              ELSE Len(found))
            /\ DistinctOwners => AsPlanned

NoticesInv == SurveyInv /\ ConfigInv /\ PostInv /\ RunInv

LEMMA InitNotices == NoticesInit => NoticesInv
<1> SUFFICES ASSUME NoticesInit PROVE NoticesInv
  OBVIOUS
<1>1. SurveyInv
  BY InitSurvey DEF NoticesInit
<1>2. ConfigInv
  BY DEF NoticesInit, ConfigInv
<1>3. PostInv
  BY DEF NoticesInit, PostInv
<1>4. RunInv
  BY DEF NoticesInit, RunInv, Ran
<1> QED BY <1>1, <1>2, <1>3, <1>4 DEF NoticesInv

LEMMA PostsStay ==
  ASSUME PostInv, UNCHANGED <<config, found, trail, outbox, offered>>,
         candidates' \in Nat, gauge' \in Nat
  PROVE  PostInv'
  BY DEF PostInv, Watched

LEMMA ReachStays ==
  ASSUME NEW pl, NEW m, NEW es, NEW S, config' = config, Reaches(pl, m, es, S)
  PROVE  Reaches(pl, m, es, S)'
<1>1. Owners' = Owners /\ Sinks' = Sinks
  BY DEF Owners, Sinks
<1>2. \A i : Falls(es, i)' = Falls(es, i)
  <2>1. \A i, e : First(i, e)' <=> First(i, e)
    BY <1>1 DEF First
  <2> TAKE i
  <2>2. {k \in DOMAIN es : First(i, es[k])'} = {k \in DOMAIN es : First(i, es[k])}
    BY <2>1
  <2> QED BY <2>2 DEF Falls
<1> QED BY <1>1, <1>2 DEF Reaches

LEMMA PlanStays ==
  ASSUME AsPlanned, UNCHANGED <<config, kind, found, trail>>, Planned' = Planned
  PROVE  AsPlanned'
<1>1. PICK m \in Nat :
        /\ InTwoParts(Planned, m) /\ Reaches(Planned, m, found, Sharing)
        /\ Len(Planned) - m = IF Tellable THEN Len(config.notify) ELSE 0
        /\ Says(Planned, m, found, trail)
  BY DEF AsPlanned
<1>2. (Tellable' <=> Tellable) /\ (Unattended' <=> Unattended) /\ Sharing' = Sharing
  BY DEF Tellable, Unattended, Routed, Sharing, Share, Owners
<1>3. InTwoParts(Planned, m)'
  BY <1>1 DEF InTwoParts
<1>4. Reaches(Planned, m, found, Sharing)'
  <2>1. PICK pl, es, S : pl = Planned /\ es = found /\ S = Sharing
    OBVIOUS
  <2>2. Reaches(pl, m, es, S)'
    BY <1>1, <2>1, ReachStays
  <2> QED BY <1>2, <2>1, <2>2 DEF Reaches
<1>5. Says(Planned, m, found, trail)'
  BY <1>1, <1>2 DEF Says, Tells, Counts
<1> QED BY <1>1, <1>2, <1>3, <1>4, <1>5 DEF AsPlanned

\* Nothing but where the job is changes, if that.
LEMMA JobMoves ==
  ASSUME ConfigInv, PostInv, RunInv,
         UNCHANGED <<config, kind, found, trail, candidates, outbox, offered, audit, gauge>>,
         \/ job' = job
         \/ /\ job \in {"boot", "waiting", "walking", "scanning"}
            /\ job' \in {"refused", "waiting", "walking", "scanning", "error"}
            /\ job' \notin {"refused"} => Valid(config)
            /\ job' = "walking" => kind \in ReportKinds
            /\ job' = "scanning" => kind \notin ReportKinds
  PROVE  ConfigInv' /\ PostInv' /\ RunInv'
<1>1. PostInv'
  BY PostsStay DEF PostInv
<1>2. ConfigInv'
  BY DEF ConfigInv, Valid, ValidSchedule, Dialled
<1>3. RunInv'
  <2>1. CASE job' = job
    <3>1. Planned' = Planned
      BY DEF Planned
    <3>2. (AsPlanned => AsPlanned') /\ (DistinctOwners' <=> DistinctOwners)
         /\ (Unattended' <=> Unattended)
      BY <3>1, PlanStays DEF DistinctOwners, Owners, Unattended
    <3>3. Ran' <=> Ran
      BY <2>1 DEF Ran
    <3> QED BY <2>1, <3>2, <3>3 DEF RunInv
  <2>2. CASE job' # job
    <3>1. outbox' = << >> /\ offered' = << >> /\ audit' = << >> /\ gauge' = 0 /\ trail' = << >>
      BY <2>2 DEF RunInv
    <3>2. ~Ran'
      BY <2>2, <3>1 DEF Ran
    <3> QED BY <3>1, <3>2 DEF RunInv
  <2> QED BY <2>1, <2>2
<1> QED BY <1>1, <1>2, <1>3

\* Whether there is something to tell of certain findings and outcomes.
AnyNews(es, t) ==
  IF Unattended THEN {"DELETED", "FAIL", "CONN"} \cap ToSet(t) # {} ELSE es # << >>

\* A run that has just found what it found.
LEMMA PlanMade ==
  ASSUME NEW pl \in Seq(Notice), NEW m \in Nat, NEW S, NEW es, NEW t,
         UNCHANGED <<config, kind>>, found' = es, trail' = t, offered' = << >>, outbox' = pl,
         Sharing' = S,
         InTwoParts(pl, m), Reaches(pl, m, es, S),
         Len(pl) - m = IF AnyNews(es, t) THEN Len(config.notify) ELSE 0,
         Says(pl, m, es, t)
  PROVE  AsPlanned'
<1>1. Planned' = pl
  <2>1. Len(offered') = 0 /\ Len(pl) \in Nat
    OBVIOUS
  <2>2. Planned' = [j \in 1 .. 0 + Len(pl) |->
                      IF j <= 0 THEN [sink |-> offered'[j].sink, message |-> offered'[j].message]
                      ELSE pl[j - 0]]
    BY <2>1 DEF Planned
  <2> QED BY <2>1, <2>2
<1>2. Unattended' <=> Unattended
  BY DEF Unattended
<1>3. Tellable' <=> AnyNews(es, t)
  BY <1>2 DEF Tellable, AnyNews
<1>4. InTwoParts(Planned, m)'
  BY <1>1 DEF InTwoParts
<1>5. Reaches(Planned, m, found, Sharing)'
  <2>1. Reaches(pl, m, es, S)'
    BY ReachStays
  <2> QED BY <1>1, <2>1 DEF Reaches
<1>6. Says(Planned, m, found, trail)'
  BY <1>1, <1>2 DEF Says, Tells, Counts
<1> QED BY <1>1, <1>3, <1>4, <1>5, <1>6 DEF AsPlanned

LEMMA NoneDue ==
  ASSUME NEW es, es = << >>
  PROVE  Due(es) = {}
<1> SUFFICES ASSUME NEW i \in DOMAIN Owners PROVE Falls(es, i) = << >>
  BY DEF Due
<1> DEFINE P == {k \in DOMAIN es : First(i, es[k])}
<1>1. es \in Seq({}) /\ P \cap DOMAIN es = {}
  OBVIOUS
<1> HIDE DEF P
<1>2. Keep(es, P) \in Seq({}) /\ Len(Keep(es, P)) = 0
  BY <1>1, KeepPicks, KeepLength, FS_EmptySet
<1>3. Keep(es, P) = << >>
  BY <1>2
<1> QED BY <1>3 DEF Falls, P

\* Whom an unrouted run tells.
LEMMA Unrouted ==
  ASSUME kind' = kind, config' = config, ~Routed
  PROVE  Sharing' = {} /\ ~Routed'
  BY DEF Routed, Sharing

LEMMA ReportKeeps ==
  ASSUME NoticesInv, Report
  PROVE  ConfigInv' /\ PostInv' /\ RunInv'
<1>1. /\ job = "walking" /\ job' = "posting" /\ UNCHANGED <<config, kind, trail, offered, gauge>>
      /\ found' = Reported /\ candidates' = Len(found')
      /\ audit' = Append(audit, [kind |-> kind, entries |-> Len(found')])
      /\ outbox' = IF found' = << >> THEN << >> ELSE ToEach(config.notify, Listing(kind, found'))
  BY DEF Report, surveyVars
<1>2. /\ config \in Configs /\ Valid(config) /\ kind \in ReportKinds /\ kind = config.kind
      /\ outbox = << >> /\ offered = << >> /\ audit = << >> /\ gauge = 0 /\ trail = << >>
  BY <1>1 DEF NoticesInv, ConfigInv, RunInv
<1>3. PICK es : es = found'
  OBVIOUS
<1>4. es \in Seq(Thing) /\ Len(es) \in Nat
  <2>1. Reported \in Seq(Thing)
    BY <1>2, ReportedThings DEF NoticesInv, SurveyInv
  <2> QED BY <1>1, <1>3, <2>1
<1>5. PICK pl : pl = outbox'
  OBVIOUS
<1>6. kind \in Subjects \ {"owner"}
  BY <1>2 DEF ReportKinds, Subjects
<1>7. /\ pl \in Seq(Notice) /\ \A j \in 1 .. Len(pl) : Watched(pl[j])
      /\ InTwoParts(pl, 0) /\ Len(pl) - 0 = IF es # << >> THEN Len(config.notify) ELSE 0
      /\ Counts(pl, 0, Len(es))
  <2>1. CASE es = << >>
    <3>1. pl = << >> /\ Counts(pl, 0, Len(es))
      BY <1>1, <1>3, <1>5, <2>1 DEF Counts
    <3> QED BY <2>1, <3>1, NoNotice
  <2>2. CASE es # << >>
    <3>4. PICK g : g = Listing(kind, es)
      OBVIOUS
    <3>1. pl = ToEach(config.notify, g)
      BY <1>1, <1>3, <1>5, <2>2, <3>4
    <3>5. /\ g \in Message /\ g.about # "owner" /\ g.link = FALSE /\ g.approve = FALSE
          /\ Len(g.shown) + g.more = Len(es)
      <4>1. PICK about : about = kind
        OBVIOUS
      <4>2. about \in Subjects /\ about # "owner" /\ g = Listing(about, es)
        BY <1>6, <3>4, <4>1
      <4>3. /\ Listing(about, es) \in Message /\ Listing(about, es).about = about
            /\ Listing(about, es).link = FALSE /\ Listing(about, es).approve = FALSE
            /\ Len(Listing(about, es).shown) + Listing(about, es).more = Len(es)
        BY <1>4, <4>2, ListsAll
      <4> QED BY <4>2, <4>3
    <3>2. /\ pl \in Seq(Notice) /\ \A j \in 1 .. Len(pl) : Watched(pl[j])
          /\ InTwoParts(pl, 0) /\ Len(pl) = Len(config.notify)
          /\ \A j \in 1 .. Len(pl) - 0 : pl[0 + j].message = g
      BY <1>2, <3>1, <3>5, GlobalNotice
    <3>3. Len(config.notify) \in Nat /\ Len(pl) - 0 = Len(pl)
      BY <1>2, <3>2, ConfigTypes
    <3>6. Counts(pl, 0, Len(es))
      BY <3>2, <3>5 DEF Counts
    <3> QED BY <2>2, <3>2, <3>3, <3>6
  <2> QED BY <2>1, <2>2
<1>8. ~Routed /\ ~Unattended
  BY <1>2 DEF Routed, Unattended
<1>9. AsPlanned'
  <2>1. Sharing' = {}
    BY <1>1, <1>8, Unrouted
  <2>2. Reaches(pl, 0, es, {})
    BY NoNotice
  <2>3. offered' = << >> /\ trail' = << >>
    BY <1>1, <1>2
  <2>4. Says(pl, 0, es, << >>) /\ (AnyNews(es, << >>) <=> es # << >>)
    BY <1>7, <1>8 DEF Says, AnyNews
  <2>5. PICK t : t = << >>
    OBVIOUS
  <2> QED BY <1>1, <1>3, <1>5, <1>7, <2>1, <2>2, <2>3, <2>4, <2>5, PlanMade
<1>10. ConfigInv'
  BY <1>1, <1>2 DEF ConfigInv, Valid, ValidSchedule, Dialled
<1>11. PostInv'
  <2>1. \A j \in 1 .. Len(pl) : Watched(pl[j])'
    BY <1>1, <1>7 DEF Watched
  <2>2. trail' \in Seq(Outcomes) /\ gauge' \in Nat
    BY <1>1, <1>2
  <2> QED BY <1>1, <1>2, <1>3, <1>4, <1>5, <1>7, <2>1, <2>2 DEF PostInv
<1>12. RunInv'
  <2>1. audit' = <<[kind |-> kind, entries |-> Len(found')]>>
    BY <1>1, <1>2
  <2>2. ~Unattended'
    BY <1>1, <1>8 DEF Unattended
  <2> QED BY <1>1, <1>2, <1>9, <2>1, <2>2 DEF RunInv, Ran
<1> QED BY <1>10, <1>11, <1>12

LEMMA ProposeKeeps ==
  ASSUME NoticesInv, NEW es \in Findings, Propose(es)
  PROVE  ConfigInv' /\ PostInv' /\ RunInv'
<1>1. /\ job = "scanning" /\ job' = "posting" /\ UNCHANGED <<config, kind, trail, offered, gauge>>
      /\ found' = es /\ candidates' = Len(es) /\ (config.autoDelete => es = << >>)
      /\ audit' = Append(audit, [kind |-> "scan", entries |-> Len(es)])
      /\ IF es = << >> THEN outbox' = << >>
         ELSE \E order \in SetToSeqs(OwnerNames) : outbox' = Announce(es, order)
  BY DEF Propose, surveyVars
<1>2. /\ config \in Configs /\ Valid(config) /\ kind \notin ReportKinds /\ kind = config.kind
      /\ outbox = << >> /\ offered = << >> /\ audit = << >> /\ gauge = 0 /\ trail = << >>
  BY <1>1 DEF NoticesInv, ConfigInv, RunInv
<1>3. es \in Seq(Entry) /\ es \in Seq(Thing) /\ Len(es) \in Nat
  <2>1. es \in Seq(Entry)
    BY FindingsAssumption
  <2>2. Entry \subseteq Thing
    BY DEF Thing
  <2> HIDE DEF Entry, Thing
  <2> QED BY <2>1, <2>2
<1>4. Routed <=> ~config.autoDelete
  BY <1>2 DEF Routed
<1>5. PICK pl : pl = outbox'
  OBVIOUS
<1>6. pl \in Seq(Notice) /\ \A j \in 1 .. Len(pl) : Watched(pl[j])
  <2>1. CASE es = << >>
    <3>1. pl = << >>
      BY <1>1, <1>5, <2>1
    <3> QED BY <3>1
  <2>2. CASE es # << >>
    BY <1>1, <1>2, <1>3, <1>5, <2>2, AnnounceTyped
  <2> QED BY <2>1, <2>2
<1>7. Sharing' = IF Routed THEN Due(es) ELSE {}
  <2>1. CASE Routed
    <3>1. Routed' /\ Owners' = Owners
      BY <1>1, <2>1 DEF Routed, Owners
    <3>2. \A i \in DOMAIN Owners : Share(i)' = Falls(es, i)
      <4> TAKE i \in DOMAIN Owners
      <4>1. {k \in DOMAIN es : Claims(Owners[i], es[k]) /\ \A j \in 1 .. i - 1 : ~Claims(Owners[j], es[k])}
              = {k \in DOMAIN es : First(i, es[k])}
        BY DEF First
      <4> QED BY <1>1, <3>1, <4>1 DEF Share, Falls
    <3> QED BY <2>1, <3>1, <3>2 DEF Sharing, Due
  <2>2. CASE ~Routed
    BY <1>1, <2>2, Unrouted
  <2> QED BY <2>1, <2>2
<1>8. ASSUME DistinctOwners PROVE AsPlanned'
  <2>1. CASE es = << >>
    <3>1. Sharing' = {}
      BY <1>7, <2>1, NoneDue
    <3>2. pl = << >> /\ Len(pl) - 0 = 0
      BY <1>1, <1>5, <2>1
    <3>3. InTwoParts(pl, 0) /\ Reaches(pl, 0, es, {})
      BY <3>2, NoNotice
    <3>7. PICK t : t = << >>
      OBVIOUS
    <3>4. Says(pl, 0, es, t)
      BY <3>2 DEF Says, Tells, Counts
    <3>5. offered' = << >> /\ trail' = t
      BY <1>1, <1>2, <3>7
    <3>6. Len(pl) - 0 = IF AnyNews(es, t) THEN Len(config.notify) ELSE 0
      BY <2>1, <3>2, <3>7 DEF AnyNews, ToSet
    <3> QED BY <1>1, <1>5, <1>6, <3>1, <3>3, <3>4, <3>5, <3>6, PlanMade
  <2>2. CASE es # << >>
    <3>1. Routed /\ ~Unattended
      BY <1>1, <1>2, <1>4, <2>2 DEF Unattended
    <3>2. PICK order \in SetToSeqs(OwnerNames) : pl = Announce(es, order)
      BY <1>1, <1>5, <2>2
    <3>3. PICK m \in Nat : /\ InTwoParts(pl, m) /\ Reaches(pl, m, es, Due(es))
                           /\ Len(pl) - m = Len(config.notify) /\ Counts(pl, m, Len(es))
      BY <1>2, <1>3, <1>8, <3>2, AnnounceReaches
    <3>4. PICK S : S = Due(es)
      OBVIOUS
    <3>5. Sharing' = S /\ Reaches(pl, m, es, S)
      BY <1>7, <3>1, <3>3, <3>4
    <3>8. PICK t : t = << >>
      OBVIOUS
    <3>6. offered' = << >> /\ trail' = t /\ Says(pl, m, es, t)
      BY <1>1, <1>2, <3>1, <3>3, <3>8 DEF Says
    <3>7. Len(pl) - m = IF AnyNews(es, t) THEN Len(config.notify) ELSE 0
      BY <2>2, <3>1, <3>3 DEF AnyNews
    <3> QED BY <1>1, <1>5, <1>6, <3>3, <3>5, <3>6, <3>7, PlanMade
  <2> QED BY <2>1, <2>2
<1>9. ConfigInv'
  BY <1>1, <1>2 DEF ConfigInv, Valid, ValidSchedule, Dialled
<1>10. PostInv'
  <2>1. \A j \in 1 .. Len(pl) : Watched(pl[j])'
    BY <1>1, <1>6 DEF Watched
  <2>2. trail' \in Seq(Outcomes) /\ gauge' \in Nat
    BY <1>1, <1>2
  <2> QED BY <1>1, <1>2, <1>3, <1>5, <1>6, <2>1, <2>2 DEF PostInv
<1>11. RunInv'
  <2>1. audit' = <<[kind |-> "scan", entries |-> Len(es)]>>
    BY <1>1, <1>2
  <2>2. DistinctOwners' <=> DistinctOwners
    BY <1>1 DEF DistinctOwners, Owners
  <2>3. candidates' = (IF Unattended
                       THEN Cardinality({i \in DOMAIN trail : trail[i] = "DELETED"})
                       ELSE Len(found))'
    <3>1. CASE Unattended'
      <4>1. es = << >> /\ trail' = << >>
        BY <1>1, <1>2, <3>1 DEF Unattended
      <4>2. {i \in DOMAIN trail' : trail'[i] = "DELETED"} = {}
        BY <4>1
      <4> QED BY <1>1, <3>1, <4>1, <4>2, FS_EmptySet
    <3>2. CASE ~Unattended'
      BY <1>1, <3>2
    <3> QED BY <3>1, <3>2
  <2> QED BY <1>1, <1>2, <1>8, <2>1, <2>2, <2>3 DEF RunInv, Ran
<1> QED BY <1>9, <1>10, <1>11

LEMMA AutoDeleteKeeps ==
  ASSUME NoticesInv, NEW es \in Findings, NEW t \in Trails(Len(es)), AutoDelete(es, t)
  PROVE  ConfigInv' /\ PostInv' /\ RunInv'
<1>1. /\ job = "scanning" /\ job' = (IF t = << >> THEN "erring" ELSE "posting")
      /\ UNCHANGED <<config, kind, offered, gauge>>
      /\ found' = es /\ trail' = t /\ config.autoDelete
      /\ candidates' = Cardinality({i \in DOMAIN t : t[i] = "DELETED"})
      /\ audit' = Append(audit, [kind |-> "auto-delete", entries |-> Len(es)])
      /\ outbox' = IF Touched(t) = {} THEN << >>
                   ELSE ToEach(config.notify, DeletedMessage(es, t))
  BY DEF AutoDelete, surveyVars
<1>2. /\ config \in Configs /\ Valid(config) /\ kind \notin ReportKinds /\ kind = config.kind
      /\ outbox = << >> /\ offered = << >> /\ audit = << >> /\ gauge = 0
  BY <1>1 DEF NoticesInv, ConfigInv, RunInv
<1>3. es \in Seq(Thing) /\ Len(es) \in Nat
  <2>1. es \in Seq(Entry)
    BY FindingsAssumption
  <2>2. Entry \subseteq Thing
    BY DEF Thing
  <2> HIDE DEF Entry, Thing
  <2> QED BY <2>1, <2>2
<1>4. /\ t \in Seq(Outcomes) /\ candidates' \in Nat
      /\ Touched(t) # {} <=> {"DELETED", "FAIL", "CONN"} \cap ToSet(t) # {}
  BY <1>1, <1>3, TrailTyped, TouchedTold
<1>5. PICK pl : pl = outbox'
  OBVIOUS
<1>6. Unattended /\ ~Routed
  BY <1>1, <1>2 DEF Unattended, Routed
<1>7. /\ pl \in Seq(Notice) /\ \A j \in 1 .. Len(pl) : Watched(pl[j])
      /\ InTwoParts(pl, 0) /\ Len(pl) - 0 = IF AnyNews(es, t) THEN Len(config.notify) ELSE 0
      /\ Says(pl, 0, es, t)
  <2>1. CASE Touched(t) = {}
    <3>1. pl = << >> /\ ~AnyNews(es, t) /\ Says(pl, 0, es, t)
      BY <1>1, <1>4, <1>5, <1>6, <2>1 DEF AnyNews, Says, Tells
    <3> QED BY <3>1, NoNotice
  <2>2. CASE Touched(t) # {}
    <3>1. PICK g : g = DeletedMessage(es, t)
      OBVIOUS
    <3>2. pl = ToEach(config.notify, g) /\ AnyNews(es, t)
      BY <1>1, <1>4, <1>5, <1>6, <2>2, <3>1 DEF AnyNews
    <3>3. /\ g \in Message /\ g.about # "owner" /\ g.link = FALSE /\ g.approve = FALSE
          /\ TellsOf(g, es, t)
      BY <1>3, <3>1, DeletionTold
    <3>4. /\ pl \in Seq(Notice) /\ \A j \in 1 .. Len(pl) : Watched(pl[j])
          /\ InTwoParts(pl, 0) /\ Len(pl) = Len(config.notify)
          /\ \A j \in 1 .. Len(pl) - 0 : pl[0 + j].message = g
      BY <1>2, <3>2, <3>3, GlobalNotice
    <3>5. Len(pl) \in Nat
      BY <3>4
    <3>6. Says(pl, 0, es, t)
      BY <1>6, <3>3, <3>4 DEF Says, Tells
    <3> QED BY <3>2, <3>4, <3>5, <3>6
  <2> QED BY <2>1, <2>2
<1>9. AsPlanned'
  <2>1. Sharing' = {}
    BY <1>1, <1>6, Unrouted
  <2>2. Reaches(pl, 0, es, {})
    BY NoNotice
  <2>3. offered' = << >>
    BY <1>1, <1>2
  <2> QED BY <1>1, <1>5, <1>7, <2>1, <2>2, <2>3, PlanMade
<1>10. ConfigInv'
  BY <1>1, <1>2 DEF ConfigInv, Valid, ValidSchedule, Dialled
<1>11. PostInv'
  <2>1. \A j \in 1 .. Len(pl) : Watched(pl[j])'
    BY <1>1, <1>7 DEF Watched
  <2> QED BY <1>1, <1>2, <1>3, <1>4, <1>5, <1>7, <2>1 DEF PostInv
<1>12. RunInv'
  <2>1. audit' = <<[kind |-> "auto-delete", entries |-> Len(es)]>>
    BY <1>1, <1>2
  <2>2. Unattended'
    BY <1>1, <1>6 DEF Unattended
  <2> QED BY <1>1, <1>2, <1>9, <2>1, <2>2 DEF RunInv, Ran
<1> QED BY <1>10, <1>11, <1>12

LEMMA PostKeeps ==
  ASSUME NoticesInv, PostOne
  PROVE  ConfigInv' /\ PostInv' /\ RunInv'
<1>1. PICK taken \in BOOLEAN : offered' = Append(offered, Offer(Head(outbox), taken))
  BY DEF PostOne
<1>2. /\ job \in {"posting", "erring"} /\ outbox # << >> /\ outbox' = Tail(outbox)
      /\ UNCHANGED <<config, kind, job, found, trail, candidates, audit, gauge>>
  BY DEF PostOne, surveyVars
<1>3. /\ outbox \in Seq(Notice) /\ offered \in Seq([sink : STRING, message : Message, taken : BOOLEAN])
      /\ \A i \in 1 .. Len(outbox) : Watched(outbox[i])
      /\ \A i \in 1 .. Len(offered) : Watched(offered[i])
  BY DEF NoticesInv, PostInv
<1> DEFINE O == [sink : STRING, message : Message, taken : BOOLEAN]
           x == Offer(Head(outbox), taken)
<1>4. Head(outbox) = outbox[1] /\ Head(outbox) \in Notice /\ Watched(Head(outbox))
  <2>1. Head(outbox) = outbox[1] /\ 1 \in 1 .. Len(outbox) /\ Head(outbox) \in Notice
    BY <1>2, <1>3
  <2> QED BY <1>3, <2>1
<1>5. x \in O /\ x.sink = Head(outbox).sink /\ x.message = Head(outbox).message /\ Watched(x)
  BY <1>4 DEF Offer, Notice, Watched
<1> HIDE DEF O, x
<1>6. /\ Len(outbox) \in Nat /\ Len(outbox) # 0 /\ Len(offered) \in Nat
      /\ outbox' \in Seq(Notice) /\ Len(outbox') = Len(outbox) - 1
      /\ \A i \in 1 .. Len(outbox') : outbox'[i] = outbox[i + 1]
  BY <1>2, <1>3
<1>7. /\ offered' \in Seq(O) /\ Len(offered') = Len(offered) + 1
      /\ offered'[Len(offered) + 1] = x
      /\ \A i \in 1 .. Len(offered) : offered'[i] = offered[i]
  BY <1>1, <1>3, <1>5 DEF O, x
<1>8. Planned' = Planned
  <2> DEFINE N == Len(offered) + Len(outbox)
             at(j) == IF j <= Len(offered)
                      THEN [sink |-> offered[j].sink, message |-> offered[j].message]
                      ELSE outbox[j - Len(offered)]
             next(j) == IF j <= Len(offered')
                        THEN [sink |-> offered'[j].sink, message |-> offered'[j].message]
                        ELSE outbox'[j - Len(offered')]
  <2>1. N = Len(offered') + Len(outbox') /\ N \in Nat
    BY <1>6, <1>7
  <2>2. \A j \in 1 .. N : next(j) = at(j)
    <3> TAKE j \in 1 .. N
    <3>0. j \in Nat /\ j >= 1 /\ j <= Len(offered) + Len(outbox)
      BY <2>1
    <3>1. CASE j <= Len(offered)
      <4>1. j \in 1 .. Len(offered) /\ j <= Len(offered')
        BY <1>6, <1>7, <3>0, <3>1
      <4> QED BY <1>7, <3>1, <4>1
    <3>2. CASE j = Len(offered) + 1
      <4>1. j <= Len(offered') /\ ~(j <= Len(offered)) /\ j - Len(offered) = 1
        BY <1>6, <1>7, <3>2
      <4>2. next(j) = [sink |-> Head(outbox).sink, message |-> Head(outbox).message]
        BY <1>5, <1>7, <3>2, <4>1
      <4>3. at(j) = Head(outbox)
        BY <1>4, <4>1
      <4>4. Head(outbox) = [sink |-> Head(outbox).sink, message |-> Head(outbox).message]
        BY <1>4 DEF Notice
      <4> QED BY <4>2, <4>3, <4>4
    <3>3. CASE j > Len(offered) + 1
      <4>1. /\ ~(j <= Len(offered')) /\ ~(j <= Len(offered))
            /\ j - Len(offered') \in 1 .. Len(outbox')
            /\ (j - Len(offered')) + 1 = j - Len(offered)
        BY <1>6, <1>7, <3>0, <3>3
      <4>2. next(j) = outbox'[j - Len(offered')] /\ at(j) = outbox[j - Len(offered)]
        BY <4>1
      <4>3. outbox'[j - Len(offered')] = outbox[(j - Len(offered')) + 1]
        BY <1>6, <4>1
      <4> QED BY <4>1, <4>2, <4>3
    <3> QED BY <1>6, <3>0, <3>1, <3>2, <3>3
  <2>3. Planned = [j \in 1 .. N |-> at(j)]
    BY DEF Planned
  <2>4. Planned' = [j \in 1 .. Len(offered') + Len(outbox') |-> next(j)]
    BY DEF Planned
  <2> HIDE DEF at, next, N
  <2> QED BY <2>1, <2>2, <2>3, <2>4
<1>9. ConfigInv'
  BY <1>2 DEF NoticesInv, ConfigInv, Valid, ValidSchedule, Dialled
<1>10. PostInv'
  <2>1. \A y : Watched(y)' <=> Watched(y)
    BY <1>2 DEF Watched
  <2>2. \A i \in 1 .. Len(outbox') : i + 1 \in 1 .. Len(outbox)
    BY <1>6
  <2>3. \A i \in 1 .. Len(outbox') : \E y : y = outbox'[i] /\ Watched(y)
    BY <1>3, <1>6, <2>2
  <2>4. \A i \in 1 .. Len(offered') : \E y : y = offered'[i] /\ Watched(y)
    <3> TAKE i \in 1 .. Len(offered')
    <3>1. i \in 1 .. Len(offered) \/ i = Len(offered) + 1
      BY <1>6, <1>7
    <3> QED BY <1>3, <1>5, <1>7, <3>1
  <2>5. found' \in Seq(Thing) /\ trail' \in Seq(Outcomes) /\ candidates' \in Nat /\ gauge' \in Nat
    BY <1>2 DEF NoticesInv, PostInv
  <2> QED BY <1>6, <1>7, <2>1, <2>3, <2>4, <2>5 DEF PostInv, O
<1>11. RunInv'
  <2>1. (DistinctOwners' <=> DistinctOwners) /\ (Unattended' <=> Unattended)
    BY <1>2 DEF DistinctOwners, Owners, Unattended
  <2>2. Ran /\ Ran'
    BY <1>2 DEF Ran
  <2>3. AsPlanned => AsPlanned'
    BY <1>2, <1>8, PlanStays
  <2> QED BY <1>2, <2>1, <2>2, <2>3 DEF NoticesInv, RunInv
<1> QED BY <1>9, <1>10, <1>11

LEMMA FinishKeeps ==
  ASSUME NoticesInv, Finish
  PROVE  ConfigInv' /\ PostInv' /\ RunInv'
<1>1. /\ job \in {"posting", "erring"} /\ outbox = << >>
      /\ job' = (IF job = "erring" THEN "error" ELSE "over")
      /\ gauge' = IF job = "erring" THEN gauge ELSE candidates
      /\ UNCHANGED <<config, kind, found, trail, candidates, outbox, offered, audit>>
  BY DEF Finish, surveyVars
<1>2. ConfigInv'
  BY <1>1 DEF NoticesInv, ConfigInv, Valid, ValidSchedule, Dialled
<1>3. PostInv'
  <2>1. candidates' \in Nat /\ gauge' \in Nat /\ PostInv
    BY <1>1 DEF NoticesInv, PostInv
  <2> QED BY <1>1, <2>1, PostsStay
<1>4. RunInv'
  <2>1. (DistinctOwners' <=> DistinctOwners) /\ (Unattended' <=> Unattended) /\ Planned' = Planned
    BY <1>1 DEF DistinctOwners, Owners, Unattended, Planned
  <2>2. Ran
    BY <1>1 DEF Ran
  <2>3. AsPlanned => AsPlanned'
    BY <1>1, <2>1, PlanStays
  <2> QED BY <1>1, <2>1, <2>2, <2>3 DEF NoticesInv, RunInv
<1> QED BY <1>2, <1>3, <1>4

-----------------------------------------------------------------------------
(* The job and the cluster.                                                 *)
LEMMA QuietJob ==
  ASSUME NoticesInv,
         Boot \/ Fire \/ Walk \/ WalkFailed \/ ScanFailed
           \/ (ClusterStep /\ UNCHANGED noticeVars) \/ UNCHANGED <<surveyVars, noticeVars>>
  PROVE  ConfigInv' /\ PostInv' /\ RunInv'
<1>1. UNCHANGED <<config, found, trail, candidates, outbox, offered, audit, gauge>>
  BY DEF Boot, Fire, Walk, WalkFailed, ScanFailed, noticeVars
<1>2. kind' = kind
  <2>1. WalkStep => kind' = kind
    BY DEF WalkStep, BeginWalk, NothingToWalk, WalkExpires, PassOver, ListStream, VisitStream,
           VisitConsumer, StreamVisited, WalkDone, unchangedButWalk
  <2>2. ClusterStep => kind' = kind
    BY DEF ClusterStep, Fail, Recover, CatchUp, Elect, Fault
  <2> QED BY <2>1, <2>2 DEF Boot, Fire, Walk, WalkFailed, ScanFailed, surveyVars
<1>3. \/ job' = job
      \/ /\ job \in {"boot", "waiting", "walking", "scanning"}
         /\ job' \in {"refused", "waiting", "walking", "scanning", "error"}
         /\ job' \notin {"refused"} => Valid(config)
         /\ job' = "walking" => kind \in ReportKinds
         /\ job' = "scanning" => kind \notin ReportKinds
  <2>1. job \notin {"boot", "refused"} => Valid(config)
    BY DEF NoticesInv, ConfigInv
  <2> QED BY <2>1 DEF Boot, Fire, Walk, WalkFailed, ScanFailed, noticeVars
<1> QED BY <1>1, <1>2, <1>3, JobMoves DEF NoticesInv

LEMMA NoticesKept == NoticesInv /\ [Next]_<<surveyVars, noticeVars>> => NoticesInv'
<1> SUFFICES ASSUME NoticesInv, [Next]_<<surveyVars, noticeVars>> PROVE NoticesInv'
  OBVIOUS
<1>1. UNCHANGED surveyVars => SurveyInv'
  <2> SUFFICES ASSUME UNCHANGED surveyVars PROVE SurveyInv'
    OBVIOUS
  <2>1. UNCHANGED <<down, leader, behind, faults, kind, only, walk, todo, names, current, seen,
                    listed, steady, dead>>
    BY DEF surveyVars, cluster
  <2> QED BY <2>1 DEF NoticesInv, SurveyInv, ClusterOK, WalkOK, SeenOK, Complete, Honest,
                      ListedOK, Located
<1>2. CASE Boot \/ Fire \/ WalkFailed \/ ScanFailed \/ UNCHANGED <<surveyVars, noticeVars>>
  <2>1. UNCHANGED surveyVars
    BY <1>2 DEF Boot, Fire, WalkFailed, ScanFailed
  <2> QED BY <1>1, <1>2, <2>1, QuietJob DEF NoticesInv
<1>3. CASE Walk
  <2>1. SurveyInv'
    BY <1>3, WalkKeepsSurvey DEF Walk, NoticesInv
  <2> QED BY <1>3, <2>1, QuietJob DEF NoticesInv
<1>4. CASE ClusterStep /\ UNCHANGED noticeVars
  <2>1. SurveyInv'
    BY <1>4, ClusterKeepsSurvey DEF NoticesInv
  <2> QED BY <1>4, <2>1, QuietJob DEF NoticesInv
<1>5. CASE Report
  <2>1. SurveyInv'
    BY <1>1, <1>5 DEF Report
  <2> QED BY <1>5, <2>1, ReportKeeps DEF NoticesInv
<1>6. ASSUME NEW es \in Findings, Propose(es) PROVE NoticesInv'
  <2>1. SurveyInv'
    BY <1>1, <1>6 DEF Propose
  <2> QED BY <1>6, <2>1, ProposeKeeps DEF NoticesInv
<1>7. ASSUME NEW es \in Findings, NEW t \in Trails(Len(es)), AutoDelete(es, t) PROVE NoticesInv'
  <2>1. SurveyInv'
    BY <1>1, <1>7 DEF AutoDelete
  <2> QED BY <1>7, <2>1, AutoDeleteKeeps DEF NoticesInv
<1>8. CASE PostOne
  <2>1. SurveyInv'
    BY <1>1, <1>8 DEF PostOne
  <2> QED BY <1>8, <2>1, PostKeeps DEF NoticesInv
<1>9. CASE Finish
  <2>1. SurveyInv'
    BY <1>1, <1>9 DEF Finish
  <2> QED BY <1>9, <2>1, FinishKeeps DEF NoticesInv
<1> QED BY <1>2, <1>3, <1>4, <1>5, <1>6, <1>7, <1>8, <1>9 DEF Next, JobStep, Over

-----------------------------------------------------------------------------
(* What the invariant says of a run that is over.                           *)
LEMMA TellsEveryone ==
  ASSUME NoticesInv, DistinctOwners
  PROVE  EveryoneTold
<1> SUFFICES ASSUME job = "over" \/ (job = "error" /\ audit # << >>) PROVE EveryoneTold
  BY DEF EveryoneTold
<1> DEFINE O == [sink : STRING, message : Message, taken : BOOLEAN]
           n == Len(offered)
           own == {i \in DOMAIN offered : offered[i].message.about = "owner"}
           main == Keep(offered, DOMAIN offered \ own)
           f == [i \in Sharing |-> Len(Owners[i].notify)]
<1>1. /\ outbox = << >> /\ Len(audit) = 1 /\ audit[1].entries = Len(found)
      /\ gauge = IF job = "over" THEN candidates ELSE 0
      /\ candidates = (IF Unattended
                       THEN Cardinality({i \in DOMAIN trail : trail[i] = "DELETED"})
                       ELSE Len(found))
      /\ AsPlanned
  BY DEF NoticesInv, RunInv, Ran
<1>2. offered \in Seq(O) /\ config \in Configs
  BY DEF NoticesInv, PostInv, ConfigInv
<1>3. PICK m \in Nat :
        /\ InTwoParts(Planned, m) /\ Reaches(Planned, m, found, Sharing)
        /\ Len(Planned) - m = IF Tellable THEN Len(config.notify) ELSE 0
        /\ Says(Planned, m, found, trail)
  BY <1>1 DEF AsPlanned
<1>4. PICK pl : pl = Planned
  OBVIOUS
<1>5. /\ n \in Nat /\ DOMAIN offered = 1 .. n /\ Len(pl) = n
      /\ \A j \in 1 .. n : pl[j].sink = offered[j].sink /\ pl[j].message = offered[j].message
  <2>1. n \in Nat /\ DOMAIN offered = 1 .. n
    BY <1>2
  <2>2. Planned = [j \in 1 .. n |->
                     IF j <= n THEN [sink |-> offered[j].sink, message |-> offered[j].message]
                     ELSE outbox[j - n]]
    <3>1. Len(outbox) = 0 /\ n + 0 = n
      BY <1>1, <2>1
    <3> QED BY <3>1 DEF Planned
  <2> HIDE DEF n
  <2> QED BY <1>4, <2>1, <2>2
<1>6. m \in 0 .. n
  BY <1>3, <1>4, <1>5 DEF InTwoParts
<1>7. own = 1 .. m
  <2> HIDE DEF n
  <2>1. \A j \in 1 .. m : j \in 1 .. n /\ offered[j].message.about = "owner"
    <3>1. \A j \in 1 .. m : j \in 1 .. n
      BY <1>5, <1>6
    <3>2. \A j \in 1 .. m : pl[j].message.about = "owner"
      BY <1>3, <1>4 DEF InTwoParts
    <3> QED BY <1>5, <3>1, <3>2
  <2>2. \A j \in 1 .. n : j \notin 1 .. m => offered[j].message.about # "owner"
    <3> SUFFICES ASSUME NEW j \in 1 .. n, j \notin 1 .. m PROVE offered[j].message.about # "owner"
      OBVIOUS
    <3>1. j - m \in 1 .. n - m /\ m + (j - m) = j
      BY <1>5, <1>6
    <3>2. pl[m + (j - m)].message.about # "owner"
      BY <1>3, <1>4, <1>5, <3>1 DEF InTwoParts
    <3> QED BY <1>5, <3>1, <3>2
  <2> QED BY <1>5, <2>1, <2>2
<1> HIDE DEF n, own, O
<1>8. /\ Len(main) = n - m /\ DOMAIN main = 1 .. n - m
      /\ \A i \in 1 .. n - m : m + i \in 1 .. n /\ main[i] = offered[m + i]
  <2> DEFINE P == DOMAIN offered \ own
  <2>1. P \cap (1 .. m) = {} /\ (m + 1) .. n \subseteq P
    BY <1>5, <1>6, <1>7
  <2> HIDE DEF P
  <2>2. /\ Len(Keep(offered, P)) = n - m
        /\ \A i \in 1 .. n - m : Keep(offered, P)[i] = offered[m + i]
    BY <1>2, <1>6, <2>1, KeepEnd DEF n
  <2>3. Keep(offered, P) \in Seq(O)
    BY <1>2, KeepPicks
  <2>4. DOMAIN Keep(offered, P) = 1 .. n - m
    BY <2>2, <2>3
  <2>5. \A i \in 1 .. n - m : m + i \in 1 .. n
    BY <1>5, <1>6
  <2> QED BY <2>2, <2>4, <2>5 DEF P
<1> HIDE DEF main
<1>10. [i \in DOMAIN main |-> main[i].sink] = IF Tellable THEN config.notify ELSE << >>
  <2>1. \A i \in 1 .. n - m : main[i].sink = config.notify[i]
    <3> TAKE i \in 1 .. n - m
    <3>1. pl[m + i].sink = config.notify[i]
      BY <1>3, <1>4, <1>5 DEF InTwoParts
    <3> QED BY <1>5, <1>8, <3>1
  <2>2. config.notify = [i \in 1 .. Len(config.notify) |-> config.notify[i]]
    BY <1>2, ConfigTypes
  <2>3. n - m = IF Tellable THEN Len(config.notify) ELSE 0
    BY <1>3, <1>4, <1>5
  <2>4. [i \in DOMAIN main |-> main[i].sink] = [i \in 1 .. n - m |-> config.notify[i]]
    BY <1>8, <2>1
  <2>5. CASE Tellable
    BY <2>2, <2>3, <2>4, <2>5
  <2>6. CASE ~Tellable
    BY <2>3, <2>4, <2>6
  <2> QED BY <2>5, <2>6
<1>11. Cardinality(own) = SumFunction(f)
  <2>1. \A i \in Sharing : /\ i \in DOMAIN Owners /\ Len(Owners[i].notify) \in Nat
                           /\ Sinks[i] = 1 .. Len(Owners[i].notify)
    BY <1>2, ConfigTypes DEF Sharing, Sinks
  <2>2. \A k \in Nat : IsFiniteSet(1 .. k) /\ Cardinality(1 .. k) = k
    <3> TAKE k \in Nat
    <3>1. 1 \in Int /\ k \in Int /\ (IF 1 > k THEN 0 ELSE k - 1 + 1) = k
      OBVIOUS
    <3> QED BY <3>1, FS_Interval
  <2>3. FiniteParts(Sinks, Sharing)
    BY <2>1, <2>2 DEF FiniteParts
  <2>4. IsFiniteSet(Sharing)
    <3>1. DOMAIN Owners = 1 .. Len(Owners) /\ Len(Owners) \in Nat
      BY <1>2, ConfigTypes
    <3>2. IsFiniteSet(DOMAIN Owners)
      BY <2>2, <3>1
    <3>3. Sharing \in SUBSET (DOMAIN Owners)
      BY DEF Sharing
    <3> QED BY <3>2, <3>3, FS_Subset
  <2>5. Sharing = DOMAIN f /\ \A i \in Sharing : f[i] = Cardinality(Sinks[i])
    BY <2>1, <2>2
  <2> HIDE DEF f
  <2>6. SumFunction(f) = Cardinality(PairsIn(Sharing, Sinks))
    BY <2>3, <2>4, <2>5, SumOfSizes
  <2>7. m = Cardinality(PairsIn(Sharing, Sinks))
    BY <1>3 DEF Reaches
  <2> QED BY <1>7, <2>2, <2>6, <2>7
<1>12. \A i \in Sharing : \A sink \in ToSet(Owners[i].notify) :
         \E j \in own : offered[j].sink = sink /\ offered[j].message = Listing("owner", Share(i))
  <2> TAKE i \in Sharing
  <2> TAKE sink \in ToSet(Owners[i].notify)
  <2>1. Falls(found, i) = Share(i)
    BY DEF Falls, Share, First
  <2>2. PICK j \in 1 .. m : pl[j].sink = sink /\ pl[j].message = Listing("owner", Falls(found, i))
    BY <1>3, <1>4 DEF Reaches
  <2>3. j \in 1 .. n /\ j \in own
    BY <1>5, <1>6, <1>7
  <2> QED BY <1>5, <2>1, <2>2, <2>3
<1>13. \A i \in DOMAIN main :
         IF Unattended THEN TellsOf(main[i].message, found, trail)
         ELSE Len(main[i].message.shown) + main[i].message.more = Len(found)
  <2> TAKE i \in DOMAIN main
  <2>1. i \in 1 .. Len(pl) - m /\ pl[m + i].message = main[i].message
    BY <1>5, <1>8
  <2>2. Says(pl, m, found, trail)
    BY <1>3, <1>4
  <2>3. CASE Unattended
    BY <2>1, <2>2, <2>3 DEF Says, Tells
  <2>4. CASE ~Unattended
    BY <2>1, <2>2, <2>4 DEF Says, Counts
  <2> QED BY <2>3, <2>4
<1>14. gauge = IF job = "error" THEN 0
               ELSE IF Unattended THEN Cardinality({i \in DOMAIN trail : trail[i] = "DELETED"})
               ELSE Len(found)
  BY <1>1
<1> QED BY <1>1, <1>10, <1>11, <1>12, <1>13, <1>14 DEF EveryoneTold, main, own, f

-----------------------------------------------------------------------------
LEMMA NoticesAlways == Spec => []NoticesInv
<1>1. NoticesInit => NoticesInv
  BY InitNotices
<1>2. NoticesInv /\ [Next]_<<surveyVars, noticeVars>> => NoticesInv'
  BY NoticesKept
<1> QED BY <1>1, <1>2, PTL DEF Spec

(* The walks and the job are where their code can put them, the cluster is  *)
(* one that can be, and whatever is posted or is still to be                *)
(* (serve.go:629-653) is a message of a known subject that lists things and *)
(* counts those it leaves out.                                              *)
THEOREM NoticesTyped == Spec => []NoticesTypeOK
<1>1. NoticesInv => NoticesTypeOK
  <2> SUFFICES ASSUME NoticesInv PROVE NoticesTypeOK
    OBVIOUS
  <2>1. /\ \A i \in DOMAIN outbox : outbox[i].message \in Message
        /\ \A i \in DOMAIN offered : offered[i].message \in Message
    <3> DEFINE O == [sink : STRING, message : Message, taken : BOOLEAN]
    <3>1. outbox \in Seq(Notice) /\ offered \in Seq(O)
      BY DEF NoticesInv, PostInv
    <3>2. \A x \in Notice \cup O : x.message \in Message
      BY DEF Notice
    <3> HIDE DEF O
    <3> QED BY <3>1, <3>2
  <2>2. {candidates, gauge, faults} \subseteq Nat /\ trail \in Seq({"DELETED", "FAIL", "OTHER", "CONN"})
    BY DEF NoticesInv, PostInv, SurveyInv, ClusterOK, Outcomes
  <2> QED BY <2>1, <2>2
          DEF NoticesInv, ConfigInv, SurveyInv, ClusterOK, WalkOK, NoticesTypeOK
<1> QED BY <1>1, NoticesAlways, PTL

(* The rows of CheckPeers (peers.go:110-206): one for each server that a    *)
(* group read refers to, counting each such group once; a server down all   *)
(* along is a ghost and one up and current all along is not even lagging,   *)
(* whatever fails, recovers, catches up or is elected between two reads and *)
(* whichever groups could not be read.                                      *)
THEOREM PeersAreJudged == Spec => []PeersJudged
<1>1. NoticesInv => PeersJudged
  BY JudgesPeers DEF NoticesInv, SurveyInv
<1> QED BY <1>1, NoticesAlways, PTL

(* The streams that nothing bounds, no other, are found (streams.go:22-31), *)
(* and the sums over the summary of the placement (streamreport.go:137-176) *)
(* are those over the streams: no leader and no replica that could be read  *)
(* is lost or counted twice.                                                *)
THEOREM StreamsAreAccountedFor == Spec => []StreamsAccountedFor
<1>1. NoticesInv => StreamsAccountedFor
  BY AccountsForStreams DEF NoticesInv, SurveyInv
<1> QED BY <1>1, NoticesAlways, PTL

(* The dispatcher sends links to a manifest to sinks of the global list     *)
(* only, and an approval link only when URL and key are configured          *)
(* (serve.go:625-653, 689-724), whatever owners share a name.               *)
THEOREM OwnersOnlyEverWatch == Spec => []OwnersOnlyWatch
<1>1. NoticesInv => OwnersOnlyWatch
  <2> SUFFICES ASSUME NoticesInv, NEW i \in DOMAIN offered PROVE Watched(offered[i])
    BY DEF OwnersOnlyWatch, Watched
  <2>1. i \in 1 .. Len(offered)
    BY DEF NoticesInv, PostInv
  <2> QED BY <2>1 DEF NoticesInv, PostInv
<1> QED BY <1>1, NoticesAlways, PTL

(* If no two owners have one name, a run that is over has offered what it   *)
(* found to all it concerns: down the global list once, and to every sink   *)
(* of each owner the entries that fall to it (serve.go:629-653), in         *)
(* whatever order the map of the owners gave and whoever refused.  Of two   *)
(* owners of one name buildDispatcher keeps the sinks of the second         *)
(* (serve.go:308), and the theorem does not hold.                           *)
THEOREM EveryoneIsTold == Spec => [](DistinctOwners => EveryoneTold)
<1>1. NoticesInv => (DistinctOwners => EveryoneTold)
  BY TellsEveryone
<1> QED BY <1>1, NoticesAlways, PTL
=============================================================================
