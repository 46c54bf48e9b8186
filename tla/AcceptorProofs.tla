--------------------------- MODULE AcceptorProofs ---------------------------
(***************************************************************************)
(* Proofs about Acceptor, for any finite set of connections: who has which *)
(* descriptor open, and how many children stay zombies.                    *)
(***************************************************************************)
EXTENDS Acceptor, FiniteSetTheorems, TLAPS

\* The descriptors of the parent and of each child follow from where they are.
Descriptors ==
  /\ parent \in {"select", "accept"} => open[Parent] = {Listen}
  /\ parent \in {"fork", "close"} => open[Parent] = {Listen, accepted}
  /\ parent = "stopped" => open[Parent] = {}
  /\ \A c \in Conns :
       /\ child[c] = "starting" => open[c] = {Listen, c}
       /\ child[c] = "serving" => open[c] = {c}
       /\ child[c] \in {"none", "zombie", "reaped"} => open[c] = {}

\* A child is forked once, for a connection that was accepted.
ForkedOnce ==
  /\ \A c \in Conns : conn[c] # "open" => child[c] = "none"
  /\ parent = "fork" => conn[accepted] = "open" /\ child[accepted] = "none"

Links == TypeOK /\ Descriptors /\ ForkedOnce

\* Zombies are a finite set.
LEMMA ZombiesFinite == IsFiniteSet(Zombies) /\ Cardinality(Zombies) \in Nat
<1>1. Zombies \subseteq Conns
  BY DEF Zombies
<1> QED
  BY <1>1, FS_Subset, FS_CardinalityType, AcceptorAssumption

\* The initial state satisfies the invariant.
LEMMA LinksInit == Init => Links
<1> SUFFICES ASSUME Init PROVE Links
  OBVIOUS
<1> USE AcceptorAssumption DEF Init, Procs, Running
<1>1. TypeOK
  BY DEF TypeOK
<1>2. Descriptors
  BY DEF Descriptors
<1>3. ForkedOnce
  BY DEF ForkedOnce
<1> QED
  BY <1>1, <1>2, <1>3 DEF Links

\* Every step keeps the types.
LEMMA TypeStep ==
  ASSUME Links, [Next]_vars
  PROVE  TypeOK'
<1> USE AcceptorAssumption DEF Links, TypeOK, Procs, Running
<1>1. ASSUME NEW c \in Conns, Connect(c)
      PROVE  TypeOK'
  BY <1>1 DEF Connect
<1>2. ASSUME NEW c \in Conns, Reset(c)
      PROVE  TypeOK'
  BY <1>2 DEF Reset
<1>3. CASE Select
  BY <1>3 DEF Select
<1>4. ASSUME NEW c \in Conns, Accept(c)
      PROVE  TypeOK'
  BY <1>4 DEF Accept
<1>5. CASE Stop
  BY <1>5 DEF Stop
<1>6. CASE Fork
  BY <1>6 DEF Fork
<1>7. CASE Close
  BY <1>7 DEF Close, AfterClose, NextFd
<1>8. ASSUME NEW c \in Conns, Start(c)
      PROVE  TypeOK'
  BY <1>8 DEF Start
<1>9. ASSUME NEW c \in Conns, End(c)
      PROVE  TypeOK'
  BY <1>9 DEF End
<1>10. CASE SigChild
  BY <1>10 DEF SigChild, Reapable
<1>11. CASE UNCHANGED vars
  BY <1>11 DEF vars
<1> QED
  BY <1>1, <1>2, <1>3, <1>4, <1>5, <1>6, <1>7, <1>8, <1>9, <1>10, <1>11
     DEF Next, ParentStep

\* Every step keeps the descriptors apart.
LEMMA DescriptorStep ==
  ASSUME Links, TypeOK', [Next]_vars
  PROVE  Descriptors' /\ ForkedOnce'
<1> USE AcceptorAssumption
    DEF Links, TypeOK, Descriptors, ForkedOnce, Procs, Running
<1>1. ASSUME NEW c \in Conns, Connect(c)
      PROVE  Descriptors' /\ ForkedOnce'
  BY <1>1 DEF Connect
<1>2. ASSUME NEW c \in Conns, Reset(c)
      PROVE  Descriptors' /\ ForkedOnce'
  BY <1>2 DEF Reset
<1>3. CASE Select
  BY <1>3 DEF Select
<1>4. ASSUME NEW c \in Conns, Accept(c)
      PROVE  Descriptors' /\ ForkedOnce'
  BY <1>4 DEF Accept
<1>5. CASE Stop
  BY <1>5 DEF Stop
<1>6. CASE Fork
  BY <1>6 DEF Fork
<1>7. CASE Close
  BY <1>7 DEF Close, AfterClose, NextFd
<1>8. ASSUME NEW c \in Conns, Start(c)
      PROVE  Descriptors' /\ ForkedOnce'
  BY <1>8 DEF Start
<1>9. ASSUME NEW c \in Conns, End(c)
      PROVE  Descriptors' /\ ForkedOnce'
  BY <1>9 DEF End
<1>10. CASE SigChild
  BY <1>10 DEF SigChild, Reapable, Zombies
<1>11. CASE UNCHANGED vars
  BY <1>11 DEF vars
<1> QED
  BY <1>1, <1>2, <1>3, <1>4, <1>5, <1>6, <1>7, <1>8, <1>9, <1>10, <1>11
     DEF Next, ParentStep

\* Every step keeps the count of zombies: the end of a child adds one, and so
\* does the signal or the count of merged ones; a delivery takes one from both.
LEMMA MergedStep ==
  ASSUME Links, TypeOK', MergedStay, [Next]_vars
  PROVE  MergedStay'
<1> USE DEF Links, TypeOK, Running
<1>1. CASE Zombies' = Zombies /\ UNCHANGED <<sigchld, merged>>
  <2>1. Running' => Running
    BY DEF Next, ParentStep, Connect, Reset, Select, Accept, Stop, Fork,
           Close, Start, End, SigChild, vars
  <2> QED
    BY <1>1, <2>1 DEF MergedStay
<1>2. CASE Stop
  BY <1>2 DEF Stop, MergedStay
<1>3. CASE Fork
  <2>1. child[accepted] = "none"
    BY <1>3 DEF Fork, ForkedOnce
  <2>2. Zombies' = Zombies
    BY <1>3, <2>1 DEF Fork, Zombies
  <2> QED
    BY <1>1, <1>3, <2>2 DEF Fork
<1>4. ASSUME NEW c \in Conns, Start(c)
      PROVE  MergedStay'
  <2>1. Zombies' = Zombies
    BY <1>4 DEF Start, Zombies
  <2> QED
    BY <1>1, <1>4, <2>1 DEF Start
<1>5. ASSUME NEW c \in Conns, End(c), Running
      PROVE  MergedStay'
  <2>1. Zombies' = Zombies \union {c} /\ c \notin Zombies
    BY <1>5 DEF End, Zombies
  <2>2. Cardinality(Zombies') = Cardinality(Zombies) + 1
    BY <2>1, ZombiesFinite, FS_AddElement
  <2>3. Cardinality(Zombies) = merged + (IF sigchld THEN 1 ELSE 0)
    BY <1>5 DEF MergedStay
  <2>4. sigchld' = TRUE /\ merged' = merged + (IF sigchld THEN 1 ELSE 0)
    BY <1>5 DEF End
  <2> QED
    BY <2>2, <2>3, <2>4 DEF MergedStay
<1>6. ASSUME SigChild
      PROVE  MergedStay'
  <2>1. Cardinality(Zombies) = merged + 1
    BY <1>6 DEF SigChild, MergedStay
  <2>2. PICK z \in Zombies :
          child' = [c \in Conns |-> IF c \in {z} THEN "reaped" ELSE child[c]]
    BY <1>6 DEF SigChild, Reapable
  <2>3. Zombies' = Zombies \ {z}
    BY <2>2 DEF Zombies
  <2>4. Cardinality(Zombies') = Cardinality(Zombies) - 1
    BY <2>2, <2>3, ZombiesFinite, FS_RemoveElement
  <2>5. sigchld' = FALSE /\ merged' = merged
    BY <1>6 DEF SigChild
  <2> QED
    BY <2>1, <2>4, <2>5 DEF MergedStay
<1>7. ASSUME UNCHANGED <<child, sigchld, merged>>
      PROVE  MergedStay'
  BY <1>1, <1>7 DEF Zombies
<1>8. ASSUME ~Running
      PROVE  MergedStay'
  BY <1>8 DEF Next, ParentStep, Connect, Reset, Select, Accept, Stop, Fork,
              Close, Start, End, SigChild, vars, MergedStay
<1> QED
  BY <1>2, <1>3, <1>4, <1>5, <1>6, <1>7, <1>8
     DEF Next, ParentStep, Connect, Reset, Select, Accept, Close, vars

\* The invariant holds in every reachable state.
LEMMA Invariance == Spec => [](Links /\ MergedStay)
<1>1. Init => Links /\ MergedStay
  <2>1. Init => Zombies = {}
    BY DEF Init, Zombies
  <2> QED
    BY <2>1, LinksInit, FS_EmptySet DEF Init, MergedStay
<1>2. Links /\ MergedStay /\ [Next]_vars => (Links /\ MergedStay)'
  BY TypeStep, DescriptorStep, MergedStep DEF Links
<1> QED
  BY <1>1, <1>2, PTL DEF Spec
-----------------------------------------------------------------------------
\* Types are kept.
THEOREM TypeCorrect == Spec => []TypeOK
<1>1. Links => TypeOK
  BY DEF Links
<1> QED
  BY <1>1, Invariance, PTL

\* However many switches connect and leave: a child has no descriptor but its
\* own connection's, and the parent none but the one it is handing over.
THEOREM DescriptorsApart == Spec => []OneProcessEach
<1>1. Links => OneProcessEach
  BY AcceptorAssumption
     DEF Links, TypeOK, Descriptors, ForkedOnce, OneProcessEach, Procs
<1> QED
  BY <1>1, Invariance, PTL

\* However children end: those whose signal was merged into a pending one, and
\* only those, are never reaped.
THEOREM MergedNeverReaped == Spec => []MergedStay
  BY Invariance, PTL
=============================================================================
