---------------------------- MODULE ProcTreeProofs ----------------------------
(***************************************************************************)
(* Proofs about ProcTree, for any processes with any parents: types; that  *)
(* getTreePids collects exactly the tree below the root; that what is      *)
(* suspended is found by the next call; that Stats.Suspended is true; and  *)
(* that a call ends after a number of steps linear in the processes.       *)
(***************************************************************************)
EXTENDS ProcTree, FiniteSetTheorems, TLAPS

USE ProcTreeAssumption

(* What a generation adds lies in the snapshot, and a tree with it is a function
   to numbers. *)
LEMMA ExtendedType ==
  ASSUME TypeOK
  PROVE  /\ NextLayer(layer) \subseteq Pids
         /\ DOMAIN Extended(NextLayer(layer)) = Tree \cup NextLayer(layer)
         /\ Extended(NextLayer(layer)) \in [Tree \cup NextLayer(layer) -> Nat]
<1>1. DOMAIN snap \subseteq Pids
  BY DEF TypeOK, Snapshots
<1>2. IsFiniteSet(Tree)
  BY FS_Subset DEF TypeOK
<1>3. Cardinality(Tree) \in Nat
  BY <1>2, FS_CardinalityType
<1> QED
  BY <1>1, <1>3 DEF NextLayer, Extended, TypeOK, Tree

(* Only the functions of a call that ends or begins are not obvious. *)
LEMMA NoCallType == NoTree \in [{} -> Nat] /\ DOMAIN NoTree = {} /\ [p \in {} |-> NoPid] \in Snapshots
<1>1. [p \in {} |-> NoPid] \in [{} -> Pids \cup {NoPid}]
  OBVIOUS
<1>2. {} \in SUBSET Pids
  OBVIOUS
<1> QED
  BY <1>1, <1>2 DEF NoTree, Snapshots

(* Every step of a call preserves the types. *)
LEMMA CallType ==
  ASSUME TypeOK, CallStep
  PROVE  TypeOK'
<1>1. CASE Snapshot
  <2>1. [p \in alive |-> parent[p]] \in [alive -> Pids \cup {NoPid}]
    BY DEF TypeOK
  <2>2. snap' \in Snapshots
    BY <1>1, <2>1 DEF Snapshot, Snapshots, TypeOK
  <2>3. gen' \in [{Root} -> Nat] /\ Tree' = {Root}
    BY <1>1 DEF Snapshot, Tree
  <2> QED
    BY <1>1, <2>2, <2>3 DEF Snapshot, TypeOK, kernel, caller, Tree
<1>2. CASE Grow
  <2> DEFINE l == NextLayer(layer)
  <2>1. gen' = Extended(l) /\ layer' = l
    BY <1>2 DEF Grow
  <2>2. Tree' = Tree \cup l /\ gen' \in [Tree' -> Nat] /\ Tree' \subseteq Pids
    BY <2>1, ExtendedType DEF Tree, TypeOK
  <2>3. todo' = Tree \/ todo' = todo
    BY <1>2 DEF Grow
  <2>4. at' \in {"signal", at}
    BY <1>2 DEF Grow
  <2> HIDE DEF l
  <2> QED
    BY <1>2, <2>1, <2>2, <2>3, <2>4 DEF Grow, TypeOK, kernel, caller, Tree
<1>3. CASE Fails /\ flaws' \subseteq Flaws
  BY <1>3, NoCallType DEF Fails, TypeOK, kernel, caller, Tree
<1>4. CASE Done
  BY <1>4, NoCallType DEF Done, TypeOK, kernel, Tree
<1>5. ASSUME NEW p \in Pids, Signal(p) PROVE TypeOK'
  <2>1. count' \in [Pids -> 0..MaxCount]
    BY <1>5 DEF Signal, TypeOK
  <2> QED
    BY <1>5, <2>1 DEF Signal, TypeOK, caller, Tree, Flaws
<1>6. ASSUME NEW p \in Pids, Kill(p) PROVE TypeOK'
  BY <1>6 DEF Kill, TypeOK, caller, Tree
<1>7. ASSUME NotFound \/ \E p \in Pids : Refused(p) PROVE Fails /\ flaws' \subseteq Flaws
  BY <1>7 DEF NotFound, Refused, TypeOK, Flaws
<1> QED
  BY <1>1, <1>2, <1>3, <1>4, <1>5, <1>6, <1>7 DEF CallStep

(* Every variable of ProcTree stays in its domain, and the loop of getTreePids
   inside its list. *)
THEOREM TypeCorrect == Spec => []TypeOK
<1>1. Init => TypeOK
  <2> SUFFICES ASSUME Init PROVE TypeOK
    OBVIOUS
  <2>1. alive \subseteq Pids /\ count \in [Pids -> 0..MaxCount]
    BY DEF Init
  <2>2. snap \in Snapshots /\ Tree = {} /\ gen \in [Tree -> Nat]
    BY NoCallType DEF Init, Tree
  <2> QED
    BY <2>1, <2>2 DEF Init, TypeOK, Jobs
<1>2. TypeOK /\ [Next]_vars => TypeOK'
  <2> SUFFICES ASSUME TypeOK, [Next]_vars PROVE TypeOK'
    OBVIOUS
  <2>1. CASE Caller
    BY <2>1 DEF Caller, WarmMS, FreezeTimer, RefreshWarm, RefreshFreeze, ForceFreeze, SoftFreeze,
         Call, TypeOK, Jobs, kernel, caller, Tree
  <2>2. CASE CallStep
    BY <2>2, CallType
  <2>3. ASSUME NEW p \in Pids, Fork(p) \/ End(p) PROVE TypeOK'
    BY <2>3 DEF Fork, End, TypeOK, caller, call, Tree
  <2>4. CASE UNCHANGED vars
    BY <2>4 DEF vars, kernel, caller, call, TypeOK, Tree
  <2> QED
    BY <2>1, <2>2, <2>3, <2>4 DEF Next
<1> QED
  BY <1>1, <1>2, PTL DEF Spec
-----------------------------------------------------------------------------
(* The loop of getTreePids: all children of the earlier generations are
   collected, and nothing but descendants is. *)
Grows ==
  /\ Root \in Tree /\ layer \subseteq Tree /\ Tree \subseteq Descendants(snap)
  /\ \A q \in DOMAIN snap : snap[q] \in Tree \ layer => q \in Tree

TreeInv == (at = "grow" => Grows) /\ TreeIsWhole

(* A set that holds the root and the children of its members holds every
   descendant. *)
LEMMA Closed ==
  ASSUME NEW S \in SUBSET Pids, Root \in S,
         \A q \in DOMAIN snap : snap[q] \in S => q \in S
  PROVE  Descendants(snap) \subseteq S
BY DEF Descendants

(* One round of the loop, which is the last one when it finds no child. *)
LEMMA GrowTree ==
  ASSUME TypeOK, Grows, Grow
  PROVE  (at' = "grow" => Grows') /\ TreeIsWhole'
<1> DEFINE l == NextLayer(layer)
<1>1. gen' = Extended(l) /\ layer' = l /\ snap' = snap /\ l \cap Tree = {}
  BY DEF Grow, NextLayer
<1>2. Tree' = Tree \cup l
  BY <1>1, ExtendedType DEF Tree
<1>3. l \subseteq Descendants(snap)
  <2>1. DOMAIN snap \subseteq Pids
    BY DEF TypeOK, Snapshots
  <2> SUFFICES ASSUME NEW p \in l, NEW S \in SUBSET Pids, Root \in S,
                      \A q \in DOMAIN snap : snap[q] \in S => q \in S
               PROVE  p \in S
    BY <2>1 DEF Descendants, NextLayer
  <2>2. p \in DOMAIN snap /\ snap[p] \in layer
    BY DEF NextLayer
  <2>3. layer \subseteq S
    BY Closed DEF Grows
  <2> QED
    BY <2>2, <2>3
<1>4. \A q \in DOMAIN snap : snap[q] \in Tree => q \in Tree \cup l
  BY DEF Grows, NextLayer
<1>5. Descendants(snap)' = Descendants(snap)
  BY <1>1 DEF Descendants
<1>6. Grows'
  BY <1>1, <1>2, <1>3, <1>4, <1>5 DEF Grows
<1>7. ASSUME l = {} PROVE Tree = Descendants(snap)
  BY <1>4, <1>7, Closed DEF Grows, TypeOK
<1>8. at' = "signal" => l = {}
  BY <1>1 DEF Grow
<1> QED
  BY <1>1, <1>2, <1>5, <1>6, <1>7, <1>8 DEF TreeIsWhole

(* TreeInv is an invariant. *)
LEMMA TreeInvCorrect == Spec => []TreeInv
<1>1. Init => TreeInv
  BY DEF Init, TreeInv, TreeIsWhole
<1>2. TypeOK /\ TreeInv /\ [Next]_vars => TreeInv'
  <2> SUFFICES ASSUME TypeOK, TreeInv, [Next]_vars PROVE TreeInv'
    OBVIOUS
  <2>1. CASE Snapshot
    <3>1. Tree' = {Root} /\ layer' = {Root} /\ at' = "grow"
      BY <2>1 DEF Snapshot, Tree
    <3>2. Root \in Descendants(snap)'
      BY DEF Descendants
    <3> QED
      BY <3>1, <3>2 DEF TreeInv, TreeIsWhole, Grows
  <2>2. CASE Grow
    <3>1. Grows
      BY <2>2 DEF Grow, TreeInv
    <3> QED
      BY <2>2, <3>1, GrowTree DEF TreeInv
  <2>3. CASE at' \in {"rest", "snapshot"}
    BY <2>3 DEF TreeInv, TreeIsWhole
  <2>4. CASE UNCHANGED <<at, snap, gen, layer>>
    BY <2>4 DEF TreeInv, TreeIsWhole, Grows, Tree, Descendants
  <2>5. Snapshot \/ Grow \/ at' \in {"rest", "snapshot"} \/ UNCHANGED <<at, snap, gen, layer>>
    BY DEF Next, vars, call, Caller, WarmMS, FreezeTimer, RefreshWarm, RefreshFreeze, ForceFreeze,
         SoftFreeze, Call, CallStep, Fork, End, NotFound, Refused, Fails, Signal, Kill, Done
  <2> QED
    BY <2>1, <2>2, <2>3, <2>4, <2>5
<1> QED
  BY <1>1, <1>2, TypeCorrect, PTL DEF Spec

(* getTreePids answers exactly the processes below the root, for any number of
   processes that name any parents. *)
THEOREM TreeIsWholeCorrect == Spec => []TreeIsWhole
<1>1. TreeInv => TreeIsWhole
  BY DEF TreeInv
<1> QED
  BY <1>1, TreeInvCorrect, PTL
-----------------------------------------------------------------------------
(* What is suspended can be found: suspend counts c, parents m *)

Held(c) == {p \in Pids : c[p] > 0}

(* A child is not suspended more often than its parent. *)
Led(c, m) == \A p \in Held(c) \ {Root} : m[p] \in Pids /\ c[m[p]] >= c[p]

(* Suspended processes lead from the root to every suspended one. *)
Rooted(c, m) ==
  \A S \in SUBSET Pids :
    Root \in S /\ (\A q \in Held(c) : m[q] \in S => q \in S) => Held(c) \subseteq S

Chain(c, m) == Led(c, m) /\ Rooted(c, m)

Counts == [Pids -> Nat]

(* Nothing suspended is a chain. *)
LEMMA ChainEmpty == ASSUME NEW c, NEW m, Held(c) = {} PROVE Chain(c, m)
  BY DEF Chain, Led, Rooted

(* Only the parents of what is suspended matter. *)
LEMMA ChainKeeps ==
  ASSUME NEW c, NEW m, NEW n, Chain(c, m), \A p \in Held(c) : n[p] = m[p]
  PROVE  Chain(c, n)
BY DEF Chain, Led, Rooted

(* Less is suspended, but still no child more often than its parent. *)
LEMMA ChainShrinks ==
  ASSUME NEW c \in Counts, NEW d \in Counts, NEW m, Chain(c, m), Held(d) \subseteq Held(c),
         \A p \in Held(d) \ {Root} : d[m[p]] >= d[p]
  PROVE  Chain(d, m)
<1>1. \A p \in Held(d) \ {Root} : m[p] \in Held(d)
  <2> SUFFICES ASSUME NEW p \in Held(d) \ {Root} PROVE m[p] \in Held(d)
    OBVIOUS
  <2>1. m[p] \in Pids
    BY DEF Chain, Led
  <2>2. d[m[p]] >= d[p] /\ d[p] > 0 /\ d[p] \in Nat /\ d[m[p]] \in Nat
    BY <2>1 DEF Held, Counts
  <2> QED
    BY <2>1, <2>2 DEF Held
<1>2. Led(d, m)
  BY DEF Chain, Led
<1>3. Rooted(d, m)
  <2> SUFFICES ASSUME NEW S \in SUBSET Pids, Root \in S,
                      \A q \in Held(d) : m[q] \in S => q \in S
               PROVE  Held(d) \subseteq S
    BY DEF Rooted
  <2> DEFINE T == S \cup (Pids \ Held(d))
  <2>1. \A q \in Held(c) : m[q] \in T => q \in T
    BY <1>1 DEF Held
  <2>2. Held(c) \subseteq T
    BY <2>1 DEF Chain, Rooted
  <2> QED
    BY <2>2
<1> QED
  BY <1>2, <1>3 DEF Chain

(* One more suspension, of the root or of a process whose parent is ahead. *)
LEMMA ChainGrows ==
  ASSUME NEW c \in Counts, NEW m, Chain(c, m), NEW p \in Pids,
         p = Root \/ (m[p] \in Pids /\ c[m[p]] > c[p])
  PROVE  Chain([c EXCEPT ![p] = @ + 1], m)
<1> DEFINE d == [c EXCEPT ![p] = @ + 1]
<1>1. d \in Counts /\ d[p] = c[p] + 1 /\ \A q \in Pids : q # p => d[q] = c[q]
  BY DEF Counts
<1>2. Held(d) = Held(c) \cup {p}
  BY <1>1 DEF Held, Counts
<1>3. Led(d, m)
  <2> SUFFICES ASSUME NEW q \in Held(d) \ {Root} PROVE m[q] \in Pids /\ d[m[q]] >= d[q]
    BY DEF Led
  <2>1. CASE q = p
    <3>1. m[p] \in Pids /\ c[m[p]] > c[p] /\ c[p] \in Nat /\ c[m[p]] \in Nat
      BY <2>1 DEF Counts
    <3>2. m[p] # p
      BY <3>1
    <3> QED
      BY <2>1, <3>1, <3>2, <1>1
  <2>2. CASE q # p
    <3>1. q \in Held(c) /\ m[q] \in Pids /\ c[m[q]] >= c[q] /\ c[q] \in Nat /\ c[m[q]] \in Nat
      BY <2>2, <1>2 DEF Chain, Led, Counts, Held
    <3>2. d[q] = c[q] /\ d[m[q]] \in {c[m[q]], c[m[q]] + 1}
      BY <3>1, <2>2, <1>1 DEF Held
    <3> QED
      BY <3>1, <3>2
  <2> QED
    BY <2>1, <2>2
<1>4. Rooted(d, m)
  <2> SUFFICES ASSUME NEW S \in SUBSET Pids, Root \in S,
                      \A q \in Held(d) : m[q] \in S => q \in S
               PROVE  Held(d) \subseteq S
    BY DEF Rooted
  <2>1. Held(c) \subseteq S
    BY <1>2 DEF Chain, Rooted
  <2>2. p \in S
    <3>1. CASE p # Root
      <4>1. m[p] \in Held(c)
        BY <3>1 DEF Held, Counts
      <4> QED
        BY <4>1, <2>1, <1>2
    <3> QED
      BY <3>1
  <2> QED
    BY <2>1, <2>2, <1>2
<1> QED
  BY <1>3, <1>4 DEF Chain

(* A chain lies in the tree that is worked out from its parents. *)
LEMMA ChainFound ==
  ASSUME NEW c, NEW m, NEW s, Chain(c, m), Held(c) \subseteq DOMAIN s,
         \A p \in Held(c) : s[p] = m[p]
  PROVE  Held(c) \subseteq Descendants(s)
<1> SUFFICES ASSUME NEW p \in Held(c), NEW S \in SUBSET Pids, Root \in S,
                    \A q \in DOMAIN s : s[q] \in S => q \in S
             PROVE  p \in S
  BY DEF Descendants, Held
<1> QED
  BY DEF Chain, Rooted

(* The root is suspended when anything is. *)
LEMMA ChainRoot ==
  ASSUME NEW c \in Counts, NEW m, Chain(c, m), Held(c) # {} PROVE Root \in Held(c)
<1> SUFFICES ASSUME Root \notin Held(c) PROVE FALSE
  OBVIOUS
<1>1. \A p \in Held(c) : m[p] \in Held(c)
  <2> SUFFICES ASSUME NEW p \in Held(c) PROVE m[p] \in Held(c)
    OBVIOUS
  <2>1. m[p] \in Pids /\ c[m[p]] >= c[p] /\ c[p] > 0 /\ c[p] \in Nat /\ c[m[p]] \in Nat
    BY DEF Chain, Led, Held, Counts
  <2> QED
    BY <2>1 DEF Held
<1>2. Held(c) \subseteq Pids \ Held(c)
  BY <1>1 DEF Chain, Rooted
<1> QED
  BY <1>2
-----------------------------------------------------------------------------
(* What is suspended can be found: the steps *)

(* What has ended is not suspended. *)
Ended == \A p \in Pids \ alive : count[p] = 0

(* A generation comes after that of its parents. *)
Ranked ==
  /\ Root \in Tree /\ gen[Root] = 0
  /\ \A q \in Tree : gen[q] < Cardinality(Tree)
  /\ \A q \in Tree \ {Root} : q \in DOMAIN snap /\ snap[q] \in Tree /\ gen[snap[q]] < gen[q]

(* As long as a call lasts, the snapshot tells the parents. *)
Snapped ==
  at \in {"grow", "signal"} =>
    Ranked /\ \A p \in alive \cap DOMAIN snap : parent[p] = snap[p]

(* Arithmetic of suspend counts. *)
LEMMA CountArithmetic ==
  \A n, m \in Nat :
    /\ n > 0 \/ n = 0
    /\ n >= 0
    /\ n >= m => n + 1 > m
    /\ m = 0 => n + 1 > m
    /\ (IF n > 0 THEN n - 1 ELSE n) \in Nat
    /\ n >= m => (IF n > 0 THEN n - 1 ELSE n) >= (IF m > 0 THEN m - 1 ELSE m)
    /\ (IF n > 0 THEN n - 1 ELSE n) > 0 => n > 0
OBVIOUS

(* A process that is not behind is ahead when it is suspended once more. *)
LEMMA SuspendAhead ==
  ASSUME NEW c \in Counts, NEW d, NEW p \in Pids, NEW q \in Pids, q # p, c[p] >= c[q],
         d = [c EXCEPT ![p] = @ + 1]
  PROVE  d[p] > d[q]
<1>1. c[p] \in Nat /\ c[q] \in Nat /\ d[p] = c[p] + 1 /\ d[q] = c[q]
  BY DEF Counts
<1> QED
  BY <1>1

(* The order of two counts stays when both are resumed. *)
LEMMA ResumeOrder ==
  ASSUME NEW c \in Counts, NEW d, NEW p \in Pids, NEW q \in Pids, c[q] >= c[p],
         d = [r \in Pids |-> IF c[r] > 0 THEN c[r] - 1 ELSE c[r]]
  PROVE  d[q] >= d[p]
<1>1. c[p] \in Nat /\ c[q] \in Nat
  BY DEF Counts
<1> QED
  BY <1>1

(* What will be suspended when the resume that is under way is through. *)
Left == [p \in Pids |-> IF p \in todo /\ count[p] > 0 THEN count[p] - 1 ELSE count[p]]

(* Whatever is suspended is a chain, or will be when the call is through. *)
ChainInv ==
  "half resume" \notin flaws =>
    /\ at # "signal" \/ job = "suspend" \/ (Resumes /\ Root \in todo) => Chain(count, parent)
    /\ at = "grow" => Held(count) \subseteq DOMAIN snap
    /\ at = "signal" /\ Resumes => Chain(Left, parent)
    /\ at = "signal" /\ job = "kill" => Held(count) \subseteq todo
    /\ at = "signal" /\ job = "suspend" =>
         \A p \in todo \ {Root} : snap[p] \notin todo => count[snap[p]] > count[p]

FoundInv == Ended /\ Snapped /\ ChainInv

(* Both the counts and what will be left of them are counts. *)
LEMMA LeftType ==
  ASSUME TypeOK
  PROVE  count \in Counts /\ Left \in Counts /\ Held(Left) \subseteq Held(count)
<1>1. \A p \in Pids : count[p] \in Nat
  BY DEF TypeOK
<1>2. \A p \in Pids : Left[p] \in Nat /\ (Left[p] > 0 => count[p] > 0)
  BY <1>1 DEF Left
<1> QED
  BY <1>1, <1>2 DEF Counts, Left, TypeOK, Held

(* Who is suspended has not ended. *)
LEMMA HeldRuns ==
  ASSUME Ended
  PROVE  Held(count) \subseteq alive
<1>1. \A p \in Pids : p \notin alive => ~(count[p] > 0)
  BY DEF Ended
<1> QED
  BY <1>1 DEF Held

(* Processes end only when they run, and are born running. *)
LEMMA EndedStep == ASSUME TypeOK, Ended, [Next]_vars PROVE Ended'
<1>1. ASSUME NEW p \in Pids, Fork(p) \/ End(p) \/ Kill(p) PROVE Ended'
  BY <1>1 DEF Fork, End, Kill, Ended, TypeOK
<1>2. ASSUME NEW p \in Pids, Signal(p) PROVE Ended'
  BY <1>2 DEF Signal, Ended, TypeOK
<1>3. CASE UNCHANGED kernel
  BY <1>3 DEF kernel, Ended
<1> QED
  BY <1>1, <1>2, <1>3 DEF Next, vars, Caller, WarmMS, FreezeTimer, RefreshWarm, RefreshFreeze,
     ForceFreeze, CallStep, Snapshot, Grow, NotFound, Refused, Fails, Done

(* A new generation is ranked above the earlier ones. *)
LEMMA GrowRanked == ASSUME TypeOK, Ranked, Grow PROVE Ranked'
<1> DEFINE l == NextLayer(layer)
<1>1. gen' = Extended(l) /\ snap' = snap /\ Tree' = Tree \cup l /\ l \cap Tree = {}
  BY ExtendedType DEF Grow, NextLayer, Tree
<1>2. IsFiniteSet(Tree) /\ IsFiniteSet(Tree') /\ Cardinality(Tree) \in Nat /\ Cardinality(Tree') \in Nat
  <2>1. Tree \subseteq Pids /\ Tree' \subseteq Pids
    BY <1>1, ExtendedType DEF TypeOK
  <2> QED
    BY <2>1, FS_Subset, FS_CardinalityType
<1>3. Cardinality(Tree) <= Cardinality(Tree') /\ (l # {} => Cardinality(Tree) < Cardinality(Tree'))
  <2>1. Tree \in SUBSET Tree' /\ (l # {} => Tree # Tree')
    BY <1>1
  <2>2. Cardinality(Tree) <= Cardinality(Tree') /\ (Cardinality(Tree') = Cardinality(Tree) => Tree' = Tree)
    BY <2>1, <1>2, FS_Subset
  <2> QED
    BY <1>2, <2>1, <2>2
<1>4. /\ \A q \in Tree : gen'[q] = gen[q] /\ gen[q] \in Nat
      /\ \A q \in l : gen'[q] = Cardinality(Tree)
  BY <1>1 DEF Extended, TypeOK
<1>5. \A q \in Tree' : gen'[q] < Cardinality(Tree')
  BY <1>1, <1>2, <1>3, <1>4 DEF Ranked
<1>6. \A q \in Tree' \ {Root} : q \in DOMAIN snap /\ snap[q] \in Tree' /\ gen'[snap[q]] < gen'[q]
  <2>1. \A q \in l : q \in DOMAIN snap /\ snap[q] \in Tree
    BY DEF NextLayer, TypeOK
  <2> QED
    BY <1>1, <1>4, <2>1 DEF Ranked
<1> QED
  BY <1>1, <1>4, <1>5, <1>6 DEF Ranked

(* Every step keeps the snapshot telling the parents. *)
LEMMA SnappedStep == ASSUME TypeOK, Snapped, [Next]_vars PROVE Snapped'
<1>1. CASE Snapshot
  <2>1. Tree' = {Root} /\ gen'[Root] = 0 /\ Cardinality({Root}) = 1
    BY <1>1, FS_Singleton DEF Snapshot, Tree
  <2>2. Ranked'
    BY <2>1 DEF Ranked
  <2>3. \A p \in alive' \cap DOMAIN snap' : parent'[p] = snap'[p]
    BY <1>1 DEF Snapshot, kernel
  <2> QED
    BY <2>2, <2>3 DEF Snapped
<1>2. CASE Grow
  <2>1. Ranked' /\ UNCHANGED <<alive, parent, snap>>
    BY <1>2, GrowRanked DEF Grow, Snapped, kernel
  <2> QED
    BY <1>2, <2>1 DEF Grow, Snapped
<1>3. CASE at' \in {"rest", "snapshot"}
  BY <1>3 DEF Snapped
<1>4. ASSUME UNCHANGED <<at, gen, snap>> PROVE Ranked' = Ranked
  BY <1>4 DEF Ranked, Tree
<1>5. ASSUME NEW p \in Pids, Fork(p) \/ End(p) \/ Kill(p) PROVE Snapped'
  <2>1. UNCHANGED <<at, gen, snap>>
    BY <1>5 DEF Fork, End, Kill, call
  <2>2. \A q \in alive' \cap DOMAIN snap : q \in alive /\ parent'[q] = parent[q]
    BY <1>5 DEF Fork, End, Kill, TypeOK
  <2> QED
    BY <2>1, <2>2, <1>4 DEF Snapped
<1>6. CASE UNCHANGED <<at, gen, snap, alive, parent>>
  BY <1>6, <1>4 DEF Snapped
<1> QED
  BY <1>1, <1>2, <1>3, <1>5, <1>6 DEF Next, vars, call, kernel, Caller, WarmMS, FreezeTimer, RefreshWarm,
     RefreshFreeze, ForceFreeze, SoftFreeze, Call, CallStep, NotFound, Refused, Fails, Signal, Done

(* The running processes do not disturb a chain. *)
LEMMA ChainOfOthers ==
  ASSUME TypeOK, Ended, ChainInv, NEW p \in Pids, Fork(p) \/ End(p) PROVE ChainInv'
<1>1. UNCHANGED <<count, at, job, snap, gen, todo, flaws>>
  BY DEF Fork, End, call
<1>2. \A q \in Held(count) : parent'[q] = parent[q]
  BY DEF Fork, End, Held, Ended, TypeOK
<1>3. Chain(count, parent) => Chain(count, parent')
  BY <1>2, ChainKeeps
<1>4. Chain(Left, parent) => Chain(Left, parent')
  BY <1>2, LeftType, ChainKeeps
<1>5. Left' = Left
  BY <1>1 DEF Left
<1> QED
  BY <1>1, <1>3, <1>4, <1>5 DEF ChainInv, Resumes

(* Processes are signalled after their parents, and the root first. *)
LEMMA SignalOrder ==
  ASSUME TypeOK, Snapped, at = "signal", NEW p \in Pids, IsNext(p)
  PROVE  /\ p # Root => snap[p] \in Tree \ todo
         /\ p # Root => Root \notin todo
         /\ p \in alive /\ p # Root => parent[p] = snap[p]
<1>1. p \in todo /\ p \in Tree /\ \A q \in todo : gen[p] <= gen[q]
  BY DEF IsNext, TypeOK
<1>2. ASSUME p # Root
      PROVE  /\ p \in DOMAIN snap /\ snap[p] \in Tree /\ gen[snap[p]] < gen[p] /\ gen[Root] = 0
             /\ gen[p] \in Nat /\ gen[snap[p]] \in Nat
  BY <1>1, <1>2 DEF Snapped, Ranked, TypeOK
<1>3. p # Root => snap[p] \notin todo /\ Root \notin todo
  BY <1>1, <1>2
<1> QED
  BY <1>2, <1>3 DEF Snapped

(* One process is suspended once more. *)
LEMMA ChainOfSuspend ==
  ASSUME TypeOK, Ended, Snapped, ChainInv, NEW p \in Pids, Signal(p), ~Resumes PROVE ChainInv'
<1>1. /\ at = "signal" /\ job = "suspend" /\ p \in alive /\ p \in todo /\ IsNext(p)
      /\ count' = [count EXCEPT ![p] = @ + 1] /\ todo' = todo \ {p}
      /\ UNCHANGED <<alive, parent, at, job, snap, gen>>
  BY DEF Signal, Resumes, TypeOK, Jobs, IsNext
<1>2. "half resume" \notin flaws' => "half resume" \notin flaws
  BY DEF Signal
<1> SUFFICES ASSUME "half resume" \notin flaws PROVE ChainInv'
  BY <1>2 DEF ChainInv
<1>3. Chain(count, parent) /\ \A q \in todo \ {Root} : snap[q] \notin todo => count[snap[q]] > count[q]
  BY <1>1 DEF ChainInv
<1>4. p = Root \/ (parent[p] \in Pids /\ count[parent[p]] > count[p])
  <2>1. CASE p # Root
    <3>1. snap[p] \in Tree \ todo /\ parent[p] = snap[p]
      BY <1>1, <2>1, SignalOrder
    <3> QED
      BY <1>1, <1>3, <2>1, <3>1 DEF TypeOK
  <2> QED
    BY <2>1
<1>5. Chain(count', parent')
  BY <1>1, <1>3, <1>4, LeftType, ChainGrows
<1>6. /\ \A r \in Pids : count[r] \in Nat
      /\ count'[p] = count[p] + 1 /\ \A r \in Pids : r # p => count'[r] = count[r]
  BY <1>1, LeftType DEF Counts
<1>7. \A q \in todo' \ {Root} : q \in Pids /\ snap[q] \in Pids /\ q \in DOMAIN snap
  BY <1>1 DEF Snapped, Ranked, TypeOK
<1>8. ASSUME NEW q \in todo' \ {Root}, snap[q] \notin todo' PROVE count'[snap[q]] > count'[q]
  <2>1. q \in todo /\ q # p /\ q \in Pids /\ snap[q] \in Pids /\ q \in DOMAIN snap
    BY <1>1, <1>7, <1>8
  <2>2. CASE snap[q] = p
    <3>1. count[p] >= count[q]
      <4>1. CASE count[q] > 0
        <5>1. q \in Held(count) /\ q # Root
          BY <1>8, <2>1, <4>1 DEF Held
        <5>2. parent[q] = p
          BY <1>1, <2>1, <2>2, <5>1, HeldRuns DEF Snapped
        <5> QED
          BY <1>3, <5>1, <5>2 DEF Chain, Led
      <4>2. CASE count[q] = 0
        <5>1. count[p] \in Nat
          BY <1>6
        <5> QED
          BY <4>2, <5>1, CountArithmetic
      <4>3. count[q] > 0 \/ count[q] = 0
        BY <1>6, <2>1, CountArithmetic
      <4> QED
        BY <4>1, <4>2, <4>3
    <3> QED
      BY <1>1, <2>1, <2>2, <3>1, LeftType, SuspendAhead
  <2>3. CASE snap[q] # p
    BY <1>1, <1>3, <1>6, <1>8, <2>1, <2>3
  <2> QED
    BY <2>2, <2>3
<1> QED
  BY <1>1, <1>5, <1>8 DEF ChainInv, Resumes

(* One process is resumed: what will be left does not change. *)
LEMMA ChainOfResume ==
  ASSUME TypeOK, Snapped, ChainInv, NEW p \in Pids, Signal(p), Resumes PROVE ChainInv'
<1>1. /\ at = "signal" /\ job # "kill" /\ job # "suspend" /\ p \in todo /\ IsNext(p)
      /\ count' = [count EXCEPT ![p] = IF @ = 0 THEN 0 ELSE @ - 1] /\ todo' = todo \ {p}
      /\ UNCHANGED <<alive, parent, at, job, snap, gen, flaws>>
  BY DEF Signal, Resumes, IsNext
<1>2. Root \notin todo'
  BY <1>1, SignalOrder
<1>3. Left' = Left
  <2>1. \A q \in Pids : Left'[q] = Left[q]
    BY <1>1 DEF Left, TypeOK
  <2> QED
    BY <2>1 DEF Left
<1> QED
  BY <1>1, <1>2, <1>3 DEF ChainInv, Resumes

(* The tree is worked out: what is suspended is in it. *)
LEMMA ChainOfGrow ==
  ASSUME TypeOK, Ended, Snapped, TreeInv, ChainInv, Grow PROVE ChainInv'
<1>1. UNCHANGED <<alive, parent, count, job, snap, flaws>> /\ at = "grow" /\ at' \in {"grow", "signal"}
  BY DEF Grow, kernel
<1> SUFFICES ASSUME "half resume" \notin flaws PROVE ChainInv'
  BY <1>1 DEF ChainInv
<1>2. Chain(count, parent) /\ Held(count) \subseteq DOMAIN snap
  BY <1>1 DEF ChainInv
<1>3. CASE at' = "grow"
  BY <1>1, <1>2, <1>3 DEF ChainInv
<1>4. CASE at' = "signal"
  <2>1. todo' = Tree /\ Tree' = Tree /\ Tree = Descendants(snap)
    <3>1. layer' = NextLayer(layer) /\ layer' = {} /\ gen' = Extended(layer') /\ todo' = Tree
      BY <1>1, <1>4 DEF Grow
    <3>2. Tree' = Tree
      BY <3>1, ExtendedType DEF Tree
    <3>3. Tree' = Descendants(snap)'
      BY <1>1, <1>4, GrowTree DEF TreeInv, TreeIsWhole
    <3> QED
      BY <1>1, <3>1, <3>2, <3>3 DEF Descendants
  <2>2. Held(count) \subseteq Tree
    <3>1. \A p \in Held(count) : snap[p] = parent[p]
      BY <1>1, <1>2, HeldRuns DEF Snapped
    <3> QED
      BY <1>2, <2>1, <3>1, ChainFound
  <2>3. Ranked'
    BY <1>1, GrowRanked DEF Snapped
  <2>4. \A p \in todo' \ {Root} : snap'[p] \in todo'
    BY <2>1, <2>3 DEF Ranked
  <2>5. Chain(Left', parent')
    <3>1. Left' = [p \in Pids |-> IF count[p] > 0 THEN count[p] - 1 ELSE count[p]]
      BY <1>1, <2>1, <2>2 DEF Left, Held
    <3>2. count \in Counts /\ Left' \in Counts /\ Held(Left') \subseteq Held(count)
      <4>1. count \in Counts /\ \A p \in Pids : count[p] \in Nat
        BY LeftType DEF Counts
      <4>2. \A p \in Pids : Left'[p] \in Nat /\ (Left'[p] > 0 => count[p] > 0)
        BY <3>1, <4>1, CountArithmetic
      <4> QED
        BY <3>1, <4>1, <4>2 DEF Counts, Held
    <3>3. ASSUME NEW p \in Held(Left') \ {Root} PROVE Left'[parent[p]] >= Left'[p]
      <4>1. p \in Held(count) \ {Root} /\ p \in Pids
        BY <3>2, <3>3 DEF Held
      <4>2. parent[p] \in Pids /\ count[parent[p]] >= count[p]
        BY <1>2, <4>1 DEF Chain, Led
      <4> QED
        BY <3>1, <3>2, <4>1, <4>2, ResumeOrder
    <3> QED
      BY <1>1, <1>2, <3>2, <3>3, ChainShrinks
  <2> QED
    BY <1>1, <1>2, <1>4, <2>1, <2>2, <2>4, <2>5 DEF ChainInv, Resumes
<1> QED
  BY <1>1, <1>3, <1>4

(* A call that ends leaves a chain, unless a resume stops half way. *)
LEMMA ChainOfEnd ==
  ASSUME TypeOK, Snapped, ChainInv, NotFound \/ Done \/ \E p \in Pids : Refused(p) PROVE ChainInv'
<1>1. at' = "rest" /\ UNCHANGED <<parent, count>>
  BY DEF NotFound, Done, Refused, Fails, kernel
<1>2. CASE NotFound
  BY <1>1, <1>2 DEF NotFound, ChainInv
<1>3. CASE Done
  <2>1. at = "signal" /\ todo = {} /\ flaws' = flaws
    BY <1>3 DEF Done
  <2>2. Left = count
    BY <2>1 DEF Left, TypeOK
  <2>3. job \in {"suspend", "kill"} \/ Resumes
    BY DEF TypeOK, Jobs, Resumes
  <2>4. Held(count) \subseteq {} => Chain(count, parent)
    BY ChainEmpty
  <2> QED
    BY <1>1, <2>1, <2>2, <2>3, <2>4 DEF ChainInv
<1>4. ASSUME NEW p \in Pids, Refused(p) PROVE ChainInv'
  <2>1. /\ at = "signal" /\ job # "kill" /\ p \in todo
        /\ Resumes => p \notin alive
        /\ Resumes /\ p # Root => "half resume" \in flaws'
        /\ "half resume" \notin flaws' => "half resume" \notin flaws
    BY <1>4 DEF Refused, IsNext
  <2>2. job = "suspend" \/ Resumes
    BY <2>1 DEF TypeOK, Jobs, Resumes
  <2> QED
    BY <1>1, <2>1, <2>2 DEF ChainInv
<1> QED
  BY <1>2, <1>3, <1>4

(* Every step keeps the chains. *)
LEMMA ChainStep ==
  ASSUME TypeOK, TreeInv, FoundInv, [Next]_vars PROVE ChainInv'
<1> USE DEF FoundInv
<1>1. CASE Caller
  <2>1. UNCHANGED <<parent, count, flaws>> /\ at = "rest" /\ at' \in {"rest", "snapshot"}
    BY <1>1 DEF Caller, WarmMS, FreezeTimer, RefreshWarm, RefreshFreeze, ForceFreeze, SoftFreeze, Call,
         TypeOK, kernel
  <2> QED
    BY <2>1 DEF ChainInv
<1>2. CASE Snapshot
  <2>1. UNCHANGED <<parent, count, flaws>> /\ at = "snapshot" /\ at' = "grow" /\ DOMAIN snap' = alive
    BY <1>2 DEF Snapshot, kernel
  <2>2. Held(count) \subseteq alive
    BY HeldRuns
  <2> QED
    BY <2>1, <2>2 DEF ChainInv
<1>3. ASSUME NEW p \in Pids, Kill(p) PROVE ChainInv'
  <2>1. /\ at = "signal" /\ job = "kill" /\ todo' = todo \ {p} /\ UNCHANGED <<at, job, flaws>>
        /\ count' = [count EXCEPT ![p] = 0]
    BY <1>3 DEF Kill
  <2>2. Held(count') \subseteq Held(count) \ {p}
    BY <2>1 DEF Held, TypeOK
  <2> QED
    BY <2>1, <2>2 DEF ChainInv, Resumes
<1>4. CASE UNCHANGED vars
  <2>1. UNCHANGED <<parent, count, flaws, at, job, snap, todo, Left>>
    BY <1>4 DEF vars, kernel, call, Left
  <2> QED
    BY <2>1 DEF ChainInv, Resumes
<1> QED
  BY <1>1, <1>2, <1>3, <1>4, ChainOfOthers, ChainOfSuspend, ChainOfResume, ChainOfGrow, ChainOfEnd
  DEF Next, CallStep

(* FoundInv is an invariant. *)
LEMMA FoundInvCorrect == Spec => []FoundInv
<1>1. Init => FoundInv
  <2>1. Init => Held(count) = {}
    BY DEF Init, Held
  <2> QED
    BY <2>1, ChainEmpty DEF Init, FoundInv, Ended, Snapped, ChainInv
<1>2. TypeOK /\ TreeInv /\ FoundInv /\ [Next]_vars => FoundInv'
  BY EndedStep, SnappedStep, ChainStep DEF FoundInv
<1> QED
  BY <1>1, <1>2, TypeCorrect, TreeInvCorrect, PTL DEF Spec

(* Whatever is suspended between two calls is found by the next one, for any
   processes that fork, end and name any parents, unless a resume has stopped
   half way. *)
THEOREM SuspendedAreFoundCorrect == Spec => []SuspendedAreFound
<1>1. TypeOK /\ FoundInv => SuspendedAreFound
  <2> SUFFICES ASSUME TypeOK, FoundInv, at = "rest", "half resume" \notin flaws,
                      NEW p \in alive, count[p] > 0
               PROVE  p \in Found
    BY DEF SuspendedAreFound
  <2> DEFINE s == [q \in alive |-> parent[q]]
  <2>1. Chain(count, parent) /\ p \in Held(count)
    BY DEF FoundInv, ChainInv, Held, TypeOK
  <2>2. Held(count) \subseteq alive
    BY HeldRuns DEF FoundInv
  <2>3. Root \in alive
    BY <2>1, <2>2, LeftType, ChainRoot
  <2>4. Held(count) \subseteq Descendants(s)
    BY <2>1, <2>2, ChainFound
  <2> QED
    BY <2>1, <2>3, <2>4 DEF Found
<1> QED
  BY <1>1, FoundInvCorrect, TypeCorrect, PTL
-----------------------------------------------------------------------------
(* Stats.Suspended tells the truth *)

(* The flag is told after the last process has been signalled, the root is
   signalled first: between the two the call tells what the flag will say. *)
FlagInv ==
  Root \in alive =>
    /\ at \in {"grow", "signal"} => Root \in DOMAIN snap
    /\ flaws = {} =>
         /\ count[Root] <= 1
         /\ at # "signal" \/ Root \in todo => (suspended <=> count[Root] > 0)
         /\ at = "signal" /\ Root \notin todo => job # "kill" /\ (count[Root] > 0 <=> job = "suspend")

(* The root is not born again. *)
LEMMA RootIsOld == ASSUME TypeOK, [Next]_vars, Root \in alive' PROVE Root \in alive
<1>1. ASSUME NEW p \in Pids, Fork(p) PROVE Root \in alive
  BY <1>1 DEF Fork
<1>2. alive' \subseteq alive \/ \E p \in Pids : Fork(p)
  BY DEF Next, vars, kernel, Caller, WarmMS, FreezeTimer, RefreshWarm, RefreshFreeze, ForceFreeze,
     CallStep, Snapshot, Grow, NotFound, Signal, Refused, Kill, Fails, Done, End
<1> QED
  BY <1>1, <1>2

(* The first signal of a call goes to the root. *)
LEMMA FlagOfSignal ==
  ASSUME TypeOK, Snapped, FlagInv, NEW p \in Pids, Signal(p), Root \in alive PROVE FlagInv'
<1>1. /\ at = "signal" /\ job # "kill" /\ p \in todo /\ IsNext(p) /\ todo' = todo \ {p}
      /\ UNCHANGED <<alive, at, job, snap, suspended>>
  BY DEF Signal, IsNext
<1>2. Root \in DOMAIN snap'
  BY <1>1 DEF FlagInv
<1>3. flaws' = {} => flaws = {} /\ (~Resumes => ~(count[p] > 0))
  BY DEF Signal
<1>4. count[Root] \in Nat
  BY ProcTreeAssumption DEF TypeOK
<1> SUFFICES ASSUME flaws = {}, ~Resumes => ~(count[p] > 0) PROVE FlagInv'
  BY <1>1, <1>2, <1>3 DEF FlagInv
<1>5. CASE p = Root
  <2>1. Root \notin todo'
    BY <1>1, <1>5
  <2>2. CASE Resumes
    <3>1. count'[Root] = 0
      <4>1. count[Root] = 0 \/ count[Root] = 1
        BY <1>4 DEF FlagInv
      <4>2. count'[Root] = IF count[Root] = 0 THEN 0 ELSE count[Root] - 1
        BY <1>5, <2>2 DEF Signal, TypeOK
      <4> QED
        BY <4>1, <4>2
    <3>2. job # "suspend"
      BY <2>2 DEF Resumes
    <3> QED
      BY <1>1, <1>2, <2>1, <3>1, <3>2 DEF FlagInv
  <2>3. CASE ~Resumes
    <3>1. count'[Root] = 1
      <4>1. count[Root] = 0
        BY <1>4, <1>5, <2>3
      <4>2. count'[Root] = count[Root] + 1
        BY <1>5, <2>3 DEF Signal, TypeOK
      <4> QED
        BY <4>1, <4>2
    <3>2. job = "suspend"
      BY <1>1, <2>3 DEF Resumes, TypeOK, Jobs
    <3> QED
      BY <1>1, <1>2, <2>1, <3>1, <3>2 DEF FlagInv
  <2> QED
    BY <2>2, <2>3
<1>6. CASE p # Root
  <2>1. Root \notin todo /\ Root \notin todo'
    BY <1>1, <1>6, SignalOrder
  <2>2. count'[Root] = count[Root]
    BY <1>6 DEF Signal, TypeOK
  <2> QED
    BY <1>1, <1>2, <2>1, <2>2 DEF FlagInv
<1> QED
  BY <1>5, <1>6

(* A call that ends sets the flag to what the root has been told. *)
LEMMA FlagOfEnd ==
  ASSUME TypeOK, FlagInv, NotFound \/ Done \/ \E p \in Pids : Refused(p), Root \in alive' PROVE FlagInv'
<1>1. at' = "rest" /\ UNCHANGED <<alive, count>>
  BY DEF NotFound, Done, Refused, Fails, kernel
<1>2. CASE NotFound
  BY <1>1, <1>2 DEF NotFound, FlagInv
<1>3. CASE Done
  <2>1. at = "signal" /\ Root \notin todo /\ flaws' = flaws
    BY <1>3 DEF Done
  <2>2. job # "kill" => (suspended' <=> job = "suspend")
    BY <1>3 DEF Done
  <2> QED
    BY <1>1, <2>1, <2>2 DEF FlagInv
<1>4. ASSUME NEW p \in Pids, Refused(p) PROVE FlagInv'
  <2>1. flaws' # {}
    BY <1>1, <1>4 DEF Refused
  <2> QED
    BY <1>1, <2>1 DEF FlagInv
<1> QED
  BY <1>2, <1>3, <1>4

(* Every step keeps what a call says of the flag. *)
LEMMA FlagStep == ASSUME TypeOK, Snapped, FlagInv, [Next]_vars PROVE FlagInv'
<1> SUFFICES ASSUME Root \in alive' PROVE FlagInv'
  BY DEF FlagInv
<1>1. Root \in alive
  BY RootIsOld
<1>2. ASSUME at \notin {"signal", "grow"}, at' # "signal", at' = "grow" => Root \in DOMAIN snap',
             UNCHANGED <<count, suspended, flaws>>
      PROVE  FlagInv'
  BY <1>1, <1>2 DEF FlagInv
<1>3. CASE Caller
  <2>1. /\ at = "rest" /\ at' \in {"rest", "snapshot"} /\ UNCHANGED <<count, suspended, flaws>>
    BY <1>3 DEF Caller, WarmMS, FreezeTimer, RefreshWarm, RefreshFreeze, ForceFreeze, SoftFreeze, Call, kernel
  <2> QED
    BY <1>2, <2>1
<1>4. CASE Snapshot
  <2>1. DOMAIN snap' = alive /\ at = "snapshot" /\ at' = "grow" /\ UNCHANGED <<count, suspended, flaws>>
    BY <1>4 DEF Snapshot, kernel
  <2> QED
    BY <1>1, <1>2, <2>1
<1>5. CASE Grow
  <2>1. /\ at = "grow" /\ at' \in {"grow", "signal"} /\ UNCHANGED <<count, suspended, flaws, snap>>
        /\ at' = "signal" => todo' = Tree
    BY <1>5 DEF Grow, kernel
  <2>2. Root \in Tree
    BY <2>1 DEF Snapped, Ranked
  <2> QED
    BY <1>1, <2>1, <2>2 DEF FlagInv
<1>6. ASSUME NEW p \in Pids, Fork(p) \/ End(p) PROVE FlagInv'
  <2>1. UNCHANGED <<count, suspended, at, job, snap, todo, flaws>>
    BY <1>6 DEF Fork, End, call
  <2> QED
    BY <1>1, <2>1 DEF FlagInv
<1>7. ASSUME NEW p \in Pids, Kill(p) PROVE FlagInv'
  <2>1. /\ p # Root /\ todo' = todo \ {p} /\ UNCHANGED <<suspended, at, job, snap, flaws>>
        /\ count'[Root] = count[Root]
    BY <1>7 DEF Kill, TypeOK
  <2> QED
    BY <1>1, <2>1 DEF FlagInv
<1>8. CASE UNCHANGED vars
  <2>1. UNCHANGED <<count, suspended, at, job, snap, todo, flaws>>
    BY <1>8 DEF vars, kernel, call
  <2> QED
    BY <1>1, <2>1 DEF FlagInv
<1> QED
  BY <1>1, <1>3, <1>4, <1>5, <1>6, <1>7, <1>8, FlagOfSignal, FlagOfEnd DEF Next, CallStep

(* Between two calls Stats.Suspended says whether the java process is suspended,
   as long as no call has stopped half way and none has suspended it twice. *)
THEOREM FlagIsTrueCorrect == Spec => []FlagIsTrue
<1>1. Init => FlagInv
  BY DEF Init, FlagInv
<1>2. TypeOK /\ FoundInv /\ FlagInv /\ [Next]_vars => FlagInv'
  BY FlagStep DEF FoundInv
<1>3. FlagInv => FlagIsTrue
  BY DEF FlagInv, FlagIsTrue
<1> QED
  BY <1>1, <1>2, <1>3, TypeCorrect, FoundInvCorrect, PTL DEF Spec
-----------------------------------------------------------------------------
(* Calls are short *)

N == Cardinality(Pids)

(* How many statements a call has left, at most. *)
Effort ==
  CASE at = "rest"     -> 0
    [] at = "signal"   -> 1 + Cardinality(todo)
    [] at = "grow"     -> 2 * N + 2 - Cardinality(Tree)
    [] at = "snapshot" -> 2 * N + 2

(* A set of processes has a size, and a smaller set a smaller one. *)
LEMMA Counted ==
  /\ N \in Nat
  /\ \A S \in SUBSET Pids : Cardinality(S) \in Nat /\ Cardinality(S) <= N
  /\ \A T \in SUBSET Pids : \A S \in SUBSET T :
       Cardinality(S) <= Cardinality(T) /\ (S # T => Cardinality(S) < Cardinality(T))
<1>1. \A S \in SUBSET Pids : IsFiniteSet(S) /\ Cardinality(S) \in Nat
  BY FS_Subset, FS_CardinalityType
<1>2. ASSUME NEW T \in SUBSET Pids, NEW S \in SUBSET T
      PROVE  Cardinality(S) <= Cardinality(T) /\ (S # T => Cardinality(S) < Cardinality(T))
  <2>1. Cardinality(S) <= Cardinality(T) /\ (Cardinality(S) = Cardinality(T) => S = T)
    BY <1>1, FS_Subset
  <2>2. Cardinality(S) \in Nat /\ Cardinality(T) \in Nat
    BY <1>1
  <2> QED
    BY <2>1, <2>2
<1> QED
  BY <1>1, <1>2 DEF N

(* The effort is bounded, and positive while there is a call. *)
LEMMA EffortType == ASSUME TypeOK PROVE Effort \in 0..(2 * N + 2) /\ (at # "rest" => Effort > 0)
<1>1. N \in Nat /\ Cardinality(todo) \in 0..N /\ Cardinality(Tree) \in 0..N
  BY Counted DEF TypeOK
<1>2. at = "rest" => Effort = 0
  BY DEF Effort
<1>3. at = "signal" => Effort = 1 + Cardinality(todo)
  BY DEF Effort
<1>4. at = "grow" => Effort = 2 * N + 2 - Cardinality(Tree)
  BY DEF Effort
<1>5. at = "snapshot" => Effort = 2 * N + 2
  BY DEF Effort
<1>6. at \in {"rest", "snapshot", "grow", "signal"}
  BY DEF TypeOK
<1> QED
  BY <1>1, <1>2, <1>3, <1>4, <1>5, <1>6

(* Every statement brings a call nearer to its end. *)
LEMMA EffortStep == ASSUME TypeOK, TypeOK', CallStep PROVE Effort' < Effort
<1>1. Effort \in Int /\ (at # "rest" => Effort > 0)
  BY EffortType
<1>2. CASE Snapshot
  <2>1. Effort = 2 * N + 2 /\ Effort' = 2 * N + 2 - Cardinality(Tree')
    BY <1>2 DEF Snapshot, Effort, N
  <2>2. Tree' = {Root} /\ Cardinality({Root}) = 1
    BY <1>2, FS_Singleton DEF Snapshot, Tree
  <2>3. 2 * N + 2 - Cardinality(Tree') < 2 * N + 2
    BY <2>2, Counted
  <2> QED
    BY <2>1, <2>3
<1>3. CASE Grow
  <2>1. at = "grow" /\ Effort = 2 * N + 2 - Cardinality(Tree)
    BY <1>3 DEF Grow, Effort
  <2>2. Tree' = Tree \cup layer' /\ layer' \cap Tree = {}
    BY <1>3, ExtendedType DEF Grow, NextLayer, Tree
  <2>3. Tree \subseteq Pids /\ Tree' \subseteq Pids
    BY DEF TypeOK
  <2>4. CASE layer' = {}
    <3>1. Effort' = 1 + Cardinality(Tree)
      BY <1>3, <2>4 DEF Grow, Effort
    <3>2. \A n, m \in Nat : m <= n => 1 + m < 2 * n + 2 - m
      OBVIOUS
    <3>3. 1 + Cardinality(Tree) < 2 * N + 2 - Cardinality(Tree)
      BY <2>3, <3>2, Counted
    <3> QED
      BY <2>1, <3>1, <3>3
  <2>5. CASE layer' # {}
    <3>1. Effort' = 2 * N + 2 - Cardinality(Tree')
      BY <1>3, <2>1, <2>5 DEF Grow, Effort, N
    <3>2. Tree # Tree' /\ Tree \in SUBSET Tree'
      BY <2>2, <2>5
    <3>3. \A n, m, k \in Nat : m < k => 2 * n + 2 - k < 2 * n + 2 - m
      OBVIOUS
    <3>4. Cardinality(Tree) < Cardinality(Tree')
      BY <2>3, <3>2, Counted
    <3>5. N \in Nat /\ Cardinality(Tree) \in Nat /\ Cardinality(Tree') \in Nat
      BY <2>3, Counted
    <3>6. 2 * N + 2 - Cardinality(Tree') < 2 * N + 2 - Cardinality(Tree)
      BY <3>3, <3>4, <3>5
    <3> QED
      BY <2>1, <3>1, <3>6
  <2> QED
    BY <2>4, <2>5
<1>4. ASSUME NEW p \in Pids, Signal(p) \/ Kill(p) PROVE Effort' < Effort
  <2>1. at = "signal" /\ at' = "signal" /\ p \in todo /\ todo' = todo \ {p} /\ todo \subseteq Pids
    BY <1>4 DEF Signal, Kill, IsNext, TypeOK
  <2>2. Effort = 1 + Cardinality(todo) /\ Effort' = 1 + Cardinality(todo')
    BY <2>1 DEF Effort
  <2>3. Cardinality(todo') < Cardinality(todo) /\ Cardinality(todo') \in Nat /\ Cardinality(todo) \in Nat
    <3>1. todo \ {p} \in SUBSET todo /\ todo \ {p} # todo
      BY <2>1
    <3> QED
      BY <2>1, <3>1, Counted
  <2>4. \A n, m \in Nat : m < n => 1 + m < 1 + n
    OBVIOUS
  <2>5. 1 + Cardinality(todo') < 1 + Cardinality(todo)
    BY <2>3, <2>4
  <2> QED
    BY <2>2, <2>5
<1>5. CASE NotFound \/ Done \/ \E p \in Pids : Refused(p)
  <2>1. at # "rest" /\ at' = "rest"
    BY <1>5 DEF NotFound, Done, Refused, Fails
  <2>2. Effort' = 0
    BY <2>1 DEF Effort
  <2> QED
    BY <1>1, <2>1, <2>2
<1> QED
  BY <1>2, <1>3, <1>4, <1>5 DEF CallStep

(* A call takes at most 2 * N + 2 statements, however many processes there are,
   whoever they name as their parents and whatever they do meanwhile: each one
   brings it nearer to its end, and nobody else sends it back. *)
THEOREM CallsAreShort ==
  Spec => [][/\ CallStep => Effort' < Effort
             /\ at # "rest" => Effort' <= Effort
             /\ Effort \in 0..(2 * N + 2)]_vars
<1>a. TypeOK => Effort \in 0..(2 * N + 2)
  BY EffortType
<1>b. (TypeOK => Effort \in 0..(2 * N + 2))'
  BY <1>a, PTL
<1>1. ASSUME TypeOK, TypeOK', [Next]_vars, at # "rest" PROVE Effort' <= Effort
  <2>1. CASE CallStep
    <3>1. Effort' < Effort /\ Effort \in Int /\ Effort' \in Int
      BY <1>1, <2>1, <1>a, <1>b, EffortStep, Counted DEF N
    <3> QED
      BY <3>1
  <2>2. CASE ~CallStep
    <3>1. UNCHANGED <<at, todo, gen>>
      BY <1>1, <2>2 DEF Next, vars, call, Caller, WarmMS, FreezeTimer, RefreshWarm, RefreshFreeze,
         ForceFreeze, SoftFreeze, Call, Fork, End
    <3>2. Effort' = Effort
      BY <3>1 DEF Effort, Tree, N
    <3>3. Effort \in Int
      BY <1>1, EffortType
    <3> QED
      BY <3>2, <3>3
  <2> QED
    BY <2>1, <2>2
<1>2. TypeOK /\ TypeOK' /\ [Next]_vars =>
        [/\ CallStep => Effort' < Effort
         /\ at # "rest" => Effort' <= Effort
         /\ Effort \in 0..(2 * N + 2)]_vars
  BY <1>1, EffortStep, EffortType
<1> QED
  BY <1>2, TypeCorrect, PTL DEF Spec
=============================================================================
