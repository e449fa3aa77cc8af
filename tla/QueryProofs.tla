----------------------------- MODULE QueryProofs -----------------------------
(***************************************************************************)
(* The challenge library of the query handler, for any number of values,   *)
(* any length of the list and any life of a challenge, and the number of   *)
(* statements a request takes: theorems about Query.                       *)
(***************************************************************************)
EXTENDS Query, SequenceTheorems, TLAPS

(* What a removal from the middle of a list leaves. *)
LEMMA Removed ==
  ASSUME NEW S, NEW s \in Seq(S), NEW n \in 1..Len(s)
  PROVE  /\ Without(s, n) \in Seq(S)
         /\ Len(Without(s, n)) = Len(s) - 1
         /\ \A k \in 1..Len(s) - 1 : Without(s, n)[k] = IF k < n THEN s[k] ELSE s[k + 1]
<1>a. PICK a : a = SubSeq(s, 1, n - 1)
  OBVIOUS
<1>b. PICK b : b = SubSeq(s, n + 1, Len(s))
  OBVIOUS
<1>0. Len(s) \in Nat
  BY LenProperties
<1>1. a \in Seq(S) /\ Len(a) = n - 1 /\ \A k \in 1..n - 1 : a[k] = s[k]
  BY <1>0, <1>a, SubSeqProperties
<1>2. b \in Seq(S) /\ Len(b) = Len(s) - n /\ \A k \in 1..Len(s) - n : b[k] = s[n + k]
  BY <1>0, <1>b, SubSeqProperties
<1>c. PICK c : c = a \o b
  OBVIOUS
<1>3. /\ c \in Seq(S)
      /\ Len(c) = Len(a) + Len(b)
      /\ \A k \in 1..Len(a) + Len(b) : c[k] = IF k <= Len(a) THEN a[k] ELSE b[k - Len(a)]
  BY <1>c, <1>1, <1>2, ConcatProperties
<1>4. Without(s, n) = c
  BY <1>a, <1>b, <1>c DEF Without
<1>5. ASSUME NEW k \in 1..Len(s) - 1
      PROVE  c[k] = IF k < n THEN s[k] ELSE s[k + 1]
  <2>1. CASE k < n
    BY <1>0, <1>1, <1>2, <1>3, <2>1
  <2>2. CASE k >= n
    <3>1. k - (n - 1) \in 1..Len(s) - n /\ n + (k - (n - 1)) = k + 1 /\ ~(k <= n - 1)
      BY <1>0, <2>2
    <3>2. c[k] = b[k - (n - 1)]
      BY <1>0, <1>1, <1>2, <1>3, <3>1
    <3> QED
      BY <1>2, <3>1, <3>2, <2>2
  <2> QED
    BY <1>0, <2>1, <2>2
<1> QED
  BY <1>0, <1>1, <1>2, <1>3, <1>4, <1>5

(* The list after a tick. *)
LEMMA Ticked ==
  ASSUME TypeOK, Tick
  PROVE  /\ list' \in Seq(Challenges) /\ Len(list') = Len(list)
         /\ \A k \in 1..Len(list) :
              /\ list'[k].val = list[k].val
              /\ list'[k].left = Aged(list[k].left)
         /\ valid' \in [Vals -> 0..Hour]
         /\ \A v \in Vals : valid'[v] = Aged(valid[v])
<1> DEFINE e(k) == [val |-> list[k].val, left |-> Aged(list[k].left)]
<1>1. list \in Seq(Challenges) /\ Len(list) \in Nat /\ DOMAIN list = 1..Len(list)
  BY LenProperties DEF TypeOK
<1>2. ASSUME NEW k \in 1..Len(list)
      PROVE  /\ e(k) \in Challenges /\ e(k).val = list[k].val
             /\ e(k).left = Aged(list[k].left)
  <2>1. list[k] \in Challenges
    BY <1>1, ElementOfSeq
  <2> QED
    BY <2>1, QueryAssumption DEF Challenges, Aged
<1>3. list' = [k \in 1..Len(list) |-> e(k)]
  BY <1>1 DEF Tick
<1> HIDE DEF e
<1>4. list' \in Seq(Challenges) /\ Len(list') = Len(list)
  BY <1>1, <1>2, <1>3, IsASeq, LenProperties
<1>5. valid' \in [Vals -> 0..Hour]
  <2>1. valid \in [Vals -> 0..Hour] /\ valid' = [v \in Vals |-> Aged(valid[v])]
    BY DEF Tick, TypeOK
  <2>2. \A h \in 0..Hour : Aged(h) \in 0..Hour
    BY QueryAssumption DEF Aged
  <2> QED
    BY <2>1, <2>2
<1> QED
  BY <1>2, <1>3, <1>4, <1>5 DEF Tick

(* The two halves of the type invariant: the library with the index of its
   loop, and what the handler and the other goroutines store. *)
Library ==
  /\ list \in Seq(Challenges)
  /\ i \in 0..Len(list)
  /\ valid \in [Vals -> 0..Hour] /\ was \in [Vals -> 0..Hour]

Flags ==
  /\ req \in Requests
  /\ at \in {"read", "gen", "clean", "search", "warm", "emulate", "dial", "ask"}
  /\ reply \in {"none", "hibernation", "starting", "", "stopping", "server"}
  /\ status \in {"offline", "starting", "online", "stopping"}
  /\ suspended \in BOOLEAN /\ majorError \in BOOLEAN

(* TypeOK in two halves: the library, and the rest. *)
LEMMA Halves == TypeOK <=> Library /\ Flags
BY Zenon DEF TypeOK, Library, Flags

(* The library and the loop index after a step. *)
LEMMA LibraryStep ==
  ASSUME TypeOK, [Next]_vars
  PROVE  Library'
<1> USE QueryAssumption
<1>0. Library /\ Len(list) \in Nat
  BY Halves, LenProperties DEF Library
<1>1. CASE Tick
  <2>1. i' = i /\ was' = was
    BY <1>1 DEF Tick
  <2> QED
    BY <1>0, <1>1, <2>1, Ticked DEF Library
<1>2. CASE ReadFrom
  <2>1. i' \in {0, Len(list)} /\ was' = valid /\ list' = list /\ valid' = valid
    BY <1>2 DEF ReadFrom
  <2> QED
    BY <1>0, <2>1 DEF Library
<1>3. CASE Gen
  <2> PICK v \in Vals : /\ list' = Append(list, [val |-> v, left |-> Hour])
                        /\ valid' = [valid EXCEPT ![v] = Hour]
    BY <1>3 DEF Gen
  <2> PICK c : c = [val |-> v, left |-> Hour]
    OBVIOUS
  <2>1. c \in Challenges
    BY DEF Challenges
  <2>2. list' \in Seq(Challenges) /\ Len(list') = Len(list) + 1
    BY <1>0, <2>1, AppendProperties DEF Library
  <2>3. valid' \in [Vals -> 0..Hour] /\ i' = i /\ was' = was
    BY <1>0, <1>3 DEF Library, Gen
  <2> QED
    BY <1>0, <2>2, <2>3 DEF Library
<1>4. CASE Clean
  <2>1. was' = was /\ valid' = valid
    BY <1>4 DEF Clean, history
  <2>2. CASE list' = list /\ (i' = i \/ (i > 0 /\ i' = i - 1))
    BY <1>0, <2>1, <2>2 DEF Library
  <2>3. CASE i > 0 /\ list' = Without(list, i) /\ i' = i - 1
    <3>1. list' \in Seq(Challenges) /\ Len(list') = Len(list) - 1
      BY <2>3, <1>0, Removed DEF Library
    <3> QED
      BY <1>0, <2>1, <2>3, <3>1 DEF Library
  <2> QED
    BY <1>4, <2>2, <2>3, Zenon DEF Clean
<1>5. CASE Search
  <2>1. i' = 0 /\ list' = list /\ was' = was /\ valid' = valid
    BY <1>5 DEF Search, history
  <2> QED
    BY <1>0, <2>1 DEF Library
<1>6. CASE StatsChange \/ Warm \/ Emulate \/ StatsGet \/ UNCHANGED vars
  <2>1. i' = i /\ list' = list /\ was' = was /\ valid' = valid
    BY <1>6 DEF StatsChange, Warm, Emulate, StatsGet, vars, history
  <2> QED
    BY <1>0, <2>1 DEF Library
<1> QED
  BY <1>1, <1>2, <1>3, <1>4, <1>5, <1>6, Zenon DEF Next, Handle

(* What the handler and the other goroutines store. *)
LEMMA FlagsStep ==
  ASSUME TypeOK, [Next]_vars
  PROVE  Flags'
<1>0. Flags
  BY Halves
<1>1. req' \in Requests
  BY <1>0 DEF Flags, Next, Handle, Tick, StatsChange, ReadFrom, Gen, Clean, Search, Warm,
       Emulate, StatsGet, vars
<1>2. at' \in {"read", "gen", "clean", "search", "warm", "emulate", "dial", "ask"}
  BY <1>0, Zenon DEF Flags, Next, Handle, Tick, StatsChange, ReadFrom, Gen, Clean, Search, Warm,
       Emulate, StatsGet, vars
<1>3. reply' \in {"none", "hibernation", "starting", "", "stopping", "server"}
  <2>1. CASE Emulate
    <3>1. \/ reply' = "hibernation"
          \/ status # "offline" /\ reply' = Texts[status]
      BY <2>1, Zenon DEF Emulate
    <3>2. status \in {"offline", "starting", "online", "stopping"}
      BY <1>0, Zenon DEF Flags
    <3>3. Texts["starting"] = "starting" /\ Texts["online"] = "" /\ Texts["stopping"] = "stopping"
      BY DEF Texts
    <3> QED
      BY <3>1, <3>2, <3>3, Zenon
  <2>2. CASE ~Emulate
    BY <1>0, <2>2, Zenon DEF Flags, Next, Handle, Tick, StatsChange, ReadFrom, Gen, Clean, Search, Warm,
       StatsGet, vars
  <2> QED
    BY <2>1, <2>2
<1>4. status' \in {"offline", "starting", "online", "stopping"}
  <2>1. CASE StatsChange
    <3>1. status' = status \/ \E mv \in Moves : status' = mv[2]
      BY <2>1, Zenon DEF StatsChange
    <3>2. \A mv \in Moves : mv[2] \in {"offline", "starting", "online", "stopping"}
      BY DEF Moves
    <3>3. status \in {"offline", "starting", "online", "stopping"}
      BY <1>0, Zenon DEF Flags
    <3> QED
      BY <3>1, <3>2, <3>3, Zenon
  <2>2. CASE ~StatsChange
    BY <1>0, <2>2, Zenon DEF Flags, Next, Handle, Tick, ReadFrom, Gen, Clean, Search, Warm, Emulate,
       StatsGet, vars, stats
  <2> QED
    BY <2>1, <2>2
<1>5. suspended' \in BOOLEAN /\ majorError' \in BOOLEAN
  BY <1>0, Zenon DEF Flags, Next, Handle, Tick, StatsChange, ReadFrom, Gen, Clean, Search, Warm,
       Emulate, StatsGet, vars, stats
<1> QED
  BY <1>1, <1>2, <1>3, <1>4, <1>5, Zenon DEF Flags

(* The initial states are in the domains. *)
LEMMA Initially == Init => TypeOK
<1> SUFFICES ASSUME Init PROVE TypeOK
  OBVIOUS
<1> USE QueryAssumption
<1>1. Flags
  BY Zenon DEF Init, Flags
<1>2. list \in Seq(Challenges) /\ Len(list) = 0 /\ i = 0
  BY EmptySeq DEF Init
<1>3. valid \in [Vals -> 0..Hour] /\ was = valid
  BY DEF Init
<1> QED
  BY <1>1, <1>2, <1>3, Halves DEF Library

(* Every variable of Query stays in its domain; the loop index stays inside
   the list that the loop shrinks. *)
THEOREM TypeCorrect == Spec => []TypeOK
<1>1. TypeOK /\ [Next]_vars => TypeOK'
  BY LibraryStep, FlagsStep, Halves, PTL
<1> QED
  BY Initially, <1>1, PTL DEF Spec

-----------------------------------------------------------------------------
(* What the list says of the values: a challenge never outlives the last one
   issued with its value; while a stats request is handled no value gets
   fresher than it was when the request was read; and the challenges the loop
   has been past were good then. *)
Sound ==
  /\ \A k \in 1..Len(list) : list[k].left <= valid[list[k].val]
  /\ at \in {"clean", "search"} => \A v \in Vals : valid[v] <= was[v]
  /\ at = "clean" => \A k \in 1..Len(list) : k > i => was[list[k].val] > 0
  /\ at = "search" => \A k \in 1..Len(list) : was[list[k].val] > 0

(* KeepsChallenges, with the record taken apart. *)
Kept == \A v \in Vals :
  valid[v] > 0 => \E k \in 1..Len(list) : list[k].val = v /\ list[k].left = valid[v]

(* What TypeOK says of one challenge and one value. *)
LEMMA Elements ==
  ASSUME TypeOK
  PROVE  /\ Len(list) \in Nat /\ DOMAIN list = 1..Len(list) /\ i \in 0..Len(list) /\ Hour \in Nat
         /\ \A k \in 1..Len(list) : /\ list[k] \in Challenges
                                    /\ list[k].val \in Vals /\ list[k].left \in 0..Hour
         /\ \A v \in Vals : valid[v] \in 0..Hour /\ was[v] \in 0..Hour
<1>1. Library
  BY Halves
<1>2. list \in Seq(Challenges) /\ Len(list) \in Nat /\ DOMAIN list = 1..Len(list)
  BY <1>1, LenProperties DEF Library
<1>3. \A k \in 1..Len(list) : list[k] \in Challenges
  BY <1>2, ElementOfSeq
<1>4. \A c \in Challenges : c.val \in Vals /\ c.left \in 0..Hour
  BY DEF Challenges
<1> QED
  BY <1>1, <1>2, <1>3, <1>4, QueryAssumption DEF Library

(* KeepsChallenges without its record. *)
LEMMA KeptIs == ASSUME TypeOK PROVE KeepsChallenges <=> Kept
<1>1. \A k \in 1..Len(list), v \in Vals :
        list[k] = [val |-> v, left |-> valid[v]] <=> list[k].val = v /\ list[k].left = valid[v]
  <2> SUFFICES ASSUME NEW k \in 1..Len(list), NEW v \in Vals
               PROVE list[k] = [val |-> v, left |-> valid[v]] <=> list[k].val = v /\ list[k].left = valid[v]
    OBVIOUS
  <2> PICK c : c = list[k]
    OBVIOUS
  <2>1. c \in Challenges
    BY Elements
  <2>2. c = [val |-> v, left |-> valid[v]] <=> c.val = v /\ c.left = valid[v]
    BY <2>1 DEF Challenges
  <2> QED
    BY <2>2
<1>2. DOMAIN list = 1..Len(list)
  BY Elements
<1>3. \A v \in Vals : (\E k \in DOMAIN list : list[k] = [val |-> v, left |-> valid[v]])
                     <=> \E k \in 1..Len(list) : list[k].val = v /\ list[k].left = valid[v]
  BY <1>1, <1>2
<1> QED
  BY <1>3, Zenon DEF KeepsChallenges, Kept

(* One round of the loop of inLibrary. *)
LEMMA Round ==
  ASSUME TypeOK, Clean
  PROVE  /\ valid' = valid /\ was' = was
         /\ \/ i = 0 /\ at' = "search" /\ list' = list
            \/ i > 0 /\ list[i].left > 0 /\ at' = "clean" /\ list' = list /\ i' = i - 1
            \/ /\ i > 0 /\ list[i].left = 0 /\ at' = "clean" /\ i' = i - 1
               /\ Len(list') = Len(list) - 1
               /\ \A k \in 1..Len(list) - 1 : list'[k] = IF k < i THEN list[k] ELSE list[k + 1]
<1>1. list \in Seq(Challenges) /\ i \in 0..Len(list) /\ Len(list) \in Nat
  BY Halves, Elements DEF Library
<1>2. ASSUME i > 0, list' = Without(list, i)
      PROVE  /\ Len(list') = Len(list) - 1
             /\ \A k \in 1..Len(list) - 1 : list'[k] = IF k < i THEN list[k] ELSE list[k + 1]
  <2>1. i \in 1..Len(list)
    BY <1>1, <1>2
  <2> QED
    BY <1>1, <1>2, <2>1, Removed, Zenon
<1> QED
  BY <1>2, Zenon DEF Clean, history

(* A challenge stays in the list for its hour. *)
LEMMA KeptStep ==
  ASSUME TypeOK, Kept, [Next]_vars
  PROVE  Kept'
<1> USE QueryAssumption
<1>0. /\ Len(list) \in Nat /\ i \in 0..Len(list)
      /\ \A k \in 1..Len(list) : list[k].val \in Vals /\ list[k].left \in 0..Hour
      /\ \A v \in Vals : valid[v] \in 0..Hour
  BY Elements
<1>1. CASE Tick
  <2> SUFFICES ASSUME NEW v \in Vals, valid'[v] > 0
               PROVE  \E k \in 1..Len(list') : list'[k].val = v /\ list'[k].left = valid'[v]
    BY Zenon DEF Kept
  <2>1. valid'[v] = Aged(valid[v]) /\ valid[v] > 0
    BY <1>0, <1>1, Ticked DEF Aged
  <2>2. PICK k \in 1..Len(list) : list[k].val = v /\ list[k].left = valid[v]
    BY <2>1 DEF Kept
  <2>3. list'[k].val = v /\ list'[k].left = valid'[v] /\ Len(list') = Len(list)
    BY <1>1, <2>1, <2>2, Ticked
  <2> QED
    BY <2>3
<1>2. CASE Gen
  <2> PICK n \in Vals : /\ list' = Append(list, [val |-> n, left |-> Hour])
                        /\ valid' = [valid EXCEPT ![n] = Hour]
    BY <1>2 DEF Gen
  <2> PICK c : c = [val |-> n, left |-> Hour]
    OBVIOUS
  <2>1. c \in Challenges /\ c.val = n /\ c.left = Hour
    BY DEF Challenges
  <2>2. list \in Seq(Challenges)
    BY Halves DEF Library
  <2>3. /\ Len(list') = Len(list) + 1 /\ list'[Len(list) + 1] = c
        /\ \A k \in 1..Len(list) : list'[k] = list[k]
    BY <2>1, <2>2, AppendProperties
  <2>4. \A v \in Vals : valid'[v] = IF v = n THEN Hour ELSE valid[v]
    BY Halves DEF Library
  <2>5. ASSUME NEW v \in Vals, valid'[v] > 0
        PROVE  \E k \in 1..Len(list') : list'[k].val = v /\ list'[k].left = valid'[v]
    <3>1. CASE v = n
      BY <1>0, <2>1, <2>3, <2>4, <3>1
    <3>2. CASE v # n
      <4>1. PICK k \in 1..Len(list) : list[k].val = v /\ list[k].left = valid[v]
        BY <2>4, <2>5, <3>2 DEF Kept
      <4> QED
        BY <1>0, <2>3, <2>4, <3>2, <4>1
    <3> QED
      BY <3>1, <3>2
  <2> QED
    BY <2>5, Zenon DEF Kept
<1>3. CASE Clean
  <2> SUFFICES ASSUME NEW v \in Vals, valid'[v] > 0
               PROVE  \E k \in 1..Len(list') : list'[k].val = v /\ list'[k].left = valid'[v]
    BY Zenon DEF Kept
  <2>1. PICK k \in 1..Len(list) : list[k].val = v /\ list[k].left = valid[v]
    BY <1>3, Round DEF Kept
  <2>2. CASE list' = list
    BY <1>3, Round, <2>1, <2>2
  <2>3. CASE /\ i > 0 /\ list[i].left = 0
             /\ Len(list') = Len(list) - 1
             /\ \A m \in 1..Len(list) - 1 : list'[m] = IF m < i THEN list[m] ELSE list[m + 1]
    <3>1. k # i /\ valid' = valid
      BY <1>0, <1>3, Round, <2>1, <2>3
    <3>2. CASE k < i
      BY <1>0, <2>1, <2>3, <3>1, <3>2
    <3>3. CASE k > i
      <4>1. k - 1 \in 1..Len(list) - 1 /\ (k - 1) + 1 = k /\ ~(k - 1 < i)
        BY <1>0, <2>3, <3>3
      <4>2. list'[k - 1] = list[k]
        BY <2>3, <4>1
      <4> QED
        BY <2>1, <2>3, <3>1, <4>1, <4>2
    <3> QED
      BY <1>0, <3>1, <3>2, <3>3
  <2> QED
    BY <1>3, Round, <2>2, <2>3
<1>4. CASE ~Tick /\ ~Gen /\ ~Clean
  <2>1. list' = list /\ valid' = valid
    BY <1>4, Zenon DEF Next, Handle, StatsChange, ReadFrom, Search, Warm, Emulate, StatsGet, vars, history
  <2> QED
    BY <2>1 DEF Kept
<1> QED
  BY <1>1, <1>2, <1>3, <1>4

(* The list agrees with the values issued, and the loop with the request. *)
LEMMA SoundStep ==
  ASSUME TypeOK, Sound, [Next]_vars
  PROVE  Sound'
<1> USE QueryAssumption
<1>0. /\ Len(list) \in Nat /\ i \in 0..Len(list) /\ Hour \in Nat
      /\ \A k \in 1..Len(list) : list[k].val \in Vals /\ list[k].left \in 0..Hour
      /\ \A v \in Vals : valid[v] \in 0..Hour /\ was[v] \in 0..Hour
  BY Elements
<1>1. CASE Tick
  <2>1. at' = at /\ was' = was /\ i' = i /\ Len(list') = Len(list)
    BY <1>1, Ticked DEF Tick
  <2>2. \A v \in Vals : valid'[v] <= valid[v] /\ valid'[v] \in 0..Hour
    BY <1>0, <1>1, Ticked DEF Aged
  <2>3. \A k \in 1..Len(list) : list'[k].val = list[k].val /\ list'[k].left <= valid'[list[k].val]
    BY <1>0, <1>1, Ticked DEF Sound, Aged
  <2>4. at \in {"clean", "search"} => \A v \in Vals : valid'[v] <= was[v]
    BY <1>0, <2>2 DEF Sound
  <2>5. /\ at = "clean" => \A k \in 1..Len(list) : k > i => was[list'[k].val] > 0
        /\ at = "search" => \A k \in 1..Len(list) : was[list'[k].val] > 0
    BY <1>0, <2>3 DEF Sound
  <2>6. \A k \in 1..Len(list') : list'[k].left <= valid'[list'[k].val]
    BY <2>1, <2>3
  <2> QED
    BY <2>1, <2>4, <2>5, <2>6, Zenon DEF Sound
<1>2. CASE ReadFrom
  <2>1. /\ list' = list /\ valid' = valid /\ was' = valid
        /\ at' = "clean" => i' = Len(list)
        /\ at' # "search"
    BY <1>2 DEF ReadFrom
  <2> QED
    BY <1>0, <2>1 DEF Sound
<1>3. CASE Gen
  <2> PICK n \in Vals : /\ list' = Append(list, [val |-> n, left |-> Hour])
                        /\ valid' = [valid EXCEPT ![n] = Hour]
    BY <1>3 DEF Gen
  <2> PICK c : c = [val |-> n, left |-> Hour]
    OBVIOUS
  <2>1. c \in Challenges /\ c.val = n /\ c.left = Hour
    BY DEF Challenges
  <2>2. list \in Seq(Challenges)
    BY Halves DEF Library
  <2>3. /\ Len(list') = Len(list) + 1 /\ list'[Len(list) + 1] = c
        /\ \A k \in 1..Len(list) : list'[k] = list[k]
    BY <2>1, <2>2, AppendProperties
  <2>4. \A v \in Vals : valid'[v] = IF v = n THEN Hour ELSE valid[v]
    BY Halves DEF Library
  <2>5. ASSUME NEW k \in 1..Len(list')
        PROVE  list'[k].left <= valid'[list'[k].val]
    <3>1. CASE k = Len(list) + 1
      BY <1>0, <2>1, <2>3, <2>4, <3>1
    <3>2. CASE k \in 1..Len(list)
      BY <1>0, <2>3, <2>4, <3>2 DEF Sound
    <3> QED
      BY <1>0, <2>3, <3>1, <3>2
  <2>6. at' = "read"
    BY <1>3 DEF Gen
  <2> QED
    BY <2>5, <2>6, Zenon DEF Sound
<1>4. CASE Clean
  <2>1. valid' = valid /\ was' = was /\ at = "clean" /\ at' \in {"clean", "search"}
    BY <1>4, Round DEF Clean
  <2>2. CASE i = 0 /\ at' = "search" /\ list' = list
    BY <1>0, <2>1, <2>2 DEF Sound
  <2>3. CASE i > 0 /\ list[i].left > 0 /\ at' = "clean" /\ list' = list /\ i' = i - 1
    <3>1. was[list[i].val] > 0
      BY <1>0, <2>1, <2>3 DEF Sound
    <3>2. \A k \in 1..Len(list) : k > i - 1 => k > i \/ k = i
      BY <1>0
    <3> QED
      BY <2>1, <2>3, <3>1, <3>2 DEF Sound
  <2>4. CASE /\ i > 0 /\ at' = "clean" /\ i' = i - 1
             /\ Len(list') = Len(list) - 1
             /\ \A m \in 1..Len(list) - 1 : list'[m] = IF m < i THEN list[m] ELSE list[m + 1]
    <3>1. ASSUME NEW m \in 1..Len(list) - 1
          PROVE  \E k \in 1..Len(list) : list'[m] = list[k] /\ (m > i - 1 => k > i)
      <4>1. CASE m < i
        BY <1>0, <2>4, <4>1
      <4>2. CASE m >= i
        <5>1. m + 1 \in 1..Len(list) /\ m + 1 > i /\ ~(m < i)
          BY <1>0, <4>2
        <5> QED
          BY <2>4, <5>1
      <4> QED
        BY <1>0, <4>1, <4>2
    <3> QED
      BY <2>1, <2>4, <3>1 DEF Sound
  <2> QED
    BY <1>4, Round, <2>2, <2>3, <2>4, Zenon
<1>5. CASE ~Tick /\ ~ReadFrom /\ ~Gen /\ ~Clean
  <2>1. list' = list /\ valid' = valid
    BY <1>5, Zenon DEF Next, Handle, StatsChange, Search, Warm, Emulate, StatsGet, vars, history
  <2>2. \/ at' \in {"read", "warm", "emulate", "dial", "ask"}
        \/ at' = at /\ i' = i /\ was' = was
    BY <1>5, Zenon DEF Next, Handle, StatsChange, Search, Warm, Emulate, StatsGet, vars, history
  <2>3. CASE at' = at /\ i' = i /\ was' = was
    BY <2>1, <2>3 DEF Sound
  <2>4. CASE at' \in {"read", "warm", "emulate", "dial", "ask"}
    <3>1. at' # "clean" /\ at' # "search"
      BY <2>4
    <3> QED
      BY <2>1, <3>1 DEF Sound
  <2> QED
    BY <2>2, <2>3, <2>4
<1> QED
  BY <1>1, <1>2, <1>3, <1>4, <1>5

(* The invariant of the library and its loop: the list keeps every good
   challenge, and what the loop has kept was good when the request was read. *)
IInv == TypeOK /\ Kept /\ Sound

(* It holds at every step of the handler and of the timers. *)
THEOREM IInvCorrect == Spec => []IInv
<1>1. Init => IInv
  <2> SUFFICES ASSUME Init PROVE IInv
    OBVIOUS
  <2>1. Len(list) = 0 /\ at = "read" /\ \A v \in Vals : valid[v] = 0
    BY EmptySeq DEF Init
  <2>2. Kept
    BY <2>1 DEF Kept
  <2>3. Sound
    BY <2>1 DEF Sound
  <2> QED
    BY <2>2, <2>3, Initially DEF IInv
<1>2. IInv /\ [Next]_vars => IInv'
  BY LibraryStep, FlagsStep, Halves, KeptStep, SoundStep, PTL DEF IInv
<1> QED
  BY <1>1, <1>2, PTL DEF Spec

(* A challenge is kept for its hour, whatever the loop removes around it. *)
THEOREM KeepsChallengesCorrect == Spec => []KeepsChallenges
<1>1. IInv => KeepsChallenges
  BY KeptIs DEF IInv
<1> QED
  BY <1>1, IInvCorrect, PTL

(* A stats request is answered only if its challenge was good when it was read,
   and refused only if it is not. *)
THEOREM ChecksChallengesCorrect == Spec => ChecksChallenges
<1>1. ASSUME IInv, Search
      PROVE  IF at' = "warm" THEN was[req.val] > 0 ELSE valid[req.val] = 0
  <2>1. at = "search" /\ DOMAIN list = 1..Len(list)
    BY <1>1, Elements DEF Search, IInv
  <2>2. req.val \in Vals
    BY <1>1, Halves DEF IInv, Flags, Requests
  <2>3. CASE InLibrary(req.val)
    <3>1. \E k \in 1..Len(list) : list[k].val = req.val
      BY <2>1, <2>3, Zenon DEF InLibrary
    <3>2. was[req.val] > 0
      BY <1>1, <2>1, <3>1 DEF IInv, Sound
    <3>3. at' = "warm"
      BY <1>1, <2>3 DEF Search
    <3> QED
      BY <3>2, <3>3
  <2>4. CASE ~InLibrary(req.val)
    <3>1. \A k \in 1..Len(list) : list[k].val # req.val
      BY <2>1, <2>4, Zenon DEF InLibrary
    <3>2. ~(valid[req.val] > 0)
      BY <1>1, <2>2, <3>1 DEF IInv, Kept
    <3>3. valid[req.val] = 0
      BY <1>1, <2>2, <3>2, Elements DEF IInv
    <3>4. at' = "read"
      BY <1>1, <2>4 DEF Search
    <3> QED
      BY <3>3, <3>4
  <2> QED
    BY <2>3, <2>4
<1>2. IInv /\ [Next]_vars =>
        [Search => IF at' = "warm" THEN was[req.val] > 0 ELSE valid[req.val] = 0]_vars
  BY <1>1
<1> QED
  BY <1>2, IInvCorrect, PTL DEF Spec, ChecksChallenges

-----------------------------------------------------------------------------
(* The statements of HandlerQuery before it reads the next request. *)
Effort ==
  IF at = "clean" THEN 5 + i
  ELSE IF at = "search" THEN 4
  ELSE IF at = "warm" THEN 3
  ELSE IF at = "dial" THEN 2
  ELSE IF at \in {"gen", "emulate", "ask"} THEN 1 ELSE 0

(* The domain of the measure. *)
LEMMA EffortType == ASSUME TypeOK PROVE Effort \in 0..(Len(list) + 5) /\ (at # "read" => Effort > 0)
<1>1. Len(list) \in Nat /\ i \in 0..Len(list)
  BY Elements
<1>2. at \in {"read", "gen", "clean", "search", "warm", "emulate", "dial", "ask"}
  BY DEF TypeOK
<1> QED
  BY <1>1, <1>2 DEF Effort

(* Each step of the handler brings it nearer to its end. *)
LEMMA EffortStep == ASSUME TypeOK, Handle, at # "read" PROVE Effort' < Effort
<1>1. Len(list) \in Nat /\ i \in Int
  BY Elements
<1>2. CASE Gen
  BY <1>2 DEF Gen, Effort
<1>3. CASE Clean
  BY <1>1, <1>3 DEF Clean, Effort
<1>4. CASE Search
  BY <1>4 DEF Search, Effort
<1>5. CASE Warm
  BY <1>5 DEF Warm, Effort
<1>6. CASE Emulate
  BY <1>6 DEF Emulate, Effort
<1>7. CASE StatsGet
  BY <1>7 DEF StatsGet, Effort
<1> QED
  BY <1>2, <1>3, <1>4, <1>5, <1>6, <1>7 DEF Handle, ReadFrom

(* A request costs the handler at most five statements and one for each
   challenge that is kept, whatever time and the other goroutines do
   meanwhile: expired challenges are removed from a list that shrinks under the
   loop (inLibrary), and a server that does not answer is left (statsGet). *)
THEOREM RequestsAreShort ==
  Spec => [][/\ Handle /\ at # "read" => Effort' < Effort
             /\ at # "read" => Effort' <= Effort
             /\ Effort \in 0..(Len(list) + 5)]_vars
<1>a. TypeOK => Effort \in 0..(Len(list) + 5)
  BY EffortType
<1>b. TypeOK => Effort \in Int
  BY Elements DEF Effort
<1>c. (TypeOK => Effort \in Int)'
  BY <1>b, PTL
<1>1. ASSUME TypeOK, TypeOK', [Next]_vars, at # "read" PROVE Effort' <= Effort
  <2>0. Effort \in Int /\ Effort' \in Int
    BY <1>1, <1>b, <1>c
  <2>1. CASE Handle
    <3>1. Effort' < Effort
      BY <1>1, <2>1, EffortStep
    <3> QED
      BY <2>0, <3>1
  <2>2. CASE ~Handle
    <3>1. UNCHANGED <<at, i>>
      BY <1>1, <2>2 DEF Next, vars, Tick, StatsChange
    <3>2. Effort' = Effort
      BY <3>1 DEF Effort
    <3> QED
      BY <2>0, <3>2
  <2> QED
    BY <2>1, <2>2
<1> QED
  BY <1>a, <1>1, EffortStep, TypeCorrect, PTL DEF Spec
=============================================================================
