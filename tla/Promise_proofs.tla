---------------------------- MODULE Promise_proofs ----------------------------
(***************************************************************************)
(* Proofs about FileOperations: a request that is answered without an      *)
(* error has done all it was asked, and what is noted of a file goes where *)
(* the file goes.  The calls that are left of a request and the volume     *)
(* they have made so far always add up to what was promised.               *)
(***************************************************************************)
EXTENDS Files_proofs, WellFoundedInduction

-----------------------------------------------------------------------------
(* What is left of a request that only makes, or only removes.             *)

\* A path and the drawers above it.
Chained(path) == (Above(path) \cup {path}) \ {<<>>}

\* What a call makes.
Covers(call, p) == IF call.op = "drawer" THEN p \in Chained(call.path) ELSE p = call.path

\* It makes that as the goal has it, or is refused.
Right(goal, v, call) ==
    IF call.op = "drawer"
    THEN \A p \in Chained(call.path) : p \in DOMAIN goal /\ (goal[p] = Drawer \/ IsFile(v, p))
    ELSE call.path \in DOMAIN goal /\ goal[call.path] = File(call.data)

\* The calls w make of v what the goal has and v has not.
Building(goal, v, w) ==
    /\ \A c \in w : c.call.op \in {"drawer", "write", "create"} /\ Right(goal, v, c.call)
    /\ DOMAIN v \subseteq DOMAIN goal
    /\ \A p \in DOMAIN goal :
        (p \in DOMAIN v /\ v[p] = goal[p]) \/ \E c \in w : Covers(c.call, p)

\* The calls w remove from v what the goal has not.
Clearing(goal, v, w) ==
    /\ \A c \in w : c.call.op \in {"remove", "discard"} /\ c.call.path \notin DOMAIN goal
    /\ \A p \in DOMAIN goal : p \in DOMAIN v /\ v[p] = goal[p]
    /\ \A p \in DOMAIN v \ DOMAIN goal : \E c \in w : c.call.path = p

\* The prefixes of a path are it and the drawers above it.
LEMMA ChainedIs ==
    ASSUME NEW path \in Seq(Names), NEW p
    PROVE  p \in Chained(path) <=> p \in Seq(Names) \ {<<>>} /\ IsPrefix(p, path)
<1>1. ASSUME p \in Chained(path) PROVE p \in Seq(Names) \ {<<>>} /\ IsPrefix(p, path)
  <2>1. CASE p = path
    BY <1>1, <2>1, PrefixIs DEF Chained
  <2>2. CASE p \in Above(path)
    <3>1. PICK n \in 1 .. Len(path) - 1 : p = SubSeq(path, 1, n)
      BY <2>2 DEF Above
    <3>2. n \in 0..Len(path)
      BY <3>1
    <3> QED
      BY <1>1, <3>1, <3>2, Beginning DEF Chained
  <2> QED
    BY <1>1, <2>1, <2>2 DEF Chained
<1>2. ASSUME p \in Seq(Names) \ {<<>>}, IsPrefix(p, path) PROVE p \in Chained(path)
  <2>1. Len(p) \in 0..Len(path) /\ p = SubSeq(path, 1, Len(p)) /\ (p # path => Len(p) < Len(path))
    BY <1>2, PrefixIsBeginning
  <2>2. Len(p) # 0 /\ Len(p) \in Nat /\ Len(path) \in Nat
    BY <1>2
  <2>3. CASE p # path
    <3>1. Len(p) \in 1 .. Len(path) - 1
      BY <2>1, <2>2, <2>3
    <3> QED
      BY <1>2, <2>1, <3>1 DEF Above, Chained
  <2> QED
    BY <1>2, <2>3 DEF Chained
<1> QED
  BY <1>1, <1>2

\* What lies above a path.
LEMMA AboveAre ==
    ASSUME NEW path \in Seq(Names), NEW p \in Above(path)
    PROVE  p \in Seq(Names) \ {<<>>} /\ IsPrefix(p, path)
<1>1. PICK n \in 1 .. Len(path) - 1 : p = SubSeq(path, 1, n)
  BY DEF Above
<1>2. n \in 0..Len(path) /\ n # 0
  BY <1>1
<1>3. p \in Seq(Names) /\ Len(p) = n /\ IsPrefix(p, path)
  BY <1>1, <1>2, Beginning
<1> QED
  BY <1>2, <1>3

\* What a call that makes something has made.
LEMMA CoversIs ==
    ASSUME NEW v, IsTree(v), NEW call, IsCall(call), call.op \in {"drawer", "write", "create"},
           NEW goal, Right(goal, v, call), NEW room, Accepts(v, call, room)
    PROVE  LET u == After(v, call) IN
           /\ \A p \in DOMAIN u : p \in DOMAIN v \/ Covers(call, p)
           /\ \A p \in DOMAIN v : p \in DOMAIN u /\ (Covers(call, p) \/ u[p] = v[p])
           /\ \A p : Covers(call, p) => p \in DOMAIN u /\ p \in DOMAIN goal /\ u[p] = goal[p]
           /\ \A p : IsFile(v, p) => IsFile(u, p)
<1> DEFINE u == After(v, call)
           path == call.path
<1>0. path \in Seq(Names)
  BY DEF IsCall
<1>1. CASE call.op = "drawer"
  <2>1. /\ \A p \in Chained(path) : p \in DOMAIN goal /\ (goal[p] = Drawer \/ IsFile(v, p))
        /\ \A n \in 1 .. Len(path) : ~IsFile(v, SubSeq(path, 1, n))
    BY <1>1 DEF Right, Accepts
  <2>2. \A p \in Chained(path) : ~IsFile(v, p)
    <3> SUFFICES ASSUME NEW p \in Chained(path) PROVE ~IsFile(v, p)
      OBVIOUS
    <3>1. p \in Seq(Names) \ {<<>>} /\ IsPrefix(p, path)
      BY <1>0, ChainedIs
    <3>2. Len(p) \in 0..Len(path) /\ p = SubSeq(path, 1, Len(p)) /\ Len(p) # 0
      BY <1>0, <3>1, PrefixIsBeginning
    <3>3. Len(p) \in 1 .. Len(path)
      BY <3>2
    <3> QED
      BY <2>1, <3>2, <3>3
  <2>3. u = [q \in DOMAIN v \cup Missing(v, path) |-> IF q \in DOMAIN v THEN v[q] ELSE Drawer]
    BY <1>1 DEF After
  <2>4. Missing(v, path) = Chained(path) \ DOMAIN v
    BY DEF Missing, Chained
  <2>5. /\ DOMAIN u = DOMAIN v \cup Chained(path)
        /\ \A q \in DOMAIN v : u[q] = v[q]
        /\ \A q \in Chained(path) \ DOMAIN v : u[q] = Drawer
    BY <2>3, <2>4
  <2> HIDE DEF u
  <2>6. \A p \in Chained(path) : u[p] = Drawer
    <3> SUFFICES ASSUME NEW p \in Chained(path), p \in DOMAIN v PROVE u[p] = Drawer
      BY <2>5
    <3>1. v[p] = Drawer
      BY <2>2, ObjectOf DEF IsFile, IsObject
    <3> QED
      BY <2>5, <3>1
  <2>7. \A p : Covers(call, p) <=> p \in Chained(path)
    BY <1>1 DEF Covers
  <2>8. \A p : IsFile(v, p) => IsFile(u, p)
    BY <2>5 DEF IsFile
  <2> QED
    BY <2>1, <2>2, <2>5, <2>6, <2>7, <2>8 DEF u
<1>2. CASE call.op # "drawer"
  <2>1. u = With(v, path, File(call.data))
    BY <1>2 DEF After
  <2>2. /\ DOMAIN u = DOMAIN v \cup {path} /\ u[path] = File(call.data)
        /\ \A q \in DOMAIN v \ {path} : u[q] = v[q]
    BY <2>1 DEF With
  <2>3. path \in DOMAIN goal /\ goal[path] = File(call.data)
    BY <1>2 DEF Right
  <2>4. \A p : Covers(call, p) <=> p = path
    BY <1>2 DEF Covers
  <2> HIDE DEF u, path
  <2>5. \A p : IsFile(v, p) => IsFile(u, p)
    BY <2>2 DEF IsFile, File
  <2> QED
    BY <2>2, <2>3, <2>4, <2>5 DEF u
<1> QED
  BY <1>1, <1>2

\* The next call keeps to it.
LEMMA BuildingGoesOn ==
    ASSUME NEW goal, NEW v, IsTree(v), NEW w, Building(goal, v, w), NEW c \in w,
           IsCall(c.call), NEW room, Accepts(v, c.call, room)
    PROVE  Building(goal, After(v, c.call), w \ {c})
<1> DEFINE u == After(v, c.call)
<1>1. /\ c.call.op \in {"drawer", "write", "create"} /\ Right(goal, v, c.call)
      /\ DOMAIN v \subseteq DOMAIN goal
  BY DEF Building
<1>2. /\ \A p \in DOMAIN u : p \in DOMAIN v \/ Covers(c.call, p)
      /\ \A p \in DOMAIN v : p \in DOMAIN u /\ (Covers(c.call, p) \/ u[p] = v[p])
      /\ \A p : Covers(c.call, p) => p \in DOMAIN u /\ p \in DOMAIN goal /\ u[p] = goal[p]
      /\ \A p : IsFile(v, p) => IsFile(u, p)
  BY <1>1, CoversIs
<1> HIDE DEF u
<1>3. ASSUME NEW d \in w \ {c}
      PROVE  d.call.op \in {"drawer", "write", "create"} /\ Right(goal, u, d.call)
  <2>1. d.call.op \in {"drawer", "write", "create"} /\ Right(goal, v, d.call)
    BY DEF Building
  <2> QED
    BY <1>2, <2>1 DEF Right
<1>4. DOMAIN u \subseteq DOMAIN goal
  BY <1>1, <1>2
<1>5. ASSUME NEW p \in DOMAIN goal
      PROVE  (p \in DOMAIN u /\ u[p] = goal[p]) \/ \E d \in w \ {c} : Covers(d.call, p)
  <2>1. CASE Covers(c.call, p)
    BY <1>2, <2>1
  <2>2. CASE ~Covers(c.call, p) /\ p \in DOMAIN v /\ v[p] = goal[p]
    BY <1>2, <2>2
  <2>3. CASE ~Covers(c.call, p) /\ \E d \in w : Covers(d.call, p)
    BY <2>3
  <2> QED
    BY <2>1, <2>2, <2>3 DEF Building
<1> QED
  BY <1>3, <1>4, <1>5 DEF Building, u

\* So does a call that removes.
LEMMA ClearingGoesOn ==
    ASSUME NEW goal, NEW v, NEW w, Clearing(goal, v, w), NEW c \in w
    PROVE  Clearing(goal, After(v, c.call), w \ {c})
<1> DEFINE u == After(v, c.call)
<1>1. /\ c.call.op \in {"remove", "discard"} /\ c.call.path \notin DOMAIN goal
      /\ \A p \in DOMAIN goal : p \in DOMAIN v /\ v[p] = goal[p]
  BY DEF Clearing
<1>2. u = [q \in DOMAIN v \ {c.call.path} |-> v[q]]
  BY <1>1 DEF After, Without, Restrict
<1>3. DOMAIN u = DOMAIN v \ {c.call.path} /\ \A q \in DOMAIN u : u[q] = v[q]
  BY <1>2
<1> HIDE DEF u
<1>4. \A p \in DOMAIN goal : p \in DOMAIN u /\ u[p] = goal[p]
  BY <1>1, <1>3
<1>5. \A p \in DOMAIN u \ DOMAIN goal : \E d \in w \ {c} : d.call.path = p
  BY <1>3 DEF Clearing
<1>6. \A d \in w \ {c} : d.call.op \in {"remove", "discard"} /\ d.call.path \notin DOMAIN goal
  BY DEF Clearing
<1> QED
  BY <1>4, <1>5, <1>6 DEF Clearing, u

\* When no call is left the goal is reached.
LEMMA GoalReached ==
    ASSUME NEW goal, goal = [p \in DOMAIN goal |-> goal[p]],
           NEW v, v = [p \in DOMAIN v |-> v[p]],
           Building(goal, v, {}) \/ Clearing(goal, v, {})
    PROVE  v = goal
<1>1. DOMAIN v = DOMAIN goal /\ \A p \in DOMAIN goal : v[p] = goal[p]
  <2>1. CASE Building(goal, v, {})
    BY <2>1 DEF Building
  <2>2. CASE Clearing(goal, v, {})
    BY <2>2 DEF Clearing
  <2> QED
    BY <2>1, <2>2
<1> QED
  BY <1>1

-----------------------------------------------------------------------------
(* Where the moves made so far have taken a path.                          *)

\* A set of natural numbers that is not empty has a least.
LEMMA LeastExists ==
    ASSUME NEW T \in SUBSET Nat, T # {}
    PROVE  \E m \in T : \A k \in T : m <= k
<1> DEFINE R == OpToRel(<, Nat)
<1>1. IsWellFoundedOn(R, Nat)
  BY NatLessThanWellFounded
<1>2. ASSUME NEW x \in Nat, NEW y \in Nat, x < y PROVE <<x, y>> \in R
  BY <1>2 DEF OpToRel
<1> HIDE DEF R
<1>3. PICK m \in T : \A y \in T : ~(<<y, m>> \in R)
  BY <1>1, WFMin
<1>4. \A k \in T : ~(k < m)
  BY <1>2, <1>3
<1> QED
  BY <1>3, <1>4

\* Nothing that matches leaves a path where it is.
LEMMA FollowedNot ==
    ASSUME NEW path, NEW moves, \A m \in moves : ~IsPrefix(m.from, path)
    PROVE  Followed(path, moves) = path
<1>1. {m \in moves : IsPrefix(m.from, path)} = {}
  OBVIOUS
<1> QED
  BY <1>1 DEF Followed

\* The longest that matches takes it along.
LEMMA FollowedLongest ==
    ASSUME NEW path, NEW moves, NEW n \in moves, IsPrefix(n.from, path), Len(n.from) \in Nat,
           \A k \in moves \ {n} : IsPrefix(k.from, path) =>
                Len(k.from) \in Nat /\ Len(k.from) < Len(n.from)
    PROVE  Followed(path, moves) = Moved(path, n.from, n.to)
<1> DEFINE matching == {m \in moves : IsPrefix(m.from, path)}
           longest == {m \in matching : \A k \in matching : Len(k.from) <= Len(m.from)}
<1>1. n \in matching /\ \A k \in matching \ {n} : Len(k.from) \in Nat /\ Len(k.from) < Len(n.from)
  OBVIOUS
<1>2. Followed(path, moves) =
        LET m == CHOOSE m \in longest : TRUE IN Moved(path, m.from, m.to)
  BY <1>1 DEF Followed
<1> HIDE DEF matching
<1>3. longest = {n}
  BY <1>1
<1>4. (CHOOSE m \in longest : TRUE) = n
  BY <1>3
<1> QED
  BY <1>2, <1>4

\* One move.
LEMMA FollowedOnce ==
    ASSUME NEW path, NEW m, Len(m.from) \in Nat
    PROVE  Followed(path, {m}) = Moved(path, m.from, m.to)
<1>1. CASE IsPrefix(m.from, path)
  BY <1>1, FollowedLongest
<1>2. CASE ~IsPrefix(m.from, path)
  BY <1>2, FollowedNot DEF Moved
<1> QED
  BY <1>1, <1>2

\* What is moved by one request are different objects.
LEMMA MovesDiffer ==
    ASSUME NEW t, IsTree(t), NEW r, IsAsked(r, t), Moving(r), MoveAllowed(t, r),
           NEW m \in MovesOf(r), NEW n \in MovesOf(r), m.from = n.from
    PROVE  m = n
<1>1. m.to = n.to
  <2>1. /\ r.op = "move" => m.to = Append(r.to, Last(m.from)) /\ n.to = Append(r.to, Last(n.from))
        /\ r.op = "rename" => m.to = r.to /\ n.to = r.to
    BY MovesAre
  <2> QED
    BY <2>1 DEF Moving
<1> QED
  BY <1>1 DEF MoveAllowed

\* What follows of the moves of one request, those that match a path.
LEMMA LongestMove ==
    ASSUME NEW t, IsTree(t), NEW r, IsAsked(r, t), Moving(r), MoveAllowed(t, r),
           NEW done \in SUBSET MovesOf(r), NEW path \in Seq(Names),
           NEW m \in done, IsPrefix(m.from, path)
    PROVE  \E n \in done :
              /\ IsPrefix(n.from, path)
              /\ \A k \in done \ {n} : IsPrefix(k.from, path) =>
                    Len(k.from) \in Nat /\ Len(k.from) < Len(n.from)
              /\ Followed(path, done) = Moved(path, n.from, n.to)
<1>1. \A k \in done : k.from \in Seq(Names) /\ Len(k.from) \in Nat
  <2>1. \A k \in MovesOf(r) : k.from \in Seq(Names)
    BY MovesAre
  <2> QED
    BY <2>1
<1> DEFINE matching == {k \in done : IsPrefix(k.from, path)}
           rest == {Len(path) - Len(k.from) : k \in matching}
<1>2. rest \in SUBSET Nat
  <2>1. \A k \in matching : Len(k.from) <= Len(path) /\ Len(k.from) \in Nat /\ Len(path) \in Nat
    BY <1>1, PrefixIs
  <2> QED
    BY <2>1
<1>3. m \in matching /\ rest # {}
  OBVIOUS
<1> HIDE DEF rest
<1>4. PICK l \in rest : \A k \in rest : l <= k
  BY <1>2, <1>3, LeastExists
<1>5. PICK n \in matching : l = Len(path) - Len(n.from)
  BY DEF rest
<1>6. ASSUME NEW k \in done \ {n}, IsPrefix(k.from, path)
      PROVE  Len(k.from) \in Nat /\ Len(k.from) < Len(n.from)
  <2>1. /\ k.from \in Seq(Names) /\ n.from \in Seq(Names) /\ n \in done /\ IsPrefix(n.from, path)
        /\ Len(k.from) \in Nat /\ Len(n.from) \in Nat /\ Len(path) \in Nat
    BY <1>1
  <2>2. Len(path) - Len(k.from) \in rest
    BY <1>6 DEF rest
  <2>3. Len(path) - Len(n.from) <= Len(path) - Len(k.from)
    BY <1>4, <1>5, <2>2
  <2>4. Len(k.from) # Len(n.from)
    <3>1. ASSUME Len(k.from) = Len(n.from) PROVE k.from = n.from
      <4>1. \A i \in 1..Len(k.from) : k.from[i] = path[i]
        BY <1>6, <2>1, PrefixIs
      <4>2. \A i \in 1..Len(n.from) : n.from[i] = path[i]
        BY <2>1, PrefixIs
      <4> QED
        BY <2>1, <3>1, <4>1, <4>2, PathsEqual
    <3> QED
      BY <2>1, <3>1, MovesDiffer
  <2> QED
    BY <2>1, <2>3, <2>4
<1>7. n \in done /\ IsPrefix(n.from, path) /\ Len(n.from) \in Nat
  BY <1>1
<1>8. Followed(path, done) = Moved(path, n.from, n.to)
  BY <1>6, <1>7, FollowedLongest
<1> QED
  BY <1>6, <1>7, <1>8

\* An object that is still to be moved and is where it was has not been moved
\* with a drawer.
LEMMA Untouched ==
    ASSUME NEW t, IsTree(t), NEW r, IsAsked(r, t), Moving(r), MoveAllowed(t, r),
           NEW done \in SUBSET MovesOf(r), NEW m \in MovesOf(r),
           NEW p \in DOMAIN t, Followed(p, done) = m.from
    PROVE  \A n \in done : ~IsPrefix(n.from, m.from)
<1>1. p \in Seq(Names) /\ m.from \in Seq(Names)
  BY ObjectOf, MovesAre
<1>2. ASSUME NEW n \in done, IsPrefix(n.from, p) PROVE FALSE
  <2>1. PICK k \in done : IsPrefix(k.from, p) /\ Followed(p, done) = Moved(p, k.from, k.to)
    BY <1>1, <1>2, LongestMove
  <2>2. ~IsPrefix(m.from, Moved(p, k.from, k.to))
    BY <2>1, PlacesApart
  <2> QED
    BY <1>1, <2>1, <2>2, PrefixIs
<1>3. p = m.from
  BY <1>2, FollowedNot
<1> QED
  BY <1>2, <1>3

\* Where a path is after one move more.
LEMMA FollowedFurther ==
    ASSUME NEW t, IsTree(t), NEW r, IsAsked(r, t), Moving(r), MoveAllowed(t, r),
           NEW done \in SUBSET MovesOf(r), NEW m \in MovesOf(r) \ done,
           \A n \in done : ~IsPrefix(n.from, m.from),
           NEW p \in DOMAIN t
    PROVE  Followed(p, done \cup {m}) = Moved(Followed(p, done), m.from, m.to)
<1>1. /\ p \in Seq(Names) /\ m.from \in Seq(Names)
      /\ \A n \in done : n.from \in Seq(Names) /\ Len(n.from) \in Nat
  <2>1. \A n \in MovesOf(r) : n.from \in Seq(Names)
    BY MovesAre
  <2> QED
    BY <2>1, ObjectOf
<1>2. CASE \A n \in done : ~IsPrefix(n.from, p)
  <2>1. Followed(p, done) = p
    BY <1>2, FollowedNot
  <2>2. CASE IsPrefix(m.from, p)
    <3>1. m \in done \cup {m} /\ \A k \in (done \cup {m}) \ {m} : ~IsPrefix(k.from, p)
      BY <1>2
    <3>2. Len(m.from) \in Nat
      BY <1>1
    <3> QED
      BY <2>1, <2>2, <3>1, <3>2, FollowedLongest
  <2>3. CASE ~IsPrefix(m.from, p)
    <3>1. Followed(p, done \cup {m}) = p
      BY <1>2, <2>3, FollowedNot
    <3> QED
      BY <2>1, <2>3, <3>1 DEF Moved
  <2> QED
    BY <2>2, <2>3
<1>3. CASE \E n \in done : IsPrefix(n.from, p)
  <2>1. PICK n \in done :
          /\ IsPrefix(n.from, p)
          /\ \A k \in done \ {n} : IsPrefix(k.from, p) =>
                Len(k.from) \in Nat /\ Len(k.from) < Len(n.from)
          /\ Followed(p, done) = Moved(p, n.from, n.to)
    BY <1>1, <1>3, LongestMove
  <2>2. Moved(Followed(p, done), m.from, m.to) = Followed(p, done)
    <3>1. ~IsPrefix(m.from, Moved(p, n.from, n.to))
      BY <2>1, PlacesApart
    <3> QED
      BY <2>1, <3>1 DEF Moved
  <2>3. IsPrefix(m.from, p) => Len(m.from) \in Nat /\ Len(m.from) < Len(n.from)
    <3> SUFFICES ASSUME IsPrefix(m.from, p) PROVE Len(m.from) < Len(n.from)
      BY <1>1
    <3>1. IsPrefix(m.from, n.from)
      BY <1>1, <2>1, PrefixesNest
    <3>2. m.from # n.from
      BY <3>1
    <3> QED
      BY <1>1, <3>1, <3>2, PrefixIsBeginning
  <2>4. Followed(p, done \cup {m}) = Moved(p, n.from, n.to)
    <3>1. n \in done \cup {m} /\ Len(n.from) \in Nat
          /\ \A k \in (done \cup {m}) \ {n} : IsPrefix(k.from, p) =>
                Len(k.from) \in Nat /\ Len(k.from) < Len(n.from)
      BY <1>1, <2>1, <2>3
    <3> QED
      BY <2>1, <3>1, FollowedLongest
  <2> QED
    BY <2>1, <2>2, <2>4
<1> QED
  BY <1>2, <1>3

\* A tree in which an object was renamed has every object, at its place.
LEMMA RenamedAll ==
    ASSUME NEW t, IsTree(t), NEW from \in DOMAIN t, NEW to \in Seq(Names) \ {<<>>},
           IsDrawer(t, Front(to)), ~IsPrefix(from, Front(to)), Exists(t, to) => to = from
    PROVE  /\ DOMAIN Renamed(t, from, to) = {Moved(p, from, to) : p \in DOMAIN t}
           /\ \A p \in DOMAIN t : Renamed(t, from, to)[Moved(p, from, to)] = t[p]
<1> DEFINE u == Renamed(t, from, to)
           kept == DOMAIN t \ Below(t, from)
           there == {Moved(p, from, to) : p \in Below(t, from)}
<1>1. DOMAIN u = kept \cup there
  BY DEF Renamed
<1>2. /\ IsTree(u)
      /\ \A q \in DOMAIN t : ~IsPrefix(from, q) => q \in DOMAIN u /\ u[q] = t[q]
      /\ \A q \in DOMAIN t : IsPrefix(from, q) =>
            Moved(q, from, to) \in DOMAIN u /\ u[Moved(q, from, to)] = t[q]
  BY RenamedIs
<1> HIDE DEF u
<1>3. \A q \in DOMAIN t : ~IsPrefix(from, q) => Moved(q, from, to) = q
  BY DEF Moved
<1>4. kept = {q \in DOMAIN t : ~IsPrefix(from, q)}
  BY DEF Below
<1>5. there = {Moved(p, from, to) : p \in {q \in DOMAIN t : IsPrefix(from, q)}}
  BY DEF Below
<1> HIDE DEF kept, there
<1>6. DOMAIN u = {Moved(p, from, to) : p \in DOMAIN t}
  BY <1>1, <1>3, <1>4, <1>5
<1>7. \A p \in DOMAIN t : u[Moved(p, from, to)] = t[p]
  BY <1>2, <1>3
<1> QED
  BY <1>6, <1>7 DEF u

-----------------------------------------------------------------------------
(* What is left of a move in an image.                                     *)

TurnOf(m) == Turn(m.turn, 0, Renaming(m.from, m.to))

\* The moves that were made.
Made(r, w) == {m \in MovesOf(r) : TurnOf(m) \notin w}

\* What is in t is in v where the moves made so far have taken it.  They were
\* made in their turns, and of two that lie in one another the inner went first.
Shifted(t, r, v, w) ==
    /\ \A c \in w : \E m \in MovesOf(r) : c = TurnOf(m)
    /\ DOMAIN v = {Followed(p, Made(r, w)) : p \in DOMAIN t}
    /\ \A p \in DOMAIN t : v[Followed(p, Made(r, w))] = t[p]
    /\ \A m \in Made(r, w) : \A c \in w : m.turn < c.turn
    /\ \A m, n \in Made(r, w) : m # n /\ IsPrefix(n.from, m.from) => m.turn < n.turn

\* The turns of the moves tell them apart.
LEMMA TurnsDiffer ==
    ASSUME NEW t, NEW r, IsAsked(r, t), NEW m \in MovesOf(r)
    PROVE  /\ m.turn \in Nat
           /\ \A n \in MovesOf(r) : n.turn = m.turn => n = m
           /\ TurnOf(m).turn = m.turn /\ TurnOf(m).call = Renaming(m.from, m.to)
<1>1. \A k \in MovesOf(r) : \E i \in DOMAIN r.from :
        k = [turn |-> i, from |-> r.from[i], to |-> Destination(r, r.from[i])]
  BY DEF MovesOf
<1>2. \A n \in MovesOf(r) : n.turn = m.turn => n = m
  BY <1>1
<1>3. m.turn \in DOMAIN r.from
  BY <1>1
<1>4. m.turn \in Nat
  <2>1. DOMAIN r.from = 1..Len(r.from)
    BY DEF IsAsked
  <2> QED
    BY <1>3, <2>1
<1>5. TurnOf(m).turn = m.turn /\ TurnOf(m).call = Renaming(m.from, m.to)
  BY DEF TurnOf, Turn
<1> QED
  BY <1>2, <1>4, <1>5

\* The next move, when the volume accepts it.
LEMMA ShiftedGoesOn ==
    ASSUME NEW t, IsTree(t), NEW r, IsAsked(r, t), Moving(r), MoveAllowed(t, r),
           NEW v, IsTree(v), NEW w, Shifted(t, r, v, w),
           NEW c \in w, ~\E d \in w : Sooner(d, c), NEW room, Accepts(v, c.call, room)
    PROVE  Shifted(t, r, After(v, c.call), w \ {c})
<1>1. PICK m \in MovesOf(r) : c = TurnOf(m)
  BY DEF Shifted
<1>2. /\ m.turn \in Nat /\ c.turn = m.turn /\ c.call = Renaming(m.from, m.to)
      /\ \A n \in MovesOf(r) : n.turn = m.turn => n = m
  BY <1>1, TurnsDiffer
<1> DEFINE done == Made(r, w)
           u == After(v, c.call)
<1>3. m \notin done /\ done \in SUBSET MovesOf(r)
  BY <1>1 DEF Made
<1>4. Made(r, w \ {c}) = done \cup {m}
  <2>1. \A n \in MovesOf(r) : TurnOf(n) = c => n = m
    BY <1>2, TurnsDiffer
  <2> QED
    BY <1>1, <2>1 DEF Made
<1>5. /\ m.from \in DOMAIN v /\ IsDrawer(v, Front(m.to)) /\ ~IsPrefix(m.from, Front(m.to))
      /\ Exists(v, m.to) => m.to = m.from
      /\ u = Renamed(v, m.from, m.to)
  <2>1. c.call.op = "rename" /\ c.call.path = m.from /\ c.call.to = m.to
    BY <1>2 DEF Renaming
  <2> QED
    BY <2>1 DEF Accepts, After
<1>6. m.to \in Seq(Names) \ {<<>>}
  BY MovesAre
<1>7. /\ DOMAIN u = {Moved(q, m.from, m.to) : q \in DOMAIN v}
      /\ \A q \in DOMAIN v : u[Moved(q, m.from, m.to)] = v[q]
  <2> HIDE DEF u
  <2>1. /\ DOMAIN Renamed(v, m.from, m.to) = {Moved(q, m.from, m.to) : q \in DOMAIN v}
        /\ \A q \in DOMAIN v : Renamed(v, m.from, m.to)[Moved(q, m.from, m.to)] = v[q]
    BY <1>5, <1>6, RenamedAll
  <2> QED
    BY <1>5, <2>1
<1>8. /\ DOMAIN v = {Followed(p, done) : p \in DOMAIN t}
      /\ \A p \in DOMAIN t : v[Followed(p, done)] = t[p]
      /\ \A n \in done : \A d \in w : n.turn < d.turn
      /\ \A k, n \in done : k # n /\ IsPrefix(n.from, k.from) => k.turn < n.turn
  BY DEF Shifted
<1>9. \A n \in done : ~IsPrefix(n.from, m.from)
  <2>1. PICK p \in DOMAIN t : Followed(p, done) = m.from
    BY <1>5, <1>8
  <2> QED
    BY <1>3, <2>1, Untouched
<1> HIDE DEF u, done
<1>10. \A p \in DOMAIN t : Followed(p, done \cup {m}) = Moved(Followed(p, done), m.from, m.to)
  <2> SUFFICES ASSUME NEW p \in DOMAIN t
               PROVE  Followed(p, done \cup {m}) = Moved(Followed(p, done), m.from, m.to)
    OBVIOUS
  <2>1. m \in MovesOf(r) \ done
    BY <1>3
  <2> QED
    BY <1>3, <1>9, <2>1, FollowedFurther
<1>11. DOMAIN u = {Followed(p, done \cup {m}) : p \in DOMAIN t}
  BY <1>7, <1>8, <1>10
<1>12. \A p \in DOMAIN t : u[Followed(p, done \cup {m})] = t[p]
  BY <1>7, <1>8, <1>10
<1>13. \A n \in done \cup {m} : \A d \in w \ {c} : n.turn < d.turn
  <2> SUFFICES ASSUME NEW d \in w \ {c} PROVE m.turn < d.turn
    BY <1>8
  <2>1. PICK k \in MovesOf(r) : d = TurnOf(k)
    BY DEF Shifted
  <2>2. k.turn \in Nat /\ d.turn = k.turn /\ k # m
    BY <1>1, <2>1, TurnsDiffer
  <2>3. k.turn # m.turn
    BY <1>2, <2>2
  <2>4. ~(d.turn < c.turn)
    BY DEF Sooner
  <2> QED
    BY <1>2, <2>2, <2>3, <2>4
<1>14. \A k, n \in done \cup {m} : k # n /\ IsPrefix(n.from, k.from) => k.turn < n.turn
  <2>1. \A k \in done : k.turn < m.turn
    BY <1>2, <1>8
  <2> QED
    BY <1>8, <1>9, <2>1
<1>15. \A d \in w \ {c} : \E k \in MovesOf(r) : d = TurnOf(k)
  BY DEF Shifted
<1> QED
  BY <1>4, <1>11, <1>12, <1>13, <1>14, <1>15 DEF Shifted, u

\* Before the first of them everything is where it was.
LEMMA ShiftedBegins ==
    ASSUME NEW t, NEW r
    PROVE  Shifted(t, r, t, {Turn(m.turn, 0, Renaming(m.from, m.to)) : m \in MovesOf(r)})
<1> DEFINE w == {Turn(m.turn, 0, Renaming(m.from, m.to)) : m \in MovesOf(r)}
<1>1. \A m \in MovesOf(r) : TurnOf(m) \in w
  BY DEF TurnOf
<1>2. \A c \in w : \E m \in MovesOf(r) : c = TurnOf(m)
  BY DEF TurnOf
<1> HIDE DEF w
<1>3. Made(r, w) = {}
  BY <1>1 DEF Made
<1>4. \A p : Followed(p, {}) = p
  BY FollowedNot
<1> QED
  BY <1>2, <1>3, <1>4 DEF Shifted, w

\* A volume with every object of another where it was to go is what was promised.
LEMMA Arrived ==
    ASSUME NEW t, NEW moves, NEW u, u = [q \in DOMAIN u |-> u[q]],
           DOMAIN u = {Followed(p, moves) : p \in DOMAIN t},
           \A p \in DOMAIN t : u[Followed(p, moves)] = t[p]
    PROVE  u = [q \in {Followed(p, moves) : p \in DOMAIN t} |->
                    t[CHOOSE p \in DOMAIN t : Followed(p, moves) = q]]
<1> DEFINE goal == [q \in {Followed(p, moves) : p \in DOMAIN t} |->
                        t[CHOOSE p \in DOMAIN t : Followed(p, moves) = q]]
<1>1. ASSUME NEW q \in DOMAIN u PROVE u[q] = goal[q]
  <2>1. PICK p \in DOMAIN t : Followed(p, moves) = q
    OBVIOUS
  <2> DEFINE chosen == CHOOSE x \in DOMAIN t : Followed(x, moves) = q
  <2>2. chosen \in DOMAIN t /\ Followed(chosen, moves) = q
    BY <2>1
  <2>3. goal[q] = t[chosen]
    OBVIOUS
  <2> HIDE DEF chosen
  <2> QED
    BY <2>2, <2>3
<1>2. DOMAIN goal = DOMAIN u /\ goal = [q \in DOMAIN goal |-> goal[q]]
  OBVIOUS
<1> HIDE DEF goal
<1>3. u = goal
  BY <1>1, <1>2
<1> QED
  BY <1>3 DEF goal

-----------------------------------------------------------------------------
(* What is left of a rename on a partition.                                *)

\* The tree without what the rename replaces.
Old(t, r) == IF r.flag /\ MovesOf(r) # {} THEN Without(t, Below(t, r.to)) ELSE t

\* First what is in the way is removed, then the object is renamed.
Replacing(t, r, v, w) ==
    LET last == Turn(2, 0, Renaming(r.from[1], r.to)) IN
    /\ RenameAllowed(t, r)
    /\ \A c \in w \ {last} : c.turn = 1
    /\ w # {} => last \in w /\ Clearing(Old(t, r), v, w \ {last})
    /\ w = {} =>
        /\ DOMAIN v = {Moved(p, r.from[1], r.to) : p \in DOMAIN Old(t, r)}
        /\ \A p \in DOMAIN Old(t, r) : v[Moved(p, r.from[1], r.to)] = Old(t, r)[p]

\* A rename is of one object, and that may be where it is to go.
LEMMA RenameMoves ==
    ASSUME NEW t, NEW r, IsAsked(r, t), r.op = "rename"
    PROVE  MovesOf(r) = IF r.to = r.from[1] THEN {}
                        ELSE {[turn |-> 1, from |-> r.from[1], to |-> r.to]}
<1>1. DOMAIN r.from = {1}
  <2>1. r.from \in Seq(Seq(Names) \ {<<>>}) /\ Len(r.from) = 1
    BY DEF IsAsked
  <2>2. DOMAIN r.from = 1..1
    BY <2>1
  <2> QED
    BY <2>2
<1>2. \A p : Destination(r, p) = r.to
  BY DEF Destination
<1>3. {j \in DOMAIN r.from : Destination(r, r.from[j]) # r.from[j]}
        = IF r.to = r.from[1] THEN {} ELSE {1}
  BY <1>1, <1>2
<1> QED
  BY <1>2, <1>3 DEF MovesOf

\* A rename puts what it names, and all that lies below that, where it asks.
LEMMA RenameFollowed ==
    ASSUME NEW t, IsTree(t), NEW r, IsAsked(r, t), r.op = "rename", NEW p \in DOMAIN t
    PROVE  Followed(p, MovesOf(r)) = Moved(p, r.from[1], r.to)
<1>1. r.from[1] \in Seq(Names) /\ Len(r.from[1]) \in Nat /\ p \in Seq(Names)
  <2>1. r.from \in Seq(Seq(Names) \ {<<>>}) /\ Len(r.from) = 1
    BY DEF IsAsked
  <2>2. r.from[1] \in Seq(Names) \ {<<>>}
    BY <2>1
  <2> QED
    BY <2>2, ObjectOf
<1>2. CASE r.to = r.from[1]
  <2>1. Followed(p, MovesOf(r)) = p
    BY <1>2, RenameMoves, FollowedNot
  <2> QED
    BY <1>1, <1>2, <2>1, MovedNowhere DEF Moved
<1>3. CASE r.to # r.from[1]
  <2> DEFINE m == [turn |-> 1, from |-> r.from[1], to |-> r.to]
  <2>1. MovesOf(r) = {m}
    BY <1>3, RenameMoves
  <2>2. m.from = r.from[1] /\ m.to = r.to
    OBVIOUS
  <2> HIDE DEF m
  <2> QED
    BY <1>1, <2>1, <2>2, FollowedOnce
<1> QED
  BY <1>2, <1>3

\* The next call of it.
LEMMA ReplacingGoesOn ==
    ASSUME NEW t, IsTree(t), NEW r, IsAsked(r, t), r.op = "rename",
           NEW v, IsTree(v), NEW w, Replacing(t, r, v, w),
           NEW c \in w, ~\E d \in w : Sooner(d, c), NEW room, Accepts(v, c.call, room)
    PROVE  Replacing(t, r, After(v, c.call), w \ {c})
<1> DEFINE last == Turn(2, 0, Renaming(r.from[1], r.to))
           old == Old(t, r)
           u == After(v, c.call)
<1>1. /\ \A d \in w \ {last} : d.turn = 1
      /\ last \in w /\ Clearing(old, v, w \ {last})
  BY DEF Replacing
<1>2. last.turn = 2 /\ last.call = Renaming(r.from[1], r.to)
  BY DEF Turn
<1> HIDE DEF last, old
<1>3. CASE c # last
  <2>1. Clearing(old, u, (w \ {last}) \ {c})
    BY <1>1, <1>3, ClearingGoesOn
  <2>2. (w \ {last}) \ {c} = (w \ {c}) \ {last}
    OBVIOUS
  <2>3. last \in w \ {c} /\ \A d \in (w \ {c}) \ {last} : d.turn = 1
    BY <1>1, <1>3
  <2> QED
    BY <2>1, <2>2, <2>3 DEF Replacing, last, old
<1>4. CASE c = last
  <2>1. w \ {c} = {}
    <3>1. \A d \in w \ {last} : Sooner(d, last)
      BY <1>1, <1>2 DEF Sooner
    <3> QED
      BY <1>4, <3>1
  <2>2. v = old
    <3>1. old = [p \in DOMAIN old |-> old[p]]
      <4>1. t = [p \in DOMAIN t |-> t[p]]
        BY ObjectOf
      <4>2. old = t \/ old = [p \in DOMAIN t \ Below(t, r.to) |-> t[p]]
        BY DEF old, Old, Without, Restrict
      <4> QED
        BY <4>1, <4>2
    <3>2. v = [p \in DOMAIN v |-> v[p]]
      BY ObjectOf
    <3>3. Clearing(old, v, {})
      BY <1>1, <1>4, <2>1
    <3> QED
      BY <3>1, <3>2, <3>3, GoalReached
  <2>3. c.call.op = "rename" /\ c.call.path = r.from[1] /\ c.call.to = r.to
    BY <1>2, <1>4 DEF Renaming
  <2>4. /\ r.from[1] \in DOMAIN v /\ IsDrawer(v, Front(r.to)) /\ ~IsPrefix(r.from[1], Front(r.to))
        /\ Exists(v, r.to) => r.to = r.from[1]
        /\ u = Renamed(v, r.from[1], r.to)
    BY <2>3 DEF Accepts, After
  <2>5. r.to \in Seq(Names) \ {<<>>}
    BY DEF IsAsked
  <2>6. /\ DOMAIN u = {Moved(q, r.from[1], r.to) : q \in DOMAIN v}
        /\ \A q \in DOMAIN v : u[Moved(q, r.from[1], r.to)] = v[q]
    <3> HIDE DEF u
    <3>1. /\ DOMAIN Renamed(v, r.from[1], r.to) = {Moved(q, r.from[1], r.to) : q \in DOMAIN v}
          /\ \A q \in DOMAIN v : Renamed(v, r.from[1], r.to)[Moved(q, r.from[1], r.to)] = v[q]
      BY <2>4, <2>5, RenamedAll
    <3> QED
      BY <2>4, <3>1
  <2> HIDE DEF u
  <2> QED
    BY <2>1, <2>2, <2>6 DEF Replacing, old, u
<1> QED
  BY <1>3, <1>4

\* Before the first of them.
LEMMA ReplacingBegins ==
    ASSUME NEW t, IsTree(t), NEW r, IsAsked(r, t), r.op = "rename", RenameAllowed(t, r)
    PROVE  Replacing(t, r, t, RenameCalls(t, r))
<1> DEFINE last == Turn(2, 0, Renaming(r.from[1], r.to))
           there == r.to # r.from[1] /\ r.to \in DOMAIN t
           w == RenameCalls(t, r)
<1>1. w = (IF there THEN Discards(t, <<r.to>>) ELSE {}) \cup {last}
  BY DEF RenameCalls
<1>2. Discards(t, <<r.to>>) = {Turn(1, 0 - Len(p), Discarding(p)) : p \in Below(t, r.to)}
  <2> DEFINE paths == <<r.to>>
  <2>1. DOMAIN paths = {1} /\ paths[1] = r.to
    OBVIOUS
  <2> HIDE DEF paths
  <2>2. Discards(t, paths) = {Turn(1, 0 - Len(p), Discarding(p)) : p \in Below(t, paths[1])}
    BY <2>1 DEF Discards
  <2> QED
    BY <2>1, <2>2 DEF paths
<1>3. \A p : /\ Turn(1, 0 - Len(p), Discarding(p)).turn = 1
             /\ Turn(1, 0 - Len(p), Discarding(p)).call = Discarding(p)
             /\ Discarding(p).op = "discard" /\ Discarding(p).path = p
  BY DEF Turn, Discarding
<1>4. last.turn = 2
  BY DEF Turn
<1> DEFINE before == IF there THEN Discards(t, <<r.to>>) ELSE {}
<1>5. \A c \in before : c.turn = 1
  BY <1>2, <1>3
<1> HIDE DEF last, w
<1>6. w \ {last} = before /\ last \in w
  BY <1>1, <1>4, <1>5
<1>7. Clearing(Old(t, r), t, before)
  <2>1. CASE there
    <3>1. r.flag /\ MovesOf(r) # {}
      <4>1. r.flag
        BY <2>1 DEF RenameAllowed, Exists
      <4>2. MovesOf(r) # {}
        BY <2>1, RenameMoves
      <4> QED
        BY <4>1, <4>2
    <3>2. Old(t, r) = [q \in DOMAIN t \ Below(t, r.to) |-> t[q]]
      BY <3>1 DEF Old, Without, Restrict
    <3> DEFINE old == Old(t, r)
    <3>3. DOMAIN old = DOMAIN t \ Below(t, r.to) /\ \A q \in DOMAIN old : old[q] = t[q]
      BY <3>2
    <3> HIDE DEF old
    <3>4. before = {Turn(1, 0 - Len(p), Discarding(p)) : p \in Below(t, r.to)}
      BY <1>2, <2>1
    <3>5. ASSUME NEW c \in before
          PROVE  c.call.op \in {"remove", "discard"} /\ c.call.path \notin DOMAIN old
      <4>1. PICK p \in Below(t, r.to) : c = Turn(1, 0 - Len(p), Discarding(p))
        BY <3>4
      <4>2. c.call.op = "discard" /\ c.call.path = p
        BY <1>3, <4>1
      <4> QED
        BY <3>3, <4>2
    <3>6. \A p \in DOMAIN t \ DOMAIN old : \E c \in before : c.call.path = p
      <4> SUFFICES ASSUME NEW p \in DOMAIN t \ DOMAIN old
                   PROVE  \E c \in before : c.call.path = p
        OBVIOUS
      <4>1. p \in Below(t, r.to)
        BY <3>3
      <4>2. Turn(1, 0 - Len(p), Discarding(p)) \in before
        BY <3>4, <4>1
      <4> QED
        BY <1>3, <4>2
    <3> HIDE DEF before
    <3> QED
      BY <3>3, <3>5, <3>6 DEF Clearing, old
  <2>2. CASE ~there
    <3>1. Old(t, r) = t
      <4>1. CASE r.to = r.from[1]
        BY <4>1, RenameMoves DEF Old
      <4>2. CASE r.to \notin DOMAIN t
        <5>1. Below(t, r.to) = {}
          <6> SUFFICES ASSUME NEW q \in Below(t, r.to) PROVE FALSE
            OBVIOUS
          <6>1. /\ q \in DOMAIN t /\ IsPrefix(r.to, q) /\ r.to # q
                /\ r.to # <<>> /\ r.to \in Seq(Names)
            BY <4>2 DEF Below, IsAsked
          <6>2. IsDrawer(t, r.to)
            BY <6>1, AboveIsDrawer
          <6> QED
            BY <4>2, <6>1, <6>2 DEF IsDrawer
        <5>2. Without(t, {}) = t
          BY ObjectOf DEF Without, Restrict
        <5> QED
          BY <5>1, <5>2 DEF Old
      <4> QED
        BY <2>2, <4>1, <4>2
    <3>2. before = {}
      BY <2>2
    <3> QED
      BY <3>1, <3>2 DEF Clearing
  <2> QED
    BY <2>1, <2>2
<1> HIDE DEF before
<1> QED
  BY <1>5, <1>6, <1>7 DEF Replacing, last, w

-----------------------------------------------------------------------------
(* What is left of a request when its mount is opened.                     *)

\* What is asked of a request that is at work on t, which has become v.
Keeping(from, t, r, v, w) ==
    CASE Moving(r) /\ kind = "image" -> Shifted(t, r, v, w)
      [] r.op = "rename" /\ kind # "image" -> Replacing(t, r, v, w)
      [] r.op = "delete" -> Clearing(Promised(from, t, r), v, w)
      [] OTHER -> Building(Promised(from, t, r), v, w)

\* One drawer with the drawers above it.
LEMMA MakingBegins ==
    ASSUME NEW t, IsTree(t), NEW r, IsAsked(r, t), r.op = "mkdir", ~Exists(t, r.to), NEW from
    PROVE  Building(Promised(from, t, r), t, {Turn(1, 0, MakingDrawer(r.to))})
<1> DEFINE goal == Promised(from, t, r)
           c == Turn(1, 0, MakingDrawer(r.to))
<1>1. goal = LaidOver(t, [p \in Above(r.to) \cup {r.to} |-> Drawer])
  BY DEF Promised
<1>2. /\ DOMAIN goal = DOMAIN t \cup Above(r.to) \cup {r.to}
      /\ \A p \in DOMAIN t : goal[p] = t[p]
      /\ \A p \in (Above(r.to) \cup {r.to}) \ DOMAIN t : goal[p] = Drawer
  BY <1>1 DEF LaidOver
<1>3. c.call.op = "drawer" /\ c.call.path = r.to
  BY DEF Turn, MakingDrawer
<1> HIDE DEF goal, c
<1>4. r.to \in Seq(Names) \ {<<>>}
  BY DEF IsAsked, Exists
<1>5. <<>> \notin Above(r.to)
  BY <1>4, AboveAre
<1>6. Chained(r.to) = Above(r.to) \cup {r.to}
  BY <1>4, <1>5 DEF Chained
<1>7. \A p \in DOMAIN t : t[p] = Drawer \/ IsFile(t, p)
  BY ObjectOf DEF IsObject, IsFile
<1>8. Right(goal, t, c.call)
  BY <1>2, <1>3, <1>6, <1>7 DEF Right
<1>9. \A p \in DOMAIN goal : (p \in DOMAIN t /\ t[p] = goal[p]) \/ Covers(c.call, p)
  BY <1>2, <1>3, <1>6 DEF Covers
<1> QED
  BY <1>2, <1>3, <1>8, <1>9 DEF Building, goal, c

\* One file.
LEMMA PuttingBegins ==
    ASSUME NEW t, NEW r, r.op = "put", NEW from
    PROVE  Building(Promised(from, t, r), t, {Turn(1, 0, Writing(r.to, r.data))})
<1> DEFINE goal == Promised(from, t, r)
           c == Turn(1, 0, Writing(r.to, r.data))
<1>1. goal = With(t, r.to, File(r.data))
  BY DEF Promised
<1>2. /\ DOMAIN goal = DOMAIN t \cup {r.to} /\ goal[r.to] = File(r.data)
      /\ \A p \in DOMAIN t \ {r.to} : goal[p] = t[p]
  BY <1>1 DEF With
<1>3. c.call.op = "write" /\ c.call.path = r.to /\ c.call.data = r.data
  BY DEF Turn, Writing
<1> HIDE DEF goal, c
<1>4. Right(goal, t, c.call)
  BY <1>2, <1>3 DEF Right
<1>5. \A p \in DOMAIN goal : (p \in DOMAIN t /\ t[p] = goal[p]) \/ Covers(c.call, p)
  BY <1>2, <1>3 DEF Covers
<1> QED
  BY <1>2, <1>3, <1>4, <1>5 DEF Building, goal, c

\* Of a path of a selection there is the shortest selected above it.
LEMMA ShortestSelected ==
    ASSUME NEW from \in Seq(Seq(Names) \ {<<>>}), NEW p \in Seq(Names),
           NEW j \in DOMAIN from, IsPrefix(from[j], p)
    PROVE  \E i \in DOMAIN from : IsPrefix(from[i], p) /\
              \A d \in Range(from) : IsPrefix(d, p) => Len(from[i]) <= Len(d)
<1>1. \A i \in DOMAIN from : from[i] \in Seq(Names) /\ Len(from[i]) \in Nat
  OBVIOUS
<1> DEFINE lengths == {Len(from[i]) : i \in {k \in DOMAIN from : IsPrefix(from[k], p)}}
<1>2. lengths \in SUBSET Nat /\ lengths # {}
  BY <1>1
<1>3. \A i \in DOMAIN from : IsPrefix(from[i], p) => Len(from[i]) \in lengths
  OBVIOUS
<1>4. \A l \in lengths : \E i \in DOMAIN from : IsPrefix(from[i], p) /\ l = Len(from[i])
  OBVIOUS
<1> HIDE DEF lengths
<1>5. PICK l \in lengths : \A k \in lengths : l <= k
  BY <1>2, LeastExists
<1>6. PICK i \in DOMAIN from : IsPrefix(from[i], p) /\ l = Len(from[i])
  BY <1>4
<1> QED
  BY <1>3, <1>5, <1>6 DEF Range

\* What is removed of a selection, in an image and on a partition.
LEMMA DeletingBegins ==
    ASSUME NEW t, IsTree(t), NEW r, IsAsked(r, t), r.op = "delete", NEW from
    PROVE  /\ Clearing(Promised(from, t, r), t, Removals(t, r))
           /\ Clearing(Promised(from, t, r), t, Discards(t, r.from))
<1> DEFINE goal == Promised(from, t, r)
           gone == UNION {Below(t, p) : p \in Range(r.from)}
<1>1. goal = [q \in DOMAIN t \ gone |-> t[q]]
  BY DEF Promised, Without, Restrict
<1>2. DOMAIN goal = DOMAIN t \ gone /\ \A q \in DOMAIN goal : goal[q] = t[q]
  BY <1>1
<1>3. \A i \in DOMAIN r.from : Below(t, r.from[i]) \subseteq gone
  BY DEF Range
<1>4. \A p \in gone : p \in Seq(Names) /\ p \in DOMAIN t
                      /\ \E j \in DOMAIN r.from : IsPrefix(r.from[j], p)
  BY ObjectOf DEF Below, Range
<1> HIDE DEF goal, gone
<1>5. r.from \in Seq(Seq(Names) \ {<<>>})
  BY DEF IsAsked
<1>6. ASSUME NEW c \in Removals(t, r)
      PROVE  c.call.op \in {"remove", "discard"} /\ c.call.path \notin DOMAIN goal
  <2>1. c.call.op = "remove" /\ \E i \in DOMAIN r.from : c.call.path \in Below(t, r.from[i])
    BY RemovalsAre
  <2> QED
    BY <1>2, <1>3, <2>1
<1>7. ASSUME NEW c \in Discards(t, r.from)
      PROVE  c.call.op \in {"remove", "discard"} /\ c.call.path \notin DOMAIN goal
  <2>1. c.call.op = "discard" /\ \E i \in DOMAIN r.from : c.call.path \in Below(t, r.from[i])
    BY DiscardsAre
  <2> QED
    BY <1>2, <1>3, <2>1
<1>8. ASSUME NEW p \in gone
      PROVE  /\ \E c \in Removals(t, r) : c.call.path = p
             /\ \E c \in Discards(t, r.from) : c.call.path = p
  <2>1. PICK j \in DOMAIN r.from : IsPrefix(r.from[j], p)
    BY <1>4
  <2>2. PICK i \in DOMAIN r.from : IsPrefix(r.from[i], p) /\
              \A d \in Range(r.from) : IsPrefix(d, p) => Len(r.from[i]) <= Len(d)
    BY <1>4, <1>5, <2>1, ShortestSelected
  <2>3. p \in Below(t, r.from[i])
    BY <1>4, <2>2 DEF Below
  <2>4. i \in Targets(t, r)
    <3> SUFFICES ASSUME NEW d \in Range(r.from) \ {r.from[i]}, IsPrefix(d, r.from[i])
                 PROVE  FALSE
      BY DEF Targets
    <3>1. d \in Seq(Names) /\ r.from[i] \in Seq(Names) /\ p \in Seq(Names)
      BY <1>4, <1>5 DEF Range
    <3>2. Len(d) < Len(r.from[i])
      BY <3>1, PrefixIsBeginning
    <3>3. IsPrefix(d, p)
      BY <2>2, <3>1, PrefixOfPrefix
    <3>4. Len(d) \in Nat /\ Len(r.from[i]) \in Nat
      BY <3>1
    <3> QED
      BY <2>2, <3>2, <3>3, <3>4
  <2>5. Turn(i, 0 - Len(p), Removing(p)) \in Removals(t, r)
    BY <2>3, <2>4 DEF Removals
  <2>6. Turn(i, 0 - Len(p), Discarding(p)) \in Discards(t, r.from)
    BY <2>3 DEF Discards
  <2>7. /\ Turn(i, 0 - Len(p), Removing(p)).call.path = p
        /\ Turn(i, 0 - Len(p), Discarding(p)).call.path = p
    BY DEF Turn, Removing, Discarding
  <2> QED
    BY <2>5, <2>6, <2>7
<1>9. DOMAIN t \ DOMAIN goal \subseteq gone
  BY <1>2
<1>10. Clearing(goal, t, Removals(t, r))
  BY <1>2, <1>6, <1>8, <1>9 DEF Clearing
<1>11. Clearing(goal, t, Discards(t, r.from))
  BY <1>2, <1>7, <1>8, <1>9 DEF Clearing
<1> QED
  BY <1>10, <1>11 DEF goal

\* What lies above a file of a folder that is imported: a drawer the import
\* makes, or one of those it is dropped in.
LEMMA InTheChain ==
    ASSUME NEW r, r.to \in Seq(Names), NEW f \in Range(r.from), f \in Seq(Names) \ {<<>>},
           NEW x \in Seq(Names) \ {<<>>}, IsPrefix(x, r.to \o f), x # r.to \o f
    PROVE  IsPrefix(x, r.to) \/ x \in Chain(r)
<1> DEFINE path == r.to \o f
<1>1. /\ path \in Seq(Names) /\ Len(path) = Len(r.to) + Len(f)
      /\ \A i \in 1..Len(r.to) : path[i] = r.to[i]
      /\ \A i \in 1..Len(f) : path[Len(r.to) + i] = f[i]
  <2>1. path \in Seq(Names) /\ Len(path) = Len(r.to) + Len(f)
    BY ConcatProperties
  <2>2. \A i \in 1..Len(r.to) + Len(f) :
            path[i] = IF i <= Len(r.to) THEN r.to[i] ELSE f[i - Len(r.to)]
    BY ConcatProperties
  <2>3. Len(r.to) \in Nat /\ Len(f) \in Nat
    OBVIOUS
  <2> HIDE DEF path
  <2>4. ASSUME NEW i \in 1..Len(f) PROVE path[Len(r.to) + i] = f[i]
    <3> DEFINE j == Len(r.to) + i
    <3>1. j \in 1..Len(r.to) + Len(f) /\ ~(j <= Len(r.to)) /\ j - Len(r.to) = i
      BY <2>3
    <3> HIDE DEF j
    <3>2. path[j] = f[j - Len(r.to)]
      BY <2>2, <3>1
    <3> QED
      BY <3>1, <3>2 DEF j
  <2>5. \A i \in 1..Len(r.to) : path[i] = r.to[i]
    BY <2>2, <2>3
  <2> QED
    BY <2>1, <2>4, <2>5
<1> HIDE DEF path
<1>2. /\ Len(x) < Len(path) /\ Len(x) \in Nat /\ Len(r.to) \in Nat /\ Len(f) \in Nat
      /\ \A i \in 1..Len(x) : x[i] = path[i]
  <2>1. IsPrefix(x, path) /\ x # path
    BY DEF path
  <2> QED
    BY <1>1, <2>1, PrefixIs, PrefixIsBeginning
<1>3. CASE Len(x) <= Len(r.to)
  <2>1. \A i \in 1..Len(x) : x[i] = r.to[i]
    BY <1>1, <1>2, <1>3
  <2> QED
    BY <1>3, <2>1, PrefixIs
<1>4. CASE Len(x) > Len(r.to)
  <2> DEFINE n == Len(x) - Len(r.to)
             s == SubSeq(f, 1, n)
  <2>1. n \in 1 .. Len(f) - 1 /\ n \in 0..Len(f)
    BY <1>1, <1>2, <1>4
  <2>2. s \in Seq(Names) /\ Len(s) = n /\ \A i \in 1..n : s[i] = f[i]
    BY <2>1, Beginning
  <2>3. r.to \o s \in Chain(r)
    <3> DEFINE under(p) == {r.to \o SubSeq(p, 1, k) : k \in 1 .. Len(p) - 1}
    <3>1. r.to \o s \in under(f)
      BY <2>1
    <3>2. Chain(r) = UNION {under(p) : p \in Range(r.from)}
      BY DEF Chain
    <3> HIDE DEF under, s
    <3> QED
      BY <3>1, <3>2
  <2> HIDE DEF n, s
  <2>4. /\ r.to \o s \in Seq(Names) /\ Len(r.to \o s) = Len(r.to) + n
        /\ \A i \in 1..Len(r.to) + n :
            (r.to \o s)[i] = IF i <= Len(r.to) THEN r.to[i] ELSE s[i - Len(r.to)]
    BY <2>2, ConcatProperties, ZenonT(40)
  <2>5. Len(x) = Len(r.to) + n
    BY <1>2 DEF n
  <2>6. ASSUME NEW i \in 1..Len(x) PROVE x[i] = (r.to \o s)[i]
    <3>1. CASE i <= Len(r.to)
      BY <1>1, <1>2, <2>4, <2>5, <3>1
    <3>2. CASE ~(i <= Len(r.to))
      <4> DEFINE j == i - Len(r.to)
      <4>1. j \in 1..n /\ j \in 1..Len(f) /\ i = Len(r.to) + j /\ ~(i <= Len(r.to))
        BY <1>2, <2>1, <2>5, <3>2
      <4> HIDE DEF j
      <4>2. x[i] = path[i] /\ path[i] = f[j]
        BY <1>1, <1>2, <4>1
      <4>3. (r.to \o s)[i] = s[i - Len(r.to)] /\ i - Len(r.to) = j
        BY <1>2, <2>1, <2>4, <2>5, <4>1
      <4> QED
        BY <2>2, <4>1, <4>2, <4>3
    <3> QED
      BY <3>1, <3>2
  <2>7. x = r.to \o s
    BY <2>4, <2>5, <2>6, PathsEqual
  <2> QED
    BY <2>3, <2>7
<1> QED
  BY <1>2, <1>3, <1>4

\* A path in a path begins with it.
LEMMA PrefixOfJoin ==
    ASSUME NEW a \in Seq(Names), NEW b \in Seq(Names)
    PROVE  /\ a \o b \in Seq(Names) /\ Len(a \o b) = Len(a) + Len(b) /\ IsPrefix(a, a \o b)
           /\ \A c \in Seq(Names) : IsPrefix(a \o c, a \o b) <=> IsPrefix(c, b)
<1>1. /\ a \o b \in Seq(Names) /\ Len(a \o b) = Len(a) + Len(b)
      /\ \A i \in 1..Len(a) + Len(b) : (a \o b)[i] = IF i <= Len(a) THEN a[i] ELSE b[i - Len(a)]
  BY ConcatProperties
<1>2. Len(a) \in Nat /\ Len(b) \in Nat
  OBVIOUS
<1> DEFINE ab == a \o b
<1> HIDE DEF ab
<1>3. /\ ab \in Seq(Names) /\ Len(ab) = Len(a) + Len(b)
      /\ \A i \in 1..Len(a) + Len(b) : ab[i] = IF i <= Len(a) THEN a[i] ELSE b[i - Len(a)]
  BY <1>1 DEF ab
<1>4. IsPrefix(a, ab)
  <2>1. \A i \in 1..Len(a) : a[i] = ab[i]
    BY <1>2, <1>3
  <2> QED
    BY <1>2, <1>3, <2>1, PrefixIs
<1>5. ASSUME NEW c \in Seq(Names) PROVE IsPrefix(a \o c, ab) <=> IsPrefix(c, b)
  <2>1. /\ a \o c \in Seq(Names) /\ Len(a \o c) = Len(a) + Len(c) /\ Len(c) \in Nat
        /\ \A i \in 1..Len(a) + Len(c) :
            (a \o c)[i] = IF i <= Len(a) THEN a[i] ELSE c[i - Len(a)]
    BY ConcatProperties
  <2> DEFINE ac == a \o c
  <2> HIDE DEF ac
  <2>2. /\ ac \in Seq(Names) /\ Len(ac) = Len(a) + Len(c) /\ Len(c) \in Nat
        /\ \A i \in 1..Len(a) + Len(c) : ac[i] = IF i <= Len(a) THEN a[i] ELSE c[i - Len(a)]
    BY <2>1 DEF ac
  <2>3. ASSUME IsPrefix(ac, ab) PROVE IsPrefix(c, b)
    <3>1. Len(ac) <= Len(ab) /\ \A i \in 1..Len(ac) : ac[i] = ab[i]
      BY <1>3, <2>2, <2>3, PrefixIs
    <3>2. ASSUME NEW i \in 1..Len(c) PROVE c[i] = b[i]
      <4> DEFINE j == Len(a) + i
      <4>1. /\ j \in 1..Len(a) + Len(c) /\ j \in 1..Len(a) + Len(b) /\ j \in 1..Len(ac)
            /\ ~(j <= Len(a)) /\ j - Len(a) = i
        BY <1>2, <1>3, <2>2, <3>1
      <4> HIDE DEF j
      <4>2. ac[j] = c[i] /\ ab[j] = b[i]
        BY <1>3, <2>2, <4>1
      <4> QED
        BY <3>1, <4>1, <4>2
    <3>3. Len(c) <= Len(b)
      BY <1>2, <1>3, <2>2, <3>1
    <3> QED
      BY <3>2, <3>3, PrefixIs
  <2>4. ASSUME IsPrefix(c, b) PROVE IsPrefix(ac, ab)
    <3>1. Len(c) <= Len(b) /\ \A i \in 1..Len(c) : c[i] = b[i]
      BY <2>4, PrefixIs
    <3>2. ASSUME NEW i \in 1..Len(ac) PROVE ac[i] = ab[i]
      <4>1. i \in 1..Len(a) + Len(c) /\ i \in 1..Len(a) + Len(b)
        BY <1>2, <2>2, <3>1
      <4>2. CASE i <= Len(a)
        BY <1>3, <2>2, <4>1, <4>2
      <4>3. CASE ~(i <= Len(a))
        <5> DEFINE j == i - Len(a)
        <5>1. j \in 1..Len(c)
          BY <1>2, <2>2, <4>1, <4>3
        <5>2. ac[i] = c[j] /\ ab[i] = b[j]
          BY <1>3, <2>2, <4>1, <4>3
        <5> HIDE DEF j
        <5> QED
          BY <3>1, <5>1, <5>2
      <4> QED
        BY <4>2, <4>3
    <3>3. Len(ac) <= Len(ab)
      BY <1>2, <1>3, <2>2, <3>1
    <3> QED
      BY <1>3, <2>2, <3>2, <3>3, PrefixIs
  <2> QED
    BY <2>3, <2>4 DEF ac
<1> QED
  BY <1>3, <1>4, <1>5 DEF ab

\* The files of a folder and the drawers they lie in.
LEMMA FolderBegins ==
    ASSUME NEW t, IsTree(t), NEW r, IsAsked(r, t), r.op = "import",
           \A p \in Landing(r) : ~IsDrawer(t, p), NEW from
    PROVE  Building(Promised(from, t, r), t, FolderCalls(t, r))
<1> DEFINE goal == Promised(from, t, r)
           taken == ~r.flag /\ Landing(r) \cap DOMAIN t # {}
           parents == {Turn(i, 1, MakingDrawer(Front(r.to \o r.from[i]))) : i \in DOMAIN r.from}
           written == {Turn(i, 2, Writing(r.to \o r.from[i], r.data)) : i \in DOMAIN r.from}
<1>1. /\ r.to \in Seq(Names) /\ r.to \in Drawers(t) /\ r.from \in Folders
      /\ \A i \in DOMAIN r.from : r.from[i] \in Seq(Names) \ {<<>>}
      /\ \A f \in Range(r.from) : f \in Seq(Names) \ {<<>>}
      /\ \A f, g \in Range(r.from) : IsPrefix(f, g) => f = g
  <2>1. r.to \in Seq(Names) /\ r.to \in Drawers(t) /\ r.from \in Folders
        /\ r.from \in Seq(Seq(Names) \ {<<>>})
    BY DEF IsAsked
  <2>2. \A i \in DOMAIN r.from : r.from[i] \in Seq(Names) \ {<<>>}
    BY <2>1
  <2>3. \A i, j \in DOMAIN r.from : IsPrefix(r.from[i], r.from[j]) => r.from[i] = r.from[j]
    BY <2>1, FoldersAssumption
  <2> QED
    BY <2>1, <2>2, <2>3 DEF Range
<1>2. Landing(r) = {r.to \o f : f \in Range(r.from)}
  BY DEF Landing
<1>3. \A f \in Range(r.from) : r.to \o f \in Seq(Names) \ {<<>>}
  <2> SUFFICES ASSUME NEW f \in Range(r.from) PROVE r.to \o f \in Seq(Names) \ {<<>>}
    OBVIOUS
  <2>1. f \in Seq(Names) /\ Len(f) \in Nat /\ Len(f) # 0 /\ Len(r.to) \in Nat
    BY <1>1
  <2>2. r.to \o f \in Seq(Names) /\ Len(r.to \o f) = Len(r.to) + Len(f)
    BY <1>1, <2>1, PrefixOfJoin
  <2>3. Len(r.to \o f) # 0
    BY <2>1, <2>2
  <2> QED
    BY <2>2, <2>3
<1>4. CASE taken
  <2>1. goal = t
    BY <1>4 DEF Promised
  <2>2. FolderCalls(t, r) = {}
    BY <1>4 DEF FolderCalls, Exists
  <2> QED
    BY <2>1, <2>2 DEF Building
<1>5. CASE ~taken
  <2>1. goal = LaidOver([p \in Landing(r) |-> File(r.data)],
                        LaidOver([p \in Chain(r) |-> Drawer], t))
    BY <1>5 DEF Promised
  <2>2. /\ DOMAIN goal = Landing(r) \cup Chain(r) \cup DOMAIN t
        /\ \A p \in Landing(r) : goal[p] = File(r.data)
        /\ \A p \in Chain(r) \ Landing(r) : goal[p] = Drawer
        /\ \A p \in DOMAIN t \ (Landing(r) \cup Chain(r)) : goal[p] = t[p]
    BY <2>1 DEF LaidOver
  <2>3. FolderCalls(t, r) = Drawered(Chain(r)) \cup parents \cup written
    <3>1. \A p \in Landing(r) : p # <<>>
      BY <1>2, <1>3
    <3>2. ~(~r.flag /\ \E p \in Landing(r) : Exists(t, p))
      BY <1>5, <3>1 DEF Exists
    <3> QED
      BY <3>2 DEF FolderCalls
  <2> HIDE DEF goal, taken, parents, written
\* What lies above one of the files is a drawer.
  <2>4. ASSUME NEW f \in Range(r.from), NEW x \in Seq(Names) \ {<<>>},
               IsPrefix(x, r.to \o f), x # r.to \o f
        PROVE  x \in DOMAIN goal /\ goal[x] = Drawer
    <3>1. IsPrefix(x, r.to) \/ x \in Chain(r)
      BY <1>1, <2>4, InTheChain
    <3>2. x \notin Landing(r)
      <4> SUFFICES ASSUME NEW g \in Range(r.from), x = r.to \o g PROVE FALSE
        BY <1>2
      <4>1. IsPrefix(g, f)
        <5>1. IsPrefix(r.to \o g, r.to \o f)
          BY <2>4
        <5> QED
          BY <1>1, <5>1, PrefixOfJoin
      <4> QED
        BY <1>1, <2>4, <4>1
    <3>3. CASE x \in Chain(r)
      BY <2>2, <3>2, <3>3
    <3>4. CASE IsPrefix(x, r.to) /\ x \notin Chain(r)
      <4>1. IsDrawer(t, r.to)
        BY <1>1, ObjectOf DEF Drawers, IsDrawer, Files
      <4>2. IsDrawer(t, x)
        BY <1>1, <3>4, <4>1, DrawerIsDeep
      <4>3. x \in DOMAIN t /\ t[x] = Drawer
        BY <4>2, ObjectOf DEF IsDrawer, IsObject
      <4> QED
        BY <2>2, <3>2, <3>4, <4>3
    <3> QED
      BY <3>1, <3>3, <3>4
\* So is all that is made for it.
  <2>5. ASSUME NEW f \in Range(r.from), NEW d \in Seq(Names),
               IsPrefix(d, r.to \o f), d # r.to \o f, NEW c,
               c.call = MakingDrawer(d)
        PROVE  c.call.op \in {"drawer", "write", "create"} /\ Right(goal, t, c.call)
    <3>1. c.call.op = "drawer" /\ c.call.path = d
      BY <2>5 DEF MakingDrawer
    <3>2. ASSUME NEW x \in Chained(d) PROVE x \in DOMAIN goal /\ goal[x] = Drawer
      <4>1. x \in Seq(Names) \ {<<>>} /\ IsPrefix(x, d)
        BY ChainedIs
      <4>2. r.to \o f \in Seq(Names)
        BY <1>3
      <4>3. IsPrefix(x, r.to \o f)
        BY <2>5, <4>1, <4>2, PrefixOfPrefix
      <4>4. x # r.to \o f
        <5>1. Len(x) <= Len(d) /\ Len(d) < Len(r.to \o f)
          BY <2>5, <4>1, <4>2, PrefixIs, PrefixIsBeginning
        <5>2. Len(x) \in Nat /\ Len(d) \in Nat /\ Len(r.to \o f) \in Nat
          BY <4>1, <4>2
        <5> QED
          BY <5>1, <5>2
      <4> QED
        BY <2>4, <4>1, <4>3, <4>4
    <3> QED
      BY <3>1, <3>2 DEF Right
  <2>6. ASSUME NEW p \in Chain(r)
        PROVE  \E f \in Range(r.from) :
                  p \in Seq(Names) \ {<<>>} /\ IsPrefix(p, r.to \o f) /\ p # r.to \o f
    <3> DEFINE under(f) == {r.to \o SubSeq(f, 1, k) : k \in 1 .. Len(f) - 1}
    <3>1. PICK f \in Range(r.from) : p \in under(f)
      BY DEF Chain
    <3>2. PICK k \in 1 .. Len(f) - 1 : p = r.to \o SubSeq(f, 1, k)
      BY <3>1
    <3> HIDE DEF under
    <3> DEFINE s == SubSeq(f, 1, k)
    <3>3. f \in Seq(Names) /\ Len(f) \in Nat /\ Len(r.to) \in Nat /\ r.to \in Seq(Names)
      BY <1>1
    <3>4. s \in Seq(Names) /\ Len(s) = k /\ IsPrefix(s, f)
      <4>1. k \in 0..Len(f)
        BY <3>2, <3>3
      <4> QED
        BY <3>3, <4>1, Beginning
    <3> HIDE DEF s
    <3>5. /\ r.to \o s \in Seq(Names) /\ Len(r.to \o s) = Len(r.to) + k
          /\ Len(r.to \o f) = Len(r.to) + Len(f) /\ IsPrefix(r.to \o s, r.to \o f)
      BY <3>3, <3>4, PrefixOfJoin
    <3>6. Len(r.to) + k # Len(r.to) + Len(f) /\ Len(r.to) + k # 0
      BY <3>2, <3>3
    <3>7. r.to \o s # <<>> /\ r.to \o s # r.to \o f
      BY <3>5, <3>6
    <3> QED
      BY <3>2, <3>5, <3>7 DEF s
  <2>7. ASSUME NEW c \in FolderCalls(t, r)
        PROVE  c.call.op \in {"drawer", "write", "create"} /\ Right(goal, t, c.call)
    <3>1. CASE c \in Drawered(Chain(r))
      <4>1. PICK p \in Chain(r) : c = Turn(0, Len(p), MakingDrawer(p))
        BY <3>1 DEF Drawered
      <4>2. c.call = MakingDrawer(p)
        BY <4>1 DEF Turn
      <4> QED
        BY <2>5, <2>6, <4>2
    <3>2. CASE c \in parents
      <4>1. PICK i \in DOMAIN r.from : c = Turn(i, 1, MakingDrawer(Front(r.to \o r.from[i])))
        BY <3>2 DEF parents
      <4> DEFINE f == r.from[i]
      <4>2. c.call = MakingDrawer(Front(r.to \o f))
        BY <4>1 DEF Turn
      <4>3. f \in Range(r.from)
        BY DEF Range
      <4> HIDE DEF f
      <4> DEFINE path == r.to \o f
      <4>4. path \in Seq(Names) /\ path # <<>>
        BY <1>3, <4>3
      <4> HIDE DEF path
      <4>5. Front(path) \in Seq(Names) /\ IsPrefix(Front(path), path)
            /\ Len(Front(path)) = Len(path) - 1 /\ Len(path) - 1 \in Nat
        BY <4>4, FrontIs
      <4>6. Front(path) # path
        BY <4>4, <4>5
      <4> QED
        BY <2>5, <4>2, <4>3, <4>5, <4>6 DEF path
    <3>3. CASE c \in written
      <4>1. PICK i \in DOMAIN r.from : c = Turn(i, 2, Writing(r.to \o r.from[i], r.data))
        BY <3>3 DEF written
      <4>2. /\ c.call.op = "write" /\ c.call.path = r.to \o r.from[i]
            /\ c.call.data = r.data
        BY <4>1 DEF Turn, Writing
      <4>3. r.to \o r.from[i] \in Landing(r)
        BY <1>2 DEF Range
      <4> QED
        BY <2>2, <4>2, <4>3 DEF Right
    <3> QED
      BY <2>3, <3>1, <3>2, <3>3
  <2>8. ASSUME NEW p \in DOMAIN goal
        PROVE  (p \in DOMAIN t /\ t[p] = goal[p]) \/
                    \E c \in FolderCalls(t, r) : Covers(c.call, p)
    <3>1. CASE p \in Landing(r)
      <4>1. PICK f \in Range(r.from) : p = r.to \o f
        BY <1>2, <3>1
      <4>2. PICK i \in DOMAIN r.from : f = r.from[i]
        BY DEF Range
      <4> DEFINE c == Turn(i, 2, Writing(r.to \o r.from[i], r.data))
      <4>3. c \in written
        BY DEF written
      <4>4. c.call.op = "write" /\ c.call.path = p
        BY <4>1, <4>2 DEF Turn, Writing
      <4> HIDE DEF c
      <4>5. Covers(c.call, p)
        BY <4>4 DEF Covers
      <4> QED
        BY <2>3, <4>3, <4>5
    <3>2. CASE p \in Chain(r)
      <4> DEFINE c == Turn(0, Len(p), MakingDrawer(p))
      <4>1. c \in Drawered(Chain(r))
        BY <3>2 DEF Drawered
      <4>2. c.call.op = "drawer" /\ c.call.path = p
        BY DEF Turn, MakingDrawer
      <4> HIDE DEF c
      <4>3. p \in Chained(p)
        BY <2>6, <3>2 DEF Chained
      <4>4. Covers(c.call, p)
        BY <4>2, <4>3 DEF Covers
      <4> QED
        BY <2>3, <4>1, <4>4
    <3>3. CASE p \notin Landing(r) \cup Chain(r)
      BY <2>2, <3>3
    <3> QED
      BY <3>1, <3>2, <3>3
  <2>9. DOMAIN t \subseteq DOMAIN goal
    BY <2>2
  <2> QED
    BY <2>7, <2>8, <2>9 DEF Building, goal
<1> QED
  BY <1>4, <1>5

\* A set with a sequence of its members has each of them in it.
LEMMA SequenceOfAll ==
    ASSUME NEW S, IsFiniteSet(S)
    PROVE  /\ \A i \in DOMAIN SetToSeq(S) : SetToSeq(S)[i] \in S
           /\ \A x \in S : \E i \in DOMAIN SetToSeq(S) : SetToSeq(S)[i] = x
<1> DEFINE N == 1..Cardinality(S)
<1>1. ExistsBijection(N, S) /\ Cardinality(S) \in Nat
  BY FS_CardinalityType
<1>2. \E f \in [N -> S] : IsInjective(f)
  BY <1>1 DEF ExistsBijection, Bijection, Injection
<1> DEFINE s == SetToSeq(S)
<1>3. s \in [N -> S] /\ IsInjective(s)
  BY <1>2 DEF SetToSeq
<1> HIDE DEF s
<1>4. s \in Injection(N, S)
  BY <1>3 DEF Injection
<1>5. Cardinality(N) = Cardinality(S)
  BY <1>1, FS_Interval
<1>6. s \in Surjection(N, S)
  BY <1>4, <1>5, FS_Injection
<1>7. DOMAIN s = N /\ (\A i \in N : s[i] \in S) /\ \A x \in S : \E i \in N : s[i] = x
  BY <1>3, <1>6 DEF Surjection
<1> QED
  BY <1>7 DEF s

\* What copies objects makes them as they are in the goal, and makes them all.
LEMMA CopyCallsBuild ==
    ASSUME NEW from, IsTree(from), NEW t, NEW r, NEW goal,
           NEW copied, copied = Copied(from, t, r), DOMAIN copied \subseteq DOMAIN from,
           \A q \in DOMAIN copied :
              /\ copied[q] \in Seq(Names) \ {<<>>}
              /\ copied[q] \in DOMAIN goal
              /\ goal[copied[q]] = from[q],
           \A q \in DOMAIN copied : \A x \in Seq(Names) \ {<<>>} :
              IsPrefix(x, copied[q]) /\ x # copied[q] =>
                x \in DOMAIN goal /\ (goal[x] = Drawer \/ IsFile(t, x))
    PROVE  /\ \A c \in CopyCalls(from, t, r) :
                c.call.op \in {"drawer", "write", "create"} /\ Right(goal, t, c.call)
           /\ \A q \in DOMAIN copied : \A x \in Seq(Names) \ {<<>>} :
                IsPrefix(x, copied[q]) => \E c \in CopyCalls(from, t, r) : Covers(c.call, x)
<1> DEFINE drawers == {q \in DOMAIN copied : IsDrawer(from, q)}
           files == SetToSeq(DOMAIN copied \ drawers)
           made == Drawered({copied[q] : q \in drawers})
           parents == {Turn(i, 1, MakingDrawer(Front(copied[files[i]]))) : i \in DOMAIN files}
           created == {Turn(i, 2, Creating(copied[files[i]], from[files[i]].data)) :
                            i \in DOMAIN files}
           w == CopyCalls(from, t, r)
<1>1. w = made \cup parents \cup created
  BY DEF CopyCalls
<1>2. /\ \A i \in DOMAIN files : files[i] \in DOMAIN copied \ drawers
      /\ \A q \in DOMAIN copied \ drawers : \E i \in DOMAIN files : files[i] = q
  <2>1. IsFiniteSet(DOMAIN from)
    BY DEF IsTree
  <2>2. IsFiniteSet(DOMAIN copied \ drawers)
    BY <2>1, FS_Subset
  <2> DEFINE S == DOMAIN copied \ drawers
  <2>3. files = SetToSeq(S) /\ IsFiniteSet(S)
    BY <2>2
  <2> HIDE DEF files, S
  <2>4. /\ \A i \in DOMAIN SetToSeq(S) : SetToSeq(S)[i] \in S
        /\ \A x \in S : \E i \in DOMAIN SetToSeq(S) : SetToSeq(S)[i] = x
    BY <2>3, SequenceOfAll
  <2>5. /\ \A i \in DOMAIN files : files[i] \in S
        /\ \A x \in S : \E i \in DOMAIN files : files[i] = x
    BY <2>3, <2>4
  <2> QED
    BY <2>5 DEF S
<1>3. /\ \A q \in drawers : q \in DOMAIN copied /\ from[q] = Drawer
      /\ \A q \in DOMAIN copied \ drawers : from[q] = File(from[q].data)
  <2>1. \A q \in DOMAIN copied : q \in DOMAIN from /\ q # <<>> /\ IsObject(from[q])
    BY ObjectOf
  <2>2. \A q \in drawers : from[q] = Drawer
    BY <2>1 DEF IsDrawer, IsObject
  <2>3. \A q \in DOMAIN copied \ drawers : from[q] = File(from[q].data)
    BY <2>1 DEF IsDrawer, IsObject, File
  <2> QED
    BY <2>2, <2>3
<1> HIDE DEF drawers, files, made, parents, created, w
\* A drawer that is one of them, or lies above one of them.
<1>4. ASSUME NEW q \in DOMAIN copied, NEW d \in Seq(Names), IsPrefix(d, copied[q]),
             d # copied[q] \/ q \in drawers
      PROVE  Right(goal, t, MakingDrawer(d))
  <2>1. MakingDrawer(d).op = "drawer" /\ MakingDrawer(d).path = d
    BY DEF MakingDrawer
  <2>2. ASSUME NEW x \in Chained(d)
        PROVE  x \in DOMAIN goal /\ (goal[x] = Drawer \/ IsFile(t, x))
    <3>1. x \in Seq(Names) \ {<<>>} /\ IsPrefix(x, d)
      BY ChainedIs
    <3>2. copied[q] \in Seq(Names)
      OBVIOUS
    <3>3. IsPrefix(x, copied[q])
      BY <1>4, <3>1, <3>2, PrefixOfPrefix
    <3>4. CASE x = copied[q]
      <4>1. d = copied[q]
        <5>1. Len(x) <= Len(d) /\ (d # copied[q] => Len(d) < Len(copied[q]))
          BY <1>4, <3>1, <3>2, PrefixIs, PrefixIsBeginning
        <5>2. Len(x) \in Nat /\ Len(d) \in Nat /\ Len(copied[q]) \in Nat
          BY <3>1, <3>2
        <5> QED
          BY <3>4, <5>1, <5>2
      <4>2. q \in drawers
        BY <1>4, <4>1
      <4> QED
        BY <1>3, <3>4, <4>2
    <3>5. CASE x # copied[q]
      BY <3>1, <3>3, <3>5
    <3> QED
      BY <3>4, <3>5
  <2> QED
    BY <2>1, <2>2 DEF Right
<1>5. \A q \in DOMAIN copied :
        /\ Front(copied[q]) \in Seq(Names) /\ IsPrefix(Front(copied[q]), copied[q])
        /\ Front(copied[q]) # copied[q]
        /\ Len(Front(copied[q])) = Len(copied[q]) - 1
  <2> SUFFICES ASSUME NEW q \in DOMAIN copied
               PROVE  /\ Front(copied[q]) \in Seq(Names) /\ IsPrefix(Front(copied[q]), copied[q])
                      /\ Front(copied[q]) # copied[q]
                      /\ Len(Front(copied[q])) = Len(copied[q]) - 1
    OBVIOUS
  <2> DEFINE path == copied[q]
  <2>1. path \in Seq(Names) /\ path # <<>>
    OBVIOUS
  <2> HIDE DEF path
  <2>2. /\ Front(path) \in Seq(Names) /\ IsPrefix(Front(path), path)
        /\ Len(Front(path)) = Len(path) - 1 /\ Len(path) - 1 \in Nat
    BY <2>1, FrontIs
  <2>3. Front(path) # path
    BY <2>2
  <2> QED
    BY <2>2, <2>3 DEF path
<1>6. ASSUME NEW c \in w
      PROVE  c.call.op \in {"drawer", "write", "create"} /\ Right(goal, t, c.call)
  <2>1. CASE c \in made
    <3>1. PICK q \in drawers : c = Turn(0, Len(copied[q]), MakingDrawer(copied[q]))
      BY <2>1 DEF made, Drawered
    <3>2. c.call = MakingDrawer(copied[q]) /\ c.call.op = "drawer"
      BY <3>1 DEF Turn, MakingDrawer
    <3>3. q \in DOMAIN copied /\ copied[q] \in Seq(Names) /\ IsPrefix(copied[q], copied[q])
      BY <1>3, PrefixIs
    <3> QED
      BY <1>4, <3>2, <3>3
  <2>2. CASE c \in parents
    <3>1. PICK i \in DOMAIN files : c = Turn(i, 1, MakingDrawer(Front(copied[files[i]])))
      BY <2>2 DEF parents
    <3>2. c.call = MakingDrawer(Front(copied[files[i]])) /\ c.call.op = "drawer"
      BY <3>1 DEF Turn, MakingDrawer
    <3>3. files[i] \in DOMAIN copied
      BY <1>2
    <3> QED
      BY <1>4, <1>5, <3>2, <3>3
  <2>3. CASE c \in created
    <3>1. PICK i \in DOMAIN files :
                c = Turn(i, 2, Creating(copied[files[i]], from[files[i]].data))
      BY <2>3 DEF created
    <3>2. /\ c.call.op = "create" /\ c.call.path = copied[files[i]]
          /\ c.call.data = from[files[i]].data
      BY <3>1 DEF Turn, Creating
    <3>3. /\ copied[files[i]] \in DOMAIN goal
          /\ goal[copied[files[i]]] = File(from[files[i]].data)
      BY <1>2, <1>3
    <3> QED
      BY <3>2, <3>3 DEF Right
  <2> QED
    BY <1>1, <2>1, <2>2, <2>3
<1>7. ASSUME NEW q \in DOMAIN copied, NEW x \in Seq(Names) \ {<<>>}, IsPrefix(x, copied[q])
      PROVE  \E c \in w : Covers(c.call, x)
  <2>1. CASE q \in drawers
    <3> DEFINE c == Turn(0, Len(copied[q]), MakingDrawer(copied[q]))
    <3>1. c \in made
      BY <2>1 DEF made, Drawered
    <3>2. c.call.op = "drawer" /\ c.call.path = copied[q]
      BY DEF Turn, MakingDrawer
    <3> HIDE DEF c
    <3>3. x \in Chained(copied[q])
      BY <1>7, ChainedIs
    <3>4. Covers(c.call, x)
      BY <3>2, <3>3 DEF Covers
    <3> QED
      BY <1>1, <3>1, <3>4
  <2>2. CASE q \notin drawers
    <3>1. PICK i \in DOMAIN files : files[i] = q
      BY <1>2, <2>2
    <3>2. CASE x = copied[q]
      <4> DEFINE c == Turn(i, 2, Creating(copied[files[i]], from[files[i]].data))
      <4>1. c \in created
        BY DEF created
      <4>2. c.call.op = "create" /\ c.call.path = x
        BY <3>1, <3>2 DEF Turn, Creating
      <4> HIDE DEF c
      <4>3. Covers(c.call, x)
        BY <4>2 DEF Covers
      <4> QED
        BY <1>1, <4>1, <4>3
    <3>3. CASE x # copied[q]
      <4> DEFINE c == Turn(i, 1, MakingDrawer(Front(copied[files[i]])))
      <4>1. c \in parents
        BY DEF parents
      <4>2. c.call.op = "drawer" /\ c.call.path = Front(copied[q])
        BY <3>1 DEF Turn, MakingDrawer
      <4> HIDE DEF c
      <4> DEFINE path == copied[q]
                 front == Front(path)
      <4>3. /\ path \in Seq(Names) /\ front \in Seq(Names) /\ IsPrefix(front, path)
            /\ Len(front) = Len(path) - 1 /\ IsPrefix(x, path) /\ x # path
        BY <1>5, <1>7, <3>3
      <4> HIDE DEF path, front
      <4>4. IsPrefix(x, front)
        <5>1. Len(x) < Len(path) /\ Len(x) \in Nat /\ Len(path) \in Nat
          BY <4>3, PrefixIsBeginning
        <5>2. \A j \in 1..Len(x) : x[j] = path[j]
          BY <4>3, PrefixIs
        <5>3. \A j \in 1..Len(front) : front[j] = path[j]
          BY <4>3, PrefixIs
        <5>4. Len(x) <= Len(front) /\ \A j \in 1..Len(x) : x[j] = front[j]
          BY <4>3, <5>1, <5>2, <5>3
        <5> QED
          BY <4>3, <5>4, PrefixIs
      <4>5. x \in Chained(front)
        BY <4>3, <4>4, ChainedIs
      <4>6. Covers(c.call, x)
        BY <4>2, <4>5 DEF Covers, front, path
      <4> QED
        BY <1>1, <4>1, <4>6
    <3> QED
      BY <3>2, <3>3
  <2> QED
    BY <2>1, <2>2
<1> QED
  BY <1>6, <1>7 DEF w

\* A path in which another lies, but not the same, lies in the drawer of that.
LEMMA PrefixOfFront ==
    ASSUME NEW x \in Seq(Names), NEW path \in Seq(Names), IsPrefix(x, path), x # path
    PROVE  Front(path) \in Seq(Names) /\ IsPrefix(x, Front(path))
<1>1. Len(x) < Len(path) /\ Len(x) \in Nat /\ Len(path) \in Nat
      /\ \A j \in 1..Len(x) : x[j] = path[j]
  BY PrefixIs, PrefixIsBeginning
<1>2. path # <<>>
  BY <1>1
<1> DEFINE front == Front(path)
<1>3. front \in Seq(Names) /\ Len(front) = Len(path) - 1 /\ IsPrefix(front, path)
  BY <1>2, FrontIs
<1> HIDE DEF front
<1>4. \A j \in 1..Len(front) : front[j] = path[j]
  BY <1>3, PrefixIs
<1>5. Len(x) <= Len(front) /\ \A j \in 1..Len(x) : x[j] = front[j]
  BY <1>1, <1>3, <1>4
<1>6. IsPrefix(x, front)
  BY <1>3, <1>5, PrefixIs
<1> QED
  BY <1>3, <1>6 DEF front

\* A path that begins with another is that and the rest of it.
LEMMA JoinIs ==
    ASSUME NEW a \in Seq(Names), NEW q \in Seq(Names), IsPrefix(a, q)
    PROVE  SubSeq(q, Len(a) + 1, Len(q)) \in Seq(Names) /\ q = a \o SubSeq(q, Len(a) + 1, Len(q))
<1>1. Len(a) <= Len(q) /\ Len(a) \in Nat /\ Len(q) \in Nat
  BY PrefixIs
<1>2. SubSeq(q, Len(a) + 1, Len(q)) \in Seq(Names)
  BY <1>1
<1>3. Moved(q, a, a) = a \o SubSeq(q, Len(a) + 1, Len(q))
  BY DEF Moved
<1> QED
  BY <1>2, <1>3, MovedNowhere

\* The rest of two paths put together.
LEMMA RestIs ==
    ASSUME NEW a \in Seq(Names), NEW b \in Seq(Names)
    PROVE  SubSeq(a \o b, Len(a) + 1, Len(a \o b)) = b
<1> DEFINE ab == a \o b
           s == SubSeq(ab, Len(a) + 1, Len(ab))
<1>1. /\ ab \in Seq(Names) /\ Len(ab) = Len(a) + Len(b) /\ Len(a) \in Nat /\ Len(b) \in Nat
      /\ \A i \in 1..Len(a) + Len(b) : ab[i] = IF i <= Len(a) THEN a[i] ELSE b[i - Len(a)]
  BY ConcatProperties
<1> HIDE DEF ab
<1>2. /\ s \in Seq(Names) /\ Len(s) = Len(b)
      /\ \A i \in 1..Len(b) : s[i] = ab[Len(a) + i]
  BY <1>1
<1> HIDE DEF s
<1>3. ASSUME NEW i \in 1..Len(b) PROVE s[i] = b[i]
  <2> DEFINE j == Len(a) + i
  <2>1. j \in 1..Len(a) + Len(b) /\ ~(j <= Len(a)) /\ j - Len(a) = i
    BY <1>1
  <2>2. s[i] = ab[j]
    BY <1>2
  <2> HIDE DEF j
  <2> QED
    BY <1>1, <2>1, <2>2
<1>4. s = b
  BY <1>2, <1>3, PathsEqual
<1> QED
  BY <1>4 DEF s, ab

\* A path with a prefix that is replaced, and what lies above it.
LEMMA MovedAbove ==
    ASSUME NEW from \in Seq(Names), NEW to \in Seq(Names), NEW q \in Seq(Names),
           IsPrefix(from, q), NEW x \in Seq(Names), IsPrefix(to, x),
           IsPrefix(x, Moved(q, from, to)), x # Moved(q, from, to)
    PROVE  \E y \in Seq(Names) \ {q} :
              IsPrefix(from, y) /\ IsPrefix(y, q) /\ x = Moved(y, from, to)
<1> DEFINE y == Moved(x, to, from)
           s == SubSeq(x, Len(to) + 1, Len(x))
           g == SubSeq(q, Len(from) + 1, Len(q))
<1>1. y = from \o s /\ Moved(q, from, to) = to \o g
  BY DEF Moved
<1>2. s \in Seq(Names) /\ g \in Seq(Names) /\ x = to \o s /\ q = from \o g
  BY JoinIs
<1>3. y \in Seq(Names) /\ IsPrefix(from, y) /\ Moved(y, from, to) = x
  BY MovedIs, MovedBack
<1> HIDE DEF y, s, g
<1>4. IsPrefix(s, g)
  <2>1. IsPrefix(to \o s, to \o g)
    BY <1>1, <1>2
  <2> QED
    BY <1>2, <2>1, PrefixOfJoin
<1>5. IsPrefix(y, q)
  <2>1. IsPrefix(from \o s, from \o g)
    BY <1>2, <1>4, PrefixOfJoin
  <2> QED
    BY <1>1, <1>2, <2>1
<1>6. y # q
  BY <1>3
<1> QED
  BY <1>3, <1>5, <1>6

\* A copy of an object and all that is in it.
LEMMA CopyingBegins ==
    ASSUME NEW t, IsTree(t), NEW r, IsAsked(r, t), r.op = "copy",
           NEW from, IsTree(from), Exists(from, r.from[1])
    PROVE  Building(Promised(from, t, r), t, CopyCalls(from, t, r))
<1> DEFINE goal == Promised(from, t, r)
           base == Base(t, r)
           source == r.from[1]
           copied == [q \in Below(from, source) |-> Moved(q, source, base)]
           w == CopyCalls(from, t, r)
<1>1. source \in Seq(Names) /\ source # <<>> /\ source \in DOMAIN from
  <2>1. r.from \in Seq(Seq(Names) \ {<<>>}) /\ Len(r.from) = 1
    BY DEF IsAsked
  <2>2. source \in Seq(Names) \ {<<>>}
    BY <2>1
  <2> QED
    BY <2>2 DEF Exists
<1>2. base \in Seq(Names) /\ base # <<>>
  <2>1. r.to \in Seq(Names)
    BY DEF IsAsked
  <2>2. CASE IsDrawer(t, r.to)
    <3>1. Last(source) \in Names
      BY <1>1 DEF Last
    <3>2. Append(r.to, Last(source)) \in Seq(Names) /\ Append(r.to, Last(source)) # <<>>
      BY <2>1, <3>1
    <3> QED
      BY <2>2, <3>2 DEF Base
  <2>3. CASE ~IsDrawer(t, r.to)
    BY <2>1, <2>3 DEF Base, IsDrawer
  <2> QED
    BY <2>2, <2>3
<1>3. copied = Copied(from, t, r)
  BY DEF Copied
<1>4. goal = LaidOver([q \in Range(copied) |-> from[CHOOSE p \in DOMAIN copied : copied[p] = q]],
                      LaidOver(t, [p \in Above(base) |-> Drawer]))
  <2>1. goal = LaidOver([q \in Range(Copied(from, t, r)) |->
                          from[CHOOSE p \in DOMAIN Copied(from, t, r) : Copied(from, t, r)[p] = q]],
                      LaidOver(t, [p \in Above(Base(t, r)) |-> Drawer]))
    BY DEF Promised
  <2> HIDE DEF goal, copied
  <2> QED
    BY <1>3, <2>1
<1>5. DOMAIN copied = Below(from, source)
      /\ \A q \in DOMAIN copied : copied[q] = Moved(q, source, base)
  OBVIOUS
<1> HIDE DEF goal, base, source, copied, w
<1>6. \A q \in DOMAIN copied : q \in Seq(Names) /\ q \in DOMAIN from /\ IsPrefix(source, q)
  BY <1>5, ObjectOf DEF Below
<1>7. \A q \in DOMAIN copied :
        /\ copied[q] \in Seq(Names) /\ IsPrefix(base, copied[q])
        /\ Moved(copied[q], base, source) = q
  BY <1>1, <1>2, <1>5, <1>6, MovedIs, MovedBack
<1>8. \A q \in DOMAIN copied : copied[q] # <<>>
  <2> SUFFICES ASSUME NEW q \in DOMAIN copied PROVE copied[q] # <<>>
    OBVIOUS
  <2> DEFINE path == copied[q]
  <2>1. path \in Seq(Names) /\ IsPrefix(base, path)
    BY <1>7
  <2> HIDE DEF path
  <2>2. Len(base) <= Len(path) /\ Len(base) \in Nat /\ Len(base) # 0
    BY <1>2, <2>1, PrefixIs
  <2> QED
    BY <2>1, <2>2 DEF path
<1>9. /\ DOMAIN goal = Range(copied) \cup DOMAIN t \cup Above(base)
      /\ \A p \in Range(copied) : goal[p] = from[CHOOSE q \in DOMAIN copied : copied[q] = p]
      /\ \A p \in DOMAIN t \ Range(copied) : goal[p] = t[p]
      /\ \A p \in Above(base) \ (Range(copied) \cup DOMAIN t) : goal[p] = Drawer
  BY <1>4 DEF LaidOver
<1>10. \A q \in DOMAIN copied : copied[q] \in Range(copied) /\ goal[copied[q]] = from[q]
  <2> SUFFICES ASSUME NEW q \in DOMAIN copied
               PROVE  copied[q] \in Range(copied) /\ goal[copied[q]] = from[q]
    OBVIOUS
  <2>1. copied[q] \in Range(copied)
    BY DEF Range
  <2> DEFINE chosen == CHOOSE x \in DOMAIN copied : copied[x] = copied[q]
  <2>2. chosen \in DOMAIN copied /\ copied[chosen] = copied[q]
    OBVIOUS
  <2>3. goal[copied[q]] = from[chosen]
    BY <1>9, <2>1
  <2> HIDE DEF chosen
  <2>4. chosen = q
    BY <1>7, <2>2
  <2> QED
    BY <2>1, <2>3, <2>4
<1>11. \A p \in Range(copied) : IsPrefix(base, p)
  BY <1>7 DEF Range
<1>12. ASSUME NEW q \in DOMAIN copied, NEW x \in Seq(Names) \ {<<>>},
              IsPrefix(x, copied[q]), x # copied[q]
       PROVE  x \in DOMAIN goal /\ (goal[x] = Drawer \/ IsFile(t, x))
  <2>1. CASE IsPrefix(base, x)
    <3>1. PICK y \in Seq(Names) \ {q} :
              IsPrefix(source, y) /\ IsPrefix(y, q) /\ x = Moved(y, source, base)
      BY <1>1, <1>2, <1>5, <1>6, <1>12, <2>1, MovedAbove
    <3>2. y # <<>>
      <4>1. Len(source) <= Len(y) /\ Len(source) \in Nat /\ Len(source) # 0
        BY <1>1, <3>1, PrefixIs
      <4> QED
        BY <4>1
    <3>3. IsDrawer(from, y)
      BY <1>6, <3>1, AboveIsDrawer
    <3>4. y \in DOMAIN from /\ from[y] = Drawer
      BY <3>2, <3>3, ObjectOf DEF IsDrawer, IsObject
    <3>5. y \in DOMAIN copied /\ copied[y] = x
      BY <1>5, <3>1, <3>4 DEF Below
    <3> QED
      BY <1>9, <1>10, <3>4, <3>5
  <2>2. CASE ~IsPrefix(base, x)
    <3>1. IsPrefix(x, base) /\ x # base
      <4>1. copied[q] \in Seq(Names) /\ IsPrefix(base, copied[q])
        BY <1>7
      <4>2. IsPrefix(x, base)
        BY <1>2, <1>12, <2>2, <4>1, PrefixesNest
      <4>3. IsPrefix(base, base)
        BY <1>2, PrefixIs
      <4> QED
        BY <2>2, <4>2, <4>3
    <3>2. x \in Above(base)
      BY <1>2, <3>1, ChainedIs DEF Chained
    <3>3. x \notin Range(copied)
      BY <1>11, <2>2
    <3>4. CASE x \in DOMAIN t
      BY <1>9, <3>3, <3>4, ObjectOf DEF IsObject, IsFile
    <3>5. CASE x \notin DOMAIN t
      BY <1>9, <3>2, <3>3, <3>5
    <3> QED
      BY <3>4, <3>5
  <2> QED
    BY <2>1, <2>2
<1>13. /\ \A c \in w : c.call.op \in {"drawer", "write", "create"} /\ Right(goal, t, c.call)
       /\ \A q \in DOMAIN copied : \A x \in Seq(Names) \ {<<>>} :
            IsPrefix(x, copied[q]) => \E c \in w : Covers(c.call, x)
  <2>1. DOMAIN copied \subseteq DOMAIN from
    BY <1>6
  <2>2. \A q \in DOMAIN copied :
            /\ copied[q] \in Seq(Names) \ {<<>>}
            /\ copied[q] \in DOMAIN goal
            /\ goal[copied[q]] = from[q]
    BY <1>7, <1>8, <1>9, <1>10
  <2> QED
    BY <1>3, <1>12, <2>1, <2>2, CopyCallsBuild DEF w
<1>14. ASSUME NEW p \in DOMAIN goal
       PROVE  (p \in DOMAIN t /\ t[p] = goal[p]) \/ \E c \in w : Covers(c.call, p)
  <2>1. CASE p \in Range(copied)
    <3>1. PICK q \in DOMAIN copied : p = copied[q]
      BY <2>1 DEF Range
    <3>2. p \in Seq(Names) \ {<<>>} /\ IsPrefix(p, copied[q])
      BY <1>7, <1>8, <3>1, PrefixIs
    <3> QED
      BY <1>13, <3>2
  <2>2. CASE p \in Above(base)
    <3>1. p \in Seq(Names) \ {<<>>} /\ IsPrefix(p, base)
      BY <1>2, <2>2, AboveAre
    <3>2. source \in DOMAIN copied
      BY <1>1, <1>5, PrefixIs DEF Below
    <3>3. IsPrefix(p, copied[source])
      <4>1. copied[source] \in Seq(Names) /\ IsPrefix(base, copied[source])
        BY <1>7, <3>2
      <4> QED
        BY <1>2, <3>1, <4>1, PrefixOfPrefix
    <3> QED
      BY <1>13, <3>1, <3>2, <3>3
  <2>3. CASE p \in DOMAIN t \ Range(copied)
    BY <1>9, <2>3
  <2> QED
    BY <1>9, <2>1, <2>2, <2>3
<1>15. DOMAIN t \subseteq DOMAIN goal
  BY <1>9
<1> QED
  BY <1>13, <1>14, <1>15 DEF Building, goal, w

\* A whole disc in a drawer of its own.
LEMMA ExtractingBegins ==
    ASSUME NEW t, IsTree(t), NEW r, IsAsked(r, t), r.op = "extract", ExtractAllowed(t, r)
    PROVE  Building(Promised(Disc, t, r), t, ExtractCalls(t, r))
<1> DEFINE goal == Promised(Disc, t, r)
           copied == [q \in DOMAIN Disc |-> r.to \o q]
           first == Drawered({r.to})
           w == CopyCalls(Disc, t, r)
<1>1. /\ r.to \in Seq(Names) /\ r.to # <<>> /\ r.to \notin DOMAIN t
      /\ IsDrawer(t, Front(r.to)) /\ IsTree(Disc)
  BY TreesAssumption DEF IsAsked, ExtractAllowed, Exists
<1>2. copied = Copied(Disc, t, r) /\ DOMAIN copied = DOMAIN Disc
      /\ \A q \in DOMAIN copied : copied[q] = r.to \o q
  BY DEF Copied
<1>3. goal = [q \in DOMAIN t \cup {r.to} \cup {r.to \o p : p \in DOMAIN Disc} |->
                IF q \in DOMAIN t THEN t[q] ELSE IF q = r.to THEN Drawer
                ELSE Disc[SubSeq(q, Len(r.to) + 1, Len(q))]]
  BY DEF Promised
<1>4. /\ DOMAIN goal = DOMAIN t \cup {r.to} \cup {r.to \o p : p \in DOMAIN Disc}
      /\ \A q \in DOMAIN t : goal[q] = t[q]
      /\ goal[r.to] = Drawer
      /\ \A q \in {r.to \o p : p \in DOMAIN Disc} : q \notin DOMAIN t /\ q # r.to =>
            goal[q] = Disc[SubSeq(q, Len(r.to) + 1, Len(q))]
  BY <1>1, <1>3
<1>5. ExtractCalls(t, r) = first \cup w
  BY DEF ExtractCalls
<1> HIDE DEF goal, copied, first, w
\* There is nothing yet where the disc goes.
<1>6. \A q \in DOMAIN t : ~IsPrefix(r.to, q)
  <2> SUFFICES ASSUME NEW q \in DOMAIN t, IsPrefix(r.to, q) PROVE FALSE
    OBVIOUS
  <2>1. IsDrawer(t, r.to)
    BY <1>1, AboveIsDrawer
  <2> QED
    BY <1>1, <2>1 DEF IsDrawer
<1>7. \A q \in DOMAIN copied :
        /\ q \in Seq(Names) /\ q # <<>> /\ q \in DOMAIN Disc
        /\ copied[q] \in Seq(Names) \ {<<>>} /\ IsPrefix(r.to, copied[q]) /\ copied[q] # r.to
        /\ copied[q] \notin DOMAIN t /\ copied[q] \in DOMAIN goal
        /\ goal[copied[q]] = Disc[q]
  <2> SUFFICES ASSUME NEW q \in DOMAIN Disc
               PROVE  LET path == r.to \o q IN
                      /\ q \in Seq(Names) /\ q # <<>>
                      /\ path \in Seq(Names) \ {<<>>} /\ IsPrefix(r.to, path) /\ path # r.to
                      /\ path \notin DOMAIN t /\ path \in DOMAIN goal
                      /\ goal[path] = Disc[q]
    BY <1>2
  <2> DEFINE path == r.to \o q
  <2>1. q \in Seq(Names) /\ q # <<>> /\ Len(q) \in Nat /\ Len(q) # 0 /\ Len(r.to) \in Nat
        /\ Len(r.to) # 0
    BY <1>1, ObjectOf
  <2>2. /\ path \in Seq(Names) /\ Len(path) = Len(r.to) + Len(q) /\ IsPrefix(r.to, path)
        /\ SubSeq(path, Len(r.to) + 1, Len(path)) = q
    BY <1>1, <2>1, PrefixOfJoin, RestIs
  <2>3. path \in {r.to \o p : p \in DOMAIN Disc}
    OBVIOUS
  <2> HIDE DEF path
  <2>4. path # <<>> /\ path # r.to
    BY <2>1, <2>2
  <2>5. path \notin DOMAIN t
    BY <1>6, <2>2
  <2> QED
    BY <1>4, <2>1, <2>2, <2>3, <2>4, <2>5 DEF path
\* What is above the new drawer is there.
<1>8. ASSUME NEW x \in Seq(Names) \ {<<>>}, IsPrefix(x, r.to)
      PROVE  x \in DOMAIN goal /\ goal[x] = Drawer
  <2>1. CASE x = r.to
    BY <1>4, <2>1
  <2>2. CASE x # r.to
    <3>1. Front(r.to) \in Seq(Names) /\ IsPrefix(x, Front(r.to))
      BY <1>1, <1>8, <2>2, PrefixOfFront
    <3>2. IsDrawer(t, x)
      BY <1>1, <3>1, DrawerIsDeep
    <3>3. x \in DOMAIN t /\ t[x] = Drawer
      BY <3>2, ObjectOf DEF IsDrawer, IsObject
    <3> QED
      BY <1>4, <3>3
  <2> QED
    BY <2>1, <2>2
<1>9. ASSUME NEW q \in DOMAIN copied, NEW x \in Seq(Names) \ {<<>>},
             IsPrefix(x, copied[q]), x # copied[q]
      PROVE  x \in DOMAIN goal /\ goal[x] = Drawer
  <2>1. CASE IsPrefix(r.to, x)
    <3> DEFINE s == SubSeq(x, Len(r.to) + 1, Len(x))
    <3>1. s \in Seq(Names) /\ x = r.to \o s
      BY <1>1, <2>1, JoinIs
    <3> HIDE DEF s
    <3>2. IsPrefix(s, q) /\ s # q
      <4>1. IsPrefix(r.to \o s, r.to \o q)
        BY <1>2, <1>9, <3>1
      <4>2. q \in Seq(Names)
        BY <1>7
      <4> QED
        BY <1>1, <1>2, <1>9, <3>1, <4>1, <4>2, PrefixOfJoin
    <3>3. CASE s = <<>>
      <4>1. x = r.to
        BY <1>1, <3>1, <3>3
      <4> QED
        BY <1>4, <4>1
    <3>4. CASE s # <<>>
      <4>1. IsDrawer(Disc, s)
        BY <1>1, <1>7, <3>1, <3>2, AboveIsDrawer
      <4>2. s \in DOMAIN Disc /\ Disc[s] = Drawer
        BY <1>1, <3>4, <4>1, ObjectOf DEF IsDrawer, IsObject
      <4> QED
        BY <1>2, <1>7, <3>1, <4>2
    <3> QED
      BY <3>3, <3>4
  <2>2. CASE ~IsPrefix(r.to, x)
    <3>1. IsPrefix(x, r.to)
      BY <1>1, <1>7, <1>9, <2>2, PrefixesNest
    <3> QED
      BY <1>8, <3>1
  <2> QED
    BY <2>1, <2>2
<1>10. /\ \A c \in w : c.call.op \in {"drawer", "write", "create"} /\ Right(goal, t, c.call)
       /\ \A q \in DOMAIN copied : \A x \in Seq(Names) \ {<<>>} :
            IsPrefix(x, copied[q]) => \E c \in w : Covers(c.call, x)
  <2>1. copied = Copied(Disc, t, r) /\ DOMAIN copied \subseteq DOMAIN Disc /\ IsTree(Disc)
    BY <1>1, <1>2
  <2>2. \A q \in DOMAIN copied :
            /\ copied[q] \in Seq(Names) \ {<<>>}
            /\ copied[q] \in DOMAIN goal
            /\ goal[copied[q]] = Disc[q]
    BY <1>7
  <2>3. \A q \in DOMAIN copied : \A x \in Seq(Names) \ {<<>>} :
            IsPrefix(x, copied[q]) /\ x # copied[q] =>
                x \in DOMAIN goal /\ (goal[x] = Drawer \/ IsFile(t, x))
    BY <1>9
  <2> QED
    BY <2>1, <2>2, <2>3, CopyCallsBuild DEF w
<1>11. /\ \A c \in first : c.call.op = "drawer" /\ Right(goal, t, c.call)
       /\ \E c \in first : Covers(c.call, r.to)
  <2> DEFINE c == Turn(0, Len(r.to), MakingDrawer(r.to))
  <2>1. first = {c}
    BY DEF first, Drawered
  <2>2. c.call.op = "drawer" /\ c.call.path = r.to
    BY DEF Turn, MakingDrawer
  <2> HIDE DEF c
  <2>3. \A x \in Chained(r.to) : x \in DOMAIN goal /\ goal[x] = Drawer
    BY <1>1, <1>8, ChainedIs
  <2>4. Right(goal, t, c.call)
    BY <2>2, <2>3 DEF Right
  <2>5. Covers(c.call, r.to)
    BY <1>1, <2>2 DEF Covers, Chained
  <2> QED
    BY <2>1, <2>2, <2>4, <2>5
<1>12. ASSUME NEW p \in DOMAIN goal
       PROVE  (p \in DOMAIN t /\ t[p] = goal[p]) \/ \E c \in first \cup w : Covers(c.call, p)
  <2>1. CASE p \in DOMAIN t
    BY <1>4, <2>1
  <2>2. CASE p = r.to
    BY <1>11, <2>2
  <2>3. CASE p \in {r.to \o q : q \in DOMAIN Disc}
    <3>1. PICK q \in DOMAIN copied : p = copied[q]
      BY <1>2, <2>3
    <3>2. p \in Seq(Names) \ {<<>>} /\ IsPrefix(p, copied[q])
      BY <1>7, <3>1, PrefixIs
    <3> QED
      BY <1>10, <3>2
  <2> QED
    BY <1>4, <2>1, <2>2, <2>3
<1>13. DOMAIN t \subseteq DOMAIN goal
  BY <1>4
<1>14. Building(goal, t, first \cup w)
  BY <1>10, <1>11, <1>12, <1>13 DEF Building
<1> QED
  BY <1>5, <1>14 DEF goal

-----------------------------------------------------------------------------
(* A request from its mount to its end.                                    *)

\* The calls that carry out a request come to what it promises.
LEMMA KeepingBegins ==
    ASSUME NEW t, IsTree(t), NEW r, IsAsked(r, t), Allowed(t, r),
           \A part \in Partitions : IsTree(volumes[part])
    PROVE  Keeping(Original(volumes, r), t, r, t, Calls(t, r))
<1> DEFINE from == Original(volumes, r)
           w == Calls(t, r)
<1>1. CASE Moving(r) /\ kind = "image"
  <2>1. w = {Turn(m.turn, 0, Renaming(m.from, m.to)) : m \in MovesOf(r)}
    BY <1>1 DEF Calls, Moving
  <2>2. Shifted(t, r, t, w)
    BY <2>1, ShiftedBegins
  <2> QED
    BY <1>1, <2>2 DEF Keeping, Moving
<1>2. CASE Moving(r) /\ kind # "image"
  <2>1. r.op = "rename"
    BY <1>2 DEF IsAsked, Moving
  <2>2. w = RenameCalls(t, r) /\ RenameAllowed(t, r)
    BY <1>2, <2>1 DEF Calls, Allowed
  <2>3. Replacing(t, r, t, w)
    BY <2>1, <2>2, ReplacingBegins
  <2> QED
    BY <1>2, <2>1, <2>3 DEF Keeping
<1>3. CASE r.op = "delete"
  <2>1. w = Removals(t, r) \/ w = Discards(t, r.from)
    BY <1>3 DEF Calls
  <2>2. Clearing(Promised(from, t, r), t, w)
    BY <1>3, <2>1, DeletingBegins
  <2> QED
    BY <1>3, <2>2 DEF Keeping, Moving
<1>4. CASE r.op \in {"mkdir", "put", "import", "copy", "extract", "annotate"}
  <2> SUFFICES Building(Promised(from, t, r), t, w)
    BY <1>4 DEF Keeping, Moving
  <2>1. CASE r.op = "mkdir"
    <3>1. w = {Turn(1, 0, MakingDrawer(r.to))} /\ ~Exists(t, r.to)
      BY <2>1 DEF Calls, Allowed
    <3> QED
      BY <2>1, <3>1, MakingBegins
  <2>2. CASE r.op = "put"
    <3>1. w = {Turn(1, 0, Writing(r.to, r.data))}
      BY <2>2 DEF Calls
    <3> QED
      BY <2>2, <3>1, PuttingBegins
  <2>3. CASE r.op = "import"
    <3>1. w = FolderCalls(t, r) /\ \A p \in Landing(r) : ~IsDrawer(t, p)
      BY <2>3 DEF Calls, Allowed
    <3> QED
      BY <2>3, <3>1, FolderBegins
  <2>4. CASE r.op = "copy"
    <3>1. w = CopyCalls(from, t, r) /\ CopyAllowed(from, t, r)
      BY <2>4 DEF Calls, Allowed
    <3>2. from = volumes[r.source] /\ IsTree(from)
      BY <2>4 DEF Original, IsAsked
    <3>3. Exists(from, r.from[1])
      BY <2>4, <3>1 DEF CopyAllowed
    <3> HIDE DEF from
    <3> QED
      BY <2>4, <3>1, <3>2, <3>3, CopyingBegins
  <2>5. CASE r.op = "extract"
    <3>1. w = ExtractCalls(t, r) /\ ExtractAllowed(t, r) /\ from = Disc
      BY <2>5 DEF Calls, Allowed, Original
    <3> QED
      BY <2>5, <3>1, ExtractingBegins
  <2>6. CASE r.op = "annotate"
    <3>1. w = {} /\ Promised(from, t, r) = t
      BY <2>6 DEF Calls, Promised
    <3> QED
      BY <3>1 DEF Building
  <2> QED
    BY <1>4, <2>1, <2>2, <2>3, <2>4, <2>5, <2>6
<1> QED
  BY <1>1, <1>2, <1>3, <1>4 DEF IsAsked, Moving

\* The next call keeps to it.
LEMMA KeepingGoesOn ==
    ASSUME NEW t, IsTree(t), NEW r, IsAsked(r, t), NEW from,
           Moving(r) /\ kind = "image" => MoveAllowed(t, r),
           NEW v, IsTree(v), NEW w, Keeping(from, t, r, v, w), NEW c \in w, IsCall(c.call),
           ~\E d \in w : Sooner(d, c), NEW room, Accepts(v, c.call, room)
    PROVE  Keeping(from, t, r, After(v, c.call), w \ {c})
<1> DEFINE u == After(v, c.call)
           left == w \ {c}
<1>1. CASE Moving(r) /\ kind = "image"
  <2>1. Shifted(t, r, v, w)
    BY <1>1 DEF Keeping, Moving
  <2>2. Shifted(t, r, u, left)
    BY <1>1, <2>1, ShiftedGoesOn
  <2> QED
    BY <1>1, <2>2 DEF Keeping, Moving
<1>2. CASE Moving(r) /\ kind # "image"
  <2>1. r.op = "rename"
    BY <1>2 DEF IsAsked, Moving
  <2>2. Replacing(t, r, v, w)
    BY <1>2, <2>1 DEF Keeping
  <2>3. Replacing(t, r, u, left)
    BY <2>1, <2>2, ReplacingGoesOn
  <2> QED
    BY <1>2, <2>1, <2>3 DEF Keeping
<1>3. CASE r.op = "delete"
  <2>1. Clearing(Promised(from, t, r), v, w)
    BY <1>3 DEF Keeping, Moving
  <2>2. Clearing(Promised(from, t, r), u, left)
    BY <2>1, ClearingGoesOn
  <2> QED
    BY <1>3, <2>2 DEF Keeping, Moving
<1>4. CASE ~Moving(r) /\ r.op # "delete"
  <2>1. Building(Promised(from, t, r), v, w)
    BY <1>4 DEF Keeping, Moving
  <2>2. Building(Promised(from, t, r), u, left)
    BY <2>1, BuildingGoesOn
  <2> QED
    BY <1>4, <2>2 DEF Keeping, Moving
<1> QED
  BY <1>1, <1>2, <1>3, <1>4

\* What is promised is a volume.
LEMMA PromisedIsFunction ==
    ASSUME NEW t, IsTree(t), NEW r, IsAsked(r, t), ~Moving(r), NEW from
    PROVE  Promised(from, t, r) = [p \in DOMAIN Promised(from, t, r) |-> Promised(from, t, r)[p]]
<1> DEFINE goal == Promised(from, t, r)
<1>1. t = [p \in DOMAIN t |-> t[p]]
  BY ObjectOf
<1>2. \A f, g : LaidOver(f, g) = [p \in DOMAIN LaidOver(f, g) |-> LaidOver(f, g)[p]]
  BY DEF LaidOver
<1>3. CASE r.op = "delete"
  <2>1. goal = [q \in DOMAIN t \ UNION {Below(t, p) : p \in Range(r.from)} |-> t[q]]
    BY <1>3 DEF Promised, Without, Restrict
  <2> HIDE DEF goal
  <2>2. goal = [p \in DOMAIN goal |-> goal[p]]
    BY <2>1
  <2> QED
    BY <2>2 DEF goal
<1>4. CASE r.op = "put"
  <2>1. goal = [q \in DOMAIN t \cup {r.to} |-> IF q = r.to THEN File(r.data) ELSE t[q]]
    BY <1>4 DEF Promised, With
  <2> HIDE DEF goal
  <2>2. goal = [p \in DOMAIN goal |-> goal[p]]
    BY <2>1
  <2> QED
    BY <2>2 DEF goal
<1>5. CASE r.op = "mkdir"
  <2>1. \E f, g : goal = LaidOver(f, g)
    BY <1>5 DEF Promised
  <2> HIDE DEF goal
  <2>2. goal = [p \in DOMAIN goal |-> goal[p]]
    BY <1>2, <2>1
  <2> QED
    BY <2>2 DEF goal
<1>6. CASE r.op = "import"
  <2>1. goal = t \/ \E f, g : goal = LaidOver(f, g)
    BY <1>6 DEF Promised
  <2> HIDE DEF goal
  <2>2. goal = [p \in DOMAIN goal |-> goal[p]]
    BY <1>1, <1>2, <2>1
  <2> QED
    BY <2>2 DEF goal
<1>7. CASE r.op = "copy"
  <2>1. \E f, g : goal = LaidOver(f, g)
    BY <1>7 DEF Promised
  <2> HIDE DEF goal
  <2>2. goal = [p \in DOMAIN goal |-> goal[p]]
    BY <1>2, <2>1
  <2> QED
    BY <2>2 DEF goal
<1>8. CASE r.op = "extract"
  <2>1. goal = [q \in DOMAIN t \cup {r.to} \cup {r.to \o p : p \in DOMAIN Disc} |->
                  IF q \in DOMAIN t THEN t[q] ELSE IF q = r.to THEN Drawer
                  ELSE Disc[SubSeq(q, Len(r.to) + 1, Len(q))]]
    BY <1>8 DEF Promised
  <2> HIDE DEF goal
  <2>2. goal = [p \in DOMAIN goal |-> goal[p]]
    BY <2>1
  <2> QED
    BY <2>2 DEF goal
<1>9. CASE r.op = "annotate"
  <2>1. goal = t
    BY <1>9 DEF Promised
  <2> QED
    BY <1>1, <2>1
<1> QED
  BY <1>3, <1>4, <1>5, <1>6, <1>7, <1>8, <1>9 DEF IsAsked, Moving

\* When every call is made the volume is what was promised.
LEMMA KeepingEnds ==
    ASSUME NEW t, IsTree(t), NEW r, IsAsked(r, t), NEW from, NEW v, IsTree(v),
           Keeping(from, t, r, v, {})
    PROVE  v = Promised(from, t, r)
<1>0. v = [q \in DOMAIN v |-> v[q]]
  BY ObjectOf
<1> DEFINE moves == MovesOf(r)
           old == Old(t, r)
<1>1. Moving(r) => Promised(from, t, r) =
            [q \in {Followed(p, moves) : p \in DOMAIN old} |->
                old[CHOOSE p \in DOMAIN old : Followed(p, moves) = q]]
  BY DEF Promised, Old, Moving
<1>2. CASE Moving(r) /\ kind = "image"
  <2>1. Shifted(t, r, v, {})
    BY <1>2 DEF Keeping, Moving
  <2>2. Made(r, {}) = moves
    BY DEF Made
  <2>3. old = t
    BY <1>2 DEF Old, IsAsked
  <2> HIDE DEF moves, old
  <2>4. /\ DOMAIN v = {Followed(p, moves) : p \in DOMAIN old}
        /\ \A p \in DOMAIN old : v[Followed(p, moves)] = old[p]
    BY <2>1, <2>2, <2>3 DEF Shifted
  <2> QED
    BY <1>0, <1>1, <1>2, <2>4, Arrived
<1>3. CASE Moving(r) /\ kind # "image"
  <2>1. r.op = "rename"
    BY <1>3 DEF IsAsked, Moving
  <2>2. Replacing(t, r, v, {})
    BY <1>3, <2>1 DEF Keeping
  <2>3. /\ DOMAIN v = {Moved(p, r.from[1], r.to) : p \in DOMAIN old}
        /\ \A p \in DOMAIN old : v[Moved(p, r.from[1], r.to)] = old[p]
    BY <2>2 DEF Replacing
  <2>4. DOMAIN old \subseteq DOMAIN t
    BY DEF Old, Without, Restrict
  <2>5. \A p \in DOMAIN old : Followed(p, moves) = Moved(p, r.from[1], r.to)
    BY <2>1, <2>4, RenameFollowed
  <2> HIDE DEF moves, old
  <2>6. /\ DOMAIN v = {Followed(p, moves) : p \in DOMAIN old}
        /\ \A p \in DOMAIN old : v[Followed(p, moves)] = old[p]
    BY <2>3, <2>5
  <2> QED
    BY <1>0, <1>1, <1>3, <2>6, Arrived
<1>4. CASE ~Moving(r)
  <2>1. Clearing(Promised(from, t, r), v, {}) \/ Building(Promised(from, t, r), v, {})
    BY <1>4 DEF Keeping, Moving
  <2>2. Promised(from, t, r) = [p \in DOMAIN Promised(from, t, r) |-> Promised(from, t, r)[p]]
    BY <1>4, PromisedIsFunction
  <2> QED
    BY <1>0, <2>1, <2>2, GoalReached
<1> QED
  BY <1>2, <1>3, <1>4

-----------------------------------------------------------------------------
(* The invariant.                                                          *)

PromiseInv ==
    /\ FilesInv
    /\ volumes = [part \in Partitions |-> volumes[part]]
    /\ request # None =>
        /\ start.volumes = [part \in DOMAIN start.volumes |-> start.volumes[part]]
        /\ work # Unopened =>
              Keeping(Original(start.volumes, request), start.volumes[at], request,
                      volumes[at], work)

\* It holds before the first request.
LEMMA PromiseInit == Init => PromiseInv
<1> SUFFICES ASSUME Init PROVE PromiseInv
  OBVIOUS
<1>1. FilesInv
  BY FilesInit
<1>2. volumes = [part \in Partitions |-> volumes[part]]
  <2>1. volumes \in [IF kind = "image" THEN {0} ELSE {0, 1} -> Trees]
    BY DEF Init
  <2> QED
    BY <2>1 DEF Partitions
<1>3. request = None
  BY DEF Init
<1> QED
  BY <1>1, <1>2, <1>3 DEF PromiseInv

\* Every step keeps it.
LEMMA PromiseNext == PromiseInv /\ [Next]_vars => PromiseInv'
<1> SUFFICES ASSUME PromiseInv, [Next]_vars PROVE PromiseInv'
  OBVIOUS
<1>1. FilesInv /\ FilesInv'
  BY FilesNext DEF PromiseInv
<1>2. volumes = [part \in Partitions |-> volumes[part]]
  BY DEF PromiseInv
<1>3. request # None => RequestInv
  BY <1>1 DEF FilesInv
<1> DEFINE Same == UNCHANGED <<kind, volumes, request, work, at, start>>
\* A step after which no request is at work.
<1>4. ASSUME request' = None, volumes' = [part \in Partitions' |-> volumes'[part]]
      PROVE  PromiseInv'
  BY <1>1, <1>4 DEF PromiseInv
<1>5. ASSUME PutBack, request # None, request' = None PROVE PromiseInv'
  <2>1. volumes' = volumes \/ volumes' = start.volumes
    BY <1>5 DEF PutBack
  <2>2. volumes' = [part \in DOMAIN volumes' |-> volumes'[part]]
    BY <1>2, <1>5, <2>1 DEF PromiseInv, Partitions
  <2> QED
    BY <1>4, <1>5, <2>2 DEF Partitions
<1>6. ASSUME NEW part \in Partitions, NEW r \in Requests(part), Begin(r) PROVE PromiseInv'
  <2>1. /\ request = None /\ volumes' = volumes /\ start'.volumes = volumes
        /\ work' = work
    BY <1>6 DEF Begin
  <2>2. work = Unopened
    BY <1>1, <2>1 DEF FilesInv
  <2> QED
    BY <1>1, <1>2, <2>1, <2>2 DEF PromiseInv, Partitions
<1>7. ASSUME Open PROVE PromiseInv'
  <2>1. /\ request # None /\ work = Unopened /\ Allowed(volumes[selected], request)
        /\ at' = selected /\ work' = Calls(volumes[selected], request)
        /\ UNCHANGED <<kind, volumes, request, start>>
    BY <1>7 DEF Open
  <2>2. /\ selected = request.part /\ volumes = start.volumes /\ selected \in Partitions
        /\ IsAsked(request, start.volumes[selected])
        /\ \A part \in Partitions : IsTree(volumes[part])
    BY <1>1, <1>3, <2>1 DEF RequestInv, FilesInv
  <2> DEFINE t == volumes[selected]
  <2>3. IsTree(t) /\ IsAsked(request, t) /\ Allowed(t, request)
    BY <2>1, <2>2
  <2> HIDE DEF t
  <2>4. Keeping(Original(volumes, request), t, request, t, Calls(t, request))
    BY <2>2, <2>3, KeepingBegins
  <2>5. Keeping(Original(start.volumes, request), start.volumes[at], request,
                volumes[at], work)'
    BY <2>1, <2>2, <2>4 DEF t, Keeping, Original
  <2> QED
    BY <1>1, <1>2, <2>1, <2>5 DEF PromiseInv, Partitions
<1>8. ASSUME Turned PROVE PromiseInv'
  BY <1>5, <1>8 DEF Turned, Over
<1>9. ASSUME Call PROVE PromiseInv'
  <2>1. /\ request # None /\ work # Unopened
        /\ UNCHANGED <<kind, request, at, start>>
    BY <1>9 DEF Call, Working
  <2>2. PICK c \in Due :
            /\ Accepts(volumes[at], c.call, Room)
            /\ volumes' = [volumes EXCEPT ![at] = After(@, c.call)]
            /\ work' = work \ {c}
    BY <1>9 DEF Call
  <2> DEFINE t == start.volumes[at]
             v == volumes[at]
             from == Original(start.volumes, request)
  <2>3. /\ at = request.part /\ at \in Partitions /\ IsTree(t) /\ IsAsked(request, t)
        /\ Doing(t, request, v, work) /\ IsTree(v)
    BY <1>1, <1>3, <2>1 DEF RequestInv, FilesInv
  <2>4. c \in work /\ ~\E d \in work : Sooner(d, c)
    BY DEF Due
  <2>5. Keeping(from, t, request, v, work)
    BY <2>1 DEF PromiseInv
  <2>6. volumes'[at] = After(v, c.call) /\ Accepts(v, c.call, Room)
    BY <2>2, <2>3 DEF Partitions
  <2> HIDE DEF t, v, from
  <2>7. IsCall(c.call) /\ (Moving(request) /\ kind = "image" => MoveAllowed(t, request))
    BY <2>3, <2>4 DEF Doing, IsTurn
  <2>8. Keeping(from, t, request, After(v, c.call), work \ {c})
    BY <2>3, <2>4, <2>5, <2>6, <2>7, KeepingGoesOn
  <2>9. Keeping(Original(start.volumes, request), start.volumes[at], request,
                volumes[at], work)'
    BY <2>1, <2>2, <2>6, <2>8 DEF t, from, Keeping, Original
  <2>10. volumes' = [part \in Partitions' |-> volumes'[part]]
    BY <1>2, <2>2 DEF Partitions
  <2> QED
    BY <1>1, <2>1, <2>9, <2>10 DEF PromiseInv
<1>10. ASSUME Refuse PROVE PromiseInv'
  BY <1>5, <1>10 DEF Refuse, Over, Working
<1>11. ASSUME Fault PROVE PromiseInv'
  <2>1. request # None /\ request' = None
    BY <1>11 DEF Fault, Working, Over
  <2>2. volumes' = start.volumes \/ \E gone : volumes' = [volumes EXCEPT ![at] = Without(@, gone)]
    BY <1>11 DEF Fault
  <2>3. volumes' = [part \in Partitions' |-> volumes'[part]]
    <3>1. CASE volumes' = start.volumes
      BY <2>1, <3>1 DEF PromiseInv, Partitions
    <3>2. CASE \E gone : volumes' = [volumes EXCEPT ![at] = Without(@, gone)]
      BY <1>2, <3>2 DEF Partitions
    <3> QED
      BY <2>2, <3>1, <3>2
  <2> QED
    BY <1>4, <2>1, <2>3
<1>12. ASSUME Finish PROVE PromiseInv'
  <2>1. request' = None /\ volumes' = volumes
    BY <1>12 DEF Finish, Over
  <2> QED
    BY <1>2, <1>4, <2>1 DEF Partitions
<1>13. ASSUME UNCHANGED vars PROVE PromiseInv'
  <2>1. UNCHANGED <<kind, volumes, request, work, at, start>>
    BY <1>13 DEF vars
  <2>2. (request # None /\ work # Unopened) =>
            Keeping(Original(start.volumes, request), start.volumes[at], request,
                    volumes[at], work)'
    BY <2>1 DEF PromiseInv, Keeping, Original
  <2> QED
    BY <1>1, <1>2, <2>1, <2>2 DEF PromiseInv, Partitions
<1> QED
  BY <1>6, <1>7, <1>8, <1>9, <1>10, <1>11, <1>12, <1>13 DEF Next

\* A request whose calls are all made has made its volume what was promised,
\* and has left the others alone.
LEMMA PromiseStep == PromiseInv /\ [Next]_vars =>
        [Finished => volumes = [start.volumes EXCEPT ![request.part] =
                                  Promised(Original(start.volumes, request), @, request)]]_vars
<1> SUFFICES ASSUME PromiseInv, Finished
             PROVE  volumes = [start.volumes EXCEPT ![request.part] =
                                  Promised(Original(start.volumes, request), @, request)]
  OBVIOUS
<1>1. request # None /\ work = {} /\ work # Unopened
  BY DEF Finished, Unopened
<1> DEFINE t == start.volumes[at]
           from == Original(start.volumes, request)
<1>2. /\ at = request.part /\ at \in Partitions /\ DOMAIN start.volumes = Partitions
      /\ IsTree(t) /\ IsAsked(request, t) /\ IsTree(volumes[at])
      /\ \A part \in Partitions \ {at} : volumes[part] = start.volumes[part]
  BY <1>1 DEF PromiseInv, FilesInv, RequestInv
<1>3. Keeping(from, t, request, volumes[at], {})
  BY <1>1 DEF PromiseInv
<1>4. /\ volumes = [part \in Partitions |-> volumes[part]]
      /\ start.volumes = [part \in Partitions |-> start.volumes[part]]
  BY <1>1, <1>2 DEF PromiseInv
<1> HIDE DEF t, from
<1>5. volumes[at] = Promised(from, t, request)
  BY <1>2, <1>3, KeepingEnds
<1> QED
  BY <1>2, <1>4, <1>5 DEF t, from

\* A request that is answered without an error has done all it was asked on the
\* volume it named, and nothing on another: for any trees, folders and discs,
\* whatever failed before it, on an image, on a partition and on a drive opened
\* in place.
THEOREM PromisesAreKept == Spec => KeepsItsPromise
<1>1. Spec => []PromiseInv
  BY PromiseInit, PromiseNext, PTL DEF Spec
<1> QED
  BY <1>1, PromiseStep, PTL DEF Spec, KeepsItsPromise

-----------------------------------------------------------------------------
(* What is noted of the files.                                             *)

\* When every object was moved the files are where they were to go, and
\* nothing that stays was where one of them went.
LEMMA Settled ==
    ASSUME NEW t, IsTree(t), NEW r, IsAsked(r, t), Moving(r), NEW from, NEW v,
           Keeping(from, t, r, v, {}), kind = "image" => MoveAllowed(t, r),
           NEW p \in DOMAIN t \ Replaced(t, r)
    PROVE  /\ Followed(p, MovesOf(r)) \in DOMAIN v /\ v[Followed(p, MovesOf(r))] = t[p]
           /\ \A m \in MovesOf(r) : ~IsPrefix(m.to, p)
<1> DEFINE moves == MovesOf(r)
<1>1. ASSUME NEW m \in moves, ~Exists(t, m.to) PROVE ~IsPrefix(m.to, p)
  <2> SUFFICES ASSUME IsPrefix(m.to, p) PROVE FALSE
    OBVIOUS
  <2>1. m.to \in Seq(Names)
    BY MovesAre
  <2>2. m.to # p
    BY <1>1 DEF Exists
  <2>3. IsDrawer(t, m.to)
    BY <2>1, <2>2, AboveIsDrawer
  <2> QED
    BY <1>1, <2>3 DEF IsDrawer, Exists
<1>2. CASE kind = "image"
  <2>1. Shifted(t, r, v, {})
    BY <1>2 DEF Keeping, Moving
  <2>2. Made(r, {}) = moves
    BY DEF Made
  <2>3. \A m \in moves : ~Exists(t, m.to)
    BY <1>2 DEF MoveAllowed
  <2>4. Followed(p, moves) \in DOMAIN v /\ v[Followed(p, moves)] = t[p]
    BY <2>1, <2>2 DEF Shifted
  <2> QED
    BY <1>1, <2>3, <2>4
<1>3. CASE kind # "image"
  <2>1. r.op = "rename"
    BY <1>3 DEF IsAsked, Moving
  <2>2. Replacing(t, r, v, {})
    BY <1>3, <2>1 DEF Keeping
  <2>3. /\ RenameAllowed(t, r)
        /\ DOMAIN v = {Moved(q, r.from[1], r.to) : q \in DOMAIN Old(t, r)}
        /\ \A q \in DOMAIN Old(t, r) : v[Moved(q, r.from[1], r.to)] = Old(t, r)[q]
    BY <2>2 DEF Replacing
  <2>4. r.flag => Replaced(t, r) = Below(t, r.to)
    BY <2>1 DEF Replaced
  <2>5. p \in DOMAIN Old(t, r) /\ Old(t, r)[p] = t[p]
    <3>1. CASE r.flag /\ moves # {}
      <4>1. Old(t, r) = [q \in DOMAIN t \ Below(t, r.to) |-> t[q]]
        BY <3>1 DEF Old, Without, Restrict
      <4>2. p \in DOMAIN t \ Below(t, r.to)
        BY <2>4, <3>1
      <4> QED
        BY <4>1, <4>2
    <3>2. CASE ~(r.flag /\ moves # {})
      BY <3>2 DEF Old
    <3> QED
      BY <3>1, <3>2
  <2>6. Followed(p, moves) = Moved(p, r.from[1], r.to)
    BY <2>1, RenameFollowed
  <2>7. ASSUME NEW m \in moves PROVE ~IsPrefix(m.to, p)
    <3>1. m.to = r.to /\ m.to # m.from /\ m.from = r.from[1]
      BY <2>1, MovesAre
    <3>2. CASE r.flag
      BY <2>4, <3>1, <3>2 DEF Below
    <3>3. CASE ~r.flag
      <4>1. ~Exists(t, m.to)
        BY <2>3, <3>1, <3>3 DEF RenameAllowed
      <4> QED
        BY <1>1, <4>1
    <3> QED
      BY <3>2, <3>3
  <2> QED
    BY <2>3, <2>5, <2>6, <2>7
<1> QED
  BY <1>2, <1>3

\* Two paths that are moved do not go to the same place.
LEMMA ArriveApart ==
    ASSUME NEW t, IsTree(t), NEW r, IsAsked(r, t), Moving(r),
           kind = "image" => MoveAllowed(t, r),
           NEW p \in Seq(Names), NEW q \in Seq(Names), NEW m \in MovesOf(r), NEW n \in MovesOf(r),
           IsPrefix(m.from, p), IsPrefix(n.from, q),
           Moved(p, m.from, m.to) = Moved(q, n.from, n.to)
    PROVE  p = q
<1>1. /\ m.from \in Seq(Names) /\ m.to \in Seq(Names)
      /\ n.from \in Seq(Names) /\ n.to \in Seq(Names)
  BY MovesAre
<1> DEFINE there == Moved(p, m.from, m.to)
<1>2. there \in Seq(Names) /\ IsPrefix(m.to, there) /\ Moved(there, m.to, m.from) = p
  BY <1>1, MovedIs, MovedBack
<1>3. IsPrefix(n.to, there) /\ Moved(there, n.to, n.from) = q
  BY <1>1, MovedBack
<1> HIDE DEF there
<1>4. m = n
  <2>1. CASE r.op = "move"
    <3>1. r.to \in Seq(Names)
      BY DEF IsAsked
    <3>2. /\ m.to = Append(r.to, Last(m.from)) /\ Last(m.from) \in Names
          /\ n.to = Append(r.to, Last(n.from)) /\ Last(n.from) \in Names
      BY <2>1, MovesAre
    <3>3. Len(m.to) = Len(r.to) + 1 /\ Len(n.to) = Len(r.to) + 1
      BY <3>1, <3>2
    <3>4. m.to = n.to
      <4>1. \A i \in 1..Len(m.to) : m.to[i] = there[i]
        BY <1>1, <1>2, PrefixIs
      <4>2. \A i \in 1..Len(n.to) : n.to[i] = there[i]
        BY <1>1, <1>2, <1>3, PrefixIs
      <4>3. Len(m.to) = Len(n.to)
        BY <3>3
      <4>4. \A i \in 1..Len(m.to) : m.to[i] = n.to[i]
        BY <4>1, <4>2, <4>3
      <4> QED
        BY <1>1, <4>3, <4>4, PathsEqual
    <3> QED
      BY <2>1, <3>4 DEF MoveAllowed, IsAsked
  <2>2. CASE r.op = "rename"
    BY <2>2, RenameMoves
  <2> QED
    BY <2>1, <2>2 DEF Moving
<1> QED
  BY <1>2, <1>3, <1>4

\* What a move takes along goes to the place of a path, as one of the moves says.
LEMMA FollowedBy ==
    ASSUME NEW t, IsTree(t), NEW r, IsAsked(r, t), Moving(r),
           kind = "image" => MoveAllowed(t, r),
           NEW path \in Seq(Names), NEW m \in MovesOf(r), IsPrefix(m.from, path)
    PROVE  \E n \in MovesOf(r) :
              IsPrefix(n.from, path) /\ Followed(path, MovesOf(r)) = Moved(path, n.from, n.to)
<1>1. CASE kind = "image"
  <2>1. MoveAllowed(t, r)
    BY <1>1
  <2>2. MovesOf(r) \in SUBSET MovesOf(r)
    OBVIOUS
  <2> QED
    BY <2>1, <2>2, LongestMove
<1>2. CASE kind # "image"
  <2>1. r.op = "rename"
    BY <1>2 DEF IsAsked, Moving
  <2>2. MovesOf(r) = {m}
    BY <2>1, RenameMoves
  <2>3. Len(m.from) \in Nat
    <3>1. m.from \in Seq(Names)
      BY MovesAre
    <3> QED
      BY <3>1
  <2> QED
    BY <2>2, <2>3, FollowedOnce
<1> QED
  BY <1>1, <1>2

\* The first move that was made is the one with the longest path.
LEMMA RewrittenIs ==
    ASSUME NEW t, IsTree(t), NEW r, IsAsked(r, t), Moving(r), MoveAllowed(t, r),
           NEW v, Shifted(t, r, v, {}), NEW path \in Seq(Names)
    PROVE  Rewritten(path, MovesOf(r)) = Followed(path, MovesOf(r))
<1> DEFINE moves == MovesOf(r)
           matching == {m \in moves : IsPrefix(m.from, path)}
<1>1. CASE matching = {}
  <2>1. Rewritten(path, moves) = path
    BY <1>1 DEF Rewritten
  <2>2. \A m \in moves : ~IsPrefix(m.from, path)
    BY <1>1
  <2> QED
    BY <2>1, <2>2, FollowedNot
<1>2. CASE matching # {}
  <2>1. PICK m \in moves : IsPrefix(m.from, path)
    BY <1>2
  <2>2. moves \in SUBSET moves
    OBVIOUS
  <2>3. PICK n \in moves :
          /\ IsPrefix(n.from, path)
          /\ \A k \in moves \ {n} : IsPrefix(k.from, path) =>
                Len(k.from) \in Nat /\ Len(k.from) < Len(n.from)
          /\ Followed(path, moves) = Moved(path, n.from, n.to)
    BY <2>1, <2>2, LongestMove
  <2>4. \A k \in moves : k.from \in Seq(Names) /\ k.turn \in Nat
    BY MovesAre, TurnsDiffer
  <2>5. Made(r, {}) = moves
    BY DEF Made
  <2>6. ASSUME NEW k \in matching \ {n} PROVE n.turn < k.turn
    <3>1. IsPrefix(k.from, n.from)
      <4>1. /\ k.from \in Seq(Names) /\ n.from \in Seq(Names) /\ IsPrefix(k.from, path)
            /\ IsPrefix(n.from, path) /\ Len(k.from) < Len(n.from)
            /\ Len(k.from) \in Nat /\ Len(n.from) \in Nat
        BY <2>3, <2>4
      <4>2. IsPrefix(n.from, k.from) => Len(n.from) <= Len(k.from)
        BY <4>1, PrefixIs
      <4> QED
        BY <4>1, <4>2, PrefixesNest
    <3> QED
      BY <2>5, <3>1 DEF Shifted
  <2> DEFINE first == CHOOSE k \in matching : \A l \in matching : k.turn <= l.turn
  <2>7. n \in matching /\ \A l \in matching : n.turn <= l.turn
    BY <2>3, <2>4, <2>6
  <2>8. first \in matching /\ \A l \in matching : first.turn <= l.turn
    BY <2>7
  <2>9. Rewritten(path, moves) = Moved(path, first.from, first.to)
    BY <1>2 DEF Rewritten
  <2> HIDE DEF first
  <2>10. first = n
    <3>1. first.turn <= n.turn /\ first.turn \in Nat /\ n.turn \in Nat
      BY <2>4, <2>7, <2>8
    <3>2. ~(n.turn < first.turn)
      BY <3>1
    <3> QED
      BY <2>6, <2>8, <3>2
  <2> QED
    BY <2>3, <2>9, <2>10
<1> QED
  BY <1>1, <1>2

\* What is noted before a request is answered, and after it.
NotesInv ==
    /\ PromiseInv
    /\ DOMAIN notes \subseteq Seq(Names)
    /\ names \subseteq Seq(Names)
    /\ request # None => start.notes = notes

\* It holds before the first request.
LEMMA NotesInit == Init => NotesInv
<1> SUFFICES ASSUME Init PROVE NotesInv
  OBVIOUS
<1>1. PromiseInv
  BY PromiseInit
<1>2. DOMAIN notes \subseteq Seq(Names)
  <2>1. notes = [p \in Files(volumes[0]) |-> 0]
    BY DEF Init
  <2>2. 0 \in Partitions
    <3>1. volumes \in [IF kind = "image" THEN {0} ELSE {0, 1} -> Trees]
      BY DEF Init
    <3> QED
      BY <3>1 DEF Partitions
  <2>3. IsTree(volumes[0])
    BY <1>1, <2>2 DEF PromiseInv, FilesInv
  <2> QED
    BY <2>1, <2>3, ObjectOf DEF Files
<1>3. names = {} /\ request = None
  BY DEF Init
<1> QED
  BY <1>1, <1>2, <1>3 DEF NotesInv

\* What is kept by path is kept by paths of names.
LEMMA KeptByPath ==
    ASSUME NEW t, IsTree(t), NEW r, IsAsked(r, t),
           Moving(r) /\ kind = "image" => MoveAllowed(t, r),
           DOMAIN notes \subseteq Seq(Names), names \subseteq Seq(Names)
    PROVE  DOMAIN NotesAfter(r) \subseteq Seq(Names) /\ NamesAfter(r) \subseteq Seq(Names)
<1> DEFINE moves == MovesOf(r)
<1>1. ASSUME Moving(r), NEW p \in Seq(Names), NEW m \in moves
      PROVE  Moved(p, m.from, m.to) \in Seq(Names)
  <2>1. m.from \in Seq(Names) /\ m.to \in Seq(Names)
    BY <1>1, MovesAre
  <2>2. CASE IsPrefix(m.from, p)
    BY <2>1, <2>2, MovedIs
  <2>3. CASE ~IsPrefix(m.from, p)
    BY <2>3 DEF Moved
  <2> QED
    BY <2>2, <2>3
<1>2. DOMAIN NotesAfter(r) \subseteq Seq(Names)
  <2>1. CASE Moving(r)
    <3> DEFINE leaving == {p \in DOMAIN notes : \E m \in moves : IsPrefix(m.from, p)}
               arriving == [p \in leaving |-> Followed(p, moves)]
    <3>1. NotesAfter(r) =
            LaidOver([q \in Range(arriving) |-> notes[CHOOSE p \in leaving : arriving[p] = q]],
                     Without(notes, leaving))
      BY <2>1 DEF NotesAfter, NotesMoved, Moving
    <3>2. ASSUME NEW p \in leaving PROVE arriving[p] \in Seq(Names)
      <4>1. PICK m \in moves : IsPrefix(m.from, p)
        OBVIOUS
      <4>2. p \in Seq(Names)
        OBVIOUS
      <4>3. PICK n \in moves : Followed(p, moves) = Moved(p, n.from, n.to)
        BY <2>1, <4>1, <4>2, FollowedBy
      <4> QED
        BY <1>1, <2>1, <4>2, <4>3
    <3>3. DOMAIN arriving = leaving
      OBVIOUS
    <3> HIDE DEF arriving
    <3>4. Range(arriving) \subseteq Seq(Names)
      BY <3>2, <3>3 DEF Range
    <3>5. DOMAIN NotesAfter(r) = Range(arriving) \cup (DOMAIN notes \ leaving)
      BY <3>1 DEF LaidOver, Without, Restrict
    <3> QED
      BY <3>4, <3>5
  <2>2. CASE r.op = "delete"
    <3>1. DOMAIN NotesAfter(r) \subseteq DOMAIN notes
      BY <2>2 DEF NotesAfter, NotesLeft, Without, Restrict
    <3> QED
      BY <3>1
  <2>3. CASE r.op = "annotate"
    <3>1. r.from \in Seq(Seq(Names) \ {<<>>}) /\ Len(r.from) = 1
      BY <2>3 DEF IsAsked
    <3>2. r.from[1] \in Seq(Names)
      <4>1. r.from[1] \in Seq(Names) \ {<<>>}
        BY <3>1
      <4> QED
        BY <4>1
    <3>3. DOMAIN NotesAfter(r) = DOMAIN notes \cup {r.from[1]}
      BY <2>3 DEF NotesAfter, With
    <3> QED
      BY <3>2, <3>3
  <2>4. CASE ~Moving(r) /\ r.op \notin {"delete", "annotate"}
    BY <2>4 DEF NotesAfter, Moving
  <2> QED
    BY <2>1, <2>2, <2>3, <2>4
<1>3. NamesAfter(r) \subseteq Seq(Names)
  <2>1. CASE kind = "image" /\ Moving(r)
    <3>1. NamesAfter(r) = {Rewritten(p, moves) : p \in names}
      BY <2>1 DEF NamesAfter, Moving
    <3>2. ASSUME NEW p \in Seq(Names) PROVE Rewritten(p, moves) \in Seq(Names)
      <4> DEFINE matching == {m \in moves : IsPrefix(m.from, p)}
                 first == CHOOSE m \in matching : \A n \in matching : m.turn <= n.turn
      <4>1. CASE matching = {}
        BY <4>1 DEF Rewritten
      <4>2. CASE matching # {}
        <5>1. first \in matching
          <6> DEFINE turns == {m.turn : m \in matching}
          <6>1. turns \in SUBSET Nat /\ turns # {}
            BY <4>2, TurnsDiffer
          <6>2. \A k \in turns : \E m \in matching : k = m.turn
            OBVIOUS
          <6>3. \A m \in matching : m.turn \in turns
            OBVIOUS
          <6> HIDE DEF turns
          <6>4. PICK l \in turns : \A k \in turns : l <= k
            BY <6>1, LeastExists
          <6>5. \E m \in matching : \A n \in matching : m.turn <= n.turn
            BY <6>2, <6>3, <6>4
          <6> QED
            BY <6>5
        <5>2. Rewritten(p, moves) = Moved(p, first.from, first.to)
          BY <4>2 DEF Rewritten
        <5> HIDE DEF first
        <5> QED
          BY <1>1, <2>1, <5>1, <5>2
      <4> QED
        BY <4>1, <4>2
    <3> QED
      BY <3>1, <3>2
  <2>2. CASE ~(kind = "image" /\ Moving(r))
    <3>1. NamesAfter(r) \subseteq names \cup {r.to}
      BY <2>2 DEF NamesAfter, Moving
    <3> QED
      BY <3>1 DEF IsAsked
  <2> QED
    BY <2>1, <2>2
<1> QED
  BY <1>2, <1>3

\* Every step of a request, and its answer, keeps it.
LEMMA NotesNext == NotesInv /\ [Next]_vars => NotesInv'
<1> SUFFICES ASSUME NotesInv, [Next]_vars PROVE NotesInv'
  OBVIOUS
<1>1. PromiseInv /\ PromiseInv'
  BY PromiseNext DEF NotesInv
<1>2. DOMAIN notes \subseteq Seq(Names) /\ names \subseteq Seq(Names)
      /\ (request # None => start.notes = notes)
  BY DEF NotesInv
<1>3. ASSUME UNCHANGED <<notes, names>>, request' # None => start'.notes = notes'
      PROVE  NotesInv'
  BY <1>1, <1>2, <1>3 DEF NotesInv
<1>4. ASSUME NEW part \in Partitions, NEW r \in Requests(part), Begin(r) PROVE NotesInv'
  <2>1. start'.notes = notes /\ UNCHANGED <<notes, names>>
    BY <1>4 DEF Begin
  <2> QED
    BY <1>3, <2>1
<1>5. CASE Open
  BY <1>2, <1>3, <1>5 DEF Open
<1>6. CASE Turned
  BY <1>3, <1>6 DEF Turned, Over
<1>7. CASE Call
  BY <1>2, <1>3, <1>7 DEF Call
<1>8. CASE Refuse
  BY <1>3, <1>8 DEF Refuse, Over
<1>9. CASE Fault
  BY <1>3, <1>9 DEF Fault, Over
<1>10. CASE Finish
  <2>1. /\ request # None /\ work = {} /\ request' = None
        /\ notes' = NotesAfter(request) /\ names' = NamesAfter(request)
    BY <1>10 DEF Finish, Over
  <2>2. work # Unopened
    BY <2>1 DEF Unopened
  <2>3. RequestInv
    BY <1>1, <2>1 DEF PromiseInv, FilesInv
  <2> DEFINE t == start.volumes[request.part]
  <2>4. IsTree(t) /\ IsAsked(request, t) /\ Doing(t, request, volumes[at], work)
    BY <2>2, <2>3 DEF RequestInv
  <2> HIDE DEF t
  <2>5. Moving(request) /\ kind = "image" => MoveAllowed(t, request)
    BY <2>4 DEF Doing
  <2>6. DOMAIN NotesAfter(request) \subseteq Seq(Names)
        /\ NamesAfter(request) \subseteq Seq(Names)
    BY <1>2, <2>4, <2>5, KeptByPath
  <2> QED
    BY <1>1, <2>1, <2>6 DEF NotesInv
<1>11. CASE UNCHANGED vars
  BY <1>2, <1>3, <1>11 DEF vars
<1> QED
  BY <1>4, <1>5, <1>6, <1>7, <1>8, <1>9, <1>10, <1>11 DEF Next

\* A note goes where the moves take its file, or stays where the file stays.
LEMMA NoteMoves ==
    ASSUME NEW t, IsTree(t), NEW r, IsAsked(r, t), Moving(r),
           kind = "image" => MoveAllowed(t, r), DOMAIN notes \subseteq Seq(Names),
           NEW p \in DOMAIN notes \cap DOMAIN t, \A m \in MovesOf(r) : ~IsPrefix(m.to, p)
    PROVE  LET q == Followed(p, MovesOf(r)) IN
           q \in DOMAIN NotesAfter(r) /\ NotesAfter(r)[q] = notes[p]
<1> DEFINE moves == MovesOf(r)
           leaving == {x \in DOMAIN notes : \E m \in moves : IsPrefix(m.from, x)}
           arriving == [x \in leaving |-> Followed(x, moves)]
           after == NotesAfter(r)
           q == Followed(p, moves)
<1>1. after = LaidOver([x \in Range(arriving) |-> notes[CHOOSE y \in leaving : arriving[y] = x]],
                       Without(notes, leaving))
  BY DEF NotesAfter, NotesMoved, Moving
<1>2. DOMAIN arriving = leaving /\ \A x \in leaving : arriving[x] = Followed(x, moves)
  OBVIOUS
<1>3. \A x \in leaving : x \in DOMAIN notes /\ \E m \in moves : IsPrefix(m.from, x)
  OBVIOUS
<1>4. p \in leaving \/ \A m \in moves : ~IsPrefix(m.from, p)
  OBVIOUS
<1> HIDE DEF leaving, arriving, after, q
<1>5. /\ DOMAIN after = Range(arriving) \cup (DOMAIN notes \ leaving)
      /\ \A x \in Range(arriving) : after[x] = notes[CHOOSE y \in leaving : arriving[y] = x]
      /\ \A x \in (DOMAIN notes \ leaving) \ Range(arriving) : after[x] = notes[x]
  BY <1>1 DEF LaidOver, Without, Restrict
<1>6. \A x \in leaving : \E n \in moves :
            IsPrefix(n.from, x) /\ arriving[x] = Moved(x, n.from, n.to)
  <2> SUFFICES ASSUME NEW x \in leaving
               PROVE  \E n \in moves : IsPrefix(n.from, x) /\ arriving[x] = Moved(x, n.from, n.to)
    OBVIOUS
  <2>1. x \in Seq(Names)
    BY <1>3
  <2>2. PICK m \in moves : IsPrefix(m.from, x)
    BY <1>3
  <2>3. PICK n \in moves : IsPrefix(n.from, x) /\ Followed(x, moves) = Moved(x, n.from, n.to)
    BY <2>1, <2>2, FollowedBy
  <2> QED
    BY <1>2, <2>3
<1>7. CASE p \in leaving
  <2>1. q \in Range(arriving) /\ arriving[p] = q
    BY <1>2, <1>7 DEF Range, q
  <2> DEFINE chosen == CHOOSE y \in leaving : arriving[y] = q
  <2>2. chosen \in leaving /\ arriving[chosen] = q
    BY <1>7, <2>1
  <2>3. after[q] = notes[chosen]
    BY <1>5, <2>1
  <2> HIDE DEF chosen
  <2>4. chosen = p
    <3>1. PICK m \in moves : IsPrefix(m.from, p) /\ q = Moved(p, m.from, m.to)
      BY <1>6, <1>7, <2>1
    <3>2. PICK n \in moves : IsPrefix(n.from, chosen) /\ q = Moved(chosen, n.from, n.to)
      BY <1>6, <2>2
    <3>3. p \in Seq(Names) /\ chosen \in Seq(Names)
      BY <1>3, <2>2
    <3>4. Moved(p, m.from, m.to) = Moved(chosen, n.from, n.to)
      BY <3>1, <3>2
    <3> QED
      BY <3>1, <3>2, <3>3, <3>4, ArriveApart
  <2> QED
    BY <1>5, <2>1, <2>3, <2>4 DEF after, q
<1>8. CASE p \notin leaving
  <2>1. q = p
    BY <1>4, <1>8, FollowedNot DEF q
  <2>2. p \notin Range(arriving)
    <3> SUFFICES ASSUME NEW x \in leaving, p = arriving[x] PROVE FALSE
      BY <1>2 DEF Range
    <3>1. PICK n \in moves : IsPrefix(n.from, x) /\ p = Moved(x, n.from, n.to)
      BY <1>6
    <3>2. n.from \in Seq(Names) /\ n.to \in Seq(Names) /\ x \in Seq(Names)
      BY <1>3, MovesAre
    <3>3. IsPrefix(n.to, p)
      BY <3>1, <3>2, MovedBack
    <3> QED
      BY <3>3
  <2> QED
    BY <1>5, <1>8, <2>1, <2>2 DEF after, q
<1> QED
  BY <1>7, <1>8

\* Notes and the names of discs at the end of a request.
LEMMA NotesStep == NotesInv /\ [Next]_vars =>
        [Finished /\ request.op \in {"move", "rename", "delete"} =>
            LET t == start.volumes[at]
                now == volumes[at]
                same(v, file) == {q \in DOMAIN v : v[q] = file}
            IN  /\ \A p \in (DOMAIN start.notes \cap Files(t)) \ Replaced(t, request) :
                      (same(t, t[p]) = {p} /\ t[p].data < 10 + requests) =>
                        \/ \E q \in same(now, t[p]) \cap DOMAIN notes' : notes'[q] = notes[p]
                        \/ same(now, t[p]) = {} /\ p \notin DOMAIN notes'
                /\ kind = "image" /\ request.op # "delete" =>
                      names' = {Followed(p, MovesOf(request)) : p \in names}]_vars
<1> DEFINE t == start.volumes[at]
           now == volumes[at]
           same(v, file) == {q \in DOMAIN v : v[q] = file}
           from == Original(start.volumes, request)
<1> SUFFICES ASSUME NotesInv, Next, Finished, request.op \in {"move", "rename", "delete"}
             PROVE  /\ \A p \in (DOMAIN start.notes \cap Files(t)) \ Replaced(t, request) :
                          (same(t, t[p]) = {p} /\ t[p].data < 10 + requests) =>
                            \/ \E q \in same(now, t[p]) \cap DOMAIN notes' : notes'[q] = notes[p]
                            \/ same(now, t[p]) = {} /\ p \notin DOMAIN notes'
                    /\ kind = "image" /\ request.op # "delete" =>
                          names' = {Followed(p, MovesOf(request)) : p \in names}
  BY DEF vars, Finished
<1>1. request # None /\ request' = None /\ work = {} /\ work # Unopened
  BY DEF Finished, Unopened
<1>2. notes' = NotesAfter(request) /\ names' = NamesAfter(request)
  <2>1. Finish
    BY <1>1 DEF Next, Begin, Open, Turned, Call, Refuse, Fault, Working
  <2> QED
    BY <2>1 DEF Finish
<1>3. /\ IsTree(t) /\ IsAsked(request, t) /\ IsTree(now)
      /\ Keeping(from, t, request, now, {})
      /\ Moving(request) /\ kind = "image" => MoveAllowed(t, request)
      /\ DOMAIN notes \subseteq Seq(Names) /\ names \subseteq Seq(Names) /\ start.notes = notes
  BY <1>1 DEF NotesInv, PromiseInv, FilesInv, RequestInv, Doing
<1> HIDE DEF t, now, from
<1>4. ASSUME Moving(request), NEW p \in (DOMAIN notes \cap Files(t)) \ Replaced(t, request)
      PROVE  \E q \in same(now, t[p]) \cap DOMAIN notes' : notes'[q] = notes[p]
  <2> DEFINE q == Followed(p, MovesOf(request))
  <2>1. p \in DOMAIN t
    BY DEF Files
  <2>2. /\ q \in DOMAIN now /\ now[q] = t[p]
        /\ \A m \in MovesOf(request) : ~IsPrefix(m.to, p)
    BY <1>3, <1>4, <2>1, Settled
  <2>3. q \in DOMAIN notes' /\ notes'[q] = notes[p]
    BY <1>2, <1>3, <1>4, <2>1, <2>2, NoteMoves
  <2> HIDE DEF q
  <2> QED
    BY <2>2, <2>3
<1>5. ASSUME request.op = "delete", NEW p \in DOMAIN notes \cap Files(t), same(t, t[p]) = {p}
      PROVE  \/ \E q \in same(now, t[p]) \cap DOMAIN notes' : notes'[q] = notes[p]
             \/ same(now, t[p]) = {} /\ p \notin DOMAIN notes'
  <2> DEFINE deleted == UNION {Below(t, d) : d \in Range(request.from)}
             forgotten == {x \in DOMAIN notes : \E d \in Range(request.from) : IsPrefix(d, x)}
  <2>1. now = [x \in DOMAIN t \ deleted |-> t[x]]
    BY <1>3, <1>5, KeepingEnds DEF Promised, Without, Restrict
  <2>2. notes' = [x \in DOMAIN notes \ forgotten |-> notes[x]]
    BY <1>2, <1>5 DEF NotesAfter, NotesLeft, Without, Restrict
  <2>3. p \in DOMAIN t /\ (p \in deleted <=> p \in forgotten)
    BY DEF Below, Files
  <2> HIDE DEF deleted, forgotten
  <2>4. CASE p \in deleted
    <3>1. same(now, t[p]) \subseteq same(t, t[p]) \ deleted
      BY <2>1
    <3>2. p \notin DOMAIN notes'
      BY <2>2, <2>3, <2>4
    <3> QED
      BY <1>5, <2>4, <3>1, <3>2
  <2>5. CASE p \notin deleted
    <3>1. p \in same(now, t[p])
      BY <2>1, <2>3, <2>5
    <3>2. p \in DOMAIN notes' /\ notes'[p] = notes[p]
      BY <2>2, <2>3, <2>5
    <3> QED
      BY <3>1, <3>2
  <2> QED
    BY <2>4, <2>5
<1>6. ASSUME kind = "image", Moving(request)
      PROVE  names' = {Followed(p, MovesOf(request)) : p \in names}
  <2>1. names' = {Rewritten(p, MovesOf(request)) : p \in names}
    BY <1>2, <1>6 DEF NamesAfter, Moving
  <2>2. Shifted(t, request, now, {})
    BY <1>3, <1>6 DEF Keeping, Moving
  <2>3. \A p \in names : Rewritten(p, MovesOf(request)) = Followed(p, MovesOf(request))
    BY <1>3, <1>6, <2>2, RewrittenIs
  <2> QED
    BY <2>1, <2>3
<1>7. Moving(request) \/ request.op = "delete"
  BY DEF Moving
<1> HIDE DEF same
<1> QED
  BY <1>3, <1>4, <1>5, <1>6, <1>7 DEF Moving

\* What is noted of a file is found where a request has put the file, and is
\* gone with a file that was deleted; the name of the disc that a drawer came
\* from is found where the notes of that drawer are: for any trees, selections
\* and requests before it, of notes that were left behind too.
THEOREM NotesGoAlong == Spec => NotesFollow
<1>1. Spec => []NotesInv
  BY NotesInit, NotesNext, PTL DEF Spec
<1> QED
  BY <1>1, NotesStep, PTL DEF Spec, NotesFollow
===============================================================================
