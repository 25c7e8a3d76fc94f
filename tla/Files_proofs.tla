----------------------------- MODULE Files_proofs -----------------------------
(***************************************************************************)
(* Proofs about FileOperations: whatever becomes of a request on the files *)
(* of a volume, refused, failing or done, the files it does not name stay. *)
(***************************************************************************)
EXTENDS FileOperations, TLAPS, FiniteSetTheorems, SequenceTheorems

-----------------------------------------------------------------------------
(* Paths.                                                                  *)

\* A prefix by its elements.
LEMMA PrefixIs ==
    ASSUME NEW s \in Seq(Names), NEW q \in Seq(Names)
    PROVE  IsPrefix(s, q) <=> Len(s) <= Len(q) /\ \A i \in 1..Len(s) : s[i] = q[i]
<1>1. CASE Len(s) <= Len(q)
  <2>1. SubSeq(s, 1, Len(s)) = [i \in 1..Len(s) |-> s[i]]
    OBVIOUS
  <2>2. SubSeq(q, 1, Len(s)) = [i \in 1..Len(s) |-> q[i]]
    BY <1>1
  <2> QED
    BY <1>1, <2>1, <2>2 DEF IsPrefix
<1> QED
  BY <1>1 DEF IsPrefix

\* Two paths of the same elements are the same.
LEMMA PathsEqual ==
    ASSUME NEW s \in Seq(Names), NEW q \in Seq(Names), Len(s) = Len(q),
           \A i \in 1..Len(s) : s[i] = q[i]
    PROVE  s = q
OBVIOUS

\* A path whose beginning is replaced.
LEMMA MovedIs ==
    ASSUME NEW q \in Seq(Names), NEW from \in Seq(Names), NEW to \in Seq(Names),
           IsPrefix(from, q)
    PROVE  /\ Moved(q, from, to) \in Seq(Names)
           /\ Len(Moved(q, from, to)) = Len(to) + Len(q) - Len(from)
           /\ \A i \in 1..Len(to) : Moved(q, from, to)[i] = to[i]
           /\ \A i \in Len(to) + 1..Len(to) + Len(q) - Len(from) :
                Moved(q, from, to)[i] = q[i - Len(to) + Len(from)]
<1> DEFINE rest == SubSeq(q, Len(from) + 1, Len(q))
<1>1. Len(from) <= Len(q)
  BY PrefixIs
<1>2. rest \in Seq(Names) /\ Len(rest) = Len(q) - Len(from)
  BY <1>1
<1>3. \A j \in 1..Len(rest) : rest[j] = q[Len(from) + j]
  BY <1>1
<1>4. Moved(q, from, to) = to \o rest
  BY DEF Moved
<1> HIDE DEF rest
<1>5. to \o rest \in Seq(Names) /\ Len(to \o rest) = Len(to) + Len(rest)
  BY <1>2, ConcatProperties
<1>6. \A i \in 1..Len(to) + Len(rest) :
        (to \o rest)[i] = IF i <= Len(to) THEN to[i] ELSE rest[i - Len(to)]
  BY <1>2, ConcatProperties
<1>7. ASSUME NEW i \in Len(to) + 1..Len(to) + Len(q) - Len(from)
      PROVE  (to \o rest)[i] = q[i - Len(to) + Len(from)]
  <2>1. i \in 1..Len(to) + Len(rest) /\ ~(i <= Len(to)) /\ i - Len(to) \in 1..Len(rest)
    BY <1>2
  <2>2. (to \o rest)[i] = rest[i - Len(to)]
    BY <1>6, <2>1
  <2>3. rest[i - Len(to)] = q[Len(from) + (i - Len(to))]
    BY <1>3, <2>1
  <2> QED
    BY <2>2, <2>3
<1>8. \A i \in 1..Len(to) : (to \o rest)[i] = to[i]
  BY <1>2, <1>6
<1> QED
  BY <1>2, <1>4, <1>5, <1>7, <1>8

\* Prefixes of the same path lie in one another.
LEMMA PrefixesNest ==
    ASSUME NEW a \in Seq(Names), NEW b \in Seq(Names), NEW q \in Seq(Names),
           IsPrefix(a, q), IsPrefix(b, q)
    PROVE  IsPrefix(a, b) \/ IsPrefix(b, a)
BY PrefixIs

\* A prefix of a prefix is one.
LEMMA PrefixOfPrefix ==
    ASSUME NEW a \in Seq(Names), NEW b \in Seq(Names), NEW q \in Seq(Names),
           IsPrefix(a, b), IsPrefix(b, q)
    PROVE  IsPrefix(a, q)
BY PrefixIs

\* What is moved lies under the new place, and moving it back gives what it was.
LEMMA MovedBack ==
    ASSUME NEW q \in Seq(Names), NEW from \in Seq(Names), NEW to \in Seq(Names),
           IsPrefix(from, q)
    PROVE  /\ IsPrefix(to, Moved(q, from, to))
           /\ Moved(Moved(q, from, to), to, from) = q
<1> DEFINE m == Moved(q, from, to)
           l == Len(q)
           f == Len(from)
           t == Len(to)
<1>1. /\ m \in Seq(Names) /\ Len(m) = t + l - f /\ f <= l
      /\ \A i \in 1..t : m[i] = to[i]
      /\ \A i \in t + 1..t + l - f : m[i] = q[i - t + f]
      /\ \A i \in 1..f : from[i] = q[i]
      /\ l \in Nat /\ f \in Nat /\ t \in Nat
  <2>1. f <= l /\ \A i \in 1..f : from[i] = q[i]
    BY PrefixIs
  <2>2. l \in Nat /\ f \in Nat /\ t \in Nat
    OBVIOUS
  <2> QED
    BY <2>1, <2>2, MovedIs
<1> HIDE DEF m
<1>2. IsPrefix(to, m)
  <2>1. Len(to) <= Len(m) /\ \A i \in 1..Len(to) : to[i] = m[i]
    BY <1>1
  <2> QED
    BY <1>1, <2>1, PrefixIs
<1> DEFINE b == Moved(m, to, from)
<1>3. /\ b \in Seq(Names) /\ Len(b) = f + Len(m) - t
      /\ \A i \in 1..f : b[i] = from[i]
      /\ \A i \in f + 1..f + Len(m) - t : b[i] = m[i - f + t]
  BY <1>1, <1>2, MovedIs, ZenonT(40)
<1> HIDE DEF b
<1> HIDE DEF l, f, t
<1>4. Len(b) = l
  BY <1>1, <1>3
<1>5. ASSUME NEW i \in 1..l PROVE b[i] = q[i]
  <2>1. CASE i <= f
    <3>1. i \in 1..f
      BY <1>1, <2>1
    <3> QED
      BY <1>1, <1>3, <3>1
  <2>2. CASE i > f
    <3>1. i \in f + 1..f + Len(m) - t
      BY <1>1, <2>2
    <3>2. b[i] = m[i - f + t]
      BY <1>3, <3>1
    <3> DEFINE j == i - f + t
    <3>3. j \in t + 1..t + l - f /\ j - t + f = i
      BY <1>1, <2>2
    <3> HIDE DEF j
    <3>4. m[j] = q[j - t + f]
      BY <1>1, <3>3
    <3> QED
      BY <3>2, <3>3, <3>4 DEF j
  <2> QED
    BY <1>1, <2>1, <2>2
<1>6. b = q
  BY <1>3, <1>4, <1>5, PathsEqual DEF l
<1> QED
  BY <1>2, <1>6 DEF b, m

\* The beginnings of a path.
LEMMA Beginning ==
    ASSUME NEW q \in Seq(Names), NEW n \in 0..Len(q)
    PROVE  /\ SubSeq(q, 1, n) \in Seq(Names) /\ Len(SubSeq(q, 1, n)) = n
           /\ \A i \in 1..n : SubSeq(q, 1, n)[i] = q[i]
           /\ IsPrefix(SubSeq(q, 1, n), q)
<1>1. SubSeq(q, 1, n) \in Seq(Names) /\ Len(SubSeq(q, 1, n)) = n
      /\ \A i \in 1..n : SubSeq(q, 1, n)[i] = q[i]
  OBVIOUS
<1> DEFINE s == SubSeq(q, 1, n)
<1> HIDE DEF s
<1>2. s \in Seq(Names) /\ Len(s) <= Len(q) /\ \A i \in 1..Len(s) : s[i] = q[i]
  BY <1>1 DEF s
<1>3. IsPrefix(s, q)
  BY <1>2, PrefixIs
<1> QED
  BY <1>1, <1>3 DEF s

\* A prefix is a beginning.
LEMMA PrefixIsBeginning ==
    ASSUME NEW s \in Seq(Names), NEW q \in Seq(Names), IsPrefix(s, q)
    PROVE  Len(s) \in 0..Len(q) /\ s = SubSeq(q, 1, Len(s)) /\ (s # q => Len(s) < Len(q))
<1>1. Len(s) \in 0..Len(q) /\ \A i \in 1..Len(s) : s[i] = q[i]
  BY PrefixIs
<1>2. s = SubSeq(q, 1, Len(s))
  BY <1>1, Beginning, PathsEqual
<1>3. s # q => Len(s) < Len(q)
  BY <1>1, PathsEqual
<1> QED
  BY <1>1, <1>2, <1>3

\* A path moved onto itself.
LEMMA MovedNowhere ==
    ASSUME NEW q \in Seq(Names), NEW from \in Seq(Names), IsPrefix(from, q)
    PROVE  Moved(q, from, from) = q
<1> DEFINE m == Moved(q, from, from)
<1>1. /\ m \in Seq(Names) /\ Len(m) = Len(from) + Len(q) - Len(from)
      /\ \A i \in 1..Len(from) : m[i] = from[i]
      /\ \A i \in Len(from) + 1..Len(from) + Len(q) - Len(from) :
            m[i] = q[i - Len(from) + Len(from)]
  BY MovedIs
<1>2. Len(from) \in Nat /\ Len(q) \in Nat /\ \A i \in 1..Len(from) : from[i] = q[i]
  BY PrefixIs
<1> HIDE DEF m
<1>3. Len(m) = Len(q)
  BY <1>1, <1>2
<1>4. ASSUME NEW i \in 1..Len(m) PROVE m[i] = q[i]
  <2>1. CASE i \in 1..Len(from)
    BY <1>1, <1>2, <2>1
  <2>2. CASE i \notin 1..Len(from)
    <3>1. i \in Len(from) + 1..Len(from) + Len(q) - Len(from)
      BY <1>2, <1>3, <2>2
    <3>2. i - Len(from) + Len(from) = i
      BY <1>2, <1>3
    <3> QED
      BY <1>1, <3>1, <3>2
  <2> QED
    BY <2>1, <2>2
<1>5. m = q
  BY <1>1, <1>3, <1>4, PathsEqual
<1> QED
  BY <1>5 DEF m

\* The drawer of a path, and what is in it.
LEMMA FrontIs ==
    ASSUME NEW q \in Seq(Names), q # <<>>
    PROVE  /\ Front(q) = SubSeq(q, 1, Len(q) - 1) /\ Front(q) \in Seq(Names)
           /\ Len(Front(q)) = Len(q) - 1 /\ Len(q) - 1 \in Nat
           /\ IsPrefix(Front(q), q)
<1>1. Len(q) - 1 \in 0..Len(q)
  <2>1. Len(q) \in Nat /\ Len(q) # 0
    OBVIOUS
  <2> QED
    BY <2>1
<1> DEFINE n == Len(q) - 1
<1>2. n \in 0..Len(q) /\ n \in Nat
  BY <1>1
<1>3. Front(q) = SubSeq(q, 1, n)
  BY DEF Front
<1> HIDE DEF n
<1>4. /\ SubSeq(q, 1, n) \in Seq(Names) /\ Len(SubSeq(q, 1, n)) = n
      /\ IsPrefix(SubSeq(q, 1, n), q)
  BY <1>2, Beginning
<1>5. Front(q) = SubSeq(q, 1, n) /\ Front(q) \in Seq(Names) /\ Len(Front(q)) = n
      /\ n \in Nat /\ IsPrefix(Front(q), q)
  BY <1>2, <1>3, <1>4
<1> QED
  BY <1>5 DEF n

-----------------------------------------------------------------------------
(* Trees.                                                                  *)

\* What lies above an object is a drawer.
LEMMA AboveIsDrawer ==
    ASSUME NEW t, IsTree(t), NEW q \in DOMAIN t, NEW s \in Seq(Names), IsPrefix(s, q), s # q
    PROVE  IsDrawer(t, s)
<1>1. q \in Seq(Names)
  BY DEF IsTree
<1>2. Len(s) \in 0..Len(q) /\ s = SubSeq(q, 1, Len(s)) /\ Len(s) < Len(q)
  BY <1>1, PrefixIsBeginning
<1>3. CASE Len(s) = 0
  BY <1>3 DEF IsDrawer
<1>4. CASE Len(s) # 0
  <2>1. Len(s) \in 1..Len(q) - 1
    BY <1>1, <1>2, <1>4
  <2> QED
    BY <1>2, <2>1 DEF IsTree
<1> QED
  BY <1>3, <1>4

\* A drawer that is not the root is an object, and lies in drawers.
LEMMA DrawerIsDeep ==
    ASSUME NEW t, IsTree(t), NEW d \in Seq(Names), IsDrawer(t, d),
           NEW s \in Seq(Names), IsPrefix(s, d)
    PROVE  IsDrawer(t, s)
<1>1. CASE d \in DOMAIN t
  BY <1>1, AboveIsDrawer
<1>2. CASE d = <<>>
  <2>1. s = d
    <3>1. Len(s) \in Nat /\ Len(d) = 0
      BY <1>2
    <3>2. s # d => Len(s) < Len(d)
      BY PrefixIsBeginning
    <3> QED
      BY <3>1, <3>2
  <2> QED
    BY <2>1
<1> QED
  BY <1>1, <1>2 DEF IsDrawer

\* A tree, by what lies above its objects.
LEMMA TreeIf ==
    ASSUME NEW u, u = [q \in DOMAIN u |-> u[q]], IsFiniteSet(DOMAIN u),
           DOMAIN u \subseteq Seq(Names) \ {<<>>},
           \A q \in DOMAIN u : IsObject(u[q]),
           \A q \in DOMAIN u : \A s \in Seq(Names) \ {<<>>, q} : IsPrefix(s, q) => IsDrawer(u, s)
    PROVE  IsTree(u)
<1>1. ASSUME NEW q \in DOMAIN u, NEW n \in 1 .. Len(q) - 1
      PROVE  IsDrawer(u, SubSeq(q, 1, n))
  <2>1. q \in Seq(Names) /\ n \in 0..Len(q) /\ n # 0 /\ n # Len(q)
    OBVIOUS
  <2>2. SubSeq(q, 1, n) \in Seq(Names) /\ Len(SubSeq(q, 1, n)) = n /\ IsPrefix(SubSeq(q, 1, n), q)
    BY <2>1, Beginning
  <2>3. SubSeq(q, 1, n) # <<>> /\ SubSeq(q, 1, n) # q
    BY <2>1, <2>2
  <2> QED
    BY <2>2, <2>3
<1> QED
  BY <1>1 DEF IsTree

\* The fields of an object of a tree.
LEMMA ObjectOf ==
    ASSUME NEW t, IsTree(t)
    PROVE  /\ t = [q \in DOMAIN t |-> t[q]]
           /\ \A q \in DOMAIN t : IsObject(t[q])
           /\ \A q \in DOMAIN t : t[q] \in [type : {"drawer", "file"}, data : Nat]
           /\ \A q \in DOMAIN t : q \in Seq(Names) /\ q # <<>>
BY DEF IsTree, IsObject

\* A tree without some objects and all that is in them.
LEMMA WithoutIs ==
    ASSUME NEW t, IsTree(t), NEW gone,
           \A q \in DOMAIN t : \A s \in DOMAIN t \cap gone : IsPrefix(s, q) => q \in gone
    PROVE  /\ IsTree(Without(t, gone))
           /\ \A q \in DOMAIN t \ gone : q \in DOMAIN Without(t, gone)
                                        /\ Without(t, gone)[q] = t[q]
<1> DEFINE u == Without(t, gone)
<1>1. u = [q \in DOMAIN t \ gone |-> t[q]]
  BY DEF Without, Restrict
<1>2. DOMAIN u = DOMAIN t \ gone /\ \A q \in DOMAIN u : u[q] = t[q]
  BY <1>1
<1>3. u = [q \in DOMAIN u |-> u[q]]
  BY <1>1
<1> HIDE DEF u
<1>4. IsFiniteSet(DOMAIN u)
  BY <1>2, FS_Subset DEF IsTree
<1>5. ASSUME NEW q \in DOMAIN u, NEW s \in Seq(Names) \ {<<>>, q}, IsPrefix(s, q)
      PROVE  IsDrawer(u, s)
  <2>1. IsDrawer(t, s)
    BY <1>2, <1>5, AboveIsDrawer
  <2>2. s \in DOMAIN u
    BY <1>2, <1>5, <2>1 DEF IsDrawer
  <2> QED
    BY <1>2, <2>1, <2>2 DEF IsDrawer
<1>6. IsTree(u)
  <2>1. DOMAIN u \subseteq Seq(Names) \ {<<>>}
    BY <1>2, ObjectOf
  <2>2. \A q \in DOMAIN u : IsObject(u[q])
    BY <1>2, ObjectOf
  <2> QED
    BY <1>3, <1>4, <1>5, <2>1, <2>2, TreeIf
<1> QED
  BY <1>2, <1>6 DEF u

\* What is computed of each member of a finite set is a finite set.
LEMMA FiniteRange ==
    ASSUME NEW S, IsFiniteSet(S), NEW f, DOMAIN f = S
    PROVE  IsFiniteSet({f[x] : x \in S})
<1> DEFINE T == {f[x] : x \in S}
           g == [x \in S |-> f[x]]
<1>1. g \in Surjection(S, T)
  BY DEF Surjection
<1> QED
  BY <1>1, FS_Surjection

\* A tree in which a drawer was made.
LEMMA MadeIs ==
    ASSUME NEW t, IsTree(t), NEW call, call.op = "drawer", call.path \in Seq(Names),
           \A n \in 1 .. Len(call.path) : ~IsFile(t, SubSeq(call.path, 1, n))
    PROVE  /\ IsTree(After(t, call))
           /\ \A q \in DOMAIN t : q \in DOMAIN After(t, call) /\ After(t, call)[q] = t[q]
<1> DEFINE path == call.path
           new == Missing(t, path)
           u == [q \in DOMAIN t \cup new |-> IF q \in DOMAIN t THEN t[q] ELSE Drawer]
<1>1. After(t, call) = u
  BY DEF After
<1>2. /\ DOMAIN u = DOMAIN t \cup new /\ u = [q \in DOMAIN u |-> u[q]]
      /\ \A q \in DOMAIN t : u[q] = t[q]
      /\ \A q \in new \ DOMAIN t : u[q] = Drawer
  OBVIOUS
<1>3. \A q \in new : q \in Seq(Names) \ {<<>>} /\ q \notin DOMAIN t /\ IsPrefix(q, path)
  <2>1. ASSUME NEW q \in new PROVE q \in Seq(Names) /\ IsPrefix(q, path)
    <3>1. CASE q = path
      BY <3>1, PrefixIs
    <3>2. CASE q \in Above(path)
      <4>1. PICK n \in 1 .. Len(path) - 1 : q = SubSeq(path, 1, n)
        BY <3>2 DEF Above
      <4>2. n \in 0..Len(path)
        BY <4>1
      <4> QED
        BY <4>1, <4>2, Beginning
    <3> QED
      BY <2>1, <3>1, <3>2 DEF Missing
  <2> QED
    BY <2>1 DEF Missing
<1>4. \A s \in Seq(Names) \ {<<>>} : IsPrefix(s, path) => s \in new \/ IsDrawer(t, s)
  <2> SUFFICES ASSUME NEW s \in Seq(Names) \ {<<>>}, IsPrefix(s, path)
               PROVE  s \in new \/ IsDrawer(t, s)
    OBVIOUS
  <2>1. Len(s) \in 0..Len(path) /\ s = SubSeq(path, 1, Len(s)) /\ (s # path => Len(s) < Len(path))
    BY PrefixIsBeginning
  <2>2. Len(s) # 0 /\ Len(s) \in Nat /\ Len(path) \in Nat
    OBVIOUS
  <2>3. s \in Above(path) \cup {path}
    <3>1. CASE s = path
      BY <3>1
    <3>2. CASE s # path
      <4>1. Len(s) \in 1 .. Len(path) - 1
        BY <2>1, <2>2, <3>2
      <4> QED
        BY <2>1, <4>1 DEF Above
    <3> QED
      BY <3>1, <3>2
  <2>4. ~IsFile(t, s)
    <3>1. Len(s) \in 1 .. Len(path)
      BY <2>1, <2>2
    <3> QED
      BY <2>1, <3>1
  <2>5. CASE s \in DOMAIN t
    BY <2>4, <2>5, ObjectOf DEF IsFile, IsDrawer
  <2>6. CASE s \notin DOMAIN t
    BY <2>3, <2>6 DEF Missing
  <2> QED
    BY <2>5, <2>6
<1>5. IsFiniteSet(new)
  <2> DEFINE f == [n \in 1 .. Len(path) - 1 |-> SubSeq(path, 1, n)]
  <2>1. IsFiniteSet(1 .. Len(path) - 1)
    <3>1. 1 \in Int /\ Len(path) - 1 \in Int
      OBVIOUS
    <3> QED
      BY <3>1, FS_Interval
  <2>2. DOMAIN f = 1 .. Len(path) - 1
    OBVIOUS
  <2>3. Above(path) = {f[n] : n \in 1 .. Len(path) - 1}
    BY DEF Above
  <2> HIDE DEF f
  <2>4. IsFiniteSet(Above(path))
    BY <2>1, <2>2, <2>3, FiniteRange
  <2>5. IsFiniteSet(Above(path) \cup {path})
    BY <2>4, FS_AddElement
  <2> QED
    BY <2>5, FS_Subset DEF Missing
<1> HIDE DEF u, new
<1>6. IsFiniteSet(DOMAIN u)
  <2>1. IsFiniteSet(DOMAIN t)
    BY DEF IsTree
  <2>2. IsFiniteSet(DOMAIN t \cup new)
    BY <1>5, <2>1, FS_Union
  <2> QED
    BY <1>2, <2>2
<1>7. \A q \in DOMAIN u : IsObject(u[q])
  BY <1>2, ObjectOf DEF Drawer, IsObject
<1>8. \A s \in DOMAIN u \cap new : IsDrawer(u, s)
  BY <1>2, <1>3 DEF IsDrawer, Drawer
<1>9. \A s : IsDrawer(t, s) => IsDrawer(u, s)
  BY <1>2 DEF IsDrawer
<1>10. ASSUME NEW q \in DOMAIN u, NEW s \in Seq(Names) \ {<<>>, q}, IsPrefix(s, q)
       PROVE  IsDrawer(u, s)
  <2>1. CASE q \in DOMAIN t
    BY <1>9, <1>10, <2>1, AboveIsDrawer
  <2>2. CASE q \in new
    <3>1. IsPrefix(s, path)
      BY <1>3, <1>10, <2>2, PrefixOfPrefix
    <3>2. s \in new \/ IsDrawer(t, s)
      BY <1>4, <3>1
    <3> QED
      BY <1>2, <1>8, <1>9, <3>2
  <2> QED
    BY <1>2, <2>1, <2>2
<1>11. DOMAIN u \subseteq Seq(Names) \ {<<>>}
  BY <1>2, <1>3, ObjectOf
<1>12. IsTree(u)
  BY <1>2, <1>6, <1>7, <1>10, <1>11, TreeIf
<1> QED
  BY <1>1, <1>2, <1>12

\* A tree in which a file was written, over nothing or over what holds nothing.
LEMMA WithIs ==
    ASSUME NEW t, IsTree(t), NEW path \in Seq(Names) \ {<<>>}, IsDrawer(t, Front(path)),
           Below(t, path) \subseteq {path}, NEW data \in Nat
    PROVE  /\ IsTree(With(t, path, File(data)))
           /\ \A q \in DOMAIN t \ {path} :
                q \in DOMAIN With(t, path, File(data)) /\ With(t, path, File(data))[q] = t[q]
<1> DEFINE u == With(t, path, File(data))
<1>1. /\ DOMAIN u = DOMAIN t \cup {path} /\ u = [q \in DOMAIN u |-> u[q]]
      /\ u[path] = File(data) /\ \A q \in DOMAIN t \ {path} : u[q] = t[q]
  BY DEF With
<1> HIDE DEF u
<1>2. IsFiniteSet(DOMAIN u)
  BY <1>1, FS_AddElement DEF IsTree
<1>3. DOMAIN u \subseteq Seq(Names) \ {<<>>}
  BY <1>1, ObjectOf
<1>4. \A q \in DOMAIN u : IsObject(u[q])
  BY <1>1, ObjectOf DEF File, IsObject
<1>5. ASSUME NEW q \in DOMAIN u, NEW s \in Seq(Names) \ {<<>>, q}, IsPrefix(s, q)
      PROVE  IsDrawer(u, s)
  <2>1. IsDrawer(t, s) /\ s # path
    <3>1. CASE q = path
      <4>1. /\ Len(s) \in 0..Len(path) /\ s = SubSeq(path, 1, Len(s)) /\ Len(s) < Len(path)
        BY <1>5, <3>1, PrefixIsBeginning
      <4>2. /\ Front(path) \in Seq(Names) /\ Len(Front(path)) = Len(path) - 1
            /\ IsPrefix(Front(path), path)
        BY FrontIs
      <4>3. IsPrefix(s, Front(path)) \/ IsPrefix(Front(path), s)
        BY <1>5, <3>1, <4>2, PrefixesNest
      <4>4. IsPrefix(s, Front(path))
        <5>1. ASSUME IsPrefix(Front(path), s) PROVE s = Front(path)
          <6>1. Len(Front(path)) <= Len(s) /\ \A i \in 1..Len(Front(path)) : Front(path)[i] = s[i]
            BY <4>2, <5>1, PrefixIs
          <6>2. Len(Front(path)) = Len(s)
            BY <4>1, <4>2, <6>1
          <6> QED
            BY <4>2, <6>1, <6>2, PathsEqual
        <5>2. ASSUME s = Front(path) PROVE IsPrefix(s, Front(path))
          BY <5>2, PrefixIs
        <5> QED
          BY <4>3, <5>1, <5>2
      <4> QED
        BY <1>5, <3>1, <4>2, <4>4, DrawerIsDeep
    <3>2. CASE q # path
      <4>1. q \in DOMAIN t
        BY <1>1, <3>2
      <4>2. IsDrawer(t, s)
        BY <1>5, <4>1, AboveIsDrawer
      <4>3. s # path
        BY <1>5, <3>2, <4>1 DEF Below
      <4> QED
        BY <4>2, <4>3
    <3> QED
      BY <3>1, <3>2
  <2>2. s \in DOMAIN t /\ t[s].type = "drawer"
    BY <1>5, <2>1 DEF IsDrawer
  <2>3. s \in DOMAIN u /\ u[s].type = "drawer"
    BY <1>1, <2>1, <2>2
  <2> QED
    BY <2>3 DEF IsDrawer
<1>6. IsTree(u)
  BY <1>1, <1>2, <1>3, <1>4, <1>5, TreeIf
<1> QED
  BY <1>1, <1>6 DEF u
\* A tree in which an object was renamed: what was in it is there with it.
LEMMA RenamedIs ==
    ASSUME NEW t, IsTree(t), NEW from \in DOMAIN t, NEW to \in Seq(Names) \ {<<>>},
           IsDrawer(t, Front(to)), ~IsPrefix(from, Front(to)), Exists(t, to) => to = from
    PROVE  /\ IsTree(Renamed(t, from, to))
           /\ \A q \in DOMAIN t : ~IsPrefix(from, q) =>
                q \in DOMAIN Renamed(t, from, to) /\ Renamed(t, from, to)[q] = t[q]
           /\ \A q \in DOMAIN t : IsPrefix(from, q) =>
                /\ Moved(q, from, to) \in DOMAIN Renamed(t, from, to)
                /\ Renamed(t, from, to)[Moved(q, from, to)] = t[q]
<1> DEFINE u == Renamed(t, from, to)
           kept == DOMAIN t \ Below(t, from)
           there == {Moved(p, from, to) : p \in Below(t, from)}
<1>1. /\ DOMAIN u = kept \cup there /\ u = [q \in DOMAIN u |-> u[q]]
      /\ \A q \in kept : u[q] = t[q]
      /\ \A q \in there \ kept : u[q] = t[Moved(q, to, from)]
  BY DEF Renamed
<1>2. /\ \A q \in kept : q \in DOMAIN t /\ ~IsPrefix(from, q)
      /\ \A q \in DOMAIN t : ~IsPrefix(from, q) => q \in kept
      /\ \A q \in DOMAIN t : IsPrefix(from, q) => Moved(q, from, to) \in there
      /\ \A m \in there : \E q \in DOMAIN t : IsPrefix(from, q) /\ m = Moved(q, from, to)
  BY DEF Below
<1>3. from \in Seq(Names) /\ to \in Seq(Names) /\ DOMAIN t \subseteq Seq(Names) \ {<<>>}
  BY ObjectOf
<1>4. ASSUME NEW q \in DOMAIN t, IsPrefix(from, q)
      PROVE  /\ Moved(q, from, to) \in Seq(Names) /\ IsPrefix(to, Moved(q, from, to))
             /\ Moved(Moved(q, from, to), to, from) = q
  BY <1>3, <1>4, MovedIs, MovedBack
<1>5. \A m \in there : m \notin kept
  <2> SUFFICES ASSUME NEW m \in there, m \in kept PROVE FALSE
    OBVIOUS
  <2>1. m \in DOMAIN t /\ ~IsPrefix(from, m) /\ m \in Seq(Names) /\ IsPrefix(to, m)
    BY <1>2, <1>4
  <2>2. CASE to = from
    BY <2>1, <2>2
  <2>3. CASE to # from
    <3>1. to \notin DOMAIN t
      BY <2>3 DEF Exists
    <3>2. IsDrawer(t, to)
      BY <1>3, <2>1, <3>1, AboveIsDrawer
    <3> QED
      BY <3>1, <3>2 DEF IsDrawer
  <2> QED
    BY <2>2, <2>3
<1> HIDE DEF u, kept, there
<1>6. \A q \in DOMAIN t : ~IsPrefix(from, q) => q \in DOMAIN u /\ u[q] = t[q]
  BY <1>1, <1>2
<1>7. \A q \in DOMAIN t : IsPrefix(from, q) =>
        Moved(q, from, to) \in DOMAIN u /\ u[Moved(q, from, to)] = t[q]
  BY <1>1, <1>2, <1>4, <1>5
<1>8. IsFiniteSet(DOMAIN u)
  <2> DEFINE f == [p \in Below(t, from) |-> Moved(p, from, to)]
  <2>1. IsFiniteSet(DOMAIN t)
    BY DEF IsTree
  <2>2. IsFiniteSet(Below(t, from))
    BY <2>1, FS_Subset DEF Below
  <2>3. DOMAIN f = Below(t, from) /\ there = {f[p] : p \in Below(t, from)}
    BY DEF there
  <2> HIDE DEF f
  <2>4. IsFiniteSet(there)
    BY <2>2, <2>3, FiniteRange
  <2>5. IsFiniteSet(kept)
    BY <2>1, FS_Subset DEF kept
  <2>6. IsFiniteSet(kept \cup there)
    BY <2>4, <2>5, FS_Union
  <2> QED
    BY <1>1, <2>6
<1>9. DOMAIN u \subseteq Seq(Names) \ {<<>>}
  <2>1. ASSUME NEW m \in there PROVE m \in Seq(Names) \ {<<>>}
    <3>1. PICK q \in DOMAIN t : IsPrefix(from, q) /\ m = Moved(q, from, to)
      BY <1>2
    <3>2. m \in Seq(Names) /\ IsPrefix(to, m)
      BY <1>4, <3>1
    <3>3. Len(to) <= Len(m)
      BY <1>3, <3>2, PrefixIs
    <3>4. Len(to) # 0 /\ Len(to) \in Nat
      OBVIOUS
    <3>5. m # <<>>
      BY <3>3, <3>4
    <3> QED
      BY <3>2, <3>5
  <2> QED
    BY <1>1, <1>2, <1>3, <2>1
<1>10. \A q \in DOMAIN u : IsObject(u[q])
  BY <1>1, <1>2, <1>4, <1>6, <1>7, ObjectOf
<1>11. \A s \in Seq(Names) : IsDrawer(t, s) /\ ~IsPrefix(from, s) => IsDrawer(u, s)
  BY <1>6 DEF IsDrawer
<1>12. ASSUME NEW q \in DOMAIN t, IsPrefix(from, q), NEW s \in Seq(Names) \ {<<>>},
              IsPrefix(s, Moved(q, from, to)), s # Moved(q, from, to)
       PROVE  IsDrawer(u, s)
  <2> DEFINE m == Moved(q, from, to)
  <2>1. /\ m \in Seq(Names) /\ IsPrefix(to, m)
        /\ Len(m) = Len(to) + Len(q) - Len(from)
        /\ \A i \in Len(to) + 1..Len(to) + Len(q) - Len(from) : m[i] = q[i - Len(to) + Len(from)]
    BY <1>3, <1>12, <1>4, MovedIs
  <2> HIDE DEF m
  <2>2. /\ Len(s) \in Nat /\ Len(s) < Len(m) /\ Len(to) \in Nat /\ Len(from) \in Nat
        /\ Len(q) \in Nat /\ Len(from) <= Len(q)
        /\ \A i \in 1..Len(s) : s[i] = m[i]
    <3>1. IsPrefix(s, m) /\ s # m
      BY <1>12 DEF m
    <3>2. Len(s) < Len(m) /\ Len(s) \in Nat
      BY <2>1, <3>1, PrefixIsBeginning
    <3>3. \A i \in 1..Len(s) : s[i] = m[i]
      BY <2>1, <3>1, PrefixIs
    <3>4. Len(from) <= Len(q)
      BY <1>3, <1>12, PrefixIs
    <3> QED
      BY <1>3, <3>2, <3>3, <3>4
  <2>3. CASE Len(s) < Len(to)
    <3>1. IsPrefix(s, to) /\ s # to
      <4>1. IsPrefix(s, m)
        BY <1>12 DEF m
      <4>2. IsPrefix(s, to) \/ IsPrefix(to, s)
        BY <1>3, <2>1, <4>1, PrefixesNest
      <4>3. ~IsPrefix(to, s)
        BY <1>3, <2>2, <2>3, PrefixIs
      <4> QED
        BY <2>2, <2>3, <4>2, <4>3
    <3>2. IsPrefix(s, Front(to))
      <4>1. Front(to) \in Seq(Names) /\ Len(Front(to)) = Len(to) - 1 /\ IsPrefix(Front(to), to)
        BY <1>3, FrontIs
      <4>2. IsPrefix(s, Front(to)) \/ IsPrefix(Front(to), s)
        BY <1>3, <3>1, <4>1, PrefixesNest
      <4>3. ASSUME IsPrefix(Front(to), s) PROVE s = Front(to)
        <5>1. /\ Len(Front(to)) <= Len(s)
              /\ \A i \in 1..Len(Front(to)) : Front(to)[i] = s[i]
          BY <4>1, <4>3, PrefixIs
        <5>2. Len(Front(to)) = Len(s)
          BY <2>2, <2>3, <4>1, <5>1
        <5> QED
          BY <4>1, <5>1, <5>2, PathsEqual
      <4>4. s = Front(to) => IsPrefix(s, Front(to))
        BY PrefixIs
      <4> QED
        BY <4>2, <4>3, <4>4
    <3>3. Front(to) \in Seq(Names)
      BY <1>3, FrontIs
    <3>4. IsDrawer(t, s)
      BY <3>2, <3>3, DrawerIsDeep
    <3>5. ~IsPrefix(from, s)
      BY <1>3, <3>2, <3>3, PrefixOfPrefix
    <3> QED
      BY <1>11, <3>4, <3>5
  <2>4. CASE ~(Len(s) < Len(to))
    <3> DEFINE n == Len(s) - Len(to) + Len(from)
               r == SubSeq(q, 1, n)
    <3>1. n \in 0..Len(q) /\ Len(from) <= n /\ n < Len(q)
      BY <2>1, <2>2, <2>4
    <3> HIDE DEF n
    <3>2. /\ r \in Seq(Names) /\ Len(r) = n /\ IsPrefix(r, q)
          /\ \A i \in 1..n : r[i] = q[i]
      BY <1>3, <3>1, Beginning
    <3> HIDE DEF r
    <3>3. IsPrefix(from, r)
      <4>1. IsPrefix(from, r) \/ IsPrefix(r, from)
        BY <1>3, <1>12, <3>2, PrefixesNest
      <4>2. ASSUME IsPrefix(r, from) PROVE r = from
        <5>1. Len(r) <= Len(from) /\ \A i \in 1..Len(r) : r[i] = from[i]
          BY <1>3, <3>2, <4>2, PrefixIs
        <5>2. Len(r) = Len(from)
          BY <2>2, <3>1, <3>2, <5>1
        <5> QED
          BY <1>3, <3>2, <5>1, <5>2, PathsEqual
      <4>3. r = from => IsPrefix(from, r)
        BY <1>3, PrefixIs
      <4> QED
        BY <4>1, <4>2, <4>3
    <3>4. r # <<>> /\ r # q /\ r \in DOMAIN t /\ t[r].type = "drawer"
      <4>1. Len(from) # 0
        <5>1. from # <<>> /\ from \in Seq(Names)
          BY <1>3
        <5> QED
          BY <5>1
      <4>2. Len(r) # 0 /\ Len(r) # Len(q)
        BY <2>2, <3>1, <3>2, <4>1
      <4>3. r # <<>> /\ r # q
        BY <4>2
      <4>4. IsDrawer(t, r)
        BY <3>2, <4>3, AboveIsDrawer
      <4> QED
        BY <4>3, <4>4 DEF IsDrawer
    <3>5. Moved(r, from, to) = s
      <4> DEFINE k == Moved(r, from, to)
      <4>1. /\ k \in Seq(Names) /\ Len(k) = Len(to) + n - Len(from)
            /\ \A i \in 1..Len(to) : k[i] = to[i]
            /\ \A i \in Len(to) + 1..Len(to) + n - Len(from) : k[i] = r[i - Len(to) + Len(from)]
        <5>1. /\ k \in Seq(Names) /\ Len(k) = Len(to) + Len(r) - Len(from)
              /\ \A i \in 1..Len(to) : k[i] = to[i]
              /\ \A i \in Len(to) + 1..Len(to) + Len(r) - Len(from) :
                    k[i] = r[i - Len(to) + Len(from)]
          <6>1. /\ r \in Seq(Names) /\ from \in Seq(Names) /\ to \in Seq(Names)
                /\ IsPrefix(from, r)
            BY <1>3, <3>2, <3>3
          <6>2. k \in Seq(Names) /\ Len(k) = Len(to) + Len(r) - Len(from)
            BY <6>1, MovedIs
          <6>3. \A i \in 1..Len(to) : k[i] = to[i]
            BY <6>1, MovedIs
          <6>4. \A i \in Len(to) + 1..Len(to) + Len(r) - Len(from) :
                    k[i] = r[i - Len(to) + Len(from)]
            BY <6>1, MovedIs
          <6> QED
            BY <6>2, <6>3, <6>4
        <5> HIDE DEF k
        <5> QED
          BY <3>2, <5>1
      <4> HIDE DEF k
      <4>2. Len(k) = Len(s)
        BY <2>2, <4>1 DEF n
      <4>3. \A i \in 1..Len(to) : to[i] = m[i]
        BY <1>3, <2>1, PrefixIs
      <4>4. ASSUME NEW i \in 1..Len(s) PROVE k[i] = s[i]
        <5>1. CASE i <= Len(to)
          <6>1. i \in 1..Len(to)
            BY <2>2, <5>1
          <6> QED
            BY <2>2, <4>1, <4>3, <6>1
        <5>2. CASE i > Len(to)
          <6> DEFINE j == i - Len(to) + Len(from)
          <6>1. /\ i \in Len(to) + 1..Len(to) + n - Len(from)
                /\ i \in Len(to) + 1..Len(to) + Len(q) - Len(from)
                /\ j \in 1..n
            BY <2>1, <2>2, <5>2, <3>1 DEF n
          <6>2. k[i] = r[j]
            BY <4>1, <6>1
          <6>3. m[i] = q[j]
            BY <2>1, <6>1
          <6> HIDE DEF j
          <6>4. r[j] = q[j]
            BY <3>2, <6>1
          <6> QED
            BY <2>2, <6>2, <6>3, <6>4
        <5> QED
          BY <2>2, <5>1, <5>2
      <4>5. k = s
        BY <4>1, <4>2, <4>4, PathsEqual
      <4> QED
        BY <4>5 DEF k
    <3>6. s \in DOMAIN u /\ u[s] = t[r]
      BY <1>7, <3>3, <3>4, <3>5
    <3> QED
      BY <3>4, <3>6 DEF IsDrawer
  <2> QED
    BY <2>3, <2>4
<1>13. ASSUME NEW q \in DOMAIN u, NEW s \in Seq(Names) \ {<<>>, q}, IsPrefix(s, q)
       PROVE  IsDrawer(u, s)
  <2>1. CASE q \in there
    <3>1. PICK p \in DOMAIN t : IsPrefix(from, p) /\ q = Moved(p, from, to)
      BY <1>2, <2>1
    <3> QED
      BY <1>12, <1>13, <3>1
  <2>2. CASE q \in kept
    <3>1. q \in DOMAIN t /\ ~IsPrefix(from, q)
      BY <1>2, <2>2
    <3>2. IsDrawer(t, s)
      BY <1>13, <3>1, AboveIsDrawer
    <3>3. ~IsPrefix(from, s)
      BY <1>3, <1>13, <3>1, PrefixOfPrefix
    <3> QED
      BY <1>11, <3>2, <3>3
  <2> QED
    BY <1>1, <2>1, <2>2
<1>14. IsTree(u)
  BY <1>1, <1>8, <1>9, <1>10, <1>13, TreeIf
<1> QED
  BY <1>6, <1>7, <1>14 DEF u

-----------------------------------------------------------------------------
(* One call of the mount.                                                  *)

IsCall(call) ==
    /\ call.op \in {"rename", "remove", "discard", "drawer", "write", "create"}
    /\ call.path \in Seq(Names)
    /\ call.to \in Seq(Names)
    /\ call.data \in Nat
    /\ call.op = "rename" => call.to # <<>>

\* What a call that is accepted leaves of a tree.
LEMMA CallIs ==
    ASSUME NEW t, IsTree(t), NEW call, IsCall(call), NEW room, Accepts(t, call, room)
    PROVE  /\ IsTree(After(t, call))
           /\ call.op # "rename" =>
                \A q \in DOMAIN t : call.op \in {"drawer", "create"} \/ q # call.path =>
                    q \in DOMAIN After(t, call) /\ After(t, call)[q] = t[q]
           /\ call.op = "rename" =>
                \A q \in DOMAIN t :
                    LET there == Moved(q, call.path, call.to) IN
                    there \in DOMAIN After(t, call) /\ After(t, call)[there] = t[q]
<1> DEFINE path == call.path
<1>1. CASE call.op = "rename"
  <2>1. After(t, call) = Renamed(t, path, call.to)
    BY <1>1 DEF After
  <2>2. /\ path \in DOMAIN t /\ IsDrawer(t, Front(call.to)) /\ ~IsPrefix(path, Front(call.to))
        /\ Exists(t, call.to) => call.to = path
    BY <1>1 DEF Accepts
  <2>3. call.to \in Seq(Names) \ {<<>>}
    BY <1>1 DEF IsCall
  <2>4. /\ IsTree(Renamed(t, path, call.to))
        /\ \A q \in DOMAIN t : ~IsPrefix(path, q) =>
            q \in DOMAIN Renamed(t, path, call.to) /\ Renamed(t, path, call.to)[q] = t[q]
        /\ \A q \in DOMAIN t : IsPrefix(path, q) =>
            /\ Moved(q, path, call.to) \in DOMAIN Renamed(t, path, call.to)
            /\ Renamed(t, path, call.to)[Moved(q, path, call.to)] = t[q]
    BY <2>2, <2>3, RenamedIs
  <2>5. \A q \in DOMAIN t : ~IsPrefix(path, q) => Moved(q, path, call.to) = q
    BY DEF Moved
  <2> QED
    BY <1>1, <2>1, <2>4, <2>5
<1>2. CASE call.op \in {"remove", "discard"}
  <2>1. After(t, call) = Without(t, {path})
    BY <1>2 DEF After
  <2>2. Below(t, path) \subseteq {path}
    BY <1>2 DEF Accepts
  <2>3. \A q \in DOMAIN t : \A s \in DOMAIN t \cap {path} : IsPrefix(s, q) => q \in {path}
    BY <2>2 DEF Below
  <2>4. /\ IsTree(Without(t, {path}))
        /\ \A q \in DOMAIN t \ {path} : q \in DOMAIN Without(t, {path})
                                       /\ Without(t, {path})[q] = t[q]
    BY <2>3, WithoutIs
  <2> QED
    BY <1>2, <2>1, <2>4
<1>3. CASE call.op = "drawer"
  <2>1. \A n \in 1 .. Len(path) : ~IsFile(t, SubSeq(path, 1, n))
    BY <1>3 DEF Accepts
  <2>2. path \in Seq(Names)
    BY DEF IsCall
  <2>3. /\ IsTree(After(t, call))
        /\ \A q \in DOMAIN t : q \in DOMAIN After(t, call) /\ After(t, call)[q] = t[q]
    BY <1>3, <2>1, <2>2, MadeIs
  <2> QED
    BY <1>3, <2>3
<1>4. CASE call.op \in {"write", "create"}
  <2>1. After(t, call) = With(t, path, File(call.data))
    BY <1>4 DEF After
  <2>2. path # <<>> /\ IsDrawer(t, Front(path))
        /\ IF call.op = "create" THEN ~Exists(t, path) ELSE Below(t, path) \subseteq {path}
    BY <1>4 DEF Accepts
  <2>3. path \in Seq(Names) \ {<<>>} /\ call.data \in Nat
    BY <2>2 DEF IsCall
  <2>4. Below(t, path) \subseteq {path}
    <3>1. CASE call.op = "create"
      <4>1. path \notin DOMAIN t
        BY <2>2, <3>1 DEF Exists
      <4>2. ASSUME NEW q \in Below(t, path) PROVE FALSE
        <5>1. q \in DOMAIN t /\ IsPrefix(path, q) /\ path # q
          BY <4>1, <4>2 DEF Below
        <5>2. IsDrawer(t, path)
          BY <2>3, <5>1, AboveIsDrawer
        <5> QED
          BY <2>2, <4>1, <5>2 DEF IsDrawer
      <4> QED
        BY <4>2
    <3> QED
      BY <2>2, <3>1
  <2>5. /\ IsTree(With(t, path, File(call.data)))
        /\ \A q \in DOMAIN t \ {path} : /\ q \in DOMAIN With(t, path, File(call.data))
                                       /\ With(t, path, File(call.data))[q] = t[q]
    BY <2>2, <2>3, <2>4, WithIs
  <2>6. call.op = "create" => path \notin DOMAIN t
    BY <2>2 DEF Exists
  <2> QED
    BY <1>4, <2>1, <2>5, <2>6
<1> QED
  BY <1>1, <1>2, <1>3, <1>4 DEF IsCall

-----------------------------------------------------------------------------
(* A request being carried out.                                            *)

Moving(r) == r.op \in {"move", "rename"}

\* A request as it came: what it picks was on the volume then.
IsAsked(r, t) ==
    /\ r.op \in {"delete", "mkdir", "put", "import", "rename", "annotate", "copy",
                 "move", "extract"}
    /\ r.from \in Seq(Seq(Names) \ {<<>>})
    /\ r.to \in Seq(Names)
    /\ r.flag \in BOOLEAN
    /\ r.data \in Nat
    /\ r.source \in Partitions
    /\ r.op \in {"delete", "move", "rename"} => \A i \in DOMAIN r.from : r.from[i] \in DOMAIN t
    /\ r.op \in {"rename", "copy", "annotate"} => Len(r.from) = 1
    /\ r.op = "rename" => r.to # <<>> /\ Len(r.to) = Len(r.from[1])
    /\ r.op = "move" => kind = "image" /\ r.to \in Drawers(t)
    /\ r.op = "import" => r.from \in Folders /\ r.to \in Drawers(t)
    /\ Moving(r) /\ kind = "image" => ~r.flag
    /\ r.op = "extract" => kind = "image"

IsTurn(c) == DOMAIN c = {"turn", "step", "call"} /\ IsCall(c.call)

\* The files of t that are to stay are in v where they were.
Stay(t, going, v) ==
    \A p \in Files(t) \ going : p \in DOMAIN v /\ v[p] = t[p]

\* They are in v at the old place or at the new one.
StayOrMove(t, r, v) ==
    \A p \in Files(t) \ MayGo(t, r) : \E q \in Places(r, p) : q \in DOMAIN v /\ v[q] = t[p]

\* A call that can take nothing from t but what may go.
Harmless(t, r, call) ==
    \/ call.op \in {"drawer", "create"}
    \/ call.op \in {"remove", "discard"} /\ call.path \in MayGo(t, r)
    \/ call.op = "write" /\ call.path \notin Files(t) \ MayGo(t, r)

\* On a partition everything is removed first, and then the object is renamed.
RenameLast(t, r, v, w) ==
    LET last == Turn(2, 0, Renaming(r.from[1], r.to)) IN
    /\ w # {} => last \in w /\ Stay(t, MayGo(t, r), v)
    /\ \A c \in w \ {last} :
        c.turn = 1 /\ c.call.op = "discard" /\ c.call.path \in MayGo(t, r)

\* A request that is being carried out on t, which has become v.
Doing(t, r, v, w) ==
    /\ \A c \in w : IsTurn(c)
    /\ IF Moving(r) THEN StayOrMove(t, r, v) ELSE Stay(t, MayGo(t, r), v)
    /\ ~Moving(r) => \A c \in w : Harmless(t, r, c.call)
    /\ Moving(r) /\ kind = "image" =>
        /\ MoveAllowed(t, r)
        /\ \A c \in w : \E m \in MovesOf(r) : c.call = Renaming(m.from, m.to)
    /\ Moving(r) /\ kind # "image" => RenameLast(t, r, v, w)

\* Where the objects of a move go.
LEMMA MovesAre ==
    ASSUME NEW t, IsTree(t), NEW r, IsAsked(r, t), Moving(r), NEW m \in MovesOf(r)
    PROVE  /\ m.from \in DOMAIN t /\ m.from \in Seq(Names) \ {<<>>}
           /\ m.to \in Seq(Names) \ {<<>>} /\ m.to # m.from
           /\ r.op = "move" => m.to = Append(r.to, Last(m.from)) /\ Last(m.from) \in Names
           /\ r.op = "rename" => m.from = r.from[1] /\ m.to = r.to
<1>1. PICK i \in DOMAIN r.from :
        /\ Destination(r, r.from[i]) # r.from[i]
        /\ m = [turn |-> i, from |-> r.from[i], to |-> Destination(r, r.from[i])]
  BY DEF MovesOf
<1>2. m.from = r.from[i] /\ m.to = Destination(r, r.from[i])
  BY <1>1
<1>3. r.from[i] \in DOMAIN t /\ r.from[i] \in Seq(Names) \ {<<>>}
  BY ObjectOf DEF IsAsked, Moving
<1>4. CASE r.op = "move"
  <2>1. m.to = Append(r.to, Last(r.from[i]))
    BY <1>2, <1>4 DEF Destination
  <2>2. Last(r.from[i]) \in Names
    <3>1. Len(r.from[i]) \in 1..Len(r.from[i])
      BY <1>3
    <3> QED
      BY <1>3, <3>1 DEF Last
  <2>3. r.to \in Seq(Names)
    BY DEF IsAsked
  <2>4. m.to \in Seq(Names) \ {<<>>}
    BY <2>1, <2>2, <2>3
  <2> QED
    BY <1>1, <1>2, <1>3, <1>4, <2>1, <2>2, <2>4
<1>5. CASE r.op = "rename"
  <2>1. m.to = r.to /\ r.to \in Seq(Names) \ {<<>>} /\ Len(r.from) = 1
    BY <1>2, <1>5 DEF Destination, IsAsked
  <2>2. i = 1
    <3>1. r.from \in Seq(Seq(Names) \ {<<>>})
      BY DEF IsAsked
    <3>2. DOMAIN r.from = 1..1
      BY <2>1, <3>1
    <3>3. i \in 1..1
      BY <3>2
    <3> QED
      BY <3>3
  <2> QED
    BY <1>1, <1>2, <1>3, <1>5, <2>1, <2>2
<1> QED
  BY <1>4, <1>5 DEF Moving

\* What a move has put at its place is not below anything still to be moved.
LEMMA PlacesApart ==
    ASSUME NEW t, IsTree(t), NEW r, IsAsked(r, t), Moving(r), MoveAllowed(t, r),
           NEW m \in MovesOf(r), NEW n \in MovesOf(r), NEW p \in DOMAIN t, IsPrefix(m.from, p)
    PROVE  ~IsPrefix(n.from, Moved(p, m.from, m.to))
<1> DEFINE x == Moved(p, m.from, m.to)
<1> SUFFICES ASSUME IsPrefix(n.from, x) PROVE FALSE
  OBVIOUS
<1>1. /\ m.from \in DOMAIN t /\ m.from \in Seq(Names) /\ m.to \in Seq(Names) /\ m.to # <<>>
      /\ n.from \in DOMAIN t /\ n.from \in Seq(Names) /\ n.to \in Seq(Names) /\ n.from # <<>>
      /\ n.to # n.from
  BY MovesAre
<1>2. x \in Seq(Names) /\ IsPrefix(m.to, x)
  BY <1>1, MovedIs, MovedBack, ObjectOf
<1> HIDE DEF x
<1>3. IsPrefix(n.from, m.to) \/ IsPrefix(m.to, n.from)
  BY <1>1, <1>2, PrefixesNest
<1>4. CASE r.op = "rename"
  <2>1. m.to = n.to /\ Len(m.to) = Len(n.from)
    <3>1. m.to = r.to /\ n.to = r.to /\ n.from = r.from[1]
      BY <1>4, MovesAre
    <3>2. Len(r.to) = Len(r.from[1])
      BY <1>4 DEF IsAsked
    <3> QED
      BY <3>1, <3>2
  <2>2. m.to = n.from
    <3>1. \A a, b \in Seq(Names) : IsPrefix(a, b) /\ Len(a) = Len(b) => a = b
      BY PrefixIs, PathsEqual
    <3> QED
      BY <1>1, <1>3, <2>1, <3>1
  <2> QED
    BY <1>1, <2>1, <2>2
<1>5. CASE r.op = "move"
  <2>1. /\ m.to = Append(r.to, Last(m.from)) /\ Last(m.from) \in Names
        /\ n.to = Append(r.to, Last(n.from)) /\ Last(n.from) \in Names
    BY <1>5, MovesAre
  <2>2. r.to \in Seq(Names) /\ IsDrawer(t, r.to)
    <3>1. r.to \in Seq(Names) /\ r.to \in Drawers(t)
      BY <1>5 DEF IsAsked
    <3>2. r.to = <<>> \/ (r.to \in DOMAIN t /\ t[r.to].type = "drawer")
      BY <3>1, ObjectOf DEF Drawers, Files
    <3> QED
      BY <3>1, <3>2 DEF IsDrawer
  <2>3. /\ m.to \notin DOMAIN t
        /\ ~(IsDrawer(t, n.from) /\ IsPrefix(n.from, n.to))
    BY DEF MoveAllowed, Exists
  <2>4. \A name \in Names : /\ IsPrefix(r.to, Append(r.to, name))
                            /\ Len(Append(r.to, name)) = Len(r.to) + 1
                            /\ Append(r.to, name) \in Seq(Names)
    <3> SUFFICES ASSUME NEW name \in Names
                 PROVE  /\ IsPrefix(r.to, Append(r.to, name))
                        /\ Len(Append(r.to, name)) = Len(r.to) + 1
                        /\ Append(r.to, name) \in Seq(Names)
      OBVIOUS
    <3>1. /\ Append(r.to, name) \in Seq(Names) /\ Len(Append(r.to, name)) = Len(r.to) + 1
          /\ \A i \in 1..Len(r.to) : r.to[i] = Append(r.to, name)[i]
      BY <2>2
    <3>2. Len(r.to) <= Len(Append(r.to, name))
      BY <2>2, <3>1
    <3> QED
      BY <2>2, <3>1, <3>2, PrefixIs
  <2>5. CASE IsPrefix(n.from, m.to)
    <3>1. n.from # m.to
      BY <1>1, <2>3
    <3>2. IsPrefix(n.from, r.to)
      <4>1. Len(n.from) < Len(m.to)
        BY <1>1, <2>5, <3>1, PrefixIsBeginning
      <4>2. IsPrefix(r.to, m.to) /\ Len(m.to) = Len(r.to) + 1 /\ Len(r.to) \in Nat
        BY <2>1, <2>2, <2>4
      <4>3. IsPrefix(n.from, r.to) \/ IsPrefix(r.to, n.from)
        BY <1>1, <2>2, <2>5, <4>2, PrefixesNest
      <4>4. ASSUME IsPrefix(r.to, n.from) PROVE r.to = n.from
        <5>1. /\ Len(r.to) <= Len(n.from)
              /\ \A i \in 1..Len(r.to) : r.to[i] = n.from[i]
          BY <1>1, <2>2, <4>4, PrefixIs
        <5>2. Len(n.from) = Len(r.to)
          BY <1>1, <4>1, <4>2, <5>1
        <5> QED
          BY <1>1, <2>2, <5>1, <5>2, PathsEqual
      <4>5. r.to = n.from => IsPrefix(n.from, r.to)
        BY <1>1, PrefixIs
      <4> QED
        BY <4>3, <4>4, <4>5
    <3>3. IsDrawer(t, n.from)
      BY <1>1, <2>2, <3>2, DrawerIsDeep
    <3>4. IsPrefix(n.from, n.to)
      BY <1>1, <2>1, <2>2, <2>4, <3>2, PrefixOfPrefix
    <3> QED
      BY <2>3, <3>3, <3>4
  <2>6. CASE IsPrefix(m.to, n.from)
    <3>1. m.to # n.from
      BY <1>1, <2>3
    <3>2. IsDrawer(t, m.to)
      BY <1>1, <2>6, <3>1, AboveIsDrawer
    <3> QED
      BY <1>1, <2>3, <3>2 DEF IsDrawer
  <2> QED
    BY <1>3, <2>5, <2>6
<1> QED
  BY <1>4, <1>5 DEF Moving

\* The next call, when the volume accepts it.
LEMMA DoingGoesOn ==
    ASSUME NEW t, IsTree(t), NEW r, IsAsked(r, t), NEW v, IsTree(v), NEW w, Doing(t, r, v, w),
           NEW c \in w, ~\E d \in w : Sooner(d, c), NEW room, Accepts(v, c.call, room)
    PROVE  IsTree(After(v, c.call)) /\ Doing(t, r, After(v, c.call), w \ {c})
<1> DEFINE u == After(v, c.call)
<1>1. IsCall(c.call) /\ \A d \in w : IsTurn(d)
  BY DEF Doing, IsTurn
<1>2. /\ IsTree(u)
      /\ c.call.op # "rename" =>
            \A q \in DOMAIN v : c.call.op \in {"drawer", "create"} \/ q # c.call.path =>
                q \in DOMAIN u /\ u[q] = v[q]
      /\ c.call.op = "rename" =>
            \A q \in DOMAIN v : LET there == Moved(q, c.call.path, c.call.to) IN
                there \in DOMAIN u /\ u[there] = v[q]
  BY <1>1, CallIs
<1> HIDE DEF u
<1>3. CASE ~Moving(r)
  <2>1. Stay(t, MayGo(t, r), v) /\ (\A d \in w : Harmless(t, r, d.call))
    BY <1>3 DEF Doing
  <2>2. Stay(t, MayGo(t, r), u)
    <3> SUFFICES ASSUME NEW p \in Files(t) \ MayGo(t, r)
                 PROVE  p \in DOMAIN u /\ u[p] = t[p]
      BY DEF Stay
    <3>1. p \in DOMAIN v /\ v[p] = t[p]
      BY <2>1 DEF Stay
    <3>2. /\ c.call.op # "rename"
          /\ c.call.op \in {"drawer", "create"} \/ p # c.call.path
      BY <2>1 DEF Harmless
    <3> QED
      BY <1>2, <3>1, <3>2
  <2> QED
    BY <1>1, <1>2, <1>3, <2>1, <2>2 DEF Doing, u
<1>4. CASE Moving(r) /\ kind = "image"
  <2>1. /\ StayOrMove(t, r, v) /\ MoveAllowed(t, r)
        /\ \A d \in w : \E m \in MovesOf(r) : d.call = Renaming(m.from, m.to)
    BY <1>4 DEF Doing
  <2>2. PICK n \in MovesOf(r) : c.call = Renaming(n.from, n.to)
    BY <2>1
  <2>3. c.call.op = "rename" /\ c.call.path = n.from /\ c.call.to = n.to
    BY <2>2 DEF Renaming
  <2>4. StayOrMove(t, r, u)
    <3> SUFFICES ASSUME NEW p \in Files(t) \ MayGo(t, r)
                 PROVE  \E q \in Places(r, p) : q \in DOMAIN u /\ u[q] = t[p]
      BY DEF StayOrMove
    <3>1. PICK q \in Places(r, p) : q \in DOMAIN v /\ v[q] = t[p]
      BY <2>1 DEF StayOrMove
    <3>2. Moved(q, n.from, n.to) \in DOMAIN u /\ u[Moved(q, n.from, n.to)] = t[p]
      BY <1>2, <2>3, <3>1
    <3>3. Moved(q, n.from, n.to) \in Places(r, p)
      <4>1. CASE q = p
        BY <4>1 DEF Places
      <4>2. CASE q # p
        <5>1. PICK m \in MovesOf(r) : q = Moved(p, m.from, m.to)
          BY <3>1, <4>2 DEF Places
        <5>2. IsPrefix(m.from, p)
          BY <4>2, <5>1 DEF Moved
        <5>3. p \in DOMAIN t
          BY DEF Files
        <5>4. ~IsPrefix(n.from, q)
          BY <1>4, <2>1, <5>1, <5>2, <5>3, PlacesApart
        <5>5. Moved(q, n.from, n.to) = q
          BY <5>4 DEF Moved
        <5> QED
          BY <3>1, <5>5
      <4> QED
        BY <4>1, <4>2
    <3> QED
      BY <3>2, <3>3
  <2> QED
    BY <1>1, <1>2, <1>4, <2>1, <2>4 DEF Doing, u
<1>5. CASE Moving(r) /\ kind # "image"
  <2> DEFINE last == Turn(2, 0, Renaming(r.from[1], r.to))
  <2>1. /\ last \in w /\ Stay(t, MayGo(t, r), v)
        /\ \A d \in w \ {last} :
            d.turn = 1 /\ d.call.op = "discard" /\ d.call.path \in MayGo(t, r)
    BY <1>5 DEF Doing, RenameLast
  <2>2. r.op = "rename" /\ r.from[1] \in Seq(Names) /\ r.to \in Seq(Names) /\ Len(r.from) = 1
    <3>1. r.op = "rename"
      BY <1>5 DEF IsAsked, Moving
    <3>2. r.from \in Seq(Seq(Names) \ {<<>>}) /\ Len(r.from) = 1 /\ r.to \in Seq(Names)
      BY <3>1 DEF IsAsked
    <3>3. 1 \in DOMAIN r.from
      BY <3>2
    <3> QED
      BY <3>1, <3>2, <3>3
  <2>3. CASE c = last
    <3>1. w \ {c} = {}
      <4> SUFFICES ASSUME NEW d \in w \ {last} PROVE FALSE
        BY <2>3
      <4>1. d.turn = 1
        BY <2>1
      <4>2. c.turn = 2
        BY <2>3 DEF Turn
      <4>3. Sooner(d, c)
        BY <4>1, <4>2 DEF Sooner
      <4> QED
        BY <4>3
    <3>2. c.call.op = "rename" /\ c.call.path = r.from[1] /\ c.call.to = r.to
      BY <2>3 DEF Turn, Renaming
    <3>3. StayOrMove(t, r, u)
      <4> SUFFICES ASSUME NEW p \in Files(t) \ MayGo(t, r)
                   PROVE  \E q \in Places(r, p) : q \in DOMAIN u /\ u[q] = t[p]
        BY DEF StayOrMove
      <4> DEFINE q == Moved(p, r.from[1], r.to)
      <4>1. q \in DOMAIN u /\ u[q] = t[p]
        BY <1>2, <2>1, <3>2 DEF Stay
      <4>2. q \in Places(r, p)
        <5>1. CASE r.from[1] = r.to
          <6>1. p \in Seq(Names)
            BY ObjectOf DEF Files
          <6>2. q = p
            BY <2>2, <5>1, <6>1, MovedNowhere DEF Moved
          <6> QED
            BY <6>2 DEF Places
        <5>2. CASE r.from[1] # r.to
          <6>1. 1 \in DOMAIN r.from
            <7>1. r.from \in Seq(Seq(Names) \ {<<>>})
              BY DEF IsAsked
            <7> QED
              BY <2>2, <7>1
          <6>2. Destination(r, r.from[1]) = r.to
            BY <2>2 DEF Destination
          <6>3. [turn |-> 1, from |-> r.from[1], to |-> r.to] \in MovesOf(r)
            BY <5>2, <6>1, <6>2 DEF MovesOf
          <6> QED
            BY <6>3 DEF Places
        <5> QED
          BY <5>1, <5>2
      <4> QED
        BY <4>1, <4>2
    <3>4. RenameLast(t, r, u, w \ {c})
      BY <3>1 DEF RenameLast
    <3> QED
      BY <1>2, <1>5, <3>1, <3>3, <3>4 DEF Doing, u
  <2>4. CASE c # last
    <3>1. c.call.op = "discard" /\ c.call.path \in MayGo(t, r)
      BY <2>1, <2>4
    <3>2. Stay(t, MayGo(t, r), u)
      <4> SUFFICES ASSUME NEW p \in Files(t) \ MayGo(t, r)
                   PROVE  p \in DOMAIN u /\ u[p] = t[p]
        BY DEF Stay
      <4>1. p \in DOMAIN v /\ v[p] = t[p] /\ p # c.call.path
        BY <2>1, <3>1 DEF Stay
      <4> QED
        BY <1>2, <3>1, <4>1
    <3>3. StayOrMove(t, r, u)
      BY <3>2 DEF Stay, StayOrMove, Places
    <3>4. RenameLast(t, r, u, w \ {c})
      BY <2>1, <2>4, <3>2 DEF RenameLast
    <3> QED
      BY <1>1, <1>2, <1>5, <3>3, <3>4 DEF Doing, u
  <2> QED
    BY <2>3, <2>4
<1> QED
  BY <1>3, <1>4, <1>5

\* Where a file can be while a request is carried out.
Reach(r, p) == IF Moving(r) THEN Places(r, p) ELSE {p}

\* The files that are neither named nor at "path" are in u.
StillThere(t, r, u, path) ==
    \A p \in Files(t) \ (MayGo(t, r) \cup Below(t, path)) :
        \E q \in Reach(r, p) : q \in DOMAIN u /\ u[q] = t[p]

\* A device that fails under a call takes nothing but what the call is about.
LEMMA DoingFails ==
    ASSUME NEW t, IsTree(t), NEW r, IsAsked(r, t), NEW v, IsTree(v), NEW w, Doing(t, r, v, w),
           NEW c \in w, NEW gone, gone = {} \/ gone = Below(v, c.call.path)
    PROVE  StillThere(t, r, Without(v, gone), c.call.path)
<1> SUFFICES ASSUME NEW p \in Files(t) \ (MayGo(t, r) \cup Below(t, c.call.path))
             PROVE  \E q \in Reach(r, p) :
                        q \in DOMAIN Without(v, gone) /\ Without(v, gone)[q] = t[p]
  BY DEF StillThere
<1>1. \A q \in DOMAIN v : ~IsPrefix(c.call.path, q) =>
        q \in DOMAIN Without(v, gone) /\ Without(v, gone)[q] = v[q]
  <2>1. Without(v, gone) = [q \in DOMAIN v \ gone |-> v[q]]
    BY DEF Without, Restrict
  <2> QED
    BY <2>1 DEF Below
<1>2. ~IsPrefix(c.call.path, p) /\ p \in DOMAIN t
  BY DEF Below, Files
<1>3. CASE ~Moving(r)
  <2>1. p \in DOMAIN v /\ v[p] = t[p]
    BY <1>3 DEF Doing, Stay
  <2> QED
    BY <1>1, <1>2, <1>3, <2>1 DEF Reach
<1>4. CASE Moving(r) /\ kind = "image"
  <2>1. /\ StayOrMove(t, r, v) /\ MoveAllowed(t, r)
        /\ \E m \in MovesOf(r) : c.call = Renaming(m.from, m.to)
    BY <1>4 DEF Doing
  <2>2. PICK n \in MovesOf(r) : c.call = Renaming(n.from, n.to)
    BY <2>1
  <2>3. c.call.path = n.from
    BY <2>2 DEF Renaming
  <2>4. PICK q \in Places(r, p) : q \in DOMAIN v /\ v[q] = t[p]
    BY <2>1 DEF StayOrMove
  <2>5. ~IsPrefix(n.from, q)
    <3>1. CASE q = p
      BY <1>2, <2>3, <3>1
    <3>2. CASE q # p
      <4>1. PICK m \in MovesOf(r) : q = Moved(p, m.from, m.to)
        BY <2>4, <3>2 DEF Places
      <4>2. IsPrefix(m.from, p)
        BY <3>2, <4>1 DEF Moved
      <4> QED
        BY <1>2, <1>4, <2>1, <4>1, <4>2, PlacesApart
    <3> QED
      BY <3>1, <3>2
  <2> QED
    BY <1>1, <1>4, <2>3, <2>4, <2>5 DEF Reach
<1>5. CASE Moving(r) /\ kind # "image"
  <2>1. p \in DOMAIN v /\ v[p] = t[p]
    <3>1. Stay(t, MayGo(t, r), v)
      BY <1>5 DEF Doing, RenameLast
    <3> QED
      BY <3>1 DEF Stay
  <2>2. p \in Places(r, p)
    BY DEF Places
  <2> QED
    BY <1>1, <1>2, <1>5, <2>1, <2>2 DEF Reach
<1> QED
  BY <1>3, <1>4, <1>5

-----------------------------------------------------------------------------
(* The calls of the requests.                                              *)

\* The members of a finite set, one after the other.
LEMMA SequenceOf ==
    ASSUME NEW S, IsFiniteSet(S)
    PROVE  SetToSeq(S) \in [1..Cardinality(S) -> S]
<1>1. ExistsBijection(1..Cardinality(S), S)
  BY FS_CardinalityType
<1>2. \E f \in [1..Cardinality(S) -> S] : IsInjective(f)
  BY <1>1 DEF ExistsBijection, Bijection, Injection
<1> QED
  BY <1>2 DEF SetToSeq

\* The drawer a path lies in is a path.
LEMMA FrontTyped ==
    ASSUME NEW q \in Seq(Names)
    PROVE  Front(q) \in Seq(Names)
<1>1. CASE q = <<>>
  <2>1. Len(q) - 1 = 0 - 1
    BY <1>1
  <2>2. SubSeq(q, 1, 0 - 1) = <<>>
    BY <1>1
  <2> QED
    BY <2>1, <2>2 DEF Front
<1>2. CASE q # <<>>
  BY <1>2, FrontIs
<1> QED
  BY <1>1, <1>2

\* A turn of a call.
LEMMA TurnIs ==
    ASSUME NEW a, NEW b, NEW call, IsCall(call)
    PROVE  IsTurn(Turn(a, b, call)) /\ Turn(a, b, call).turn = a /\ Turn(a, b, call).call = call
BY DEF Turn, IsTurn

\* The calls that are about one path.
LEMMA CallsOfPath ==
    ASSUME NEW path \in Seq(Names)
    PROVE  /\ IsCall(Removing(path)) /\ IsCall(Discarding(path)) /\ IsCall(MakingDrawer(path))
           /\ \A data \in Nat : IsCall(Writing(path, data)) /\ IsCall(Creating(path, data))
           /\ \A to \in Seq(Names) \ {<<>>} : IsCall(Renaming(path, to))
<1>1. <<>> \in Seq(Names) /\ 0 \in Nat
  OBVIOUS
<1>2. IsCall(Removing(path)) /\ IsCall(Discarding(path)) /\ IsCall(MakingDrawer(path))
  BY <1>1 DEF IsCall, Removing, Discarding, MakingDrawer
<1>3. \A data \in Nat : IsCall(Writing(path, data)) /\ IsCall(Creating(path, data))
  BY <1>1 DEF IsCall, Writing, Creating
<1>4. \A to \in Seq(Names) \ {<<>>} : IsCall(Renaming(path, to))
  BY <1>1 DEF IsCall, Renaming
<1> QED
  BY <1>2, <1>3, <1>4

\* What makes drawers.
LEMMA DrawersAre ==
    ASSUME NEW paths \in SUBSET Seq(Names), NEW c \in Drawered(paths)
    PROVE  IsTurn(c) /\ c.call.op = "drawer"
<1>1. PICK p \in paths : c = Turn(0, Len(p), MakingDrawer(p))
  BY DEF Drawered
<1>2. p \in Seq(Names)
  OBVIOUS
<1>3. IsTurn(c) /\ c.call = MakingDrawer(p)
  BY <1>1, <1>2, CallsOfPath, TurnIs
<1> QED
  BY <1>3 DEF MakingDrawer

\* What discards what is below some paths.
LEMMA DiscardsAre ==
    ASSUME NEW t, IsTree(t), NEW paths, NEW c \in Discards(t, paths)
    PROVE  /\ IsTurn(c) /\ c.call.op = "discard"
           /\ \E i \in DOMAIN paths : c.turn = i /\ c.call.path \in Below(t, paths[i])
<1>1. PICK i \in DOMAIN paths : \E p \in Below(t, paths[i]) : c = Turn(i, 0 - Len(p), Discarding(p))
  BY DEF Discards
<1>2. PICK p \in Below(t, paths[i]) : c = Turn(i, 0 - Len(p), Discarding(p))
  BY <1>1
<1>3. p \in Seq(Names)
  BY ObjectOf DEF Below
<1>4. IsTurn(c) /\ c.turn = i /\ c.call = Discarding(p)
  BY <1>2, <1>3, CallsOfPath, TurnIs
<1> QED
  BY <1>2, <1>4 DEF Discarding

\* What removes the selected objects.
LEMMA RemovalsAre ==
    ASSUME NEW t, IsTree(t), NEW r, NEW c \in Removals(t, r)
    PROVE  /\ IsTurn(c) /\ c.call.op = "remove"
           /\ \E i \in DOMAIN r.from : c.call.path \in Below(t, r.from[i])
<1>1. PICK i \in Targets(t, r) :
        \E p \in Below(t, r.from[i]) : c = Turn(i, 0 - Len(p), Removing(p))
  BY DEF Removals
<1>2. PICK p \in Below(t, r.from[i]) : c = Turn(i, 0 - Len(p), Removing(p))
  BY <1>1
<1>3. p \in Seq(Names)
  BY ObjectOf DEF Below
<1>4. IsTurn(c) /\ c.call = Removing(p)
  BY <1>2, <1>3, CallsOfPath, TurnIs
<1>5. i \in DOMAIN r.from
  BY DEF Targets
<1> QED
  BY <1>2, <1>4, <1>5 DEF Removing

\* What copies objects of a tree: drawers are made and files created.
LEMMA CopyCallsAre ==
    ASSUME NEW from, IsTree(from), NEW t, NEW r,
           NEW copied, copied = Copied(from, t, r), DOMAIN copied \subseteq DOMAIN from,
           \A q \in DOMAIN copied : copied[q] \in Seq(Names),
           NEW c \in CopyCalls(from, t, r)
    PROVE  IsTurn(c) /\ c.call.op \in {"drawer", "create"}
<1> DEFINE drawers == {q \in DOMAIN copied : IsDrawer(from, q)}
           files == SetToSeq(DOMAIN copied \ drawers)
           made == Drawered({copied[q] : q \in drawers})
           parents == {Turn(i, 1, MakingDrawer(Front(copied[files[i]]))) : i \in DOMAIN files}
           created == {Turn(i, 2, Creating(copied[files[i]], from[files[i]].data)) :
                            i \in DOMAIN files}
<1>1. CopyCalls(from, t, r) = made \cup parents \cup created
  BY DEF CopyCalls
<1>2. \A i \in DOMAIN files : files[i] \in DOMAIN copied
  <2>1. IsFiniteSet(DOMAIN from)
    BY DEF IsTree
  <2>2. IsFiniteSet(DOMAIN copied \ drawers)
    BY <2>1, FS_Subset
  <2>3. files \in [1..Cardinality(DOMAIN copied \ drawers) -> DOMAIN copied \ drawers]
    BY <2>2, SequenceOf
  <2> QED
    BY <2>3
<1> HIDE DEF files
<1>3. CASE c \in made
  <2>1. {copied[q] : q \in drawers} \subseteq Seq(Names)
    OBVIOUS
  <2> QED
    BY <1>3, <2>1, DrawersAre
<1>4. CASE c \in parents
  <2>1. PICK i \in DOMAIN files : c = Turn(i, 1, MakingDrawer(Front(copied[files[i]])))
    BY <1>4
  <2>2. Front(copied[files[i]]) \in Seq(Names)
    BY <1>2, FrontTyped
  <2>3. IsTurn(c) /\ c.call = MakingDrawer(Front(copied[files[i]]))
    BY <2>1, <2>2, CallsOfPath, TurnIs
  <2> QED
    BY <2>3 DEF MakingDrawer
<1>5. CASE c \in created
  <2>1. PICK i \in DOMAIN files : c = Turn(i, 2, Creating(copied[files[i]], from[files[i]].data))
    BY <1>5
  <2>2. copied[files[i]] \in Seq(Names) /\ from[files[i]].data \in Nat
    BY <1>2, ObjectOf
  <2> DEFINE path == copied[files[i]]
             data == from[files[i]].data
  <2> HIDE DEF path, data
  <2>3. IsTurn(c) /\ c.call = Creating(path, data)
    <3>1. path \in Seq(Names) /\ data \in Nat /\ c = Turn(i, 2, Creating(path, data))
      BY <2>1, <2>2 DEF path, data
    <3>2. IsCall(Creating(path, data))
      BY <3>1, CallsOfPath
    <3>3. IsTurn(Turn(i, 2, Creating(path, data)))
          /\ Turn(i, 2, Creating(path, data)).call = Creating(path, data)
      BY <3>2, TurnIs
    <3> QED
      BY <3>1, <3>3
  <2> QED
    BY <2>3 DEF Creating
<1> QED
  BY <1>1, <1>3, <1>4, <1>5

\* What puts a folder on a volume: nothing is written over that may not go.
LEMMA FolderCallsAre ==
    ASSUME NEW t, IsTree(t), NEW r, IsAsked(r, t), r.op = "import",
           NEW c \in FolderCalls(t, r)
    PROVE  IsTurn(c) /\ Harmless(t, r, c.call)
<1> DEFINE parents == {Turn(i, 1, MakingDrawer(Front(r.to \o r.from[i]))) : i \in DOMAIN r.from}
           written == {Turn(i, 2, Writing(r.to \o r.from[i], r.data)) : i \in DOMAIN r.from}
<1>1. /\ c \in Drawered(Chain(r)) \cup parents \cup written
      /\ r.flag \/ \A p \in Landing(r) : ~Exists(t, p)
  BY DEF FolderCalls
<1> HIDE DEF parents, written
<1>2. /\ r.to \in Seq(Names) /\ r.data \in Nat
      /\ \A i \in DOMAIN r.from : r.from[i] \in Seq(Names)
  <2>1. /\ r.to \in Seq(Names) /\ r.data \in Nat
        /\ r.from \in Seq(Seq(Names) \ {<<>>})
    BY DEF IsAsked
  <2>2. \A i \in DOMAIN r.from : r.from[i] \in Seq(Names) \ {<<>>}
    BY <2>1
  <2> QED
    BY <2>1, <2>2
<1>3. \A i \in DOMAIN r.from : r.to \o r.from[i] \in Seq(Names)
  BY <1>2, ConcatProperties
<1>4. CASE c \in Drawered(Chain(r))
  <2>1. \A p \in Chain(r) : p \in Seq(Names)
    <3> SUFFICES ASSUME NEW p \in Chain(r) PROVE p \in Seq(Names)
      OBVIOUS
    <3>1. PICK x \in Range(r.from) : p \in {r.to \o SubSeq(x, 1, n) : n \in 1 .. Len(x) - 1}
      BY DEF Chain
    <3>2. PICK n \in 1 .. Len(x) - 1 : p = r.to \o SubSeq(x, 1, n)
      BY <3>1
    <3>3. x \in Seq(Names)
      BY <1>2 DEF Range
    <3>4. SubSeq(x, 1, n) \in Seq(Names)
      <4>1. n \in 0..Len(x)
        BY <3>2, <3>3
      <4> QED
        BY <3>3, <4>1, Beginning
    <3> QED
      BY <1>2, <3>2, <3>4, ConcatProperties
  <2>2. IsTurn(c) /\ c.call.op = "drawer"
    BY <1>4, <2>1, DrawersAre
  <2> QED
    BY <2>2 DEF Harmless
<1>5. CASE c \in parents
  <2>1. PICK i \in DOMAIN r.from : c = Turn(i, 1, MakingDrawer(Front(r.to \o r.from[i])))
    BY <1>5 DEF parents
  <2> DEFINE front == Front(r.to \o r.from[i])
  <2>2. front \in Seq(Names)
    BY <1>3, FrontTyped
  <2>3. c = Turn(i, 1, MakingDrawer(front))
    BY <2>1
  <2> HIDE DEF front
  <2>4. IsCall(MakingDrawer(front))
    BY <2>2, CallsOfPath
  <2>5. IsTurn(c) /\ c.call = MakingDrawer(front)
    BY <2>3, <2>4, TurnIs
  <2> QED
    BY <2>5 DEF MakingDrawer, Harmless
<1>6. CASE c \in written
  <2>1. PICK i \in DOMAIN r.from : c = Turn(i, 2, Writing(r.to \o r.from[i], r.data))
    BY <1>6 DEF written
  <2> DEFINE path == r.to \o r.from[i]
  <2>2. path \in Seq(Names) /\ path \in Landing(r)
    <3>1. r.from[i] \in Range(r.from)
      BY DEF Range
    <3> QED
      BY <1>3, <3>1 DEF Landing
  <2>3. c = Turn(i, 2, Writing(path, r.data))
    BY <2>1
  <2> HIDE DEF path
  <2>4. IsTurn(c) /\ c.call = Writing(path, r.data)
    <3>1. IsCall(Writing(path, r.data))
      BY <1>2, <2>2, CallsOfPath
    <3> QED
      BY <2>3, <3>1, TurnIs
  <2>5. path \in MayGo(t, r) \/ path \notin DOMAIN t
    <3>1. CASE r.flag
      BY <2>2, <3>1 DEF MayGo, Replaced
    <3>2. CASE ~r.flag
      BY <1>1, <2>2, <3>2 DEF Exists
    <3> QED
      BY <3>1, <3>2
  <2>6. path \notin Files(t) \ MayGo(t, r)
    BY <2>5 DEF Files
  <2>7. c.call.op = "write" /\ c.call.path = path
    BY <2>4 DEF Writing
  <2> QED
    BY <2>4, <2>6, <2>7 DEF Harmless
<1> QED
  BY <1>1, <1>4, <1>5, <1>6

\* The calls that carry out a request, when it is allowed.
LEMMA DoingBegins ==
    ASSUME NEW t, IsTree(t), NEW r, IsAsked(r, t), Allowed(t, r),
           \A part \in Partitions : IsTree(volumes[part])
    PROVE  Doing(t, r, t, Calls(t, r))
<1> DEFINE w == Calls(t, r)
<1>1. Stay(t, MayGo(t, r), t) /\ StayOrMove(t, r, t)
  BY DEF Stay, StayOrMove, Places, Files
<1>2. /\ r.to \in Seq(Names) /\ r.data \in Nat /\ r.source \in Partitions
      /\ r.from \in Seq(Seq(Names) \ {<<>>})
      /\ \A i \in DOMAIN r.from : r.from[i] \in Seq(Names) \ {<<>>}
  <2>1. /\ r.to \in Seq(Names) /\ r.data \in Nat /\ r.source \in Partitions
        /\ r.from \in Seq(Seq(Names) \ {<<>>})
    BY DEF IsAsked
  <2>2. \A i \in DOMAIN r.from : r.from[i] \in Seq(Names) \ {<<>>}
    BY <2>1
  <2> QED
    BY <2>1, <2>2
<1>3. CASE ~Moving(r)
  <2> SUFFICES ASSUME NEW c \in w PROVE IsTurn(c) /\ Harmless(t, r, c.call)
    BY <1>1, <1>3 DEF Doing
  <2>1. CASE r.op = "delete"
    <3>1. MayGo(t, r) = UNION {Below(t, p) : p \in Range(r.from)}
      BY <2>1 DEF MayGo
    <3>2. \A i \in DOMAIN r.from : Below(t, r.from[i]) \subseteq MayGo(t, r)
      BY <3>1 DEF Range
    <3>3. CASE kind = "image"
      <4>1. c \in Removals(t, r)
        BY <2>1, <3>3 DEF Calls
      <4> QED
        BY <3>2, <4>1, RemovalsAre DEF Harmless
    <3>4. CASE kind # "image"
      <4>1. c \in Discards(t, r.from)
        BY <2>1, <3>4 DEF Calls
      <4> QED
        BY <3>2, <4>1, DiscardsAre DEF Harmless
    <3> QED
      BY <3>3, <3>4
  <2>2. CASE r.op = "mkdir"
    <3>1. c = Turn(1, 0, MakingDrawer(r.to))
      BY <2>2 DEF Calls
    <3>2. IsTurn(c) /\ c.call = MakingDrawer(r.to)
      BY <1>2, <3>1, CallsOfPath, TurnIs
    <3> QED
      BY <3>2 DEF MakingDrawer, Harmless
  <2>3. CASE r.op = "put"
    <3>1. c = Turn(1, 0, Writing(r.to, r.data))
      BY <2>3 DEF Calls
    <3>2. IsTurn(c) /\ c.call = Writing(r.to, r.data)
      BY <1>2, <3>1, CallsOfPath, TurnIs
    <3>3. r.to \in MayGo(t, r)
      BY <2>3 DEF MayGo, Replaced, Landing
    <3> QED
      BY <3>2, <3>3 DEF Writing, Harmless
  <2>4. CASE r.op = "import"
    <3>1. c \in FolderCalls(t, r)
      BY <2>4 DEF Calls
    <3> QED
      BY <2>4, <3>1, FolderCallsAre
  <2>5. CASE r.op = "annotate"
    <3>1. w = {}
      BY <2>5 DEF Calls
    <3> QED
      BY <3>1
  <2>6. CASE r.op = "copy"
    <3> DEFINE from == volumes[r.source]
               base == Base(t, r)
               copied == [q \in Below(from, r.from[1]) |-> Moved(q, r.from[1], base)]
    <3>1. IsTree(from) /\ Original(volumes, r) = from
      BY <1>2, <2>6 DEF Original
    <3>2. c \in CopyCalls(from, t, r)
      BY <2>6, <3>1 DEF Calls
    <3>3. r.from[1] \in Seq(Names) /\ Len(r.from[1]) \in 1..Len(r.from[1])
      <4>1. 1 \in DOMAIN r.from
        BY <1>2, <2>6 DEF IsAsked
      <4>2. r.from[1] \in Seq(Names) \ {<<>>}
        BY <1>2, <4>1
      <4> QED
        BY <4>2
    <3>4. base \in Seq(Names)
      <4>1. Last(r.from[1]) \in Names
        BY <3>3 DEF Last
      <4>2. Append(r.to, Last(r.from[1])) \in Seq(Names)
        BY <1>2, <4>1
      <4> QED
        BY <1>2, <4>2 DEF Base
    <3> HIDE DEF base
    <3>5. copied = Copied(from, t, r)
      BY <2>6 DEF Copied, base
    <3>6. DOMAIN copied \subseteq DOMAIN from /\ \A q \in DOMAIN copied : copied[q] \in Seq(Names)
      <4>1. \A q \in Below(from, r.from[1]) : q \in Seq(Names) /\ q \in DOMAIN from
                                             /\ IsPrefix(r.from[1], q)
        BY <3>1, ObjectOf DEF Below
      <4>2. \A q \in Below(from, r.from[1]) : Moved(q, r.from[1], base) \in Seq(Names)
        BY <3>3, <3>4, <4>1, MovedIs
      <4> QED
        BY <4>1, <4>2
    <3> HIDE DEF from, copied
    <3>7. IsTurn(c) /\ c.call.op \in {"drawer", "create"}
      BY <3>1, <3>2, <3>5, <3>6, CopyCallsAre
    <3> QED
      BY <3>7 DEF Harmless
  <2>7. CASE r.op = "extract"
    <3> DEFINE copied == [q \in DOMAIN Disc |-> r.to \o q]
    <3>1. c \in Drawered({r.to}) \cup CopyCalls(Disc, t, r)
      BY <2>7 DEF Calls, ExtractCalls
    <3>2. copied = Copied(Disc, t, r)
      BY <2>7 DEF Copied
    <3>3. IsTree(Disc)
      BY TreesAssumption
    <3>4. \A q \in DOMAIN Disc : r.to \o q \in Seq(Names)
      BY <1>2, <3>3, ObjectOf, ConcatProperties
    <3>5. DOMAIN copied = DOMAIN Disc /\ \A q \in DOMAIN copied : copied[q] \in Seq(Names)
      BY <3>4
    <3> HIDE DEF copied
    <3>6. CASE c \in Drawered({r.to})
      <4>1. {r.to} \in SUBSET Seq(Names)
        BY <1>2
      <4> QED
        BY <3>6, <4>1, DrawersAre DEF Harmless
    <3>7. CASE c \in CopyCalls(Disc, t, r)
      <4>1. IsTurn(c) /\ c.call.op \in {"drawer", "create"}
        BY <3>2, <3>3, <3>5, <3>7, CopyCallsAre
      <4> QED
        BY <4>1 DEF Harmless
    <3> QED
      BY <3>1, <3>6, <3>7
  <2> QED
    BY <1>3, <2>1, <2>2, <2>3, <2>4, <2>5, <2>6, <2>7 DEF IsAsked, Moving
<1>4. CASE Moving(r) /\ kind = "image"
  <2>1. w = {Turn(m.turn, 0, Renaming(m.from, m.to)) : m \in MovesOf(r)}
    BY <1>4 DEF Calls, Moving
  <2>2. MoveAllowed(t, r)
    BY <1>4 DEF Allowed, Moving
  <2>3. ASSUME NEW c \in w
        PROVE  IsTurn(c) /\ \E m \in MovesOf(r) : c.call = Renaming(m.from, m.to)
    <3>1. PICK m \in MovesOf(r) : c = Turn(m.turn, 0, Renaming(m.from, m.to))
      BY <2>1
    <3>2. m.from \in Seq(Names) /\ m.to \in Seq(Names) \ {<<>>}
      BY <1>4, MovesAre
    <3>3. IsTurn(c) /\ c.call = Renaming(m.from, m.to)
      BY <3>1, <3>2, CallsOfPath, TurnIs
    <3> QED
      BY <3>3
  <2> QED
    BY <1>1, <1>4, <2>2, <2>3 DEF Doing
<1>5. CASE Moving(r) /\ kind # "image"
  <2> DEFINE last == Turn(2, 0, Renaming(r.from[1], r.to))
             before == IF r.to = r.from[1] \/ r.to \notin DOMAIN t THEN {}
                       ELSE Discards(t, <<r.to>>)
  <2>1. r.op = "rename"
    BY <1>5 DEF IsAsked, Moving
  <2>2. w = before \cup {last}
    BY <1>5, <2>1 DEF Calls, RenameCalls
  <2>3. r.from[1] \in Seq(Names) /\ r.to \in Seq(Names) \ {<<>>}
    <3>1. Len(r.from) = 1 /\ r.to # <<>>
      BY <2>1 DEF IsAsked
    <3>2. 1 \in DOMAIN r.from
      BY <1>2, <3>1
    <3> QED
      BY <1>2, <3>1, <3>2
  <2>4. IsTurn(last)
    BY <2>3, CallsOfPath, TurnIs
  <2>5. ASSUME NEW c \in before
        PROVE  IsTurn(c) /\ c.turn = 1 /\ c.call.op = "discard" /\ c.call.path \in MayGo(t, r)
    <3>1. c \in Discards(t, <<r.to>>) /\ r.to \in DOMAIN t /\ r.to # r.from[1]
      BY <2>5
    <3>2. /\ IsTurn(c) /\ c.call.op = "discard"
          /\ \E i \in DOMAIN <<r.to>> : c.turn = i /\ c.call.path \in Below(t, <<r.to>>[i])
      BY <3>1, DiscardsAre
    <3>3. c.turn = 1 /\ c.call.path \in Below(t, r.to)
      BY <3>2
    <3>4. r.flag
      BY <1>5, <2>1, <3>1 DEF Allowed, RenameAllowed, Exists
    <3>5. MayGo(t, r) = Below(t, r.to)
      BY <2>1, <3>4 DEF MayGo, Replaced
    <3> QED
      BY <3>2, <3>3, <3>5
  <2> HIDE DEF before, last
  <2>6. RenameLast(t, r, t, w)
    BY <1>1, <2>2, <2>5 DEF RenameLast, last
  <2> QED
    BY <1>1, <1>5, <2>2, <2>4, <2>5, <2>6 DEF Doing
<1> QED
  BY <1>3, <1>4, <1>5

-----------------------------------------------------------------------------
(* The invariant.                                                          *)

RequestInv ==
    /\ request.part \in Partitions
    /\ selected = request.part
    /\ DOMAIN start.volumes = Partitions
    /\ \A part \in Partitions : IsTree(start.volumes[part])
    /\ IsAsked(request, start.volumes[request.part])
    /\ work = Unopened => volumes = start.volumes
    /\ work # Unopened =>
        /\ at = request.part
        /\ \A part \in Partitions \ {at} : volumes[part] = start.volumes[part]
        /\ Doing(start.volumes[at], request, volumes[at], work)

FilesInv ==
    /\ \A part \in Partitions : IsTree(volumes[part])
    /\ requests \in Nat
    /\ IF request = None THEN work = Unopened ELSE RequestInv

\* It holds when nothing was asked for.
LEMMA FilesInit == Init => FilesInv
<1> SUFFICES ASSUME Init PROVE FilesInv
  OBVIOUS
<1>1. \A part \in Partitions : volumes[part] \in Trees
  <2>1. volumes \in [IF kind = "image" THEN {0} ELSE {0, 1} -> Trees]
    BY DEF Init
  <2> QED
    BY <2>1 DEF Partitions
<1>2. request = None /\ work = Unopened /\ requests = 0
  BY DEF Init
<1> QED
  BY <1>1, <1>2, TreesAssumption DEF FilesInv

\* The requests are about what is on the screen.
LEMMA RequestsAre ==
    ASSUME NEW part \in Partitions, \A other \in Partitions : IsTree(volumes[other]),
           requests \in Nat, NEW r \in Requests(part)
    PROVE  r.part = part /\ IsAsked(r, volumes[part])
<1> DEFINE t == volumes[part]
           Some == Seq(Seq(Names) \ {<<>>})
<1>1. \A other \in Partitions : \A p \in DOMAIN volumes[other] :
        p \in Seq(Names) \ {<<>>} /\ p \in Seq(Names)
  BY ObjectOf
<1>2. Fresh \in Nat
  BY DEF Fresh
<1>3. \A p \in Paths : p \in Seq(Names)
  <2> SUFFICES ASSUME NEW p \in Paths PROVE p \in Seq(Names)
    OBVIOUS
  <2>1. PICK n \in 1..2 : p \in [1..n -> Names]
    BY DEF Paths
  <2> QED
    BY <2>1
<1>4. \A s \in Selections(t) : s \in Some /\ \A i \in DOMAIN s : s[i] \in DOMAIN t
  <2> SUFFICES ASSUME NEW s \in Selections(t)
               PROVE  s \in Some /\ \A i \in DOMAIN s : s[i] \in DOMAIN t
    OBVIOUS
  <2>1. CASE \E p \in DOMAIN t : s = <<p>>
    <3>1. PICK p \in DOMAIN t : s = <<p>>
      BY <2>1
    <3>2. p \in Seq(Names) \ {<<>>}
      BY <1>1
    <3> QED
      BY <3>1, <3>2
  <2>2. CASE \E p, q \in DOMAIN t : s = <<p, q>>
    <3>1. PICK p \in DOMAIN t, q \in DOMAIN t : s = <<p, q>>
      BY <2>2
    <3>2. p \in Seq(Names) \ {<<>>} /\ q \in Seq(Names) \ {<<>>}
      BY <1>1
    <3> QED
      BY <3>1, <3>2
  <2> QED
    BY <2>1, <2>2 DEF Selections
<1>5. \A d \in Drawers(t) : d \in Seq(Names)
  <2>1. <<>> \in Seq(Names)
    OBVIOUS
  <2> QED
    BY <1>1, <2>1 DEF Drawers
<1>6. <<>> \in Some /\ <<>> \in Seq(Names)
  OBVIOUS
<1>7. \A p \in Seq(Names) \ {<<>>} : <<p>> \in Some /\ Len(<<p>>) = 1 /\ <<p>>[1] = p
                                 /\ \A i \in DOMAIN <<p>> : <<p>>[i] = p
  OBVIOUS
<1> DEFINE deletes == {Ask("delete", part, s, <<>>) :
                          s \in {x \in Selections(t) : IsInjective(x)}}
           ones == {Ask(op, part, <<>>, p) : op \in {"mkdir", "put"}, p \in Paths}
           imports == {[Ask("import", part, folder, d) EXCEPT !.flag = replace] :
                          folder \in Folders, d \in Drawers(t), replace \in BOOLEAN}
           renames == {[Ask("rename", part, <<p>>, Append(Front(p), n)) EXCEPT !.flag = overwrite] :
                          p \in DOMAIN t, n \in Names, overwrite \in {FALSE, kind # "image"}}
           notations == {Ask("annotate", part, <<p>>, <<>>) : p \in Files(t)}
           copying(source, p, q) == [Ask("copy", part, <<p>>, q) EXCEPT !.source = source]
           copiesOf(source) == {copying(source, p, q) : p \in DOMAIN volumes[source], q \in Paths}
           copies == UNION {copiesOf(source) : source \in Partitions}
           moves == {Ask("move", part, s, d) : s \in Selections(t), d \in Drawers(t)}
           extracts == {Ask("extract", part, <<>>, p) : p \in Paths}
<1>8. Requests(part) =
        deletes \cup ones \cup imports \cup renames \cup notations \cup copies
          \cup (IF kind # "image" THEN {} ELSE moves \cup extracts)
  BY DEF Requests
<1> HIDE DEF t, Some, deletes, ones, imports, renames, notations, copying, copiesOf, copies,
             moves, extracts
<1>9. \/ r \in deletes \/ r \in ones \/ r \in imports \/ r \in renames \/ r \in notations
      \/ r \in copies \/ (kind = "image" /\ r \in moves \cup extracts)
  BY <1>8
<1>10. CASE r \in deletes
  <2>1. PICK s \in Selections(t) : r = Ask("delete", part, s, <<>>)
    BY <1>10 DEF deletes
  <2>2. /\ r.op = "delete" /\ r.part = part /\ r.from = s /\ r.to = <<>> /\ r.flag = FALSE
        /\ r.source = part /\ r.data = Fresh
    BY <2>1 DEF Ask
  <2> QED
    BY <1>2, <1>4, <1>6, <2>2 DEF IsAsked, Moving, t, Some
<1>11. CASE r \in ones
  <2>1. PICK op \in {"mkdir", "put"}, p \in Paths : r = Ask(op, part, <<>>, p)
    BY <1>11 DEF ones
  <2>2. /\ r.op \in {"mkdir", "put"} /\ r.part = part /\ r.from = <<>> /\ r.to = p
        /\ r.flag = FALSE /\ r.source = part /\ r.data = Fresh
    BY <2>1 DEF Ask
  <2> QED
    BY <1>2, <1>3, <1>6, <2>2 DEF IsAsked, Moving, Some
<1>12. CASE r \in imports
  <2>1. PICK folder \in Folders, d \in Drawers(t), replace \in BOOLEAN :
                r = [Ask("import", part, folder, d) EXCEPT !.flag = replace]
    BY <1>12 DEF imports
  <2>2. /\ r.op = "import" /\ r.part = part /\ r.from = folder /\ r.to = d
        /\ r.flag = replace /\ r.source = part /\ r.data = Fresh
    BY <2>1 DEF Ask
  <2>3. folder \in Some
    BY FoldersAssumption DEF Some
  <2> QED
    BY <1>2, <1>5, <2>2, <2>3 DEF IsAsked, Moving, t, Some
<1>13. CASE r \in renames
  <2>1. PICK p \in DOMAIN t, n \in Names, overwrite \in {FALSE, kind # "image"} :
                r = [Ask("rename", part, <<p>>, Append(Front(p), n)) EXCEPT !.flag = overwrite]
    BY <1>13 DEF renames
  <2> DEFINE to == Append(Front(p), n)
  <2>2. /\ r.op = "rename" /\ r.part = part /\ r.from = <<p>> /\ r.to = to
        /\ r.flag = overwrite /\ r.source = part /\ r.data = Fresh
    BY <2>1 DEF Ask
  <2>3. p \in Seq(Names) /\ p # <<>>
    BY <1>1 DEF t
  <2>4. Front(p) \in Seq(Names) /\ Len(Front(p)) = Len(p) - 1
    BY <2>3, FrontIs
  <2>5. to \in Seq(Names) /\ to # <<>> /\ Len(to) = Len(p)
    <3>1. /\ Append(Front(p), n) \in Seq(Names) /\ Append(Front(p), n) # <<>>
          /\ Len(Append(Front(p), n)) = Len(Front(p)) + 1
      BY <2>4
    <3>2. Len(p) \in Nat
      BY <2>3
    <3> QED
      BY <2>4, <3>1, <3>2
  <2> HIDE DEF to
  <2>6. r.from \in Some /\ Len(r.from) = 1 /\ r.from[1] = p
        /\ \A i \in DOMAIN r.from : r.from[i] \in DOMAIN t
    BY <1>7, <2>2, <2>3
  <2> QED
    BY <1>2, <2>2, <2>5, <2>6 DEF IsAsked, Moving, t, Some
<1>14. CASE r \in notations
  <2>1. PICK p \in Files(t) : r = Ask("annotate", part, <<p>>, <<>>)
    BY <1>14 DEF notations
  <2>2. /\ r.op = "annotate" /\ r.part = part /\ r.from = <<p>> /\ r.to = <<>>
        /\ r.flag = FALSE /\ r.source = part /\ r.data = Fresh
    BY <2>1 DEF Ask
  <2>3. <<p>> \in Some /\ Len(<<p>>) = 1
    BY <1>1, <1>7 DEF Files, t
  <2> QED
    BY <1>2, <1>6, <2>2, <2>3 DEF IsAsked, Moving, Some
<1>15. CASE r \in copies
  <2>1. PICK source \in Partitions : r \in copiesOf(source)
    BY <1>15, Zenon DEF copies
  <2>2. PICK p \in DOMAIN volumes[source], q \in Paths : r = copying(source, p, q)
    BY <2>1 DEF copiesOf
  <2>3. /\ r.op = "copy" /\ r.part = part /\ r.from = <<p>> /\ r.to = q
        /\ r.flag = FALSE /\ r.source = source /\ r.data = Fresh
    BY <2>2 DEF Ask, copying
  <2>4. r.from \in Some /\ Len(r.from) = 1
    BY <1>1, <1>7, <2>3
  <2> QED
    BY <1>2, <1>3, <2>3, <2>4 DEF IsAsked, Moving, Some
<1>16. CASE kind = "image" /\ r \in moves
  <2>1. PICK s \in Selections(t), d \in Drawers(t) : r = Ask("move", part, s, d)
    BY <1>16 DEF moves
  <2>2. /\ r.op = "move" /\ r.part = part /\ r.from = s /\ r.to = d
        /\ r.flag = FALSE /\ r.source = part /\ r.data = Fresh
    BY <2>1 DEF Ask
  <2>3. /\ s \in Some /\ (\A i \in DOMAIN s : s[i] \in DOMAIN t)
        /\ d \in Seq(Names) /\ d \in Drawers(t) /\ Fresh \in Nat
    BY <1>2, <1>4, <1>5
  <2> QED
    BY <1>16, <2>2, <2>3 DEF IsAsked, Moving, t, Some
<1>17. CASE kind = "image" /\ r \in extracts
  <2>1. PICK p \in Paths : r = Ask("extract", part, <<>>, p)
    BY <1>17 DEF extracts
  <2>2. /\ r.op = "extract" /\ r.part = part /\ r.from = <<>> /\ r.to = p
        /\ r.flag = FALSE /\ r.source = part /\ r.data = Fresh
    BY <2>1 DEF Ask
  <2> QED
    BY <1>2, <1>3, <1>6, <1>17, <2>2 DEF IsAsked, Moving, Some
<1> QED
  BY <1>9, <1>10, <1>11, <1>12, <1>13, <1>14, <1>15, <1>16, <1>17

\* Every step keeps it.
LEMMA FilesNext == FilesInv /\ [Next]_vars => FilesInv'
<1> SUFFICES ASSUME FilesInv, [Next]_vars PROVE FilesInv'
  OBVIOUS
<1>1. /\ \A part \in Partitions : IsTree(volumes[part])
      /\ requests \in Nat
      /\ request = None => work = Unopened
      /\ request # None => RequestInv
  BY DEF FilesInv
\* What ends a request.
<1>2. ASSUME request # None, Over, PutBack, UNCHANGED requests
      PROVE  FilesInv'
  <2>1. volumes' = start.volumes \/ volumes' = volumes
    BY <1>2 DEF PutBack
  <2>2. \A part \in Partitions' : IsTree(volumes'[part])
    BY <1>1, <1>2, <2>1 DEF RequestInv, Partitions
  <2> QED
    BY <1>1, <1>2, <2>2 DEF FilesInv, Over
<1>3. ASSUME NEW part \in Partitions, NEW r \in Requests(part), Begin(r)
      PROVE  FilesInv'
  <2>1. r.part = part /\ IsAsked(r, volumes[part])
    BY <1>1, RequestsAre
  <2>2. /\ request' = r /\ selected' = part /\ start'.volumes = volumes /\ work' = Unopened
        /\ volumes' = volumes /\ requests' = requests + 1 /\ kind' = kind
    BY <1>1, <1>3, <2>1 DEF Begin
  <2>3. Partitions' = Partitions
    BY <2>2 DEF Partitions
  <2>4. IsAsked(r, volumes[part])'
    BY <2>1, <2>2, <2>3 DEF IsAsked
  <2>5. RequestInv'
    BY <1>1, <2>1, <2>2, <2>3, <2>4 DEF RequestInv, Partitions
  <2> QED
    BY <1>1, <2>2, <2>3, <2>5 DEF FilesInv
\* What leaves the request at work.
<1>4. ASSUME RequestInv, request' = request, selected' = selected, start' = start,
             requests' = requests, kind' = kind, Partitions' = Partitions,
             \A part \in Partitions : IsTree(volumes'[part]),
             work' = Unopened => volumes' = start.volumes,
             work' # Unopened =>
                /\ at' = request.part
                /\ \A part \in Partitions \ {at'} : volumes'[part] = start.volumes[part]
                /\ Doing(start.volumes[at'], request, volumes'[at'], work')
      PROVE  RequestInv' /\ (request # None => FilesInv')
  <2>1. IsAsked(request, start.volumes[request.part])'
    <3>1. IsAsked(request, start.volumes[request.part])
      BY <1>4 DEF RequestInv
    <3> QED
      BY <1>4, <3>1 DEF IsAsked
  <2>2. work' # Unopened => Doing(start.volumes[at], request, volumes[at], work)'
    BY <1>4 DEF Doing
  <2>3. RequestInv'
    BY <1>4, <2>1, <2>2 DEF RequestInv
  <2> QED
    BY <1>1, <1>4, <2>3 DEF FilesInv
<1>5. ASSUME Open PROVE FilesInv'
  <2> DEFINE t == volumes[selected]
  <2>1. /\ request # None /\ RequestInv /\ work = Unopened /\ Allowed(t, request)
        /\ at' = selected /\ work' = Calls(t, request)
        /\ UNCHANGED <<kind, volumes, selected, request, start, requests>>
    BY <1>1, <1>5 DEF Open
  <2>2. /\ selected = request.part /\ selected \in Partitions /\ volumes = start.volumes
        /\ IsAsked(request, t)
    BY <2>1 DEF RequestInv
  <2>3. Doing(t, request, t, Calls(t, request))
    BY <1>1, <2>1, <2>2, DoingBegins
  <2>4. Partitions' = Partitions
    BY <2>1 DEF Partitions
  <2> QED
    BY <1>1, <1>4, <2>1, <2>2, <2>3, <2>4
<1>6. ASSUME Turned PROVE FilesInv'
  BY <1>2, <1>6 DEF Turned
<1>7. ASSUME Working PROVE request # None /\ RequestInv /\ work # Unopened
  BY <1>1, <1>7 DEF Working
<1>8. ASSUME Call PROVE FilesInv'
  <2>1. PICK c \in Due :
          /\ Accepts(volumes[at], c.call, Room)
          /\ volumes' = [volumes EXCEPT ![at] = After(@, c.call)]
          /\ work' = work \ {c}
    BY <1>8 DEF Call
  <2>2. /\ request # None /\ RequestInv /\ work # Unopened
        /\ UNCHANGED <<kind, selected, request, at, start, requests>>
    BY <1>7, <1>8 DEF Call
  <2>3. /\ at = request.part /\ at \in Partitions
        /\ \A part \in Partitions \ {at} : volumes[part] = start.volumes[part]
        /\ Doing(start.volumes[at], request, volumes[at], work)
        /\ IsTree(start.volumes[at]) /\ IsAsked(request, start.volumes[at])
    BY <2>2 DEF RequestInv
  <2>4. c \in work /\ ~\E d \in work : Sooner(d, c)
    BY DEF Due
  <2>5. /\ IsTree(After(volumes[at], c.call))
        /\ Doing(start.volumes[at], request, After(volumes[at], c.call), work \ {c})
    BY <1>1, <2>1, <2>3, <2>4, DoingGoesOn
  <2>6. /\ Partitions' = Partitions /\ volumes'[at] = After(volumes[at], c.call)
        /\ \A part \in Partitions \ {at} : volumes'[part] = volumes[part]
    BY <2>1, <2>3 DEF Partitions
  <2>7. work' # Unopened
    <3>1. None \notin work
      <4>1. \A d \in work : IsTurn(d)
        BY <2>3 DEF Doing
      <4>2. DOMAIN None = {"op"}
        BY DEF None
      <4>3. ~IsTurn(None)
        BY <4>2 DEF IsTurn
      <4> QED
        BY <4>1, <4>3
    <3> QED
      BY <2>1, <3>1 DEF Unopened
  <2>8. \A part \in Partitions : IsTree(volumes'[part])
    BY <1>1, <2>5, <2>6
  <2> QED
    BY <1>4, <2>1, <2>2, <2>3, <2>5, <2>6, <2>7, <2>8
<1>9. ASSUME Refuse PROVE FilesInv'
  BY <1>2, <1>7, <1>9 DEF Refuse
<1>10. ASSUME Fault PROVE FilesInv'
  <2>1. PICK c \in Due :
          \E gone \in {{}, IF c.call.op = "drawer" THEN {} ELSE Below(volumes[at], c.call.path)} :
            IF Bracketed THEN volumes' = start.volumes
            ELSE volumes' = [volumes EXCEPT ![at] = Without(@, gone)]
    BY <1>10 DEF Fault
  <2>2. PICK gone \in {{}, IF c.call.op = "drawer" THEN {} ELSE Below(volumes[at], c.call.path)} :
            IF Bracketed THEN volumes' = start.volumes
            ELSE volumes' = [volumes EXCEPT ![at] = Without(@, gone)]
    BY <2>1
  <2>3. request # None /\ RequestInv /\ work # Unopened /\ Over /\ UNCHANGED requests
    BY <1>7, <1>10 DEF Fault
  <2>4. at \in Partitions /\ Doing(start.volumes[at], request, volumes[at], work)
    BY <2>3 DEF RequestInv
  <2>5. IsTree(Without(volumes[at], gone))
    <3>1. IsTree(volumes[at])
      BY <1>1, <2>4
    <3>2. c.call.path \in Seq(Names)
      BY <2>4 DEF Due, Doing, IsTurn, IsCall
    <3>3. \A q \in DOMAIN volumes[at] : \A s \in DOMAIN volumes[at] \cap gone :
            IsPrefix(s, q) => q \in gone
      <4> SUFFICES ASSUME NEW q \in DOMAIN volumes[at], NEW s \in DOMAIN volumes[at] \cap gone,
                          IsPrefix(s, q)
                   PROVE  q \in gone
        OBVIOUS
      <4>1. gone = Below(volumes[at], c.call.path)
        BY <2>2
      <4>2. IsPrefix(c.call.path, s)
        BY <4>1 DEF Below
      <4>3. s \in Seq(Names) /\ q \in Seq(Names)
        BY <3>1, ObjectOf
      <4>4. IsPrefix(c.call.path, q)
        BY <3>2, <4>2, <4>3, PrefixOfPrefix
      <4> QED
        BY <4>1, <4>4 DEF Below
    <3> QED
      BY <3>1, <3>3, WithoutIs
  <2>6. \A part \in Partitions' : IsTree(volumes'[part])
    <3>1. CASE Bracketed
      BY <2>2, <2>3, <3>1 DEF RequestInv, Partitions
    <3>2. CASE ~Bracketed
      <4>1. volumes' = [volumes EXCEPT ![at] = Without(@, gone)]
        BY <2>2, <3>2
      <4> QED
        BY <1>1, <2>4, <2>5, <4>1 DEF Partitions
    <3> QED
      BY <3>1, <3>2
  <2> QED
    BY <1>1, <2>3, <2>6 DEF FilesInv, Over
<1>11. ASSUME Finish PROVE FilesInv'
  <2>1. request # None /\ Over /\ volumes' = volumes /\ requests' = requests
    BY <1>11 DEF Finish
  <2>2. \A part \in Partitions' : IsTree(volumes'[part])
    BY <1>1, <2>1 DEF Partitions
  <2> QED
    BY <1>1, <2>1, <2>2 DEF FilesInv, Over
<1>12. ASSUME UNCHANGED vars PROVE FilesInv'
  <2>1. /\ UNCHANGED <<kind, volumes, selected, request, work, at, start, requests>>
        /\ Partitions' = Partitions
    BY <1>12 DEF vars, Partitions
  <2>2. CASE request = None
    BY <1>1, <2>1, <2>2 DEF FilesInv
  <2>3. CASE request # None
    <3>1. RequestInv
      BY <1>1, <2>3
    <3>2. /\ work' = Unopened => volumes' = start.volumes
          /\ work' # Unopened =>
                /\ at' = request.part
                /\ \A part \in Partitions \ {at'} : volumes'[part] = start.volumes[part]
                /\ Doing(start.volumes[at'], request, volumes'[at'], work')
      BY <2>1, <3>1 DEF RequestInv
    <3> QED
      BY <1>1, <1>4, <2>1, <2>3, <3>1, <3>2
  <2> QED
    BY <2>2, <2>3
<1> QED
  BY <1>3, <1>5, <1>6, <1>8, <1>9, <1>10, <1>11, <1>12 DEF Next

\* What every step does to the files of a partition.
LEMMA FilesStep ==
    FilesInv /\ FilesInv' /\ [Next]_vars =>
        [request # None =>
            \A part \in Partitions :
                IF faults' = faults THEN FilesStay(part, {})
                ELSE \E c \in Due : FilesStay(part, Below(start.volumes[part], c.call.path))]_vars
<1> SUFFICES ASSUME FilesInv, FilesInv', Next, request # None, NEW part \in Partitions
             PROVE  IF faults' = faults THEN FilesStay(part, {})
                    ELSE \E c \in Due : FilesStay(part, Below(start.volumes[part], c.call.path))
  BY DEF vars
<1>1. RequestInv
  BY DEF FilesInv
\* A volume that is as it was, or as it is.
<1>2. ASSUME volumes'[part] = start.volumes[part] PROVE \A broke : FilesStay(part, broke)
  BY <1>2 DEF FilesStay, IsFile, Files, Places
<1>3. ASSUME NEW v, v = volumes'[part], part = request.part,
             IF Moving(request) THEN StayOrMove(start.volumes[part], request, v)
             ELSE Stay(start.volumes[part], MayGo(start.volumes[part], request), v)
      PROVE  FilesStay(part, {})
  BY <1>3 DEF FilesStay, IsFile, Files, Moving, Stay, StayOrMove
<1>4. ASSUME volumes' = volumes PROVE FilesStay(part, {})
  <2>1. CASE work = Unopened
    BY <1>1, <1>2, <1>4, <2>1 DEF RequestInv
  <2>2. CASE work # Unopened /\ part # at
    BY <1>1, <1>2, <1>4, <2>2 DEF RequestInv
  <2>3. CASE work # Unopened /\ part = at
    BY <1>1, <1>3, <1>4, <2>3 DEF RequestInv, Doing
  <2> QED
    BY <2>1, <2>2, <2>3
<1>5. ASSUME PutBack PROVE FilesStay(part, {})
  BY <1>2, <1>4, <1>5 DEF PutBack
<1>6. CASE \E other \in Partitions : \E r \in Requests(other) : Begin(r)
  BY <1>6 DEF Begin
<1>7. CASE Open
  BY <1>4, <1>7 DEF Open
<1>8. CASE Turned
  BY <1>5, <1>8 DEF Turned
<1>9. CASE Call
  <2>1. /\ UNCHANGED <<request, at, start, faults, kind>> /\ work # Unopened
        /\ \E c \in Due : work' = work \ {c}
    BY <1>9 DEF Call, Working
  <2>2. RequestInv'
    BY <2>1 DEF FilesInv
  <2>3. work' # Unopened
    <3>1. Doing(start.volumes[at], request, volumes[at], work)
      BY <1>1, <2>1 DEF RequestInv
    <3>2. \A d \in work : IsTurn(d)
      BY <3>1 DEF Doing
    <3>3. DOMAIN None = {"op"}
      BY DEF None
    <3>4. ~IsTurn(None)
      BY <3>3 DEF IsTurn
    <3> QED
      BY <2>1, <3>2, <3>4 DEF Unopened
  <2>4. /\ Partitions' = Partitions /\ at = request.part
        /\ part # at => volumes'[part] = start.volumes[part]
        /\ Doing(start.volumes[at], request, volumes[at], work)'
    <3>1. Partitions' = Partitions
      BY <1>1, <2>1, <2>2 DEF RequestInv
    <3> QED
      BY <2>1, <2>2, <2>3, <3>1 DEF RequestInv
  <2>5. CASE part # at
    BY <1>2, <2>1, <2>4, <2>5
  <2>6. CASE part = at
    <3>1. IF Moving(request) THEN StayOrMove(start.volumes[part], request, volumes'[part])
          ELSE Stay(start.volumes[part], MayGo(start.volumes[part], request), volumes'[part])
      BY <2>1, <2>4, <2>6 DEF Doing
    <3> QED
      BY <1>3, <2>1, <2>4, <2>6, <3>1
  <2> QED
    BY <2>5, <2>6
<1>10. CASE Refuse
  BY <1>5, <1>10 DEF Refuse
<1>11. CASE Fault
  <2>1. PICK c \in Due :
          \E gone \in {{}, IF c.call.op = "drawer" THEN {} ELSE Below(volumes[at], c.call.path)} :
            IF Bracketed THEN volumes' = start.volumes
            ELSE volumes' = [volumes EXCEPT ![at] = Without(@, gone)]
    BY <1>11 DEF Fault
  <2>2. PICK gone \in {{}, IF c.call.op = "drawer" THEN {} ELSE Below(volumes[at], c.call.path)} :
            IF Bracketed THEN volumes' = start.volumes
            ELSE volumes' = [volumes EXCEPT ![at] = Without(@, gone)]
    BY <2>1
  <2> SUFFICES ASSUME faults' # faults
               PROVE  FilesStay(part, Below(start.volumes[part], c.call.path))
    <3>1. faults' = faults => FilesStay(part, {})
      BY <1>11 DEF Fault
    <3> QED
      BY <3>1
  <2>3. /\ work # Unopened /\ at = request.part /\ at \in Partitions /\ c \in work
        /\ \A other \in Partitions \ {at} : volumes[other] = start.volumes[other]
        /\ Doing(start.volumes[at], request, volumes[at], work)
        /\ IsTree(start.volumes[at]) /\ IsAsked(request, start.volumes[at])
        /\ IsTree(volumes[at])
    BY <1>1, <1>11 DEF RequestInv, Fault, Working, Due, FilesInv
  <2>4. CASE Bracketed
    BY <1>2, <2>2, <2>4
  <2>5. CASE ~Bracketed
    <3>1. volumes' = [volumes EXCEPT ![at] = Without(@, gone)]
      BY <2>2, <2>5
    <3>2. CASE part # at
      <4>1. volumes'[part] = volumes[part]
        BY <3>1, <3>2 DEF Partitions
      <4> QED
        BY <1>2, <2>3, <3>2, <4>1
    <3>3. CASE part = at
      <4>1. volumes'[part] = Without(volumes[at], gone)
        BY <2>3, <3>1, <3>3 DEF Partitions
      <4>2. gone = {} \/ gone = Below(volumes[at], c.call.path)
        BY <2>2
      <4>3. StillThere(start.volumes[at], request, Without(volumes[at], gone), c.call.path)
        BY <2>3, <4>2, DoingFails
      <4> QED
        BY <2>3, <3>3, <4>1, <4>3 DEF StillThere, FilesStay, IsFile, Files, Moving, Reach
    <3> QED
      BY <3>2, <3>3
  <2> QED
    BY <2>4, <2>5
<1>12. CASE Finish
  BY <1>4, <1>12 DEF Finish
<1> QED
  BY <1>6, <1>7, <1>8, <1>9, <1>10, <1>11, <1>12 DEF Next

\* Whatever becomes of a request, a file it does not name stays on its volume
\* as it was, at its place or where the request moves it: for any trees, any
\* folders and any number of requests and faults, on an image, on a partition
\* and on a drive opened in place.
THEOREM NothingElseGoes == Spec => OnlyNamedFilesGo
<1>1. Spec => []FilesInv
  BY FilesInit, FilesNext, PTL DEF Spec
<1> QED
  BY <1>1, FilesStep, PTL DEF Spec, OnlyNamedFilesGo
===============================================================================
