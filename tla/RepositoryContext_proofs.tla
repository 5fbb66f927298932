----------------------- MODULE RepositoryContext_proofs -----------------------
(***************************************************************************)
(* Proofs about RepositoryContext, for every repository, every size of     *)
(* file, item and manifest and every limit: the context stays within its   *)
(* cap and fills it, and contract sources come first.  They rest on facts  *)
(* about sums over finite sets and about the greedy loop that the three    *)
(* selections share, proved for every input by taking a least              *)
(* counterexample.                                                         *)
(***************************************************************************)
EXTENDS RepositoryContext, FiniteSetTheorems, WellFoundedInduction, TLAPS

-----------------------------------------------------------------------------
(* Least counterexamples. *)

LEMMA LeastNat ==
  ASSUME NEW T, T \subseteq Nat, T # {}
  PROVE  \E m \in T : \A n \in T : m <= n
<1>1. PICK m \in T : \A n \in T : ~(<<n, m>> \in OpToRel(<, Nat))
  BY NatLessThanWellFounded, WFMin
<1>2. \A n \in T : ~(n < m)
  BY <1>1 DEF OpToRel
<1>3. \A n \in T : m <= n
  <2> SUFFICES ASSUME NEW n \in T PROVE m <= n
    OBVIOUS
  <2>1. n \in Nat /\ m \in Nat /\ ~(n < m)
    BY <1>2
  <2> QED BY <2>1
<1> QED BY <1>3

(* What holds of n once it holds of every smaller number holds of all. *)
LEMMA NatInduct ==
  ASSUME NEW T, 0 \in T, \A n \in Nat : n \in T => n + 1 \in T PROVE Nat \subseteq T
<1> SUFFICES ASSUME NEW b \in Nat, b \notin T PROVE FALSE
  OBVIOUS
<1> DEFINE bad == { n \in Nat : n \notin T }
<1>1. PICK m \in bad : \A n \in bad : m <= n
  <2>1. bad \subseteq Nat /\ bad # {}
    OBVIOUS
  <2> HIDE DEF bad
  <2> QED BY <2>1, LeastNat
<1>2. m \in Nat /\ m \notin T /\ m # 0
  BY <1>1
<1>3. m - 1 \in Nat /\ ~(m <= m - 1) /\ (m - 1) + 1 = m
  BY <1>2
<1>4. m - 1 \in T
  BY <1>1, <1>3
<1> QED BY <1>2, <1>3, <1>4

(* What holds of a finite set once it holds of the set without any one of its
   elements holds of every finite set. *)
LEMMA SubsetInduction ==
  ASSUME NEW D, IsFiniteSet(D), NEW T,
         \A s \in SUBSET D : (\A y \in s : s \ {y} \in T) => s \in T
  PROVE  SUBSET D \subseteq T
<1> SUFFICES ASSUME NEW b \in SUBSET D, b \notin T PROVE FALSE
  OBVIOUS
<1> DEFINE bad == { s \in SUBSET D : s \notin T }
           sizes == { Cardinality(s) : s \in bad }
<1>1. \A s \in SUBSET D : IsFiniteSet(s) /\ Cardinality(s) \in Nat
  BY FS_Subset, FS_CardinalityType
<1>2. PICK m \in sizes : \A n \in sizes : m <= n
  <2>1. sizes \subseteq Nat /\ sizes # {}
    BY <1>1
  <2> HIDE DEF sizes
  <2> QED BY <2>1, LeastNat
<1>3. PICK s \in bad : Cardinality(s) = m
  BY <1>2
<1>4. PICK y \in s : s \ {y} \notin T /\ s \ {y} \in SUBSET D
  BY <1>3
<1>5. Cardinality(s \ {y}) \in sizes
  BY <1>4
<1>6. Cardinality(s \ {y}) = Cardinality(s) - 1
  BY <1>1, <1>3, <1>4, FS_RemoveElement
<1>7. Cardinality(s) \in Nat /\ m <= Cardinality(s) - 1
  <2> HIDE DEF sizes
  <2> QED BY <1>1, <1>2, <1>3, <1>5, <1>6
<1> QED BY <1>3, <1>7

-----------------------------------------------------------------------------
(* Sums over finite sets. *)

Chosen(s) == CHOOSE x \in s : TRUE

(* g sums the weights w over every subset of D, taking one element at a time. *)
Sums(g, w, D) ==
  g = [s \in SUBSET D |-> IF s = {} THEN 0 ELSE w[Chosen(s)] + g[s \ {Chosen(s)}]]

LEMMA SumsExist ==
  ASSUME NEW D, IsFiniteSet(D), NEW w
  PROVE  \E g : Sums(g, w, D)
<1> DEFINE Below(n) == { s \in SUBSET D : Cardinality(s) <= n }
           SumsTo(g, n) == g = [s \in Below(n) |-> IF s = {} THEN 0 ELSE w[Chosen(s)] + g[s \ {Chosen(s)}]]
           bad == { n \in Nat : ~ \E g : SumsTo(g, n) }
<1>1. \A s \in SUBSET D : IsFiniteSet(s) /\ Cardinality(s) \in Nat /\ (s = {} <=> Cardinality(s) = 0)
  BY FS_Subset, FS_CardinalityType, FS_EmptySet
<1>2. \A s \in SUBSET D : s # {} => s \ {Chosen(s)} \in SUBSET D /\ Cardinality(s \ {Chosen(s)}) = Cardinality(s) - 1
  <2> TAKE s \in SUBSET D
  <2> HAVE s # {}
  <2>1. Chosen(s) \in s
    BY DEF Chosen
  <2> QED BY <1>1, <2>1, FS_RemoveElement
<1>3. bad = {}
  <2> SUFFICES ASSUME bad # {} PROVE FALSE
    OBVIOUS
  <2>1. PICK m \in bad : \A n \in bad : m <= n
    BY LeastNat
  <2>2. CASE m = 0
    <3>1. SumsTo([s \in Below(0) |-> 0], 0)
      BY <1>1
    <3> QED BY <2>1, <2>2, <3>1
  <2>3. CASE m # 0
    <3>1. m - 1 \in Nat /\ m - 1 \notin bad
      <4> HIDE DEF SumsTo
      <4>1. m \in Nat
        BY <2>1
      <4>2. m - 1 \in Nat /\ ~(m <= m - 1)
        BY <2>3, <4>1
      <4> QED BY <2>1, <4>2
    <3>2. PICK g : SumsTo(g, m - 1)
      BY <3>1
    <3> DEFINE step(s) == IF s = {} THEN 0 ELSE w[Chosen(s)] + g[s \ {Chosen(s)}]
               h == [s \in Below(m) |-> step(s)]
    <3>3. \A s \in Below(m - 1) : g[s] = step(s)
      BY <3>2
    <3>4. \A s \in Below(m - 1) : g[s] = h[s]
      BY <1>1, <2>1, <3>3
    <3>5. \A s \in Below(m) : s # {} => s \ {Chosen(s)} \in Below(m - 1)
      BY <1>1, <1>2, <2>1
    <3>6. \A s \in Below(m) : step(s) = IF s = {} THEN 0 ELSE w[Chosen(s)] + h[s \ {Chosen(s)}]
      BY <3>4, <3>5
    <3>7. SumsTo(h, m)
      BY <3>6
    <3> QED BY <2>1, <3>7
  <2> QED BY <2>2, <2>3
<1>4. PICK g : SumsTo(g, Cardinality(D))
  BY <1>1, <1>3
<1>5. Below(Cardinality(D)) = SUBSET D
  <2>1. \A s \in SUBSET D : Cardinality(s) <= Cardinality(D)
    BY FS_Subset
  <2> QED BY <2>1
<1> QED BY <1>4, <1>5 DEF Sums

LEMMA SumIs ==
  ASSUME NEW D, IsFiniteSet(D), NEW f, DOMAIN f = D
  PROVE  \E g : Sums(g, f, D) /\ SumFunction(f) = g[D]
<1> DEFINE F(g) == [s \in SUBSET D |-> IF s = {} THEN 0
                      ELSE f[CHOOSE x \in s : TRUE] + g[s \ {CHOOSE x \in s : TRUE}]]
           it == CHOOSE g : g = F(g)
<1>1. PICK g : Sums(g, f, D)
  BY SumsExist
<1>2. \A h : (h = F(h)) <=> Sums(h, f, D)
  BY DEF Sums, Chosen
<1>3. it = F(it)
  <2> HIDE DEF F
  <2>1. \E h : h = F(h)
    BY <1>1, <1>2
  <2> QED BY <2>1
<1>4. SumFunction(f) = it[D]
  BY DEF SumFunction, SumFunctionOnSet, FoldFunctionOnSet, MapThenFoldSet
<1> QED BY <1>2, <1>3, <1>4

(* A sum depends only on the weights of what is summed. *)
LEMMA SumsAgree ==
  ASSUME NEW D, NEW E, NEW A, A \subseteq D, A \subseteq E, IsFiniteSet(A), NEW w, NEW v, NEW g, NEW h,
         Sums(g, w, D), Sums(h, v, E), \A x \in A : w[x] = v[x]
  PROVE  g[A] = h[A]
<1> DEFINE good == { s \in SUBSET A : g[s] = h[s] }
<1>1. ASSUME NEW s \in SUBSET A, \A y \in s : s \ {y} \in good PROVE s \in good
  <2>1. CASE s = {}
    BY <2>1 DEF Sums
  <2>2. CASE s # {}
    <3>1. PICK x \in s : x = Chosen(s)
      BY <2>2 DEF Chosen
    <3>2. g[s] = w[x] + g[s \ {x}] /\ h[s] = v[x] + h[s \ {x}]
      BY <2>2, <3>1 DEF Sums
    <3>3. g[s \ {x}] = h[s \ {x}]
      BY <1>1
    <3> QED BY <3>2, <3>3
  <2> QED BY <2>1, <2>2
<1>2. A \in SUBSET A
  OBVIOUS
<1> HIDE DEF good
<1>3. SUBSET A \subseteq good
  BY <1>1, SubsetInduction
<1>4. A \in good
  BY <1>2, <1>3
<1> QED BY <1>4 DEF good

(* Sums of sizes are sizes. *)
LEMMA SumsAreNat ==
  ASSUME NEW D, IsFiniteSet(D), NEW w, NEW g, Sums(g, w, D), \A x \in D : w[x] \in Nat
  PROVE  \A s \in SUBSET D : g[s] \in Nat
<1> DEFINE good == { s \in SUBSET D : g[s] \in Nat }
<1>1. ASSUME NEW s \in SUBSET D, \A y \in s : s \ {y} \in good PROVE s \in good
  <2>1. CASE s = {}
    BY <2>1 DEF Sums
  <2>2. CASE s # {}
    <3>1. PICK c \in s : c = Chosen(s)
      BY <2>2 DEF Chosen
    <3>2. g[s] = w[c] + g[s \ {c}]
      BY <2>2, <3>1 DEF Sums
    <3>3. w[c] \in Nat /\ g[s \ {c}] \in Nat
      BY <1>1
    <3> QED BY <3>2, <3>3
  <2> QED BY <2>1, <2>2
<1> HIDE DEF good
<1>2. SUBSET D \subseteq good
  BY <1>1, SubsetInduction
<1> QED BY <1>2 DEF good

(* The order of the summands does not matter: any of them may come first. *)
LEMMA AnyFirst ==
  ASSUME NEW D, IsFiniteSet(D), NEW w, NEW g, Sums(g, w, D), \A i \in D : w[i] \in Nat,
         NEW A \in SUBSET D, NEW a \in A
  PROVE  g[A] = w[a] + g[A \ {a}]
<1> DEFINE good == { s \in SUBSET D : \A x \in s : g[s] = w[x] + g[s \ {x}] }
<1>0. \A s \in SUBSET D : g[s] \in Nat
  BY SumsAreNat
<1>1. ASSUME NEW s \in SUBSET D, \A y \in s : s \ {y} \in good PROVE s \in good
  <2> SUFFICES ASSUME NEW x \in s PROVE g[s] = w[x] + g[s \ {x}]
    OBVIOUS
  <2>1. PICK c \in s : c = Chosen(s)
    BY DEF Chosen
  <2>2. g[s] = w[c] + g[s \ {c}]
    BY <2>1 DEF Sums
  <2>3. CASE x # c
    <3>1. PICK rest \in SUBSET D : rest = (s \ {c}) \ {x}
      OBVIOUS
    <3>2. rest = (s \ {x}) \ {c} /\ x \in s \ {c} /\ c \in s \ {x}
      BY <2>3, <3>1
    <3>3. g[s \ {c}] = w[x] + g[rest]
      BY <1>1, <3>1, <3>2
    <3>4. g[s \ {x}] = w[c] + g[rest]
      BY <1>1, <3>2
    <3>5. w[x] \in Nat /\ w[c] \in Nat /\ g[rest] \in Nat
      BY <1>0
    <3> QED BY <2>2, <3>3, <3>4, <3>5
  <2> QED BY <2>2, <2>3
<1> HIDE DEF good
<1>2. SUBSET D \subseteq good
  BY <1>1, SubsetInduction
<1>3. A \in good
  BY <1>2
<1> QED BY <1>3 DEF good

(* What a selection of sizes uses. *)
LEMMA UsedIs ==
  ASSUME NEW D, IsFiniteSet(D), NEW w
  PROVE  \E g, f : Sums(g, f, D) /\ f = [i \in D |-> w[i]] /\ Used(w, D) = g[D]
BY SumIs DEF Used

LEMMA UsedNothing == ASSUME NEW w PROVE Used(w, {}) = 0
<1>1. PICK g, f : Sums(g, f, {}) /\ Used(w, {}) = g[{}]
  BY UsedIs, FS_EmptySet
<1> QED BY <1>1 DEF Sums

LEMMA UsedAdds ==
  ASSUME NEW A, IsFiniteSet(A), NEW x, x \notin A, NEW w, \A i \in A \cup {x} : w[i] \in Nat
  PROVE  Used(w, A) \in Nat /\ Used(w, A \cup {x}) = Used(w, A) + w[x]
<1>1. PICK D : D = A \cup {x}
  OBVIOUS
<1>2. IsFiniteSet(D) /\ D \ {x} = A
  BY <1>1, FS_AddElement
<1>3. PICK g, f : Sums(g, f, D) /\ f = [i \in D |-> w[i]] /\ Used(w, D) = g[D]
  BY <1>2, UsedIs
<1>4. PICK h, e : Sums(h, e, A) /\ e = [i \in A |-> w[i]] /\ Used(w, A) = h[A]
  BY UsedIs
<1>5. \A i \in D : f[i] \in Nat
  BY <1>1, <1>3
<1>6. g[D] = f[x] + g[A]
  <2>1. D \in SUBSET D /\ x \in D /\ Sums(g, f, D)
    BY <1>1, <1>3
  <2>2. g[D] = f[x] + g[D \ {x}]
    BY <1>2, <1>5, <2>1, AnyFirst
  <2> QED BY <1>2, <2>2
<1>7. g[A] = h[A]
  <2>1. A \subseteq D /\ A \subseteq A /\ \A i \in A : f[i] = e[i]
    BY <1>1, <1>3, <1>4
  <2>2. Sums(g, f, D) /\ Sums(h, e, A)
    BY <1>3, <1>4
  <2> QED BY <2>1, <2>2, SumsAgree
<1>8. g[A] \in Nat /\ w[x] \in Nat /\ f[x] = w[x]
  <2>1. \A s \in SUBSET D : g[s] \in Nat
    BY <1>2, <1>3, <1>5, SumsAreNat
  <2> QED BY <1>1, <1>3, <2>1
<1>9. Used(w, A) = g[A] /\ Used(w, A \cup {x}) = g[D]
  BY <1>1, <1>3, <1>4, <1>7
<1> QED BY <1>6, <1>8, <1>9

LEMMA UsedIsNat ==
  ASSUME NEW A, IsFiniteSet(A), NEW w, \A i \in A : w[i] \in Nat PROVE Used(w, A) \in Nat
<1>1. PICK g, f : Sums(g, f, A) /\ f = [i \in A |-> w[i]] /\ Used(w, A) = g[A]
  BY UsedIs
<1> QED BY <1>1, SumsAreNat

(* More entries never use less. *)
LEMMA UsedGrows ==
  ASSUME NEW B, IsFiniteSet(B), NEW A \in SUBSET B, NEW w, \A i \in B : w[i] \in Nat
  PROVE  Used(w, A) <= Used(w, B)
<1> DEFINE good == { s \in SUBSET B : Used(w, A \cap s) <= Used(w, s) }
<1>1. ASSUME NEW s \in SUBSET B, \A y \in s : s \ {y} \in good PROVE s \in good
  <2>1. CASE s = {}
    <3>1. A \cap s = {} /\ Used(w, {}) = 0
      BY <2>1, UsedNothing
    <3> QED BY <2>1, <3>1
  <2>2. CASE s # {}
    <3>1. PICK y \in s : TRUE
      BY <2>2
    <3>2. PICK r : r = s \ {y}
      OBVIOUS
    <3>3. /\ r \in SUBSET B /\ IsFiniteSet(r) /\ y \notin r /\ s = r \cup {y}
          /\ \A i \in r \cup {y} : w[i] \in Nat
      BY <3>2, FS_Subset
    <3>4. Used(w, r) \in Nat /\ Used(w, s) = Used(w, r) + w[y]
      BY <3>3, UsedAdds
    <3>5. PICK q : q = A \cap r
      OBVIOUS
    <3>6. q \in SUBSET B /\ IsFiniteSet(q) /\ y \notin q /\ \A i \in q \cup {y} : w[i] \in Nat
      BY <3>3, <3>5, FS_Subset
    <3>7. Used(w, q) \in Nat /\ Used(w, q \cup {y}) = Used(w, q) + w[y]
      BY <3>6, UsedAdds
    <3>8. Used(w, q) <= Used(w, r)
      BY <1>1, <3>2, <3>5
    <3>9. A \cap s = q \/ A \cap s = q \cup {y}
      BY <3>3, <3>5
    <3> QED BY <3>4, <3>7, <3>8, <3>9
  <2> QED BY <2>1, <2>2
<1> HIDE DEF good
<1>2. SUBSET B \subseteq good
  BY <1>1, SubsetInduction
<1>3. B \in good
  BY <1>2
<1>4. A \cap B = A
  OBVIOUS
<1> QED BY <1>3, <1>4 DEF good

ImageOf(f, A) == { f[i] : i \in A }

OneToOne(f, A) == \A i, k \in A : f[i] = f[k] => i = k

(* v weighs the image of i as w weighs i. *)
SameWeights(v, f, w, A) == \A i \in A : w[i] \in Nat /\ v[f[i]] = w[i]

(* An injection's image is as large as what it maps, and so are sums over
   both. *)
LEMMA ImageSize ==
  ASSUME NEW A, IsFiniteSet(A), NEW f, OneToOne(f, A)
  PROVE  IsFiniteSet({ f[i] : i \in A }) /\ Cardinality({ f[i] : i \in A }) = Cardinality(A)
<1>1. PICK T : T = { f[i] : i \in A }
  OBVIOUS
<1>2. PICK e : e = [i \in A |-> f[i]]
  OBVIOUS
<1>3. e \in [A -> T] /\ \A t \in T : \E i \in A : e[i] = t
  BY <1>1, <1>2
<1>4. e \in Surjection(A, T)
  BY <1>3 DEF Surjection
<1>5. e \in Injection(A, T)
  BY <1>2, <1>3 DEF Injection, IsInjective, OneToOne
<1>6. IsFiniteSet(T) /\ Cardinality(T) = Cardinality(A)
  BY <1>4, <1>5, FS_Surjection
<1> QED BY <1>1, <1>6

LEMMA UsedImage ==
  ASSUME NEW A, IsFiniteSet(A), NEW f, OneToOne(f, A), NEW v, NEW w, SameWeights(v, f, w, A)
  PROVE  Used(v, ImageOf(f, A)) = Used(w, A)
<1> DEFINE Image(s) == { f[i] : i \in s }
           good == { s \in SUBSET A : Used(v, Image(s)) = Used(w, s) }
<1>1. ASSUME NEW s \in SUBSET A, \A y \in s : s \ {y} \in good PROVE s \in good
  <2>1. CASE s = {}
    <3>1. Image(s) = {}
      BY <2>1
    <3> QED BY <2>1, <3>1, UsedNothing
  <2>2. CASE s # {}
    <3>1. PICK y \in s : TRUE
      BY <2>2
    <3>2. PICK r : r = s \ {y}
      OBVIOUS
    <3>3. /\ r \in SUBSET A /\ IsFiniteSet(r) /\ y \notin r /\ s = r \cup {y}
          /\ \A i \in r \cup {y} : w[i] \in Nat
      BY <3>2, FS_Subset DEF SameWeights
    <3>4. Used(w, r) \in Nat /\ Used(w, s) = Used(w, r) + w[y]
      BY <3>3, UsedAdds
    <3>5. PICK q : q = Image(r)
      OBVIOUS
    <3>6. Image(s) = q \cup {f[y]} /\ f[y] \notin q
      BY <3>3, <3>5 DEF OneToOne
    <3>7. IsFiniteSet(q)
      <4>1. OneToOne(f, r)
        BY <3>3 DEF OneToOne
      <4>2. IsFiniteSet({ f[i] : i \in r })
        BY <3>3, <4>1, ImageSize
      <4> QED BY <3>5, <4>2
    <3>8. \A p \in q \cup {f[y]} : v[p] \in Nat
      BY <3>3, <3>5 DEF SameWeights
    <3>9. Used(v, Image(s)) = Used(v, q) + v[f[y]]
      <4>1. PICK x : x = f[y]
        OBVIOUS
      <4>2. x \notin q /\ \A p \in q \cup {x} : v[p] \in Nat
        BY <3>6, <3>8, <4>1
      <4>3. Used(v, q \cup {x}) = Used(v, q) + v[x]
        BY ONLY <3>7, <4>2, UsedAdds
      <4> HIDE DEF Image
      <4> QED BY <3>6, <4>1, <4>3
    <3>10. Used(v, q) = Used(w, r)
      BY <1>1, <3>2, <3>5
    <3>11. v[f[y]] = w[y]
      BY <3>3 DEF SameWeights
    <3> HIDE DEF Image
    <3> QED BY <3>4, <3>9, <3>10, <3>11
  <2> QED BY <2>1, <2>2
<1>2. A \in SUBSET A
  OBVIOUS
<1>3. A \in good
  <2> HIDE DEF good
  <2>1. SUBSET A \subseteq good
    BY <1>1, SubsetInduction
  <2> QED BY <1>2, <2>1
<1> QED BY <1>3 DEF ImageOf

-----------------------------------------------------------------------------
(* The greedy loop. *)

(* t is what the loop has taken of the first entries, for each number of them. *)
Taking(t, sizes, budget, most) ==
  t = [n \in 0..Len(sizes) |->
         IF n = 0 THEN {}
         ELSE IF Cardinality(t[n - 1]) < most /\ Used(sizes, t[n - 1]) + sizes[n] <= budget
              THEN t[n - 1] \cup {n} ELSE t[n - 1]]

LEMMA TakingExists ==
  ASSUME NEW sizes, Len(sizes) \in Nat, NEW budget, NEW most
  PROVE  \E t : Taking(t, sizes, budget, most)
<1> DEFINE Step(s, n) == IF Cardinality(s) < most /\ Used(sizes, s) + sizes[n] <= budget
                         THEN s \cup {n} ELSE s
           UpToN(t, m) == t = [n \in 0..m |-> IF n = 0 THEN {} ELSE Step(t[n - 1], n)]
           good == { m \in Nat : \E t : UpToN(t, m) }
<1>1. 0 \in good
  <2>1. UpToN([n \in 0..0 |-> {}], 0)
    OBVIOUS
  <2> QED BY <2>1
<1>2. ASSUME NEW m \in Nat, m \in good PROVE m + 1 \in good
  <2> HIDE DEF Step
  <2>1. PICK t : UpToN(t, m)
    BY <1>2
  <2> DEFINE u == [n \in 0..(m + 1) |-> IF n = 0 THEN {} ELSE Step(t[n - 1], n)]
  <2>2. \A n \in 0..m : t[n] = u[n]
    <3> TAKE n \in 0..m
    <3>1. n \in 0..(m + 1)
      OBVIOUS
    <3>2. t[n] = IF n = 0 THEN {} ELSE Step(t[n - 1], n)
      BY <2>1
    <3> QED BY <3>1, <3>2
  <2>3. \A n \in 0..(m + 1) : n # 0 => t[n - 1] = u[n - 1]
    <3>1. \A n \in 0..(m + 1) : n # 0 => n - 1 \in 0..m
      OBVIOUS
    <3> HIDE DEF u
    <3> QED BY <2>2, <3>1
  <2>4. UpToN(u, m + 1)
    BY <2>3
  <2>5. m + 1 \in Nat /\ \E v : UpToN(v, m + 1)
    <3> HIDE DEF UpToN, u
    <3> QED BY <2>4
  <2> HIDE DEF UpToN
  <2> QED BY <2>5
<1>3. Len(sizes) \in good
  <2> HIDE DEF good
  <2>1. Nat \subseteq good
    BY <1>1, <1>2, NatInduct
  <2> QED BY <2>1
<1>4. PICK t : UpToN(t, Len(sizes))
  BY <1>3
<1> QED BY <1>4 DEF Taking

LEMMA TakeIs ==
  ASSUME NEW sizes, Len(sizes) \in Nat, NEW budget, NEW most
  PROVE  \E t : Taking(t, sizes, budget, most) /\ Take(sizes, budget, most) = t[Len(sizes)]
<1> DEFINE F(t) == [n \in 0..Len(sizes) |->
                      IF n = 0 THEN {}
                      ELSE IF Cardinality(t[n - 1]) < most /\ Used(sizes, t[n - 1]) + sizes[n] <= budget
                           THEN t[n - 1] \cup {n} ELSE t[n - 1]]
           it == CHOOSE t : t = F(t)
<1>1. PICK t : Taking(t, sizes, budget, most)
  BY TakingExists
<1>2. \A u : (u = F(u)) <=> Taking(u, sizes, budget, most)
  BY DEF Taking
<1>3. it = F(it)
  <2> HIDE DEF F
  <2>1. \E u : u = F(u)
    BY <1>1, <1>2
  <2> QED BY <2>1
<1>4. Take(sizes, budget, most) = it[Len(sizes)]
  BY DEF Take
<1> QED BY <1>2, <1>3, <1>4

(* What the loop takes of the first n: it keeps to its budget and its number
   of entries, and what it passed over was too many or too much. *)
TakenOf(s, n, sizes, budget, most) ==
  /\ s \subseteq 1..n
  /\ Used(sizes, s) <= budget /\ Cardinality(s) <= most
  /\ \A m \in 1..n : m \notin s =>
       LET before == { i \in s : i < m }
       IN Cardinality(before) = most \/ Used(sizes, before) + sizes[m] > budget

LEMMA TakeKeepsTheBudget ==
  ASSUME NEW sizes \in Seq(Nat), NEW budget \in Nat, NEW most \in Nat
  PROVE  TakenOf(Take(sizes, budget, most), Len(sizes), sizes, budget, most)
<1>1. Len(sizes) \in Nat /\ \A n \in 1..Len(sizes) : sizes[n] \in Nat
  OBVIOUS
<1>2. PICK t : Taking(t, sizes, budget, most) /\ Take(sizes, budget, most) = t[Len(sizes)]
  BY <1>1, TakeIs
<1> DEFINE good == { n \in Nat : n <= Len(sizes) => TakenOf(t[n], n, sizes, budget, most) }
<1>3. 0 \in good
  <2>1. t[0] = {}
    BY <1>1, <1>2 DEF Taking
  <2>2. Used(sizes, {}) = 0 /\ Cardinality({}) = 0
    BY UsedNothing, FS_EmptySet
  <2>3. 0 <= budget /\ 0 <= most /\ 1..0 = {}
    OBVIOUS
  <2>4. TakenOf({}, 0, sizes, budget, most)
    BY <2>2, <2>3 DEF TakenOf
  <2> QED BY <2>1, <2>4
<1>4. ASSUME NEW k \in Nat, k \in good PROVE k + 1 \in good
  <2> SUFFICES ASSUME k + 1 <= Len(sizes) PROVE TakenOf(t[k + 1], k + 1, sizes, budget, most)
    OBVIOUS
  <2>1. PICK n \in 1..Len(sizes) : n = k + 1
    BY <1>1
  <2>2. PICK s : s = t[k]
    OBVIOUS
  <2>3. TakenOf(s, k, sizes, budget, most)
    BY <1>1, <1>4, <2>2
  <2>4. t[n] = IF Cardinality(s) < most /\ Used(sizes, s) + sizes[n] <= budget THEN s \cup {n} ELSE s
    <3>1. n \in 0..Len(sizes) /\ n # 0 /\ n - 1 = k
      BY <1>1, <2>1
    <3> QED BY <1>2, <2>2, <3>1 DEF Taking
  <2>5. s \subseteq 1..k /\ n \notin s /\ s \subseteq 1..Len(sizes)
    BY <1>1, <2>1, <2>3 DEF TakenOf
  <2>6. IsFiniteSet(s) /\ Cardinality(s) \in Nat
    <3>1. IsFiniteSet(1..k)
      BY FS_Interval
    <3> QED BY <2>5, <3>1, FS_Subset, FS_CardinalityType
  <2>7. Used(sizes, s) \in Nat
    BY <1>1, <2>5, <2>6, UsedIsNat
  <2>8. CASE Cardinality(s) < most /\ Used(sizes, s) + sizes[n] <= budget
    <3>1. t[n] = s \cup {n}
      BY <2>4, <2>8
    <3>2. Cardinality(s \cup {n}) = Cardinality(s) + 1
      BY <2>5, <2>6, FS_AddElement
    <3>3. Used(sizes, s \cup {n}) = Used(sizes, s) + sizes[n]
      BY <1>1, <2>5, <2>6, UsedAdds
    <3>4. \A m \in 1..n : m \notin s \cup {n} => m \in 1..k /\ { i \in s \cup {n} : i < m } = { i \in s : i < m }
      BY <2>1, <2>5
    <3>5. \A m \in 1..n : m \notin s \cup {n} =>
            LET before == { i \in s \cup {n} : i < m }
            IN Cardinality(before) = most \/ Used(sizes, before) + sizes[m] > budget
      BY <2>3, <3>4 DEF TakenOf
    <3>6. s \cup {n} \subseteq 1..n
      BY <2>1, <2>5
    <3>7. Cardinality(s \cup {n}) <= most /\ Used(sizes, s \cup {n}) <= budget
      BY <2>6, <2>8, <3>2, <3>3
    <3>8. TakenOf(s \cup {n}, n, sizes, budget, most)
      BY <3>5, <3>6, <3>7 DEF TakenOf
    <3> QED BY <2>1, <3>1, <3>8
  <2>9. CASE ~(Cardinality(s) < most /\ Used(sizes, s) + sizes[n] <= budget)
    <3>1. t[n] = s
      BY <2>4, <2>9
    <3>2. Cardinality(s) <= most /\ Used(sizes, s) <= budget
      BY <2>3 DEF TakenOf
    <3>3. Cardinality(s) = most \/ Used(sizes, s) + sizes[n] > budget
      BY <1>1, <2>6, <2>7, <2>9, <3>2
    <3>4. { i \in s : i < n } = s
      <4>1. \A i \in 1..k : i < n
        BY <2>1
      <4> QED BY <2>5, <4>1
    <3>5. \A m \in 1..n : m = n \/ m \in 1..k
      BY <2>1
    <3>6. \A m \in 1..n : m \notin s =>
            LET before == { i \in s : i < m }
            IN Cardinality(before) = most \/ Used(sizes, before) + sizes[m] > budget
      BY <2>3, <3>3, <3>4, <3>5 DEF TakenOf
    <3>7. s \subseteq 1..n
      BY <2>1, <2>5
    <3>8. TakenOf(s, n, sizes, budget, most)
      BY <3>2, <3>6, <3>7 DEF TakenOf
    <3> QED BY <2>1, <3>1, <3>8
  <2> QED BY <2>8, <2>9
<1>5. Len(sizes) \in good
  <2> HIDE DEF good
  <2>1. Nat \subseteq good
    BY <1>3, <1>4, NatInduct
  <2> QED BY <1>1, <2>1
<1> QED BY <1>1, <1>2, <1>5

-----------------------------------------------------------------------------
(* The listing. *)

LEMMA Greatest ==
  ASSUME NEW m \in Nat, NEW S \in SUBSET (1..m), S # {}
  PROVE  \E g \in S : \A i \in S : i <= g
<1> DEFINE T == { m - i : i \in S }
<1>1. T \subseteq Nat /\ T # {}
  <2>1. \A i \in S : m - i \in Nat
    OBVIOUS
  <2> QED BY <2>1
<1>2. PICK t \in T : \A u \in T : t <= u
  <2> HIDE DEF T
  <2> QED BY <1>1, LeastNat
<1>3. PICK g \in S : t = m - g
  BY <1>2
<1>4. ASSUME NEW i \in S PROVE i <= g
  <2>1. m - i \in T /\ i \in 1..m /\ g \in 1..m
    OBVIOUS
  <2>2. m - g <= m - i
    BY <1>2, <1>3, <2>1
  <2> QED BY <2>1, <2>2
<1> QED BY <1>4

(* At most n entries have fewer than n before them. *)
LEMMA FirstFew ==
  ASSUME NEW m \in Nat, NEW V \in SUBSET (1..m), NEW n \in Nat
  PROVE  LET S == { i \in V : Cardinality({ k \in V : k < i }) < n }
         IN IsFiniteSet(S) /\ Cardinality(S) <= n
<1>1. PICK S : S = { i \in V : Cardinality({ k \in V : k < i }) < n }
  OBVIOUS
<1>2. IsFiniteSet(V) /\ IsFiniteSet(S) /\ S \in SUBSET (1..m)
  <2>1. IsFiniteSet(1..m)
    BY FS_Interval
  <2> QED BY <1>1, <2>1, FS_Subset
<1>3. CASE S = {}
  <2>1. Cardinality(S) = 0 /\ 0 <= n
    BY <1>3, FS_EmptySet
  <2> QED BY <1>1, <1>2, <2>1
<1>4. CASE S # {}
  <2>1. PICK g \in S : \A i \in S : i <= g
    BY <1>2, <1>4, Greatest
  <2>2. PICK before : before = { k \in V : k < g }
    OBVIOUS
  <2>3. IsFiniteSet(before) /\ Cardinality(before) < n /\ Cardinality(before) \in Nat
    BY <1>1, <1>2, <2>2, FS_Subset, FS_CardinalityType
  <2>4. S \ {g} \subseteq before
    <3>1. \A i \in S \ {g} : i \in V /\ i \in 1..m /\ g \in 1..m /\ i <= g /\ i # g
      BY <1>1, <2>1
    <3>2. \A i \in S \ {g} : i < g
      BY <3>1
    <3> QED BY <2>2, <3>1, <3>2
  <2>5. Cardinality(S \ {g}) <= Cardinality(before)
    BY <2>3, <2>4, FS_Subset
  <2>6. Cardinality(S \ {g}) = Cardinality(S) - 1 /\ Cardinality(S) \in Nat
    BY <1>2, FS_RemoveElement, FS_CardinalityType
  <2>7. Cardinality(S) <= n
    BY <2>3, <2>5, <2>6
  <2> QED BY <1>1, <1>2, <2>7
<1> QED BY <1>3, <1>4

-----------------------------------------------------------------------------
(* The inductive invariant: the sizes are numbers within their limits, and
   the snippets are what the loop took of a ranking of the listed files. *)

RepoInv == \E k \in Nat : repo \in [1..k -> FileTypes]

GuideInv ==
  /\ listed \subseteq DOMAIN repo /\ IsFiniteSet(listed) /\ Cardinality(listed) <= FileLimit
  /\ api \in 0..MaxApiBytes /\ usage \in 0..MaxUsageBytes /\ manifests \in Nat

Sizes(order) == [i \in DOMAIN order |-> repo[order[i]].bytes]

TakenFrom(order, taken) ==
  /\ order \in Rankings
  /\ TakenOf(taken, Cardinality(Showable), Sizes(order), SnippetBudget, MaxSnippets)
  /\ snippets = { order[i] : i \in taken }

SnippetsInv == Selected => \E order, taken : TakenFrom(order, taken)

RInv ==
  /\ pc \in {"list", "raised", "api", "usage", "manifests", "snippets", "ask", "done"}
  /\ RepoInv /\ GuideInv /\ SnippetsInv

LEMMA RepoFacts ==
  ASSUME RepoInv
  PROVE  /\ \E k \in Nat : DOMAIN repo = 1..k
         /\ \A p \in DOMAIN repo : repo[p].kind \in Kinds /\ repo[p].bytes \in Nat
<1>1. PICK k \in Nat : repo \in [1..k -> FileTypes]
  BY DEF RepoInv
<1>2. \A p \in 1..k : repo[p] \in [kind : Kinds, bytes : Nat]
  BY <1>1, RepositoryContextAssumption
<1> QED BY <1>1, <1>2

LEMMA GuideFacts ==
  ASSUME GuideInv
  PROVE  GuideBytes \in Nat /\ SnippetBudget \in Nat
<1>1. Cardinality(listed) \in Nat
  BY FS_CardinalityType DEF GuideInv
<1>2. MaxApiBytes \in Nat /\ MaxUsageBytes \in Nat /\ Reserve \in Nat /\ MaxContextBytes \in Nat
  BY RepositoryContextAssumption
<1>3. GuideBytes \in Nat
  BY <1>1, <1>2 DEF GuideInv, GuideBytes
<1> QED BY <1>2, <1>3 DEF SnippetBudget

(* A ranking lists every showable file once. *)
LEMMA RankingFacts ==
  ASSUME RepoInv, GuideInv, NEW order \in Rankings
  PROVE  LET n == Cardinality(Showable)
         IN /\ n \in Nat /\ DOMAIN order = 1..n /\ IsFiniteSet(1..n)
            /\ \A i \in 1..n : order[i] \in Showable /\ order[i] \in DOMAIN repo
            /\ \A i, k \in 1..n : order[i] = order[k] => i = k
            /\ \A p \in Showable : \E i \in 1..n : order[i] = p
            /\ Ranked(order)
            /\ Sizes(order) \in Seq(Nat) /\ Len(Sizes(order)) = n
            /\ \A i \in 1..n : Sizes(order)[i] = repo[order[i]].bytes /\ Sizes(order)[i] \in Nat
<1>1. PICK n : n = Cardinality(Showable)
  OBVIOUS
<1>2. Showable \subseteq listed
  BY DEF Showable
<1>3. n \in Nat /\ IsFiniteSet(1..n)
  <2>1. IsFiniteSet(Showable)
    BY <1>2, FS_Subset DEF GuideInv
  <2>2. n \in Nat
    BY <1>1, <2>1, FS_CardinalityType
  <2> QED BY <2>2, FS_Interval
<1>4. order \in Bijection(1..n, Showable) /\ Ranked(order)
  BY <1>1 DEF Rankings
<1>5. /\ DOMAIN order = 1..n /\ \A i \in 1..n : order[i] \in Showable
      /\ \A p \in Showable : \E i \in 1..n : order[i] = p
      /\ \A i, k \in 1..n : order[i] = order[k] => i = k
  BY <1>4 DEF Bijection, Injection, Surjection, IsInjective
<1>6. \A i \in 1..n : order[i] \in DOMAIN repo
  BY <1>2, <1>5 DEF GuideInv
<1>7. \A i \in 1..n : repo[order[i]].bytes \in Nat
  BY <1>6, RepoFacts
<1>8. Sizes(order) = [i \in 1..n |-> repo[order[i]].bytes]
  BY <1>5 DEF Sizes
<1>9. Sizes(order) \in [1..n -> Nat]
  BY <1>7, <1>8
<1>10. Sizes(order) \in Seq(Nat) /\ Len(Sizes(order)) = n
  BY <1>3, <1>9
<1> QED BY <1>1, <1>3, <1>4, <1>5, <1>6, <1>7, <1>8, <1>10

(* What a part of the selection shows, in number and in bytes. *)
LEMMA ShownPart ==
  ASSUME RepoInv, GuideInv, NEW order \in Rankings, NEW part, part \subseteq 1..Cardinality(Showable)
  PROVE  LET shown == { order[i] : i \in part }
         IN /\ IsFiniteSet(part) /\ IsFiniteSet(shown) /\ Cardinality(shown) = Cardinality(part)
            /\ Cardinality(part) \in Nat /\ Used(Sizes(order), part) \in Nat
            /\ SumFunction([p \in shown |-> repo[p].bytes]) = Used(Sizes(order), part)
<1>1. PICK n : n = Cardinality(Showable)
  OBVIOUS
<1>2. PICK shown : shown = { order[i] : i \in part }
  OBVIOUS
<1>3. PICK w : w = Sizes(order)
  OBVIOUS
<1>4. /\ n \in Nat /\ IsFiniteSet(1..n)
      /\ \A i, k \in 1..n : order[i] = order[k] => i = k
      /\ \A i \in 1..n : w[i] = repo[order[i]].bytes /\ w[i] \in Nat
  BY <1>1, <1>3, RankingFacts
<1>5. part \subseteq 1..n /\ IsFiniteSet(part) /\ Cardinality(part) \in Nat
  BY <1>1, <1>4, FS_Subset, FS_CardinalityType
<1>6. /\ \A i, k \in part : order[i] = order[k] => i = k
      /\ \A i \in part : w[i] = repo[order[i]].bytes /\ w[i] \in Nat
  BY <1>4, <1>5
<1>7. IsFiniteSet(shown) /\ Cardinality(shown) = Cardinality(part)
  <2>1. OneToOne(order, part)
    BY <1>6 DEF OneToOne
  <2>2. /\ IsFiniteSet({ order[i] : i \in part })
        /\ Cardinality({ order[i] : i \in part }) = Cardinality(part)
    BY ONLY <1>5, <2>1, ImageSize
  <2> QED BY <1>2, <2>2
<1>8. Used(w, part) \in Nat
  BY <1>5, <1>6, UsedIsNat
<1>9. PICK v : v = [p \in shown |-> repo[p].bytes]
  OBVIOUS
<1>10. SameWeights(v, order, w, part)
  BY <1>2, <1>6, <1>9 DEF SameWeights
<1>11. Used(v, shown) = Used(w, part)
  <2>1. OneToOne(order, part)
    BY <1>6 DEF OneToOne
  <2>2. shown = ImageOf(order, part)
    BY <1>2 DEF ImageOf
  <2>3. Used(v, ImageOf(order, part)) = Used(w, part)
    BY ONLY <1>5, <1>10, <2>1, UsedImage
  <2> QED BY <2>2, <2>3
<1>12. SumFunction(v) = Used(v, shown)
  <2>1. [p \in shown |-> v[p]] = v
    BY <1>9
  <2> QED BY <2>1 DEF Used
<1> QED BY <1>2, <1>3, <1>5, <1>7, <1>8, <1>9, <1>11, <1>12

-----------------------------------------------------------------------------
(* The invariant says all that the checked properties say. *)

LEMMA InvFillsCap == RInv => ContextFillsItsCap
<1> SUFFICES ASSUME RInv PROVE ContextFillsItsCap
  OBVIOUS
<1>1. api <= MaxApiBytes /\ usage <= MaxUsageBytes /\ Cardinality(listed) <= FileLimit
  <2>1. MaxApiBytes \in Nat /\ MaxUsageBytes \in Nat
    BY RepositoryContextAssumption
  <2> QED BY <2>1 DEF RInv, GuideInv
<1>2. ASSUME Selected
      PROVE  /\ \/ GuideBytes + SnippetBytes <= MaxContextBytes
                \/ GuideBytes > MaxContextBytes /\ SnippetBytes = 0
             /\ \A i \in listed \ snippets :
                  Readable(i) /\ repo[i].kind # "generated"
                    => Cardinality(snippets) = MaxSnippets \/ SnippetBytes + repo[i].bytes > SnippetBudget
  <2>1. PICK order, taken : TakenFrom(order, taken)
    BY <1>2 DEF RInv, SnippetsInv
  <2>2. PICK w : w = Sizes(order)
    OBVIOUS
  <2>3. PICK n : n = Cardinality(Showable)
    OBVIOUS
  <2>4. /\ order \in Rankings /\ snippets = { order[i] : i \in taken }
        /\ TakenOf(taken, n, w, SnippetBudget, MaxSnippets) /\ taken \subseteq 1..n
    BY <2>1, <2>2, <2>3 DEF TakenFrom, TakenOf
  <2>5. /\ IsFiniteSet(taken) /\ Cardinality(taken) \in Nat /\ Cardinality(snippets) = Cardinality(taken)
        /\ Used(w, taken) \in Nat /\ SnippetBytes = Used(w, taken)
    BY <2>2, <2>3, <2>4, ShownPart DEF RInv, SnippetBytes
  <2>6. GuideBytes \in Nat /\ SnippetBudget \in Nat /\ MaxContextBytes \in Nat /\ MaxSnippets \in Nat
    BY GuideFacts, RepositoryContextAssumption DEF RInv
  <2>7. Used(w, taken) <= SnippetBudget /\ Cardinality(taken) <= MaxSnippets
    BY <2>4 DEF TakenOf
  <2>8. \/ GuideBytes + SnippetBytes <= MaxContextBytes
        \/ GuideBytes > MaxContextBytes /\ SnippetBytes = 0
    BY <2>5, <2>6, <2>7 DEF SnippetBudget
  <2>9. ASSUME NEW p \in listed \ snippets, Readable(p), repo[p].kind # "generated"
        PROVE  Cardinality(snippets) = MaxSnippets \/ SnippetBytes + repo[p].bytes > SnippetBudget
    <3>1. p \in Showable
      BY <2>9 DEF Showable
    <3>2. /\ n \in Nat /\ \A i \in 1..n : w[i] = repo[order[i]].bytes /\ w[i] \in Nat
          /\ \E i \in 1..n : order[i] = p
      BY <2>2, <2>3, <2>4, <3>1, RankingFacts DEF RInv
    <3>3. PICK m \in 1..n : order[m] = p
      BY <3>2
    <3>4. m \notin taken /\ repo[p].bytes = w[m] /\ w[m] \in Nat
      BY <2>4, <2>9, <3>2, <3>3
    <3>5. PICK before : before = { i \in taken : i < m }
      OBVIOUS
    <3>6. Cardinality(before) = MaxSnippets \/ Used(w, before) + w[m] > SnippetBudget
      BY <2>4, <3>3, <3>4, <3>5 DEF TakenOf
    <3>7. /\ before \in SUBSET taken /\ IsFiniteSet(before)
          /\ Cardinality(before) <= Cardinality(taken) /\ Cardinality(before) \in Nat
      BY <2>5, <3>5, FS_Subset, FS_CardinalityType
    <3>8. (\A i \in taken : w[i] \in Nat) /\ (\A i \in before : w[i] \in Nat)
      BY <2>4, <3>2, <3>7
    <3>9. Used(w, before) \in Nat /\ Used(w, before) <= Used(w, taken)
      BY <2>5, <3>7, <3>8, UsedIsNat, UsedGrows
    <3> QED BY <2>5, <2>6, <2>7, <3>4, <3>6, <3>7, <3>9
  <2> QED BY <2>8, <2>9
<1> QED BY <1>1, <1>2 DEF ContextFillsItsCap

LEMMA InvContracts == RInv => ContractsComeFirst
<1> SUFFICES ASSUME RInv, Selected PROVE ContractsComeFirst
  BY DEF ContractsComeFirst
<1>1. PICK contracts : contracts = { p \in DOMAIN repo : repo[p].kind = "contract" }
  OBVIOUS
<1>2. PICK others : others = SumFunction([p \in snippets \cap contracts |-> repo[p].bytes])
  OBVIOUS
<1>3. ASSUME NEW p \in contracts \ snippets, p \in listed, ~(repo[p].bytes > MaxFileBytes)
      PROVE  others + repo[p].bytes > SnippetBudget \/ Cardinality(snippets \cap contracts) = MaxSnippets
  <2>1. PICK order, taken : TakenFrom(order, taken)
    BY DEF RInv, SnippetsInv
  <2>2. PICK w : w = Sizes(order)
    OBVIOUS
  <2>3. PICK n : n = Cardinality(Showable)
    OBVIOUS
  <2>4. /\ order \in Rankings /\ snippets = { order[i] : i \in taken }
        /\ TakenOf(taken, n, w, SnippetBudget, MaxSnippets) /\ taken \subseteq 1..n
    BY <2>1, <2>2, <2>3 DEF TakenFrom, TakenOf
  <2>5. p \in Showable
    <3>1. repo[p].bytes \in Nat /\ MaxFileBytes \in Nat /\ repo[p].kind = "contract"
      BY <1>1, RepoFacts, RepositoryContextAssumption DEF RInv
    <3> QED BY <1>3, <3>1 DEF Showable, Readable
  <2>6. /\ n \in Nat /\ DOMAIN order = 1..n /\ Ranked(order)
        /\ \A i \in 1..n : w[i] = repo[order[i]].bytes /\ w[i] \in Nat /\ order[i] \in DOMAIN repo
        /\ \E i \in 1..n : order[i] = p
    BY <2>2, <2>3, <2>4, <2>5, RankingFacts DEF RInv
  <2>7. PICK m \in 1..n : order[m] = p
    BY <2>6
  <2>8. m \notin taken /\ repo[p].bytes = w[m] /\ w[m] \in Nat
    BY <1>3, <2>4, <2>6, <2>7
  <2>9. PICK before : before = { i \in taken : i < m }
    OBVIOUS
  <2>10. PICK shown : shown = { order[i] : i \in before }
    OBVIOUS
  <2>11. Cardinality(before) = MaxSnippets \/ Used(w, before) + w[m] > SnippetBudget
    BY <2>4, <2>7, <2>8, <2>9 DEF TakenOf
  <2>12. shown \subseteq snippets \cap contracts
    <3>1. ASSUME NEW i \in before PROVE repo[order[i]].kind = "contract" /\ order[i] \in DOMAIN repo
      <4>1. i \in 1..n /\ i < m /\ ~(m <= i)
        BY <2>4, <2>7, <2>9
      <4>2. repo[order[m]].kind = "contract"
        BY <1>1, <2>7
      <4> QED BY <2>6, <4>1, <4>2 DEF Ranked
    <3> QED BY <1>1, <2>4, <2>9, <2>10, <3>1
  <2>13. /\ IsFiniteSet(before) /\ Cardinality(before) \in Nat /\ Cardinality(shown) = Cardinality(before)
         /\ Used(w, before) \in Nat /\ SumFunction([q \in shown |-> repo[q].bytes]) = Used(w, before)
    <3>1. before \subseteq 1..n
      BY <2>4, <2>9
    <3> QED BY <2>2, <2>3, <2>4, <2>10, <3>1, ShownPart DEF RInv
  <2>14. IsFiniteSet(snippets) /\ Cardinality(snippets) = Cardinality(taken) /\ Cardinality(taken) <= MaxSnippets
    BY <2>3, <2>4, ShownPart DEF RInv, TakenOf
  <2>15. PICK both : both = snippets \cap contracts
    OBVIOUS
  <2>16. /\ IsFiniteSet(both) /\ Cardinality(both) \in Nat /\ Cardinality(taken) \in Nat
         /\ Cardinality(shown) <= Cardinality(both) /\ Cardinality(both) <= Cardinality(taken)
    <3>1. both \subseteq snippets /\ shown \subseteq both
      BY <2>12, <2>15
    <3>2. IsFiniteSet(both) /\ Cardinality(both) <= Cardinality(snippets)
      BY <2>14, <3>1, FS_Subset
    <3>3. Cardinality(shown) <= Cardinality(both)
      BY <3>1, <3>2, FS_Subset
    <3> QED BY <2>14, <3>2, <3>3, FS_CardinalityType
  <2>17. Used(w, before) <= others /\ others \in Nat
    <3>1. PICK v : v = [q \in both |-> repo[q].bytes]
      OBVIOUS
    <3>2. \A q \in both : v[q] \in Nat
      <4>1. both \subseteq DOMAIN repo
        BY <1>1, <2>15
      <4> QED BY <3>1, <4>1, RepoFacts DEF RInv
    <3>3. shown \in SUBSET both
      BY <2>12, <2>15
    <3>4. Used(v, shown) <= Used(v, both) /\ Used(v, both) \in Nat
      BY <2>16, <3>2, <3>3, UsedGrows, UsedIsNat
    <3>5. [q \in both |-> v[q]] = v /\ [q \in shown |-> v[q]] = [q \in shown |-> repo[q].bytes]
      BY <3>1, <3>3
    <3>6. Used(v, both) = others
      BY <1>2, <2>15, <3>1, <3>5 DEF Used
    <3>7. Used(v, shown) = Used(w, before)
      BY <2>13, <3>5 DEF Used
    <3> QED BY <3>4, <3>6, <3>7
  <2>18. MaxSnippets \in Nat /\ SnippetBudget \in Nat
    BY GuideFacts, RepositoryContextAssumption DEF RInv
  <2>19. CASE Cardinality(before) = MaxSnippets
    BY <2>13, <2>14, <2>15, <2>16, <2>18, <2>19
  <2>20. CASE Used(w, before) + w[m] > SnippetBudget
    BY <2>8, <2>13, <2>17, <2>18, <2>20
  <2> QED BY <2>11, <2>19, <2>20
<1> QED BY <1>1, <1>2, <1>3 DEF ContractsComeFirst

-----------------------------------------------------------------------------
(* The invariant holds at the start, and every step keeps it. *)

LEMMA InvInit == Init => RInv
<1> SUFFICES ASSUME Init PROVE RInv
  OBVIOUS
<1>1. RepoInv
  <2>1. 0..MaxFiles \subseteq Nat
    BY RepositoryContextAssumption
  <2> QED BY <2>1 DEF Init, SeqsUpTo, RepoInv
<1>2. GuideInv
  <2>1. IsFiniteSet({}) /\ Cardinality({}) = 0
    BY FS_EmptySet
  <2>2. 0 <= FileLimit /\ 0 \in 0..MaxApiBytes /\ 0 \in 0..MaxUsageBytes /\ 0 \in Nat
    BY RepositoryContextAssumption
  <2> QED BY <2>1, <2>2 DEF Init, GuideInv
<1>3. ~Selected /\ pc = "list"
  BY DEF Init, Selected
<1> QED BY <1>1, <1>2, <1>3 DEF RInv, SnippetsInv

(* A step before the snippets are selected. *)
LEMMA Prepares ==
  ASSUME RInv, UNCHANGED repo, GuideInv', pc' \in {"raised", "api", "usage", "manifests", "snippets"}
  PROVE  RInv'
<1>1. RepoInv'
  BY DEF RInv, RepoInv
<1>2. ~Selected'
  BY DEF Selected
<1> QED BY <1>1, <1>2 DEF RInv, SnippetsInv

LEMMA ListFilesKeeps == RInv /\ ListFiles => RInv'
<1> SUFFICES ASSUME RInv, ListFiles PROVE RInv'
  OBVIOUS
<1>1. listed' = UpTo(FileLimit) /\ pc' = "api" /\ UNCHANGED <<repo, api, usage, manifests>>
  BY DEF ListFiles
<1>2. PICK k \in Nat : DOMAIN repo = 1..k
  BY RepoFacts DEF RInv
<1>3. PICK V : V = Visible
  OBVIOUS
<1>4. V \in SUBSET (1..k) /\ FileLimit \in Nat
  BY <1>2, <1>3, RepositoryContextAssumption DEF Visible
<1>5. PICK S : S = { i \in V : Cardinality({ j \in V : j < i }) < FileLimit }
  OBVIOUS
<1>6. IsFiniteSet(S) /\ Cardinality(S) <= FileLimit
  BY <1>4, <1>5, FirstFew
<1>7. listed' = S /\ S \subseteq DOMAIN repo
  BY <1>1, <1>2, <1>3, <1>4, <1>5 DEF UpTo
<1>8. GuideInv'
  BY <1>1, <1>6, <1>7 DEF RInv, GuideInv
<1> QED BY <1>1, <1>8, Prepares

(* A part of the guide is what the loop takes of some items. *)
LEMMA PartOfGuide ==
  ASSUME NEW items \in Seq(Nat), NEW budget \in Nat, NEW most \in Nat
  PROVE  Used(items, Take(items, budget, most)) \in 0..budget
<1>1. PICK taken : taken = Take(items, budget, most)
  OBVIOUS
<1>2. TakenOf(taken, Len(items), items, budget, most)
  BY <1>1, TakeKeepsTheBudget
<1>3. taken \subseteq 1..Len(items) /\ Used(items, taken) <= budget
  BY <1>2 DEF TakenOf
<1>4. Len(items) \in Nat /\ \A i \in 1..Len(items) : items[i] \in Nat
  OBVIOUS
<1>5. IsFiniteSet(taken)
  <2>1. IsFiniteSet(1..Len(items))
    BY <1>4, FS_Interval
  <2> QED BY <1>3, <2>1, FS_Subset
<1>6. \A i \in taken : items[i] \in Nat
  BY <1>3, <1>4
<1>7. Used(items, taken) \in Nat
  BY <1>5, <1>6, UsedIsNat
<1> QED BY <1>1, <1>3, <1>7

LEMMA ItemsAreSizes ==
  ASSUME NEW kinds, NEW items \in Items(kinds)
  PROVE  items \in Seq(Nat) /\ Len(items) \in Nat
<1>1. CASE items \in {<<>>}
  BY <1>1
<1>2. CASE items \in SeqsUpTo(ItemSizes, MaxItems)
  <2>1. PICK k \in 0..MaxItems : items \in [1..k -> ItemSizes]
    BY <1>2 DEF SeqsUpTo
  <2>2. k \in Nat /\ ItemSizes \subseteq Nat
    BY RepositoryContextAssumption
  <2>3. items \in [1..k -> Nat]
    BY <2>1, <2>2
  <2> QED BY <2>2, <2>3
<1> QED BY <1>1, <1>2 DEF Items

LEMMA BuildApiSurfaceKeeps == RInv /\ BuildApiSurface => RInv'
<1> SUFFICES ASSUME RInv, BuildApiSurface PROVE RInv'
  OBVIOUS
<1>1. pc' = "usage" /\ UNCHANGED <<repo, listed, usage, manifests>>
  BY DEF BuildApiSurface
<1>2. PICK items \in Items({"contract", "source"}) : api' = Used(items, Take(items, MaxApiBytes, Len(items)))
  BY DEF BuildApiSurface
<1>3. api' \in 0..MaxApiBytes
  BY <1>2, ItemsAreSizes, PartOfGuide, RepositoryContextAssumption
<1>4. GuideInv'
  BY <1>1, <1>3 DEF RInv, GuideInv
<1> QED BY <1>1, <1>4, Prepares

LEMMA BuildUsageExamplesKeeps == RInv /\ BuildUsageExamples => RInv'
<1> SUFFICES ASSUME RInv, BuildUsageExamples PROVE RInv'
  OBVIOUS
<1>1. pc' = "manifests" /\ UNCHANGED <<repo, listed, api, manifests>>
  BY DEF BuildUsageExamples
<1>2. PICK items \in Items({"test"}) : usage' = Used(items, Take(items, MaxUsageBytes, MaxExamples))
  BY DEF BuildUsageExamples
<1>3. usage' \in 0..MaxUsageBytes
  BY <1>2, ItemsAreSizes, PartOfGuide, RepositoryContextAssumption
<1>4. GuideInv'
  BY <1>1, <1>3 DEF RInv, GuideInv
<1> QED BY <1>1, <1>4, Prepares

LEMMA ReadManifestsKeeps == RInv /\ ReadManifests => RInv'
<1> SUFFICES ASSUME RInv, ReadManifests PROVE RInv'
  OBVIOUS
<1>1. pc' = "snippets" /\ UNCHANGED <<repo, listed, api, usage>>
  BY DEF ReadManifests
<1>2. PICK found \in SUBSET Manifests : \E size \in [found -> ManifestSizes] :
        manifests' = SumFunction([m \in { f \in found : size[f] <= MaxFileBytes } |-> size[m]])
  BY DEF ReadManifests
<1>3. PICK size \in [found -> ManifestSizes] :
        manifests' = SumFunction([m \in { f \in found : size[f] <= MaxFileBytes } |-> size[m]])
  BY <1>2
<1>4. PICK read : read = { f \in found : size[f] <= MaxFileBytes }
  OBVIOUS
<1>5. manifests' = Used(size, read)
  BY <1>3, <1>4 DEF Used
<1>6. IsFiniteSet(read)
  <2>1. IsFiniteSet({"pyproject.toml"} \cup {"pytest.ini"} \cup {"requirements.txt"})
    BY FS_Singleton, FS_Union
  <2>2. Manifests = {"pyproject.toml"} \cup {"pytest.ini"} \cup {"requirements.txt"}
    BY DEF Manifests
  <2>3. read \subseteq Manifests
    BY <1>4
  <2> QED BY <2>1, <2>2, <2>3, FS_Subset
<1>7. \A f \in read : size[f] \in Nat
  BY <1>3, <1>4, RepositoryContextAssumption
<1>8. manifests' \in Nat
  BY <1>5, <1>6, <1>7, UsedIsNat
<1>9. GuideInv'
  BY <1>1, <1>8 DEF RInv, GuideInv
<1> QED BY <1>1, <1>9, Prepares

LEMMA SelectSnippetsKeeps == RInv /\ SelectSnippets => RInv'
<1> SUFFICES ASSUME RInv, SelectSnippets PROVE RInv'
  OBVIOUS
<1>1. pc' = "ask" /\ UNCHANGED <<repo, listed, api, usage, manifests>>
  BY DEF SelectSnippets
<1>2. PICK order \in Rankings :
        snippets' = { order[i] : i \in Take(Sizes(order), SnippetBudget, MaxSnippets) }
  BY DEF SelectSnippets, Sizes
<1>3. PICK taken : taken = Take(Sizes(order), SnippetBudget, MaxSnippets)
  OBVIOUS
<1>4. Sizes(order) \in Seq(Nat) /\ Len(Sizes(order)) = Cardinality(Showable)
  BY <1>2, RankingFacts DEF RInv
<1>5. SnippetBudget \in Nat /\ MaxSnippets \in Nat
  BY GuideFacts, RepositoryContextAssumption DEF RInv
<1>6. TakenOf(taken, Cardinality(Showable), Sizes(order), SnippetBudget, MaxSnippets)
  BY <1>3, <1>4, <1>5, TakeKeepsTheBudget
<1>7. TakenFrom(order, taken)'
  <2>1. Rankings' = Rankings /\ Showable' = Showable
    BY <1>1 DEF Rankings, Showable, Readable, Ranked
  <2>2. SnippetBudget' = SnippetBudget
    BY <1>1 DEF SnippetBudget, GuideBytes
  <2>3. Sizes(order)' = Sizes(order)
    BY <1>1 DEF Sizes
  <2>4. snippets' = { order[i] : i \in taken }
    BY <1>2, <1>3
  <2> QED BY <1>2, <1>6, <2>1, <2>2, <2>3, <2>4 DEF TakenFrom
<1>8. RepoInv' /\ GuideInv'
  BY <1>1 DEF RInv, RepoInv, GuideInv
<1>9. SnippetsInv'
  BY <1>7 DEF SnippetsInv
<1> QED BY <1>1, <1>8, <1>9 DEF RInv

LEMMA NothingSelected ==
  ASSUME RInv, UNCHANGED <<repo, listed, api, usage, manifests, snippets>>,
         pc' \in {"list", "raised", "api", "usage", "manifests", "snippets", "ask", "done"}, Selected' => Selected
  PROVE  RInv'
<1>1. RepoInv' /\ GuideInv'
  BY DEF RInv, RepoInv, GuideInv
<1>2. ASSUME Selected' PROVE (\E order, taken : TakenFrom(order, taken))'
  <2>1. PICK order, taken : TakenFrom(order, taken)
    BY <1>2 DEF RInv, SnippetsInv
  <2>2. Rankings' = Rankings /\ Showable' = Showable
    BY DEF Rankings, Showable, Readable, Ranked
  <2>3. SnippetBudget' = SnippetBudget
    BY DEF SnippetBudget, GuideBytes
  <2>4. Sizes(order)' = Sizes(order)
    BY DEF Sizes
  <2>5. TakenFrom(order, taken)'
    BY <2>1, <2>2, <2>3, <2>4 DEF TakenFrom
  <2> QED BY <2>5
<1> QED BY <1>1, <1>2 DEF RInv, SnippetsInv

LEMMA InvNext == RInv /\ [Next]_vars => RInv'
<1> SUFFICES ASSUME RInv, [Next]_vars PROVE RInv'
  OBVIOUS
<1>1. CASE RaiseOutside
  BY <1>1, NothingSelected DEF RaiseOutside, Selected
<1>2. CASE ValidateCandidate
  BY <1>2, NothingSelected DEF ValidateCandidate, Selected
<1>3. CASE UNCHANGED vars
  BY <1>3, NothingSelected DEF vars, Selected, RInv
<1> QED BY <1>1, <1>2, <1>3, ListFilesKeeps, BuildApiSurfaceKeeps, BuildUsageExamplesKeeps, ReadManifestsKeeps,
           SelectSnippetsKeeps DEF Next

-----------------------------------------------------------------------------
(* The theorems. *)

(* What build_context (agent/repository.py) has selected at any moment is
   what its loop takes of a ranking of the listed files. *)
THEOREM Invariance == Spec => []RInv
<1> QED BY InvInit, InvNext, PTL DEF Spec

(* Guide and snippets keep to the context's cap together, and no file that
   could be shown is left out while there is room for it, for every
   repository and every limit (build_context). *)
THEOREM CapKeptAndFilled == Spec => []ContextFillsItsCap
<1> QED BY Invariance, InvFillsCap, PTL

(* A contract source is left out only when it is not listed or oversized, or
   when the guide and the other contracts have used up the budget or the
   number of snippets; no other source takes its place (build_context). *)
THEOREM ContractsBeforeOthers == Spec => []ContractsComeFirst
<1> QED BY Invariance, InvContracts, PTL
=============================================================================
