---------------------------- MODULE ScopesProofs ----------------------------
(***************************************************************************)
(* The scope stack implements the environment, for every set of names and  *)
(* every program: resolution by search in a stack of symbol lists gives    *)
(* each name the meaning that block structure gives it.                    *)
(*                                                                         *)
(* The argument.  A step changes the stack at its top only: it pushes an   *)
(* empty scope, pops one, or appends one new symbol to the innermost one.  *)
(* Resolution from the first d scopes reads only those scopes and the      *)
(* names of their symbols, and symbols are never removed or renamed, so    *)
(* what resolves from the scopes below the top does not change (Frozen).   *)
(* A top scope without the name hides nothing (NotInTop), and a new symbol *)
(* at the end of the top scope is what its name resolves to and changes no *)
(* other name (FindAppended, TopHit).  All that this needs of a state is   *)
(* that the ids in scopes are ids of symbols (IdsOK).                      *)
(*                                                                         *)
(* The slots of a function are the entries of its frame, in order: scopes  *)
(* are opened and closed with the constructs around them (Stacked), slot   *)
(* numbers are the places of the entries (Numbered), and every symbol in a *)
(* scope of the function has an entry (Placed).                            *)
(***************************************************************************)
EXTENDS Scopes, SequenceTheorems, FiniteSetTheorems, WellFoundedInduction, TLAPS

(* A prefix of a sequence. *)
LEMMA PrefixOfSeq ==
  ASSUME NEW S, NEW s \in Seq(S), NEW n \in 0 .. Len(s)
  PROVE  /\ SubSeq(s, 1, n) \in Seq(S)
         /\ Len(SubSeq(s, 1, n)) = n
         /\ \A i \in 1 .. n : SubSeq(s, 1, n)[i] = s[i]
  OBVIOUS

(* A function on the first numbers is a sequence. *)
LEMMA FunctionIsSeq ==
  ASSUME NEW n \in Nat, NEW S, NEW f \in [1 .. n -> S]
  PROVE  f \in Seq(S) /\ Len(f) = n
<1>1. f \in Seq(S)
  BY SeqDef
<1>2. DOMAIN f = 1 .. n
  OBVIOUS
<1>3. Len(f) \in Nat /\ DOMAIN f = 1 .. Len(f)
  BY <1>1, LenProperties
<1> QED
  BY <1>1, <1>2, <1>3

(* Sequences of the same elements are the same, whatever they are of. *)
LEMMA SameSequence ==
  ASSUME NEW S, NEW T, NEW s \in Seq(S), NEW t \in Seq(T),
         Len(s) = Len(t), \A i \in 1 .. Len(s) : s[i] = t[i]
  PROVE  s = t
<1>1. s \in Seq(S \cup T) /\ t \in Seq(S \cup T)
  BY SeqMonotonic
<1> QED
  BY <1>1, SeqEqual

(* A nonempty set of numbers has a least member. *)
LEMMA HasLeast ==
  ASSUME NEW S, S \subseteq Nat, S # {}
  PROVE  \E i \in S : \A j \in S : i <= j
<1>1. PICK i \in S : \A j \in S : <<j, i>> \notin OpToRel(<, Nat)
  BY WFMin, NatLessThanWellFounded
<1>2. \A j \in S : ~(j < i)
  BY <1>1 DEF OpToRel
<1>3. \A j \in S : i <= j
  BY <1>2
<1> QED
  BY <1>3

(* A nonempty set of positions has a greatest member. *)
LEMMA HasGreatest ==
  ASSUME NEW n \in Nat, NEW S, S \subseteq 1 .. n, S # {}
  PROVE  \E i \in S : \A j \in S : j <= i
<1> DEFINE T == {n - j : j \in S}
<1>1. T \subseteq Nat /\ T # {}
  <2>1. \A j \in S : j \in 1 .. n /\ n - j \in Nat
    OBVIOUS
  <2> QED
    BY <2>1
<1>2. \E x \in T : \A y \in T : x <= y
  <2> HIDE DEF T
  <2> QED
    BY <1>1, HasLeast
<1>3. PICK i \in S : \A y \in T : n - i <= y
  BY <1>2
<1>4. \A j \in S : n - i <= n - j
  BY <1>3
<1>5. \A j \in S : j <= i
  BY <1>4
<1> QED
  BY <1>5

LEMMA GreatestIsGreatest ==
  ASSUME NEW n \in Nat, NEW S, S \subseteq 1 .. n, S # {}
  PROVE  Greatest(S) \in S /\ \A j \in S : j <= Greatest(S)
BY HasGreatest DEF Greatest

LEMMA LastIsGreatest ==
  ASSUME NEW n \in Nat, NEW S, S \subseteq 1 .. n, n \in S
  PROVE  Greatest(S) = n
<1>1. PICK g \in S : g = Greatest(S) /\ \A j \in S : j <= g
  BY GreatestIsGreatest
<1>2. g \in 1 .. n /\ n <= g
  BY <1>1
<1>3. g = n
  BY <1>2
<1> QED
  BY <1>1, <1>3

(* Search and resolution as functions of the tables they read. *)
FindIn(sym, scope, name) ==
  LET named == {i \in DOMAIN scope : sym[scope[i]].name = name}
  IN  IF named = {} THEN 0 ELSE scope[Greatest(named)]

ResolvedIn(sym, sc, d, name) ==
  LET found == {k \in 1 .. d : FindIn(sym, sc[k], name) # 0}
  IN  IF found = {} THEN 0 ELSE FindIn(sym, sc[Greatest(found)], name)

LEMMA ResolutionReads ==
  ASSUME NEW d, NEW name
  PROVE  /\ Resolved(d, name) = ResolvedIn(symbols, scopes, d, name)
         /\ find_in(scopes[d], name) = FindIn(symbols, scopes[d], name)
  BY DEF Resolved, find_in, ResolvedIn, FindIn

(* A search sees the names of the symbols of the scope and nothing else. *)
LEMMA SearchReads ==
  ASSUME NEW sym1, NEW sym2, NEW scope, NEW name,
         \A i \in DOMAIN scope : sym2[scope[i]].name = sym1[scope[i]].name
  PROVE  FindIn(sym2, scope, name) = FindIn(sym1, scope, name)
<1> DEFINE named(sym) == {i \in DOMAIN scope : sym[scope[i]].name = name}
<1>1. named(sym2) = named(sym1)
  OBVIOUS
<1>2. /\ FindIn(sym2, scope, name) = IF named(sym2) = {} THEN 0 ELSE scope[Greatest(named(sym2))]
      /\ FindIn(sym1, scope, name) = IF named(sym1) = {} THEN 0 ELSE scope[Greatest(named(sym1))]
  BY DEF FindIn
<1> HIDE DEF named
<1> QED
  BY <1>1, <1>2

(* The scopes, of the first d, that bear the name. *)
Found(sym, sc, d, name) == {k \in 1 .. d : FindIn(sym, sc[k], name) # 0}

LEMMA ResolvedFrom ==
  ASSUME NEW sym, NEW sc, NEW d \in Nat, NEW name
  PROVE  /\ Found(sym, sc, d, name) = {} => ResolvedIn(sym, sc, d, name) = 0
         /\ Found(sym, sc, d, name) # {} =>
              \E k \in Found(sym, sc, d, name) :
                /\ \A j \in Found(sym, sc, d, name) : j <= k
                /\ k = Greatest(Found(sym, sc, d, name))
                /\ ResolvedIn(sym, sc, d, name) = FindIn(sym, sc[k], name)
<1>1. Found(sym, sc, d, name) \subseteq 1 .. d
  BY DEF Found
<1>2. ResolvedIn(sym, sc, d, name)
        = IF Found(sym, sc, d, name) = {} THEN 0
          ELSE FindIn(sym, sc[Greatest(Found(sym, sc, d, name))], name)
  BY DEF ResolvedIn, Found
<1> QED
  BY <1>1, <1>2, GreatestIsGreatest

(* Resolution depends on what the search of each scope finds. *)
LEMMA SameSearches ==
  ASSUME NEW sym1, NEW sym2, NEW sc1, NEW sc2, NEW d \in Nat, NEW name,
         \A k \in 1 .. d : FindIn(sym2, sc2[k], name) = FindIn(sym1, sc1[k], name)
  PROVE  ResolvedIn(sym2, sc2, d, name) = ResolvedIn(sym1, sc1, d, name)
<1>1. Found(sym2, sc2, d, name) = Found(sym1, sc1, d, name)
  BY DEF Found
<1>2. \A k \in Found(sym1, sc1, d, name) : k \in 1 .. d
  BY DEF Found
<1> QED
  BY <1>1, <1>2, ResolvedFrom

(* Resolution from d scopes sees those scopes and nothing else. *)
LEMMA Frozen ==
  ASSUME NEW sym1, NEW sym2, NEW sc1, NEW sc2, NEW d \in Nat, NEW name,
         \A k \in 1 .. d : /\ sc2[k] = sc1[k]
                           /\ \A i \in DOMAIN sc1[k] :
                                sym2[sc1[k][i]].name = sym1[sc1[k][i]].name
  PROVE  ResolvedIn(sym2, sc2, d, name) = ResolvedIn(sym1, sc1, d, name)
<1>1. \A k \in 1 .. d : FindIn(sym2, sc2[k], name) = FindIn(sym1, sc1[k], name)
  BY SearchReads
<1> QED
  BY <1>1, SameSearches

(* A top scope without the name hides nothing. *)
LEMMA NotInTop ==
  ASSUME NEW sym, NEW sc, NEW d \in Nat, NEW name, FindIn(sym, sc[d + 1], name) = 0
  PROVE  ResolvedIn(sym, sc, d + 1, name) = ResolvedIn(sym, sc, d, name)
<1>1. Found(sym, sc, d + 1, name) = Found(sym, sc, d, name)
  <2>1. 1 .. d + 1 = (1 .. d) \cup {d + 1}
    OBVIOUS
  <2> QED
    BY <2>1 DEF Found
<1> QED
  BY <1>1, ResolvedFrom

(* What the top scope bears is what resolves. *)
LEMMA TopHit ==
  ASSUME NEW sym, NEW sc, NEW d \in Nat, d # 0, NEW name, FindIn(sym, sc[d], name) # 0
  PROVE  ResolvedIn(sym, sc, d, name) = FindIn(sym, sc[d], name)
<1>1. d \in Found(sym, sc, d, name) /\ Found(sym, sc, d, name) \subseteq 1 .. d
  BY DEF Found
<1>2. PICK k \in Found(sym, sc, d, name) :
        /\ \A j \in Found(sym, sc, d, name) : j <= k
        /\ ResolvedIn(sym, sc, d, name) = FindIn(sym, sc[k], name)
  BY <1>1, ResolvedFrom
<1>3. k = d
  BY <1>1, <1>2
<1> QED
  BY <1>2, <1>3

(* Of no scopes, and from an empty scope, nothing. *)
LEMMA NothingInNothing ==
  ASSUME NEW sym, NEW sc, NEW name
  PROVE  FindIn(sym, <<>>, name) = 0 /\ ResolvedIn(sym, sc, 0, name) = 0
<1>1. FindIn(sym, <<>>, name) = 0
  BY DEF FindIn
<1>2. Found(sym, sc, 0, name) = {}
  BY DEF Found
<1> QED
  BY <1>1, <1>2, ResolvedFrom

(* A search of a scope that gained a symbol finds it, or what it found. *)
Gains(sym, scope, sym2, scope2, id) ==
  \E n \in Nat :
    /\ DOMAIN scope = 1 .. n /\ DOMAIN scope2 = 1 .. n + 1 /\ scope2[n + 1] = id
    /\ \A i \in 1 .. n : scope2[i] = scope[i] /\ sym2[scope[i]].name = sym[scope[i]].name

LEMMA FindAppended ==
  ASSUME NEW sym, NEW scope, NEW sym2, NEW scope2, NEW id, NEW name,
         Gains(sym, scope, sym2, scope2, id)
  PROVE  FindIn(sym2, scope2, name)
           = IF sym2[id].name = name THEN id ELSE FindIn(sym, scope, name)
<1> DEFINE named == {i \in DOMAIN scope : sym[scope[i]].name = name}
           named2 == {i \in DOMAIN scope2 : sym2[scope2[i]].name = name}
<1>1. PICK n \in Nat :
        /\ DOMAIN scope = 1 .. n /\ DOMAIN scope2 = 1 .. n + 1 /\ scope2[n + 1] = id
        /\ \A i \in 1 .. n : scope2[i] = scope[i] /\ sym2[scope[i]].name = sym[scope[i]].name
  BY DEF Gains
<1>2. /\ FindIn(sym2, scope2, name) = IF named2 = {} THEN 0 ELSE scope2[Greatest(named2)]
      /\ FindIn(sym, scope, name) = IF named = {} THEN 0 ELSE scope[Greatest(named)]
  BY DEF FindIn
<1>3. named \subseteq 1 .. n /\ named2 \subseteq 1 .. n + 1
  BY <1>1
<1>4. CASE sym2[id].name = name
  <2>1. n + 1 \in named2
    BY <1>1, <1>4
  <2> HIDE DEF named2, named
  <2>2. Greatest(named2) = n + 1
    <3>1. PICK last \in Nat : last = n + 1
      OBVIOUS
    <3>2. named2 \subseteq 1 .. last /\ last \in named2
      BY <1>3, <2>1, <3>1
    <3> QED
      BY <3>1, <3>2, LastIsGreatest
  <2> QED
    BY <1>1, <1>2, <1>4, <2>1, <2>2
<1>5. CASE sym2[id].name # name
  <2>1. named2 = named
    <3>1. \A i \in 1 .. n + 1 : i \in 1 .. n \/ i = n + 1
      OBVIOUS
    <3>2. n + 1 \notin named2 /\ \A i \in 1 .. n : i \in named2 <=> i \in named
      BY <1>1, <1>5
    <3>3. \A i \in named2 : i \in 1 .. n + 1
      BY <1>3
    <3> HIDE DEF named2, named
    <3> QED
      BY <1>3, <3>1, <3>2, <3>3
  <2> HIDE DEF named2, named
  <2>2. named # {} => Greatest(named) \in 1 .. n
    BY <1>3, GreatestIsGreatest
  <2> QED
    BY <1>1, <1>2, <1>5, <2>1, <2>2
<1> QED
  BY <1>4, <1>5
-----------------------------------------------------------------------------
(* The environment of a stack: what each name means from its first d       *)
(* scopes, what it means now, and what it meant when each scope above file *)
(* scope was entered.                                                      *)
MeaningFrom(sym, sc, d) == [n \in Names |-> ResolvedIn(sym, sc, d, n)]
Meaning(sym, sc) == MeaningFrom(sym, sc, Len(sc))
Outer(sym, sc) == [d \in 1 .. Len(sc) - 1 |-> MeaningFrom(sym, sc, d)]

LEMMA SameScopesSameMeaning ==
  ASSUME NEW sym, NEW sc1, NEW sc2, NEW d \in Nat, \A k \in 1 .. d : sc2[k] = sc1[k]
  PROVE  MeaningFrom(sym, sc2, d) = MeaningFrom(sym, sc1, d)
<1>1. \A k \in 1 .. d, n \in Names : FindIn(sym, sc2[k], n) = FindIn(sym, sc1[k], n)
  OBVIOUS
<1>2. \A n \in Names : ResolvedIn(sym, sc2, d, n) = ResolvedIn(sym, sc1, d, n)
  BY <1>1, SameSearches
<1> QED
  BY <1>2 DEF MeaningFrom

LEMMA OuterIsSeq ==
  ASSUME NEW sym, NEW sc \in Seq(Seq(Nat)), NEW L \in Nat, L = Len(sc), L >= 1
  PROVE  /\ \E T : Outer(sym, sc) \in Seq(T)
         /\ Len(Outer(sym, sc)) = L - 1
         /\ \A d \in 1 .. L - 1 : Outer(sym, sc)[d] = MeaningFrom(sym, sc, d)
<1> DEFINE T == {MeaningFrom(sym, sc, d) : d \in 1 .. L - 1}
<1>1. L - 1 \in Nat
  OBVIOUS
<1>2. Outer(sym, sc) \in [1 .. L - 1 -> T]
  BY DEF Outer
<1>3. \A d \in 1 .. L - 1 : Outer(sym, sc)[d] = MeaningFrom(sym, sc, d)
  BY DEF Outer
<1> HIDE DEF T
<1>4. Outer(sym, sc) \in Seq(T) /\ Len(Outer(sym, sc)) = L - 1
  BY <1>1, <1>2, FunctionIsSeq
<1> QED
  BY <1>3, <1>4

(* Entering a scope keeps every meaning and remembers them all. *)
LEMMA EnvironmentOpens ==
  ASSUME NEW sym, NEW sc \in Seq(Seq(Nat)), Len(sc) >= 1
  PROVE  /\ Meaning(sym, Append(sc, <<>>)) = Meaning(sym, sc)
         /\ Outer(sym, Append(sc, <<>>)) = Append(Outer(sym, sc), Meaning(sym, sc))
<1> DEFINE L == Len(sc)
           sc2 == Append(sc, <<>>)
<1>1. /\ L \in Nat \ {0} /\ Len(sc2) = L + 1 /\ sc2[L + 1] = <<>>
      /\ sc2 \in Seq(Seq(Nat)) /\ Len(sc2) >= 1
      /\ \A k \in 1 .. L : sc2[k] = sc[k]
  OBVIOUS
<1> HIDE DEF L, sc2
<1>2. \A d \in 1 .. L : MeaningFrom(sym, sc2, d) = MeaningFrom(sym, sc, d)
  <2> TAKE d \in 1 .. L
  <2>1. d \in Nat /\ \A k \in 1 .. d : sc2[k] = sc[k]
    BY <1>1
  <2> QED
    BY <2>1, SameScopesSameMeaning
<1>3. MeaningFrom(sym, sc2, L + 1) = MeaningFrom(sym, sc2, L)
  <2>1. \A n \in Names : ResolvedIn(sym, sc2, L + 1, n) = ResolvedIn(sym, sc2, L, n)
    <3> TAKE n \in Names
    <3>1. FindIn(sym, sc2[L + 1], n) = 0
      BY <1>1, NothingInNothing
    <3>2. L \in Nat
      BY <1>1
    <3> QED
      BY <3>1, <3>2, NotInTop
  <2> QED
    BY <2>1 DEF MeaningFrom
<1>4. Meaning(sym, sc2) = Meaning(sym, sc)
  <2>1. L \in 1 .. L
    BY <1>1
  <2> QED
    BY <1>1, <1>2, <1>3, <2>1 DEF Meaning, L
<1>5. Outer(sym, sc2) = Append(Outer(sym, sc), Meaning(sym, sc))
  <2> DEFINE o == Outer(sym, sc)
             o2 == Outer(sym, sc2)
             m == Meaning(sym, sc)
  <2>1. PICK T : o \in Seq(T)
    BY <1>1, OuterIsSeq DEF L
  <2>2. PICK T2 : o2 \in Seq(T2)
    BY <1>1, OuterIsSeq
  <2>3. Len(o) = L - 1 /\ \A d \in 1 .. L - 1 : o[d] = MeaningFrom(sym, sc, d)
    BY <1>1, OuterIsSeq DEF L
  <2>4. Len(o2) = L /\ \A d \in 1 .. L : o2[d] = MeaningFrom(sym, sc2, d)
    <3>1. L + 1 \in Nat /\ L + 1 >= 1 /\ (L + 1) - 1 = L
      BY <1>1
    <3>2. Len(o2) = (L + 1) - 1 /\ \A d \in 1 .. (L + 1) - 1 : o2[d] = MeaningFrom(sym, sc2, d)
      BY <1>1, <3>1, OuterIsSeq
    <3> HIDE DEF o2
    <3> QED
      BY <3>1, <3>2
  <2>5. m = MeaningFrom(sym, sc, L)
    BY DEF Meaning, L
  <2> HIDE DEF o, o2, m
  <2> DEFINE U == T \cup {m}
  <2>6. o \in Seq(U) /\ m \in U
    BY <2>1, SeqMonotonic
  <2> HIDE DEF U
  <2>7. /\ Append(o, m) \in Seq(U) /\ Len(Append(o, m)) = L
        /\ Append(o, m)[L] = m
        /\ \A d \in 1 .. L - 1 : Append(o, m)[d] = o[d]
    BY <1>1, <2>3, <2>6
  <2>8. \A d \in 1 .. L : o2[d] = Append(o, m)[d]
    <3> TAKE d \in 1 .. L
    <3>1. o2[d] = MeaningFrom(sym, sc, d)
      BY <1>2, <2>4
    <3>2. d = L \/ d \in 1 .. L - 1
      BY <1>1
    <3> QED
      BY <2>3, <2>5, <2>7, <3>1, <3>2
  <2>9. o2 = Append(o, m)
    BY <2>2, <2>4, <2>6, <2>7, <2>8, SameSequence
  <2> QED
    BY <2>9 DEF o, o2, m
<1> QED
  BY <1>4, <1>5 DEF sc2

(* Leaving a scope gives every name the meaning it had outside.            *)
LEMMA EnvironmentCloses ==
  ASSUME NEW sym, NEW sc \in Seq(Seq(Nat)), Len(sc) > 1,
         NEW sc2, sc2 = SubSeq(sc, 1, Len(sc) - 1)
  PROVE  /\ Outer(sym, sc) # <<>>
         /\ Meaning(sym, sc2) = Outer(sym, sc)[Len(Outer(sym, sc))]
         /\ Outer(sym, sc2) = SubSeq(Outer(sym, sc), 1, Len(Outer(sym, sc)) - 1)
<1> DEFINE L == Len(sc)
           o == Outer(sym, sc)
           o2 == Outer(sym, sc2)
<1>1. /\ L \in Nat /\ L > 1 /\ L - 1 \in Nat /\ sc2 \in Seq(Seq(Nat)) /\ Len(sc2) = L - 1 /\ Len(sc2) >= 1
      /\ \A k \in 1 .. L - 1 : sc2[k] = sc[k]
  <2>1. L \in Nat /\ L > 1 /\ L - 1 \in 0 .. L
    OBVIOUS
  <2> QED
    BY <2>1, PrefixOfSeq
<1>2. PICK T : o \in Seq(T)
  BY <1>1, OuterIsSeq
<1>3. PICK T2 : o2 \in Seq(T2)
  BY <1>1, OuterIsSeq
<1>4. Len(o) = L - 1 /\ \A d \in 1 .. L - 1 : o[d] = MeaningFrom(sym, sc, d)
  BY <1>1, OuterIsSeq
<1> HIDE DEF o, o2
<1>5. Len(o2) = L - 2 /\ \A d \in 1 .. L - 2 : o2[d] = MeaningFrom(sym, sc2, d)
  <2> HIDE DEF L
  <2>1. L - 1 \in Nat /\ L - 1 >= 1 /\ (L - 1) - 1 = L - 2
    BY <1>1
  <2>2. Len(o2) = (L - 1) - 1 /\ \A d \in 1 .. (L - 1) - 1 : o2[d] = MeaningFrom(sym, sc2, d)
    BY <1>1, <2>1, OuterIsSeq DEF o2
  <2> QED
    BY <2>1, <2>2
<1> HIDE DEF L
<1>6. \A d \in 1 .. L - 1 : MeaningFrom(sym, sc2, d) = MeaningFrom(sym, sc, d)
  <2> TAKE d \in 1 .. L - 1
  <2>1. d \in Nat /\ \A k \in 1 .. d : sc2[k] = sc[k]
    BY <1>1
  <2> QED
    BY <2>1, SameScopesSameMeaning
<1>7. Meaning(sym, sc2) = o[L - 1]
  <2>1. L - 1 \in 1 .. L - 1
    BY <1>1
  <2> QED
    BY <1>1, <1>4, <1>6, <2>1 DEF Meaning
<1>8. o2 = SubSeq(o, 1, L - 2)
  <2>1. L - 2 \in 0 .. Len(o) /\ 1 .. L - 2 \subseteq 1 .. L - 1
    BY <1>1, <1>4
  <2>2. /\ SubSeq(o, 1, L - 2) \in Seq(T) /\ Len(SubSeq(o, 1, L - 2)) = L - 2
        /\ \A d \in 1 .. L - 2 : SubSeq(o, 1, L - 2)[d] = o[d]
    BY <1>2, <2>1, PrefixOfSeq
  <2>3. \A d \in 1 .. L - 2 : o2[d] = SubSeq(o, 1, L - 2)[d]
    <3> TAKE d \in 1 .. L - 2
    <3> d \in 1 .. L - 1
      BY <2>1
    <3> QED
      BY <1>4, <1>5, <1>6, <2>2
  <2> QED
    BY <1>3, <1>5, <2>2, <2>3, SameSequence
<1>9. o # <<>>
  BY <1>1, <1>2, <1>4, EmptySeq
<1>10. Len(o) - 1 = L - 2
  BY <1>1, <1>4
<1> QED
  BY <1>4, <1>7, <1>8, <1>9, <1>10 DEF o, o2

(* What a new symbol changes of resolution, when all that a search finds   *)
(* anew is that symbol, for its name, in the top scope.                    *)
FindsAnew(sym, sc, sym2, sc2, L, name, id) ==
  /\ FindIn(sym, sc[L], name) = 0
  /\ \A k \in 1 .. L - 1, n \in Names : FindIn(sym2, sc2[k], n) = FindIn(sym, sc[k], n)
  /\ \A n \in Names : FindIn(sym2, sc2[L], n) = IF n = name THEN id
                                                ELSE FindIn(sym, sc[L], n)

MeansAnew(sym, sc, sym2, sc2, L, name, id) ==
  /\ \A d \in 1 .. L - 1 : MeaningFrom(sym2, sc2, d) = MeaningFrom(sym, sc, d)
  /\ MeaningFrom(sym2, sc2, L) = [MeaningFrom(sym, sc, L) EXCEPT ![name] = id]
  /\ MeaningFrom(sym, sc, L)[name] = ResolvedIn(sym, sc, L - 1, name)

LEMMA ResolutionBinds ==
  ASSUME NEW sym, NEW sc, NEW sym2, NEW sc2, NEW L \in Nat, L >= 1, NEW id, id # 0,
         NEW name \in Names,
         FindsAnew(sym, sc, sym2, sc2, L, name, id)
  PROVE  MeansAnew(sym, sc, sym2, sc2, L, name, id)
<1>1. \A d \in 1 .. L - 1 : MeaningFrom(sym2, sc2, d) = MeaningFrom(sym, sc, d)
  <2> TAKE d \in 1 .. L - 1
  <2>1. \A n \in Names : ResolvedIn(sym2, sc2, d, n) = ResolvedIn(sym, sc, d, n)
    <3> TAKE n \in Names
    <3>1. d \in Nat /\ \A k \in 1 .. d : FindIn(sym2, sc2[k], n) = FindIn(sym, sc[k], n)
      BY DEF FindsAnew
    <3> QED
      BY <3>1, SameSearches
  <2> QED
    BY <2>1 DEF MeaningFrom
<1>2. \A n \in Names : ResolvedIn(sym2, sc2, L, n)
                         = IF n = name THEN id ELSE ResolvedIn(sym, sc, L, n)
  <2> TAKE n \in Names
  <2>1. CASE n = name
    <3>1. FindIn(sym2, sc2[L], n) = id /\ L # 0
      BY <2>1 DEF FindsAnew
    <3>2. ResolvedIn(sym2, sc2, L, n) = FindIn(sym2, sc2[L], n)
      BY <3>1, TopHit
    <3> QED
      BY <2>1, <3>1, <3>2
  <2>2. CASE n # name
    <3>1. \A k \in 1 .. L : k = L \/ k \in 1 .. L - 1
      OBVIOUS
    <3>2. \A k \in 1 .. L : FindIn(sym2, sc2[k], n) = FindIn(sym, sc[k], n)
      BY <2>2, <3>1 DEF FindsAnew
    <3>3. ResolvedIn(sym2, sc2, L, n) = ResolvedIn(sym, sc, L, n)
      BY <3>2, SameSearches
    <3> QED
      BY <2>2, <3>3
  <2> QED
    BY <2>1, <2>2
<1>3. MeaningFrom(sym2, sc2, L) = [MeaningFrom(sym, sc, L) EXCEPT ![name] = id]
  BY <1>2 DEF MeaningFrom
<1>4. ResolvedIn(sym, sc, L, name) = ResolvedIn(sym, sc, L - 1, name)
  <2>1. PICK d \in Nat : L = d + 1 /\ d = L - 1
    <3>1. L - 1 \in Nat /\ L = (L - 1) + 1
      OBVIOUS
    <3> QED
      BY <3>1
  <2>2. FindIn(sym, sc[d + 1], name) = 0
    BY <2>1 DEF FindsAnew
  <2>3. ResolvedIn(sym, sc, d + 1, name) = ResolvedIn(sym, sc, d, name)
    BY <2>2, NotInTop
  <2> QED
    BY <2>1, <2>3
<1>5. MeaningFrom(sym, sc, L)[name] = ResolvedIn(sym, sc, L - 1, name)
  BY <1>4 DEF MeaningFrom
<1> QED
  BY <1>1, <1>3, <1>5 DEF MeansAnew

(* What resolution needs of the table and the stack: the ids in scopes are *)
(* ids of symbols.                                                         *)
SymbolRecord == [name : Names, kind : Kinds, slot : Int]

TablesOK(sym, sc) ==
  /\ sym \in Seq(SymbolRecord)
  /\ sc \in Seq(Seq(Nat))
  /\ Len(sc) >= 1
  /\ \A d \in 1 .. Len(sc) : \A k \in 1 .. Len(sc[d]) : sc[d][k] \in 1 .. Len(sym)

LEMMA TablesAre ==
  ASSUME NEW sym, NEW sc, TablesOK(sym, sc)
  PROVE  /\ sym \in Seq(SymbolRecord) /\ sc \in Seq(Seq(Nat)) /\ Len(sc) >= 1
         /\ Len(sym) \in Nat /\ Len(sc) \in Nat /\ DOMAIN sym = 1 .. Len(sym)
         /\ \A d \in 1 .. Len(sc) : sc[d] \in Seq(Nat)
         /\ \A d \in 1 .. Len(sc) : \A k \in 1 .. Len(sc[d]) : sc[d][k] \in 1 .. Len(sym)
<1>1. sym \in Seq(SymbolRecord)
  BY DEF TablesOK
<1>2. sc \in Seq(Seq(Nat))
  BY DEF TablesOK
<1>3. Len(sc) >= 1 /\ \A d \in 1 .. Len(sc) : \A k \in 1 .. Len(sc[d]) : sc[d][k] \in 1 .. Len(sym)
  BY DEF TablesOK
<1>4. Len(sym) \in Nat /\ DOMAIN sym = 1 .. Len(sym)
  BY <1>1, LenProperties
<1>5. Len(sc) \in Nat /\ \A d \in 1 .. Len(sc) : sc[d] \in Seq(Nat)
  BY <1>2, LenProperties, ElementOfSeq
<1> QED
  BY <1>1, <1>2, <1>3, <1>4, <1>5

(* The declaration of a symbol whose name the top scope does not have.     *)
Declared(sym, sc, sym2, sc2, s) ==
  /\ FindIn(sym, sc[Len(sc)], s.name) = 0
  /\ sym2 = Append(sym, s)
  /\ sc2 = [sc EXCEPT ![Len(sc)] = Append(@, Len(sym) + 1)]

(* It is all that a search finds anew. *)
LEMMA DeclaredIsFound ==
  ASSUME NEW sym, NEW sc, NEW sym2, NEW sc2, NEW s \in SymbolRecord,
         TablesOK(sym, sc), Declared(sym, sc, sym2, sc2, s)
  PROVE  /\ sc2 \in Seq(Seq(Nat)) /\ Len(sc2) = Len(sc)
         /\ FindsAnew(sym, sc, sym2, sc2, Len(sc), s.name, Len(sym) + 1)
<1> DEFINE L == Len(sc)
           id   == Len(sym) + 1
           top2 == Append(sc[L], id)
<1>0. /\ sym \in Seq(SymbolRecord) /\ sc \in Seq(Seq(Nat)) /\ L \in Nat /\ L >= 1
      /\ \A d \in 1 .. L : \A k \in 1 .. Len(sc[d]) : sc[d][k] \in 1 .. Len(sym)
      /\ FindIn(sym, sc[L], s.name) = 0
      /\ sym2 = Append(sym, s) /\ sc2 = [sc EXCEPT ![L] = top2]
  BY TablesAre DEF Declared
<1>1. L \in 1 .. Len(sc) /\ Len(sym) \in Nat /\ id # 0 /\ id \in Nat
  BY <1>0
<1>2. \A k \in 1 .. L : sc[k] \in Seq(Nat)
  BY <1>0, ElementOfSeq
<1>3. sc[L] \in Seq(Nat) /\ top2 \in Seq(Nat)
  <2>1. sc[L] \in Seq(Nat)
    BY <1>1, <1>2
  <2> HIDE DEF id
  <2> QED
    BY <1>1, <2>1, AppendProperties
<1>4. /\ sc2 \in Seq(Seq(Nat)) /\ Len(sc2) = L
      /\ \A j \in 1 .. L : sc2[j] = IF j = L THEN top2 ELSE sc[j]
  <2> HIDE DEF top2
  <2> QED
    BY <1>0, <1>1, <1>3, ExceptSeq
<1>5. \A i \in 1 .. Len(sym) : sym2[i] = sym[i]
  BY <1>0, AppendProperties
<1>6. \A k \in 1 .. L - 1, name \in Names :
        FindIn(sym2, sc2[k], name) = FindIn(sym, sc[k], name)
  <2> TAKE k \in 1 .. L - 1, name \in Names
  <2>1. k \in 1 .. L /\ k # L
    BY <1>1
  <2>2. sc2[k] = sc[k] /\ DOMAIN sc[k] = 1 .. Len(sc[k])
    BY <1>2, <1>4, <2>1
  <2>3. \A i \in DOMAIN sc[k] : sym2[sc[k][i]] = sym[sc[k][i]]
    BY <1>0, <1>5, <2>1, <2>2
  <2>4. FindIn(sym2, sc[k], name) = FindIn(sym, sc[k], name)
    <3>1. PICK scope : scope = sc[k]
      OBVIOUS
    <3>2. \A i \in DOMAIN scope : sym2[scope[i]].name = sym[scope[i]].name
      BY <2>3, <3>1
    <3>3. FindIn(sym2, scope, name) = FindIn(sym, scope, name)
      BY <3>2, SearchReads
    <3> QED
      BY <3>1, <3>3
  <2> QED
    BY <2>2, <2>4
<1>7. \A name \in Names :
        FindIn(sym2, sc2[L], name) = IF name = s.name THEN id ELSE FindIn(sym, sc[L], name)
  <2> TAKE name \in Names
  <2>1. sc2[L] = top2
    BY <1>1, <1>4
  <2>2. \A i \in 1 .. Len(sc[L]) : sc[L][i] \in 1 .. Len(sym)
    BY <1>0, <1>1
  <2>3. FindIn(sym2, top2, name) = IF name = s.name THEN id ELSE FindIn(sym, sc[L], name)
    <3>1. Len(sc[L]) \in Nat /\ DOMAIN sc[L] = 1 .. Len(sc[L])
      BY <1>3
    <3>2. /\ DOMAIN top2 = 1 .. Len(sc[L]) + 1 /\ top2[Len(sc[L]) + 1] = id
          /\ \A i \in 1 .. Len(sc[L]) : top2[i] = sc[L][i]
      BY <1>3
    <3>3. \A i \in 1 .. Len(sc[L]) : sym2[sc[L][i]].name = sym[sc[L][i]].name
      BY <1>5, <2>2
    <3>4. sym2[id] = s
      BY <1>0, AppendProperties
    <3> HIDE DEF top2, id
    <3>5. Gains(sym, sc[L], sym2, top2, id)
      BY <3>1, <3>2, <3>3 DEF Gains
    <3> QED
      BY <3>4, <3>5, FindAppended
  <2> QED
    BY <2>1, <2>3
<1> HIDE DEF L, id, top2
<1>8. FindsAnew(sym, sc, sym2, sc2, L, s.name, id)
  BY <1>0, <1>6, <1>7 DEF FindsAnew
<1> QED
  BY <1>4, <1>8 DEF L, id

(* A declaration is what its name means; no other name changes its         *)
(* meaning, nor any name its meaning outside.                              *)
Binds(sym, sc, sym2, sc2, name, id) ==
  /\ Outer(sym2, sc2) = Outer(sym, sc)
  /\ Meaning(sym2, sc2) = [Meaning(sym, sc) EXCEPT ![name] = id]
  /\ Meaning(sym, sc)[name] = IF Outer(sym, sc) = <<>> THEN 0
                              ELSE Outer(sym, sc)[Len(Outer(sym, sc))][name]

LEMMA EnvironmentBinds ==
  ASSUME NEW sym, NEW sym2, NEW sc \in Seq(Seq(Nat)), NEW sc2 \in Seq(Seq(Nat)),
         NEW L \in Nat, L >= 1, L = Len(sc), L = Len(sc2), NEW id, id # 0,
         NEW name \in Names,
         FindsAnew(sym, sc, sym2, sc2, L, name, id)
  PROVE  Binds(sym, sc, sym2, sc2, name, id)
<1>1. MeansAnew(sym, sc, sym2, sc2, L, name, id)
  BY ResolutionBinds
<1>2. Outer(sym2, sc2) = Outer(sym, sc)
  BY <1>1 DEF MeansAnew, Outer
<1>3. Meaning(sym2, sc2) = [Meaning(sym, sc) EXCEPT ![name] = id]
  BY <1>1 DEF MeansAnew, Meaning
<1> DEFINE o == Outer(sym, sc)
<1>4. PICK T : o \in Seq(T)
  BY OuterIsSeq
<1>5. Len(o) = L - 1 /\ \A d \in 1 .. L - 1 : o[d] = MeaningFrom(sym, sc, d)
  BY OuterIsSeq
<1> HIDE DEF o
<1>6. Meaning(sym, sc)[name] = IF o = <<>> THEN 0 ELSE o[Len(o)][name]
  <2>1. Meaning(sym, sc)[name] = ResolvedIn(sym, sc, L - 1, name)
    BY <1>1 DEF MeansAnew, Meaning
  <2>2. CASE L = 1
    <3>1. o = <<>>
      BY <1>4, <1>5, <2>2, EmptySeq
    <3>2. ResolvedIn(sym, sc, 0, name) = 0
      BY NothingInNothing
    <3> QED
      BY <2>1, <2>2, <3>1, <3>2
  <2>3. CASE L # 1
    <3>1. L - 1 \in 1 .. L - 1 /\ L - 1 # 0
      BY <2>3
    <3>2. o # <<>>
      BY <1>4, <1>5, <3>1, EmptySeq
    <3>3. o[L - 1][name] = ResolvedIn(sym, sc, L - 1, name)
      BY <1>5, <3>1 DEF MeaningFrom
    <3> QED
      BY <1>5, <2>1, <3>2, <3>3
  <2> QED
    BY <2>2, <2>3
<1> QED
  BY <1>2, <1>3, <1>6 DEF o, Binds
-----------------------------------------------------------------------------
IdsOK == TablesOK(symbols, scopes) /\ next_slot \in Int

(* What a step does to the table and the stack. *)
Stays == symbols' = symbols /\ scopes' = scopes
Opens == symbols' = symbols /\ scopes' = Append(scopes, <<>>)
Closes == /\ symbols' = symbols
          /\ Len(scopes) > 1
          /\ scopes' = SubSeq(scopes, 1, Len(scopes) - 1)
Declares(s) == Declared(symbols, scopes, symbols', scopes', s)
TableStep == Stays \/ Opens \/ Closes \/ \E s \in SymbolRecord : Declares(s)

LEMMA DeclaringIsATableStep ==
  ASSUME next_slot \in Int, NEW name \in Names, NEW kind \in Kinds, declare_name(name, kind)
  PROVE  TableStep /\ next_slot' \in Int
<1>1. CASE lookup_in_current_scope(name) # 0
  BY <1>1 DEF declare_name, TableStep, Stays
<1>2. CASE lookup_in_current_scope(name) = 0
  <2> DEFINE s == [name |-> name, kind |-> kind,
                   slot |-> IF kind \in Slotted THEN next_slot ELSE NoSlot]
  <2>1. /\ symbols' = Append(symbols, s)
        /\ scopes' = [scopes EXCEPT ![Len(scopes)] = Append(@, Len(symbols) + 1)]
        /\ next_slot' = next_slot \/ next_slot' = next_slot + 1
    BY <1>2 DEF declare_name
  <2>2. s \in SymbolRecord /\ s.name = name
    BY DEF SymbolRecord, NoSlot
  <2> HIDE DEF s
  <2>3. Declares(s)
    BY <1>2, <2>1, <2>2, ResolutionReads DEF Declares, Declared, lookup_in_current_scope
  <2> QED
    BY <2>1, <2>2, <2>3 DEF TableStep
<1> QED
  BY <1>1, <1>2

LEMMA EveryStepIsATableStep ==
  ASSUME IdsOK, [Next]_vars
  PROVE  TableStep /\ next_slot' \in Int
<1> USE DEF IdsOK
<1>1. CASE collect_top_level
  BY <1>1, DeclaringIsATableStep DEF collect_top_level, Kinds
<1>2. CASE check_bodies
  BY <1>2 DEF check_bodies, TableStep, Stays
<1>3. CASE check_function
  BY <1>3 DEF check_function, enter_function, enter_block, TableStep, Opens
<1>4. CASE parameter
  BY <1>4, DeclaringIsATableStep DEF parameter, Kinds
<1>5. CASE declare_local
  BY <1>5, DeclaringIsATableStep DEF declare_local, Kinds
<1>6. CASE resolve
  BY <1>6 DEF resolve, TableStep, Stays
<1>7. CASE leave_function
  BY <1>7 DEF leave_function, LeaveKeepingSymbols, leave_block, TableStep, Stays, Closes
<1>8. CASE Leave
  BY <1>8 DEF Leave, LeaveKeepingSymbols, leave_block, TableStep, Stays, Closes
<1>9. ASSUME NEW construct \in {"block", "while", "for"}, Enter(construct)
      PROVE  TableStep /\ next_slot' \in Int
  BY <1>9 DEF Enter, enter_block, TableStep, Stays, Opens
<1>10. CASE UNCHANGED vars
  BY <1>10 DEF vars, TableStep, Stays
<1> QED
  BY <1>1, <1>2, <1>3, <1>4, <1>5, <1>6, <1>7, <1>8, <1>9, <1>10 DEF Next

(* The ids in scopes stay the ids of symbols. *)
LEMMA IdsStayOK ==
  ASSUME IdsOK, TableStep, next_slot' \in Int
  PROVE  IdsOK'
<1>1. /\ symbols \in Seq(SymbolRecord) /\ scopes \in Seq(Seq(Nat)) /\ Len(scopes) >= 1
      /\ Len(symbols) \in Nat /\ Len(scopes) \in Nat
      /\ \A d \in 1 .. Len(scopes) : \A k \in 1 .. Len(scopes[d]) : scopes[d][k] \in 1 .. Len(symbols)
  BY TablesAre DEF IdsOK
<1>2. CASE Stays
  BY <1>1, <1>2 DEF IdsOK, TablesOK, Stays
<1>3. CASE Opens
  <2>1. /\ scopes' \in Seq(Seq(Nat)) /\ Len(scopes') = Len(scopes) + 1
        /\ scopes'[Len(scopes) + 1] = <<>>
        /\ \A d \in 1 .. Len(scopes) : scopes'[d] = scopes[d]
    BY <1>1, <1>3 DEF Opens
  <2>2. \A d \in 1 .. Len(scopes) + 1 : d \in 1 .. Len(scopes) \/ d = Len(scopes) + 1
    BY <1>1
  <2>3. \A d \in 1 .. Len(scopes') : \A k \in 1 .. Len(scopes'[d]) :
          scopes'[d][k] \in 1 .. Len(symbols')
    BY <1>1, <1>3, <2>1, <2>2 DEF Opens
  <2> QED
    BY <1>1, <1>3, <2>1, <2>3 DEF IdsOK, TablesOK, Opens
<1>4. CASE Closes
  <2>1. Len(scopes) - 1 \in 0 .. Len(scopes) /\ Len(scopes) - 1 >= 1
    BY <1>1, <1>4 DEF Closes
  <2>2. /\ scopes' \in Seq(Seq(Nat)) /\ Len(scopes') = Len(scopes) - 1
        /\ \A d \in 1 .. Len(scopes) - 1 : scopes'[d] = scopes[d]
    BY <1>1, <1>4, <2>1, PrefixOfSeq DEF Closes
  <2>3. \A d \in 1 .. Len(scopes) - 1 : d \in 1 .. Len(scopes)
    BY <1>1
  <2>4. \A d \in 1 .. Len(scopes') : \A k \in 1 .. Len(scopes'[d]) :
          scopes'[d][k] \in 1 .. Len(symbols')
    BY <1>1, <1>4, <2>2, <2>3 DEF Closes
  <2> QED
    BY <1>1, <1>4, <2>1, <2>2, <2>4 DEF IdsOK, TablesOK, Closes
<1>5. ASSUME NEW s \in SymbolRecord, Declares(s)
      PROVE  IdsOK'
  <2> DEFINE L == Len(scopes)
             id == Len(symbols) + 1
             top2 == Append(scopes[L], id)
  <2>1. /\ symbols' \in Seq(SymbolRecord) /\ Len(symbols') = id /\ id \in Nat
        /\ \A i \in 1 .. Len(symbols) : i \in 1 .. id
    BY <1>1, <1>5, AppendProperties DEF Declares, Declared
  <2>2. scopes' \in Seq(Seq(Nat)) /\ Len(scopes') = L
    BY <1>5, DeclaredIsFound DEF IdsOK, Declares
  <2>3. L \in 1 .. L /\ scopes[L] \in Seq(Nat)
    BY <1>1, ElementOfSeq
  <2>4. \A d \in 1 .. L : scopes'[d] = IF d = L THEN top2 ELSE scopes[d]
    BY <1>1, <1>5 DEF Declares, Declared
  <2>5. \A k \in 1 .. Len(top2) : top2[k] \in 1 .. id
    <3>1. /\ Len(top2) = Len(scopes[L]) + 1 /\ top2[Len(scopes[L]) + 1] = id
          /\ \A k \in 1 .. Len(scopes[L]) : top2[k] = scopes[L][k]
      BY <2>1, <2>3, AppendProperties
    <3>2. Len(scopes[L]) \in Nat /\ id \in 1 .. id
      BY <1>1, <2>3
    <3>3. \A k \in 1 .. Len(scopes[L]) : scopes[L][k] \in 1 .. id
      BY <1>1, <2>1, <2>3
    <3> HIDE DEF top2, id
    <3> QED
      BY <3>1, <3>2, <3>3
  <2>6. \A d \in 1 .. L : \A k \in 1 .. Len(scopes[d]) : scopes[d][k] \in 1 .. id
    BY <1>1, <2>1
  <2> HIDE DEF L, id, top2
  <2>7. \A d \in 1 .. Len(scopes') : \A k \in 1 .. Len(scopes'[d]) :
          scopes'[d][k] \in 1 .. Len(symbols')
    BY <2>1, <2>2, <2>4, <2>5, <2>6
  <2> QED
    BY <1>1, <2>1, <2>2, <2>7 DEF IdsOK, TablesOK, L
<1> QED
  BY <1>2, <1>3, <1>4, <1>5 DEF TableStep
-----------------------------------------------------------------------------
(* The refinement mapping, and what it is of a state. *)
MappedMeaning == [n \in Names |-> lookup(n)]
MappedOuter == [d \in 1 .. Len(scopes) - 1 |-> [n \in Names |-> Resolved(d, n)]]

LEMMA Mapped ==
  /\ MappedMeaning = Meaning(symbols, scopes)
  /\ MappedOuter = Outer(symbols, scopes)
  BY ResolutionReads DEF MappedMeaning, MappedOuter, lookup, Meaning, Outer, MeaningFrom

LEMMA MappedNext ==
  /\ MappedMeaning' = Meaning(symbols', scopes')
  /\ MappedOuter' = Outer(symbols', scopes')
<1>1. (/\ MappedMeaning = Meaning(symbols, scopes)
       /\ MappedOuter = Outer(symbols, scopes))'
  BY Mapped, PTL
<1> QED
  BY <1>1 DEF Meaning, Outer, MeaningFrom, ResolvedIn, FindIn

LEMMA TableStepIsAnEnvironmentStep ==
  ASSUME IdsOK, TableStep
  PROVE  [Block!Next]_(Block!vars)
<1> DEFINE m == Meaning(symbols, scopes)
           o == Outer(symbols, scopes)
<1>1. scopes \in Seq(Seq(Nat)) /\ Len(scopes) >= 1 /\ Len(scopes) \in Nat /\ Len(symbols) \in Nat
  BY TablesAre DEF IdsOK
<1>2. CASE Stays
  <2>1. MappedMeaning' = MappedMeaning /\ MappedOuter' = MappedOuter
    BY <1>2, Mapped, MappedNext DEF Stays
  <2> QED
    BY <1>2, <2>1 DEF Stays, Block!vars, MappedMeaning, MappedOuter
<1>3. CASE Opens
  <2>1. MappedMeaning' = MappedMeaning /\ MappedOuter' = Append(MappedOuter, MappedMeaning)
    BY <1>1, <1>3, EnvironmentOpens, Mapped, MappedNext DEF Opens
  <2> QED
    BY <1>3, <2>1 DEF Opens, Block!Next, Block!Open, MappedMeaning, MappedOuter
<1>4. CASE Closes
  <2>1. /\ MappedOuter # <<>>
        /\ MappedMeaning' = MappedOuter[Len(MappedOuter)]
        /\ MappedOuter' = SubSeq(MappedOuter, 1, Len(MappedOuter) - 1)
    BY <1>1, <1>4, EnvironmentCloses, Mapped, MappedNext DEF Closes
  <2> QED
    BY <1>4, <2>1 DEF Closes, Block!Next, Block!Close, MappedMeaning, MappedOuter
<1>5. ASSUME NEW s \in SymbolRecord, Declares(s)
      PROVE  Block!Next
  <2>1. s.name \in Names /\ Len(symbols) + 1 # 0
    BY <1>1 DEF SymbolRecord
  <2>2. /\ scopes' \in Seq(Seq(Nat)) /\ Len(scopes') = Len(scopes)
        /\ FindsAnew(symbols, scopes, symbols', scopes', Len(scopes), s.name, Len(symbols) + 1)
    BY <1>5, DeclaredIsFound DEF IdsOK, Declares
  <2>3. Binds(symbols, scopes, symbols', scopes', s.name, Len(symbols) + 1)
    <3>1. PICK id : id = Len(symbols) + 1
      OBVIOUS
    <3>2. FindsAnew(symbols, scopes, symbols', scopes', Len(scopes), s.name, id) /\ id # 0
      BY <2>1, <2>2, <3>1
    <3>3. Binds(symbols, scopes, symbols', scopes', s.name, id)
      BY <1>1, <2>1, <2>2, <3>2, EnvironmentBinds
    <3> QED
      BY <3>1, <3>3
  <2>4. Len(symbols') = Len(symbols) + 1
    BY <1>5, TablesAre, AppendProperties DEF Declares, Declared, IdsOK
  <2>5. Block!Bind(s.name)
    BY <2>1, <2>3, <2>4, Mapped, MappedNext
       DEF Binds, Block!Bind, Block!Enclosing, Block!Nothing, MappedMeaning, MappedOuter
  <2> QED
    BY <2>1, <2>5 DEF Block!Next
<1> QED
  BY <1>2, <1>3, <1>4, <1>5 DEF TableStep

LEMMA InitiallyNothing == Init => IdsOK /\ Block!Init
<1> SUFFICES ASSUME Init PROVE IdsOK /\ Block!Init
  OBVIOUS
<1>0. /\ symbols = <<>> /\ Len(symbols) = 0 /\ next_slot = 0
      /\ Len(scopes) = 1 /\ scopes[1] = <<>> /\ scopes = << <<>> >>
  BY DEF Init
<1>1. IdsOK
  <2>1. scopes \in Seq(Seq(Nat)) /\ symbols \in Seq(SymbolRecord)
    BY <1>0
  <2>2. \A d \in 1 .. Len(scopes) : \A k \in 1 .. Len(scopes[d]) : scopes[d][k] \in 1 .. Len(symbols)
    BY <1>0
  <2> QED
    BY <1>0, <2>1, <2>2 DEF IdsOK, TablesOK
<1>2. \A n \in Names : Resolved(1, n) = 0
  <2>1. \A n \in Names : FindIn(symbols, scopes[0 + 1], n) = 0
    BY <1>0, NothingInNothing
  <2>2. \A n \in Names : ResolvedIn(symbols, scopes, 0 + 1, n) = 0
    BY <2>1, NotInTop, NothingInNothing
  <2> QED
    BY <2>2, ResolutionReads
<1>3. Len(scopes) = 1 /\ Len(symbols) = 0
  BY <1>0
<1>4. MappedMeaning = [n \in Names |-> 0]
  BY <1>2, <1>3 DEF MappedMeaning, lookup
<1>5. MappedOuter = <<>>
  <2>1. \E T : Outer(symbols, scopes) \in Seq(T) /\ Len(Outer(symbols, scopes)) = 0
    <3>1. scopes \in Seq(Seq(Nat))
      BY <1>1, TablesAre DEF IdsOK
    <3>2. PICK L \in Nat : L = Len(scopes) /\ L >= 1 /\ L - 1 = 0
      BY <1>3
    <3>3. (\E T : Outer(symbols, scopes) \in Seq(T)) /\ Len(Outer(symbols, scopes)) = L - 1
      BY <3>1, <3>2, OuterIsSeq
    <3> QED
      BY <3>2, <3>3
  <2> QED
    BY <2>1, Mapped, EmptySeq
<1> QED
  BY <1>1, <1>3, <1>4, <1>5 DEF Block!Init, Block!Nothing, MappedMeaning, MappedOuter

(* Every scope holds ids of symbols, whatever the program. *)
THEOREM ScopesHoldSymbols == Spec => []IdsOK
<1>1. Init => IdsOK
  BY InitiallyNothing
<1>2. IdsOK /\ [Next]_vars => IdsOK'
  BY EveryStepIsATableStep, IdsStayOK
<1> QED
  BY <1>1, <1>2, PTL DEF Spec

(* Resolution on the scope stack of sema/scope.rs is block structure: for  *)
(* every set of names, every nesting and every program, what a name        *)
(* resolves to is what the environment says it means.                      *)
THEOREM ScopesImplementEnvironment == Spec => ImplementsEnvironment
<1>1. Init => Block!Init
  BY InitiallyNothing
<1>2. IdsOK /\ [Next]_vars => [Block!Next]_(Block!vars)
  BY EveryStepIsATableStep, TableStepIsAnEnvironmentStep
<1> QED
  BY <1>1, <1>2, ScopesHoldSymbols, PTL DEF Spec, ImplementsEnvironment, Block!Spec
-----------------------------------------------------------------------------
(* A name resolves to a symbol that bears it. *)
LEMMA ResolvedBearsTheName ==
  ASSUME NEW sym, NEW sc, TablesOK(sym, sc), NEW d \in 0 .. Len(sc), NEW name,
         ResolvedIn(sym, sc, d, name) # 0
  PROVE  /\ ResolvedIn(sym, sc, d, name) \in 1 .. Len(sym)
         /\ sym[ResolvedIn(sym, sc, d, name)].name = name
<1>1. Len(sc) \in Nat /\ d \in Nat /\ \A k \in 1 .. Len(sc) : sc[k] \in Seq(Nat)
  BY TablesAre
<1>2. PICK k \in Found(sym, sc, d, name) : ResolvedIn(sym, sc, d, name) = FindIn(sym, sc[k], name)
  BY <1>1, ResolvedFrom
<1>3. k \in 1 .. Len(sc) /\ FindIn(sym, sc[k], name) # 0
  BY <1>1, <1>2 DEF Found
<1> DEFINE scope == sc[k]
           named == {i \in DOMAIN scope : sym[scope[i]].name = name}
<1>4. FindIn(sym, scope, name) = IF named = {} THEN 0 ELSE scope[Greatest(named)]
  BY DEF FindIn
<1>5. Len(scope) \in Nat /\ DOMAIN scope = 1 .. Len(scope) /\ named \subseteq 1 .. Len(scope)
  BY <1>1, <1>3
<1>6. \A i \in 1 .. Len(scope) : scope[i] \in 1 .. Len(sym)
  BY <1>3, TablesAre
<1>7. named # {}
  BY <1>3, <1>4
<1>8. Greatest(named) \in named
  <2> HIDE DEF named
  <2>1. PICK n \in Nat : n = Len(scope)
    BY <1>5
  <2> QED
    BY <1>5, <1>7, <2>1, GreatestIsGreatest
<1>9. PICK g \in named : g = Greatest(named)
  BY <1>8
<1>10. g \in 1 .. Len(scope) /\ sym[scope[g]].name = name
  BY <1>5
<1> QED
  BY <1>2, <1>4, <1>6, <1>7, <1>9, <1>10

(* What is bound once stays bound: the symbol of a name that resolved is   *)
(* never removed, renamed or taken over, so code generation may look it up *)
(* after the scope it came from closed.                                    *)
THEOREM BindingsAreKept == Spec => []BindingsStayTrue
<1>1. Init => BindingsStayTrue
  BY DEF Init, BindingsStayTrue
<1>2. IdsOK /\ BindingsStayTrue /\ [Next]_vars => BindingsStayTrue'
  <2> SUFFICES ASSUME IdsOK, BindingsStayTrue, [Next]_vars
               PROVE  BindingsStayTrue'
    OBVIOUS
  <2>1. symbols \in Seq(SymbolRecord) /\ Len(symbols) \in Nat /\ DOMAIN symbols = 1 .. Len(symbols)
    BY TablesAre DEF IdsOK
  <2>2. ASSUME NEW name \in Names, NEW kind \in Kinds, declare_name(name, kind)
        PROVE  BindingsStayTrue'
    <3>1. CASE lookup_in_current_scope(name) # 0
      BY <2>2, <3>1 DEF declare_name, BindingsStayTrue
    <3>2. CASE lookup_in_current_scope(name) = 0
      <4> DEFINE s == [name |-> name, kind |-> kind,
                       slot |-> IF kind \in Slotted THEN next_slot ELSE NoSlot]
                 id == Len(symbols) + 1
      <4>1. symbols' = Append(symbols, s) /\ bindings' = bindings \cup {[name |-> name, symbol |-> id]}
        BY <2>2, <3>2 DEF declare_name
      <4>2. s.name = name
        OBVIOUS
      <4> HIDE DEF s
      <4>3. /\ DOMAIN symbols' = 1 .. id /\ symbols'[id] = s /\ id \in 1 .. id
            /\ \A i \in DOMAIN symbols : i \in 1 .. id /\ symbols'[i] = symbols[i]
        BY <2>1, <4>1
      <4> HIDE DEF id
      <4> QED
        BY <4>1, <4>2, <4>3 DEF BindingsStayTrue
    <3> QED
      BY <3>1, <3>2
  <2>3. CASE resolve
    <3>1. PICK name \in Names :
            bindings' = IF lookup(name) = 0 THEN bindings
                        ELSE bindings \cup {[name |-> name, symbol |-> lookup(name)]}
      BY <2>3 DEF resolve
    <3>2. lookup(name) # 0 => lookup(name) \in 1 .. Len(symbols) /\ symbols[lookup(name)].name = name
      <4>1. TablesOK(symbols, scopes) /\ Len(scopes) \in 0 .. Len(scopes)
        BY TablesAre DEF IdsOK
      <4>2. lookup(name) = ResolvedIn(symbols, scopes, Len(scopes), name)
        BY ResolutionReads DEF lookup
      <4> QED
        BY <4>1, <4>2, ResolvedBearsTheName
    <3> QED
      BY <2>1, <2>3, <3>1, <3>2 DEF resolve, BindingsStayTrue
  <2>4. CASE UNCHANGED <<symbols, bindings>>
    BY <2>4 DEF BindingsStayTrue
  <2>5. CASE collect_top_level
    BY <2>2, <2>5 DEF collect_top_level, Kinds
  <2>6. CASE parameter
    BY <2>2, <2>6 DEF parameter, Kinds
  <2>7. CASE declare_local
    BY <2>2, <2>7 DEF declare_local, Kinds
  <2>8. CASE check_bodies \/ check_function \/ leave_function \/ Leave
    BY <2>4, <2>8 DEF check_bodies, check_function, leave_function, Leave, LeaveKeepingSymbols
  <2>9. ASSUME NEW construct \in {"block", "while", "for"}, Enter(construct)
        PROVE  BindingsStayTrue'
    BY <2>4, <2>9 DEF Enter
  <2>10. CASE UNCHANGED vars
    BY <2>4, <2>10 DEF vars
  <2> QED
    BY <2>3, <2>5, <2>6, <2>7, <2>8, <2>9, <2>10 DEF Next
<1> QED
  BY <1>1, <1>2, ScopesHoldSymbols, PTL DEF Spec
-----------------------------------------------------------------------------
(* The frame of the function being walked.  Its scopes are those above the *)
(* file scope, and there are as many of these as the function and its open *)
(* blocks and `for`s: a block that closes never takes the function's own   *)
(* scope with it, and nothing declared outside a function is ever in one   *)
(* (Stacked).                                                              *)
InFunction == phase \in {"parameters", "body"}
Opened(constructs) == {i \in 1 .. Len(constructs) : constructs[i] # "while"}

Stacked ==
  /\ nest \in Seq({"block", "while", "for"})
  /\ ~InFunction => nest = <<>>
  /\ Len(scopes) = Cardinality(Opened(nest)) + (IF InFunction THEN 2 ELSE 1)

Numbered ==
  /\ frame \in Seq([slot : Int, symbol : Nat])
  /\ InFunction =>
       /\ next_slot = Len(frame)
       /\ \A i \in 1 .. Len(frame) : /\ frame[i].symbol \in 1 .. Len(symbols)
                                     /\ frame[i].slot = i - 1
                                     /\ symbols[frame[i].symbol].slot = i - 1

Placed ==
  InFunction =>
    \A d \in 2 .. Len(scopes) : \A k \in 1 .. Len(scopes[d]) :
      \E i \in 1 .. Len(frame) : frame[i].symbol = scopes[d][k]

FrameInv == Stacked /\ Numbered /\ Placed

LEMMA OpenedIsCounted ==
  ASSUME NEW n \in Seq({"block", "while", "for"})
  PROVE  IsFiniteSet(Opened(n)) /\ Cardinality(Opened(n)) \in Nat
<1>1. Len(n) \in Nat /\ Opened(n) \subseteq 1 .. Len(n)
  BY DEF Opened
<1>2. IsFiniteSet(1 .. Len(n))
  BY <1>1, FS_Interval
<1>3. IsFiniteSet(Opened(n))
  BY <1>1, <1>2, FS_Subset
<1> QED
  BY <1>3, FS_CardinalityType

LEMMA OpeningCounts ==
  ASSUME NEW n \in Seq({"block", "while", "for"}), NEW c \in {"block", "while", "for"}
  PROVE  Cardinality(Opened(Append(n, c))) = Cardinality(Opened(n)) + (IF c = "while" THEN 0 ELSE 1)
<1>1. /\ Len(n) \in Nat /\ Len(Append(n, c)) = Len(n) + 1
      /\ Append(n, c)[Len(n) + 1] = c /\ \A i \in 1 .. Len(n) : Append(n, c)[i] = n[i]
  BY AppendProperties
<1>2. 1 .. Len(n) + 1 = (1 .. Len(n)) \cup {Len(n) + 1} /\ Len(n) + 1 \notin 1 .. Len(n)
  BY <1>1
<1>3. CASE c = "while"
  <2>1. Opened(Append(n, c)) = Opened(n)
    BY <1>1, <1>2, <1>3 DEF Opened
  <2> QED
    BY <1>3, <2>1, OpenedIsCounted
<1>4. CASE c # "while"
  <2>1. Opened(Append(n, c)) = Opened(n) \cup {Len(n) + 1} /\ Len(n) + 1 \notin Opened(n)
    BY <1>1, <1>2, <1>4 DEF Opened
  <2> QED
    BY <1>4, <2>1, OpenedIsCounted, FS_AddElement
<1> QED
  BY <1>3, <1>4

LEMMA ClosingCounts ==
  ASSUME NEW n \in Seq({"block", "while", "for"}), n # <<>>
  PROVE  /\ SubSeq(n, 1, Len(n) - 1) \in Seq({"block", "while", "for"})
         /\ n[Len(n)] \in {"block", "while", "for"}
         /\ Cardinality(Opened(n)) = Cardinality(Opened(SubSeq(n, 1, Len(n) - 1)))
                                       + (IF n[Len(n)] = "while" THEN 0 ELSE 1)
<1> DEFINE m == SubSeq(n, 1, Len(n) - 1)
           c == n[Len(n)]
<1>1. /\ Len(n) \in Nat /\ Len(n) >= 1 /\ Len(n) - 1 \in 0 .. Len(n)
      /\ c \in {"block", "while", "for"}
  BY EmptySeq, ElementOfSeq
<1>2. m \in Seq({"block", "while", "for"}) /\ Len(m) = Len(n) - 1 /\ \A i \in 1 .. Len(n) - 1 : m[i] = n[i]
  BY <1>1, PrefixOfSeq
<1>3. n = Append(m, c)
  <2>1. /\ Append(m, c) \in Seq({"block", "while", "for"}) /\ Len(Append(m, c)) = Len(n)
        /\ Append(m, c)[Len(n)] = c /\ \A i \in 1 .. Len(n) - 1 : Append(m, c)[i] = n[i]
    BY <1>1, <1>2, AppendProperties
  <2>2. \A i \in 1 .. Len(n) : i \in 1 .. Len(n) - 1 \/ i = Len(n)
    BY <1>1
  <2> QED
    BY <2>1, <2>2, SeqEqual
<1> HIDE DEF m, c
<1>4. Cardinality(Opened(Append(m, c))) = Cardinality(Opened(m)) + (IF c = "while" THEN 0 ELSE 1)
  BY <1>1, <1>2, OpeningCounts
<1> QED
  BY <1>1, <1>2, <1>3, <1>4 DEF m, c

(* A declaration takes the next slot and goes to the end of the frame, and *)
(* to the innermost scope, which is a function's when there is a slot.     *)
LEMMA DeclaringFills ==
  ASSUME IdsOK, IdsOK', FrameInv, NEW name \in Names, NEW kind \in Kinds, declare_name(name, kind),
         kind \in Slotted <=> InFunction, UNCHANGED nest, InFunction' <=> InFunction
  PROVE  FrameInv'
<1>1. /\ symbols \in Seq(SymbolRecord) /\ scopes \in Seq(Seq(Nat)) /\ Len(scopes) >= 1
      /\ Len(symbols) \in Nat /\ Len(scopes) \in Nat
      /\ \A d \in 1 .. Len(scopes) : scopes[d] \in Seq(Nat)
  BY TablesAre DEF IdsOK
<1>2. CASE UNCHANGED <<symbols, scopes, next_slot, frame>>
  BY <1>2 DEF FrameInv, Stacked, Numbered, Placed
<1>3. CASE lookup_in_current_scope(name) = 0
  <2> DEFINE L == Len(scopes)
             id == Len(symbols) + 1
             s == [name |-> name, kind |-> kind, slot |-> IF kind \in Slotted THEN next_slot ELSE NoSlot]
             top2 == Append(scopes[L], id)
             entry == [slot |-> next_slot, symbol |-> id]
  <2>1. CASE UNCHANGED <<symbols, scopes, next_slot, frame>>
    BY <1>2, <2>1
  <2>2. CASE /\ symbols' = Append(symbols, s)
             /\ scopes' = [scopes EXCEPT ![L] = top2]
             /\ \/ kind \in Slotted /\ next_slot' = next_slot + 1 /\ frame' = Append(frame, entry)
                \/ kind \notin Slotted /\ UNCHANGED <<next_slot, frame>>
    <3>1. s \in SymbolRecord /\ (kind \in Slotted => s.slot = next_slot)
      BY DEF SymbolRecord, NoSlot, IdsOK
    <3> HIDE DEF s
    <3>2. /\ id \in Nat /\ Len(symbols') = id /\ symbols'[id] = s
          /\ \A i \in 1 .. Len(symbols) : symbols'[i] = symbols[i]
      BY <1>1, <2>2, <3>1, AppendProperties
    <3>3. Len(scopes') = L /\ \A d \in 1 .. L : scopes'[d] = IF d = L THEN top2 ELSE scopes[d]
      <4>1. DOMAIN scopes' = 1 .. L
        BY <1>1, <2>2
      <4>2. scopes' \in Seq(Seq(Nat)) /\ L \in Nat
        BY <1>1 DEF IdsOK, TablesOK
      <4> QED
        BY <1>1, <2>2, <4>1, <4>2
    <3>4. Stacked'
      <4>1. (IF InFunction' THEN 2 ELSE 1) = IF InFunction THEN 2 ELSE 1
        OBVIOUS
      <4> QED
        BY <3>3, <4>1 DEF FrameInv, Stacked
    <3>5. CASE kind \notin Slotted
      BY <2>2, <3>4, <3>5 DEF FrameInv, Numbered, Placed
    <3>6. CASE kind \in Slotted
      <4>1. /\ frame \in Seq([slot : Int, symbol : Nat]) /\ Len(frame) \in Nat /\ next_slot = Len(frame)
            /\ \A i \in 1 .. Len(frame) : /\ frame[i].symbol \in 1 .. Len(symbols) /\ frame[i].slot = i - 1
                                          /\ symbols[frame[i].symbol].slot = i - 1
        BY <3>6 DEF FrameInv, Numbered
      <4>2. entry \in [slot : Int, symbol : Nat] /\ entry.slot = Len(frame) /\ entry.symbol = id
        BY <3>2, <4>1
      <4> HIDE DEF entry
      <4>3. /\ frame' \in Seq([slot : Int, symbol : Nat]) /\ Len(frame') = Len(frame) + 1
            /\ frame'[Len(frame) + 1] = entry /\ \A i \in 1 .. Len(frame) : frame'[i] = frame[i]
        <5>1. frame' = Append(frame, entry)
          BY <2>2, <3>6
        <5> QED
          BY <4>1, <4>2, <5>1, AppendProperties
      <4>4. \A i \in 1 .. Len(frame') : i \in 1 .. Len(frame) \/ i = Len(frame) + 1
        BY <4>1, <4>3
      <4>5. Numbered'
        <5>1. next_slot' = Len(frame')
          BY <2>2, <3>6, <4>1, <4>3
        <5>2. symbols'[entry.symbol].slot = Len(frame)
          BY <3>1, <3>2, <3>6, <4>1, <4>2
        <5>3. ASSUME NEW i \in 1 .. Len(frame')
              PROVE  /\ frame'[i].symbol \in 1 .. Len(symbols') /\ frame'[i].slot = i - 1
                     /\ symbols'[frame'[i].symbol].slot = i - 1
          <6>1. CASE i \in 1 .. Len(frame)
            <7>1. frame'[i] = frame[i] /\ frame[i].symbol \in 1 .. Len(symbols)
              BY <4>1, <4>3, <6>1
            <7>2. frame[i].symbol \in 1 .. Len(symbols') /\ symbols'[frame[i].symbol] = symbols[frame[i].symbol]
              BY <1>1, <3>2, <7>1
            <7> QED
              BY <4>1, <6>1, <7>1, <7>2
          <6>2. CASE i = Len(frame) + 1
            BY <1>1, <3>2, <4>1, <4>2, <4>3, <5>2, <6>2
          <6> QED
            BY <4>4, <6>1, <6>2
        <5> QED
          BY <4>3, <5>1, <5>3 DEF Numbered
      <4>6. Placed'
        <5> SUFFICES ASSUME NEW d \in 2 .. L, NEW k \in 1 .. Len(scopes'[d])
                     PROVE  \E i \in 1 .. Len(frame') : frame'[i].symbol = scopes'[d][k]
          BY <3>3 DEF Placed
        <5>1. ASSUME NEW e \in 2 .. L, NEW j \in 1 .. Len(scopes[e])
              PROVE  \E i \in 1 .. Len(frame') : frame'[i].symbol = scopes[e][j]
          <6>1. PICK i \in 1 .. Len(frame) : frame[i].symbol = scopes[e][j]
            BY <3>6 DEF FrameInv, Placed
          <6>2. i \in 1 .. Len(frame') /\ frame'[i] = frame[i]
            BY <4>1, <4>3
          <6> QED
            BY <6>1, <6>2
        <5>2. CASE d # L
          BY <3>3, <5>1, <5>2
        <5>3. CASE d = L
          <6>0. L \in 1 .. L
            BY <1>1
          <6>1. scopes[L] \in Seq(Nat) /\ scopes'[d] = top2
            <7>1. \A e \in 1 .. L : scopes'[e] = IF e = L THEN top2 ELSE scopes[e]
              BY <3>3
            <7> HIDE DEF top2
            <7> QED
              BY <1>1, <5>3, <6>0, <7>1
          <6>2. /\ Len(top2) = Len(scopes[L]) + 1 /\ top2[Len(scopes[L]) + 1] = id
                /\ Len(scopes[L]) \in Nat
                /\ \A j \in 1 .. Len(scopes[L]) : top2[j] = scopes[L][j]
            BY <3>2, <6>1, AppendProperties
          <6>3. CASE k \in 1 .. Len(scopes[L])
            BY <5>1, <5>3, <6>1, <6>2, <6>3
          <6>4. CASE k = Len(scopes[L]) + 1
            <7>1. Len(frame) + 1 \in 1 .. Len(frame')
              BY <4>1, <4>3
            <7> QED
              BY <4>2, <4>3, <6>1, <6>2, <6>4, <7>1
          <6> QED
            BY <6>1, <6>2, <6>3, <6>4
        <5> QED
          BY <5>2, <5>3
      <4> QED
        BY <3>4, <4>5, <4>6 DEF FrameInv
    <3> QED
      BY <3>5, <3>6
  <2> QED
    BY <2>1, <2>2 DEF declare_name
<1> QED
  BY <1>2, <1>3 DEF declare_name

(* A scope that opens or closes at the top. *)
LEMMA OpeningAndClosing ==
  ASSUME IdsOK, FrameInv, InFunction, InFunction', Stays \/ Opens \/ Closes,
         UNCHANGED <<next_slot, frame>>
  PROVE  Numbered' /\ Placed'
<1>1. scopes \in Seq(Seq(Nat)) /\ Len(scopes) \in Nat /\ symbols' = symbols
  BY TablesAre DEF IdsOK, Stays, Opens, Closes
<1>2. Numbered'
  BY <1>1 DEF FrameInv, Numbered
<1>3. \A d \in 2 .. Len(scopes') : (d \in 2 .. Len(scopes) /\ scopes'[d] = scopes[d]) \/ scopes'[d] = <<>>
  <2>1. CASE Stays
    BY <2>1 DEF Stays
  <2>2. CASE Opens
    <3>1. /\ Len(scopes') = Len(scopes) + 1 /\ scopes'[Len(scopes) + 1] = <<>>
          /\ \A d \in 1 .. Len(scopes) : scopes'[d] = scopes[d]
      BY <1>1, <2>2 DEF Opens
    <3> QED
      BY <1>1, <3>1
  <2>3. CASE Closes
    <3>1. Len(scopes) - 1 \in 0 .. Len(scopes)
      BY <1>1, <2>3 DEF Closes
    <3>2. Len(scopes') = Len(scopes) - 1 /\ \A d \in 1 .. Len(scopes) - 1 : scopes'[d] = scopes[d]
      BY <1>1, <2>3, <3>1, PrefixOfSeq DEF Closes
    <3> QED
      BY <1>1, <3>2
  <2> QED
    BY <2>1, <2>2, <2>3
<1>4. Placed'
  <2> SUFFICES ASSUME NEW d \in 2 .. Len(scopes'), NEW k \in 1 .. Len(scopes'[d])
               PROVE  \E i \in 1 .. Len(frame') : frame'[i].symbol = scopes'[d][k]
    BY DEF Placed
  <2>1. d \in 2 .. Len(scopes) /\ scopes'[d] = scopes[d]
    BY <1>3
  <2> QED
    BY <2>1 DEF FrameInv, Placed
<1> QED
  BY <1>2, <1>4

LEMMA StepsKeepFrames ==
  ASSUME IdsOK, IdsOK', FrameInv, [Next]_vars
  PROVE  FrameInv'
<1>1. /\ scopes \in Seq(Seq(Nat)) /\ Len(scopes) \in Nat /\ Len(scopes) >= 1
      /\ nest \in Seq({"block", "while", "for"})
      /\ Cardinality(Opened(nest)) \in Nat
      /\ Len(scopes) = Cardinality(Opened(nest)) + (IF InFunction THEN 2 ELSE 1)
  BY TablesAre, OpenedIsCounted DEF IdsOK, FrameInv, Stacked
<1>2. CASE collect_top_level
  BY <1>2, DeclaringFills DEF collect_top_level, InFunction, Kinds, Slotted
<1>3. CASE check_bodies
  BY <1>3 DEF check_bodies, FrameInv, Stacked, Numbered, Placed, InFunction
<1>4. CASE check_function
  <2>1. nest = <<>> /\ nest' = nest /\ ~InFunction /\ InFunction' /\ symbols' = symbols
    BY <1>4 DEF check_function, FrameInv, Stacked, InFunction
  <2>2. Cardinality(Opened(nest)) = 0
    <3>1. Opened(nest) = {}
      BY <2>1 DEF Opened
    <3> QED
      BY <3>1, FS_EmptySet
  <2>3. scopes' = Append(scopes, <<>>) /\ next_slot' = 0 /\ frame' = <<>>
    BY <1>4 DEF check_function, enter_function, enter_block
  <2>4. Len(scopes) = 1 /\ Len(scopes') = 2 /\ scopes'[2] = <<>>
    BY <1>1, <2>1, <2>2, <2>3
  <2>5. Stacked'
    BY <2>1, <2>2, <2>4 DEF FrameInv, Stacked
  <2>6. Numbered' /\ Placed'
    BY <2>3, <2>4 DEF Numbered, Placed
  <2> QED
    BY <2>5, <2>6 DEF FrameInv
<1>5. CASE parameter
  BY <1>5, DeclaringFills DEF parameter, InFunction, Kinds, Slotted
<1>6. CASE declare_local
  BY <1>6, DeclaringFills DEF declare_local, InBody, InFunction, Kinds, Slotted
<1>7. CASE resolve
  <2>1. InFunction /\ InFunction' /\ UNCHANGED <<symbols, scopes, next_slot, frame, nest>>
    BY <1>7 DEF resolve, InBody, InFunction
  <2> QED
    BY <2>1 DEF FrameInv, Stacked, Numbered, Placed
<1>8. CASE leave_function
  <2>1. InFunction /\ ~InFunction' /\ nest = <<>> /\ nest' = nest /\ frame' = <<>>
    BY <1>8 DEF leave_function, InFunction
  <2>2. Cardinality(Opened(nest)) = 0
    <3>1. Opened(nest) = {}
      BY <2>1 DEF Opened
    <3> QED
      BY <3>1, FS_EmptySet
  <2>3. Len(scopes') = 1
    <3>1. Len(scopes) = 2 /\ Len(scopes) - 1 \in 0 .. Len(scopes)
      BY <1>1, <2>1, <2>2
    <3>2. scopes' = SubSeq(scopes, 1, Len(scopes) - 1)
      BY <1>8, <3>1 DEF leave_function, LeaveKeepingSymbols, leave_block
    <3> QED
      BY <1>1, <3>1, <3>2, PrefixOfSeq
  <2>4. Stacked'
    BY <2>1, <2>2, <2>3 DEF FrameInv, Stacked
  <2> QED
    BY <2>1, <2>4 DEF FrameInv, Numbered, Placed
<1>9. CASE Leave
  <2>1. /\ InFunction /\ InFunction' /\ nest # <<>> /\ nest' = SubSeq(nest, 1, Len(nest) - 1)
        /\ UNCHANGED <<next_slot, frame, symbols>>
    BY <1>9 DEF Leave, InBody, InFunction, LeaveKeepingSymbols
  <2>2. /\ nest' \in Seq({"block", "while", "for"}) /\ nest[Len(nest)] \in {"block", "while", "for"}
        /\ Cardinality(Opened(nest)) = Cardinality(Opened(nest')) + (IF nest[Len(nest)] = "while" THEN 0 ELSE 1)
    BY <1>1, <2>1, ClosingCounts
  <2>3. Cardinality(Opened(nest')) \in Nat
    BY <2>2, OpenedIsCounted
  <2>4. CASE LeavesScope
    <3>1. Len(scopes) > 1
      BY <1>1, <2>1, <2>2, <2>3, <2>4 DEF LeavesScope, Innermost
    <3>2. scopes' = SubSeq(scopes, 1, Len(scopes) - 1)
      BY <1>9, <2>4, <3>1 DEF Leave, LeaveKeepingSymbols, leave_block
    <3>3. Len(scopes') = Len(scopes) - 1
      BY <1>1, <3>1, <3>2, PrefixOfSeq
    <3>4. nest[Len(nest)] # "while"
      BY <2>4 DEF LeavesScope, Innermost
    <3>5. Stacked'
      BY <1>1, <2>1, <2>2, <2>3, <3>3, <3>4 DEF Stacked
    <3>6. Closes
      BY <2>1, <3>1, <3>2 DEF Closes
    <3> QED
      BY <2>1, <3>5, <3>6, OpeningAndClosing DEF FrameInv
  <2>5. CASE ~LeavesScope
    <3>1. scopes' = scopes
      BY <1>9, <2>5 DEF Leave
    <3>2. nest[Len(nest)] = "while"
      BY <2>2, <2>5 DEF LeavesScope, Innermost
    <3>3. Stacked'
      BY <1>1, <2>1, <2>2, <2>3, <3>1, <3>2 DEF Stacked
    <3> QED
      BY <2>1, <3>1, <3>3, OpeningAndClosing DEF FrameInv, Stays
  <2> QED
    BY <2>4, <2>5
<1>10. ASSUME NEW construct \in {"block", "while", "for"}, Enter(construct)
       PROVE  FrameInv'
  <2>1. /\ InFunction /\ InFunction' /\ nest' = Append(nest, construct)
        /\ UNCHANGED <<next_slot, frame, symbols>>
    BY <1>10 DEF Enter, InBody, InFunction
  <2>2. /\ nest' \in Seq({"block", "while", "for"})
        /\ Cardinality(Opened(nest')) = Cardinality(Opened(nest)) + (IF construct = "while" THEN 0 ELSE 1)
    BY <1>1, <2>1, OpeningCounts, AppendProperties
  <2>3. CASE construct # "while"
    <3>1. scopes' = Append(scopes, <<>>)
      BY <1>10, <2>3 DEF Enter, enter_block
    <3>2. Len(scopes') = Len(scopes) + 1
      BY <1>1, <3>1
    <3>3. Stacked'
      BY <1>1, <2>1, <2>2, <2>3, <3>2 DEF Stacked
    <3> QED
      BY <2>1, <3>1, <3>3, OpeningAndClosing DEF FrameInv, Opens
  <2>4. CASE construct = "while"
    <3>1. scopes' = scopes
      BY <1>10, <2>4 DEF Enter
    <3>2. Stacked'
      BY <1>1, <2>1, <2>2, <2>4, <3>1 DEF Stacked
    <3> QED
      BY <2>1, <3>1, <3>2, OpeningAndClosing DEF FrameInv, Stays
  <2> QED
    BY <2>3, <2>4
<1>11. CASE UNCHANGED vars
  BY <1>11 DEF vars, FrameInv, Stacked, Numbered, Placed, InFunction
<1> QED
  BY <1>2, <1>3, <1>4, <1>5, <1>6, <1>7, <1>8, <1>9, <1>10, <1>11 DEF Next

(* The code generator finds a variable by its slot: in every function of   *)
(* every program the slots count from zero without a gap, the frame holds  *)
(* them in order, and every variable in scope is in it, whatever blocks    *)
(* were opened and closed before.                                          *)
THEOREM SlotsAreFrames == Spec => []SlotsAreTheFrames
<1>1. Init => FrameInv
  <2> SUFFICES ASSUME Init PROVE FrameInv
    OBVIOUS
  <2>1. /\ nest = <<>> /\ frame = <<>> /\ ~InFunction /\ Len(scopes) = 1
    BY DEF Init, InFunction
  <2>2. Opened(nest) = {}
    BY <2>1 DEF Opened
  <2>3. Cardinality(Opened(nest)) = 0
    BY <2>2, FS_EmptySet
  <2> QED
    BY <2>1, <2>3 DEF FrameInv, Stacked, Numbered, Placed
<1>2. IdsOK /\ IdsOK' /\ FrameInv /\ [Next]_vars => FrameInv'
  BY StepsKeepFrames
<1>3. IdsOK /\ FrameInv => SlotsAreTheFrames
  <2> SUFFICES ASSUME IdsOK, FrameInv, InFunction
               PROVE  /\ next_slot = Len(frame)
                      /\ \A i \in DOMAIN frame : frame[i].slot = i - 1 /\ symbols[frame[i].symbol].slot = i - 1
                      /\ \A d \in 2 .. Len(scopes) : \A k \in DOMAIN scopes[d] :
                           \E i \in DOMAIN frame : frame[i].symbol = scopes[d][k]
    BY DEF SlotsAreTheFrames, InFunction
  <2>1. DOMAIN frame = 1 .. Len(frame)
    BY DEF FrameInv, Numbered
  <2>2. \A d \in 2 .. Len(scopes) : DOMAIN scopes[d] = 1 .. Len(scopes[d])
    <3>1. Len(scopes) \in Nat /\ \A d \in 1 .. Len(scopes) : scopes[d] \in Seq(Nat)
      BY TablesAre DEF IdsOK
    <3> QED
      BY <3>1
  <2> QED
    BY <2>1, <2>2 DEF FrameInv, Numbered, Placed
<1> QED
  BY <1>1, <1>2, <1>3, ScopesHoldSymbols, PTL DEF Spec
=============================================================================
