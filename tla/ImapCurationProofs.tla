-------------------------- MODULE ImapCurationProofs --------------------------
(***************************************************************************)
(* Curation on an IMAP server for any number of callers, messages, folders *)
(* and mishaps: no message is lost, what is answered is true, destinations *)
(* are not deleted, and what the breaker counts.                           *)
(***************************************************************************)
EXTENDS ImapCuration, FiniteSetTheorems, SequenceTheorems, TLAPS

-----------------------------------------------------------------------------
(* Least and greatest numbers.                                              *)

\* A set of numbers has a least one.
LEMMA LeastOf ==
  ASSUME NEW S \in SUBSET Nat, S # {}
  PROVE  \E m \in S : \A x \in S : m <= x
  <1> DEFINE Upto(x) == 1 .. x
             T == {Upto(x) : x \in S}
  <1>1. T \subseteq FiniteSubsetsOf(Nat)
    <2>1. \A x \in S : Upto(x) \in SUBSET Nat /\ IsFiniteSet(Upto(x)) BY FS_Interval
    <2> QED BY <2>1 DEF FiniteSubsetsOf
  <1>2. PICK A \in T : \A B \in T : <<B, A>> \notin StrictSubsetOrdering(Nat)
    <2>1. T # {}
      OBVIOUS
    <2>2. IsWellFoundedOn(StrictSubsetOrdering(Nat), FiniteSubsetsOf(Nat))
      BY FS_StrictSubsetOrderingWellFounded
    <2> HIDE DEF T
    <2> QED BY <1>1, <2>1, <2>2, WFMin
  <1>3. PICK m \in S : A = Upto(m)
    OBVIOUS
  <1>4. ASSUME NEW x \in S, x < m PROVE FALSE
    <2>1. Upto(x) \subseteq Upto(m) /\ m \in Upto(m) /\ m \notin Upto(x) BY <1>4
    <2>2. <<Upto(x), Upto(m)>> \in StrictSubsetOrdering(Nat)
      BY <2>1 DEF StrictSubsetOrdering
    <2> QED BY <1>2, <1>3, <2>2
  <1> QED BY <1>4

\* A bounded set of numbers has a greatest one.
LEMMA GreatestOf ==
  ASSUME NEW n \in Nat, NEW S \in SUBSET (1 .. n), S # {}
  PROVE  \E m \in S : \A x \in S : x <= m
  <1> DEFINE R == {n - x : x \in S}
  <1>1. R \in SUBSET Nat /\ R # {}
    <2>1. \A x \in S : n - x \in Nat
      OBVIOUS
    <2> QED BY <2>1
  <1>2. PICK r \in R : \A y \in R : r <= y BY <1>1, LeastOf
  <1>3. PICK m \in S : r = n - m
    OBVIOUS
  <1>4. ASSUME NEW x \in S PROVE x <= m
    <2>1. n - x \in R /\ x \in Nat /\ m \in Nat
      OBVIOUS
    <2> QED BY <1>2, <1>3, <2>1
  <1> QED BY <1>4

LEMMA MinIn ==
  ASSUME NEW S \in SUBSET Nat, S # {}
  PROVE  Min(S) \in S /\ \A x \in S : Min(S) <= x
  BY LeastOf DEF Min

LEMMA MaxIn ==
  ASSUME NEW n \in Nat, NEW S \in SUBSET (1 .. n), S # {}
  PROVE  Max(S) \in S /\ \A x \in S : x <= Max(S)
  BY GreatestOf DEF Max
-----------------------------------------------------------------------------
(* Where curation files, given the folders that exist.                      *)

Kinds == {"archive", "trash"}
Roots == {<<>>, Prefix}
Spot(F) == {i \in DOMAIN Listing : Listing[i] \in F}
AtLeaf(F, prefix, leaf) == {i \in Spot(F) : leafOf(Listing[i], prefix) = <<leaf>>}
LastNamed(F, prefix, leaf) == LastWithLeaf(ListOf(F), prefix, leaf)
Declared(kind, F) == {i \in Spot(F) : Targets[kind].attr \in Declares[Listing[i]]}
Leaf(kind, prefix, F) == LastNamed(F, prefix, Targets[kind].leaf)
Known(kind, prefix, F) ==
  {i \in DOMAIN Targets[kind].aliases : LastNamed(F, prefix, Targets[kind].aliases[i]) # <<>>}
Choice(kind, prefix, F) == destinationFor(Targets[kind], ListOf(F), prefix, Declares)
Top(kind, prefix, F) == Choice(kind, prefix, F).folder

\* The part of the listing that exists.
LEMMA ListOfIs ==
  ASSUME NEW F
  PROVE  DOMAIN ListOf(F) = Spot(F) /\ \A i \in Spot(F) : ListOf(F)[i] = Listing[i]
  BY DEF ListOf, Restrict, Spot

\* Positions are numbers, and what is listed are names.
LEMMA Spots ==
  /\ Len(Listing) \in Nat /\ DOMAIN Listing = 1 .. Len(Listing)
  /\ \A i \in DOMAIN Listing : Listing[i] \in Names /\ Listing[i] \in Seq(STRING)
  /\ \A F : Spot(F) \in SUBSET (1 .. Len(Listing)) /\ Spot(F) \in SUBSET Nat
  /\ Names \subseteq Seq(STRING)
  BY NamesAssumption DEF Spot, Names, Range

\* The personal namespace is a sequence of components, like every name.
LEMMA PrefixType == \A prefix \in Roots : prefix \in Seq(STRING)
  BY NamesAssumption, EmptySeq DEF Roots

\* A name with a leaf is not empty.
LEMMA LeafNonEmpty ==
  ASSUME NEW prefix \in Seq(STRING), NEW leaf
  PROVE  leafOf(<<>>, prefix) # <<leaf>>
  <1>1. ~Below(prefix, <<>>)
    <2>1. prefix # <<>> => Len(prefix) > Len(<<>>) BY EmptySeq
    <2> QED BY <2>1 DEF Below, IsStrictPrefix, IsPrefix
  <1> QED BY <1>1 DEF leafOf

\* The beginning of a sequence.
LEMMA Beginning ==
  ASSUME NEW S, NEW p \in Seq(S), NEW n \in Nat, n <= Len(p)
  PROVE  /\ SubSeq(p, 1, n) \in Seq(S) /\ Len(SubSeq(p, 1, n)) = n
         /\ \A i \in 1 .. n : SubSeq(p, 1, n)[i] = p[i]
  <1>1. Len(p) \in Nat /\ \A i \in 1 .. Len(p) : p[i] \in S BY LenProperties
  <1>2. \A i \in 1 .. n : p[i] \in S BY <1>1
  <1> QED BY <1>2, SubSeqProperties

\* A folder made in a namespace has its leaf there.
LEMMA LeafOfMade ==
  ASSUME NEW S, NEW prefix \in Seq(S), NEW leaf \in S
  PROVE  leafOf(Append(prefix, leaf), prefix) = <<leaf>>
  <1> DEFINE made == Append(prefix, leaf)
             n == Len(prefix)
  <1>1. n \in Nat /\ made \in Seq(S) /\ Len(made) = n + 1 BY LenProperties, AppendProperties
  <1>2. made[n + 1] = leaf /\ \A i \in 1 .. n : made[i] = prefix[i]
    BY LenProperties, AppendProperties
  <1>3. Below(prefix, made)
    <2>1. /\ SubSeq(prefix, 1, n) \in Seq(S) /\ Len(SubSeq(prefix, 1, n)) = n
          /\ \A i \in 1 .. n : SubSeq(prefix, 1, n)[i] = prefix[i]
      BY <1>1, Beginning
    <2>2. /\ SubSeq(made, 1, n) \in Seq(S) /\ Len(SubSeq(made, 1, n)) = n
          /\ \A i \in 1 .. n : SubSeq(made, 1, n)[i] = made[i]
      BY <1>1, Beginning
    <2> HIDE DEF made, n
    <2>3. SubSeq(prefix, 1, n) = SubSeq(made, 1, n)
      BY <1>2, <2>1, <2>2, SeqEqual
    <2> USE DEF n
    <2>4. prefix # made BY <1>1
    <2> QED BY <1>1, <2>3, <2>4 DEF Below, IsStrictPrefix, IsPrefix
  <1>4. SubSeq(made, n + 1, n + 1) = <<leaf>>
    <2> HIDE DEF made, n
    <2>1. \A i \in n + 1 .. n + 1 : made[i] \in S BY <1>1, <1>2
    <2>2. /\ SubSeq(made, n + 1, n + 1) \in Seq(S)
          /\ Len(SubSeq(made, n + 1, n + 1)) = 1
          /\ SubSeq(made, n + 1, n + 1)[1] = leaf
      BY <1>1, <1>2, <2>1, SubSeqProperties
    <2>3. <<leaf>> \in Seq(S) /\ Len(<<leaf>>) = 1 /\ <<leaf>>[1] = leaf
      OBVIOUS
    <2>4. \A i \in 1 .. 1 : SubSeq(made, n + 1, n + 1)[i] = <<leaf>>[i] BY <2>2, <2>3
    <2> HIDE DEF made
    <2> QED BY <2>2, <2>3, <2>4, SeqEqual
  <1> QED BY <1>1, <1>3, <1>4 DEF leafOf

\* The folder with a leaf is the last of them, if there is one.
LEMMA LastIs ==
  ASSUME NEW F, NEW prefix \in Roots, NEW leaf
  PROVE  /\ AtLeaf(F, prefix, leaf) = {} => LastNamed(F, prefix, leaf) = <<>>
         /\ AtLeaf(F, prefix, leaf) # {} =>
               /\ LastNamed(F, prefix, leaf) = Listing[Max(AtLeaf(F, prefix, leaf))]
               /\ Max(AtLeaf(F, prefix, leaf)) \in AtLeaf(F, prefix, leaf)
               /\ \A i \in AtLeaf(F, prefix, leaf) : i <= Max(AtLeaf(F, prefix, leaf))
               /\ LastNamed(F, prefix, leaf) \in F \cap Names /\ LastNamed(F, prefix, leaf) # <<>>
  <1> DEFINE at == AtLeaf(F, prefix, leaf)
  <1>1. {i \in DOMAIN ListOf(F) : leafOf(ListOf(F)[i], prefix) = <<leaf>>} = at
    BY ListOfIs DEF AtLeaf
  <1>2. at \in SUBSET (1 .. Len(Listing)) BY Spots DEF AtLeaf
  <1>3. CASE at = {} BY <1>1, <1>3 DEF LastNamed, LastWithLeaf
  <1>4. CASE at # {}
    <2>1. Max(at) \in at /\ \A i \in at : i <= Max(at) BY <1>2, <1>4, MaxIn, Spots
    <2>2. LastNamed(F, prefix, leaf) = Listing[Max(at)]
      BY <1>1, <1>4, <2>1, ListOfIs DEF LastNamed, LastWithLeaf, AtLeaf
    <2>3. Listing[Max(at)] \in F \cap Names BY <2>1, Spots DEF AtLeaf, Spot
    <2>4. Listing[Max(at)] # <<>>
      <3>1. leafOf(Listing[Max(at)], prefix) = <<leaf>> BY <2>1 DEF AtLeaf
      <3>2. prefix \in Seq(STRING) BY PrefixType
      <3> QED BY <3>1, <3>2, LeafNonEmpty
    <2> QED BY <1>4, <2>1, <2>2, <2>3, <2>4
  <1> QED BY <1>3, <1>4

\* One folder more: it has the leaf now, or what had it has it still.
LEMMA LastGrows ==
  ASSUME NEW F, NEW G, NEW z, F \subseteq G, \A x \in G : x \in F \/ x = z,
         NEW prefix \in Roots, NEW leaf
  PROVE  /\ LastNamed(G, prefix, leaf) \in {LastNamed(F, prefix, leaf), z}
         /\ LastNamed(G, prefix, leaf) = <<>> => LastNamed(F, prefix, leaf) = <<>>
  <1> DEFINE at == AtLeaf(F, prefix, leaf)
             more == AtLeaf(G, prefix, leaf)
  <1>1. at \subseteq more /\ \A i \in more : i \in at \/ Listing[i] = z
    BY DEF AtLeaf, Spot
  <1>2. CASE more = {}
    <2>1. at = {} BY <1>1, <1>2
    <2>2. LastNamed(F, prefix, leaf) = <<>> BY <2>1, LastIs
    <2>3. LastNamed(G, prefix, leaf) = <<>> BY <1>2, LastIs
    <2> QED BY <2>2, <2>3
  <1>3. CASE more # {}
    <2>1. LastNamed(G, prefix, leaf) # <<>> BY <1>3, LastIs
    <2>2. CASE Listing[Max(more)] = z BY <1>3, <2>1, <2>2, LastIs
    <2>3. CASE Listing[Max(more)] # z
      <3>1. Max(more) \in more /\ \A i \in more : i <= Max(more) BY <1>3, LastIs
      <3>2. Max(more) \in at BY <1>1, <2>3, <3>1
      <3>3. Max(at) \in at /\ \A i \in at : i <= Max(at) BY <3>2, LastIs
      <3>4. at \subseteq Nat /\ more \subseteq Nat BY Spots DEF AtLeaf
      <3>5. Max(more) = Max(at)
        <4>1. Max(more) <= Max(at) /\ Max(at) <= Max(more) BY <1>1, <3>1, <3>2, <3>3
        <4>2. Max(more) \in Nat /\ Max(at) \in Nat BY <3>1, <3>3, <3>4
        <4> QED BY <4>1, <4>2
      <3> QED BY <1>3, <2>1, <3>2, <3>5, LastIs
    <2> QED BY <2>2, <2>3
  <1> QED BY <1>2, <1>3

\* The best of the declared folders, and of the aliases.
LEMMA Best ==
  ASSUME NEW kind \in Kinds, NEW prefix, NEW F
  PROVE  /\ Declared(kind, F) \subseteq Nat
         /\ Declared(kind, F) # {} =>
               /\ Min(Declared(kind, F)) \in Declared(kind, F)
               /\ \A i \in Declared(kind, F) : Min(Declared(kind, F)) <= i
         /\ Known(kind, prefix, F) \subseteq Nat
         /\ Known(kind, prefix, F) # {} =>
               /\ Min(Known(kind, prefix, F)) \in Known(kind, prefix, F)
               /\ \A i \in Known(kind, prefix, F) : Min(Known(kind, prefix, F)) <= i
  <1>1. Declared(kind, F) \in SUBSET Nat BY Spots DEF Declared
  <1>2. Known(kind, prefix, F) \in SUBSET Nat
    <2>1. Targets[kind].aliases \in Seq(STRING) BY NamesAssumption DEF Kinds
    <2>2. /\ DOMAIN Targets[kind].aliases = 1 .. Len(Targets[kind].aliases)
          /\ Len(Targets[kind].aliases) \in Nat
      BY <2>1, LenProperties
    <2> QED BY <2>2 DEF Known
  <1> QED BY <1>1, <1>2, MinIn

\* What curation chooses, by cases.
LEMMA ChoiceIs ==
  ASSUME NEW kind \in Kinds, NEW prefix, NEW F
  PROVE  /\ Targets[kind].override # <<>> =>
              Choice(kind, prefix, F) = [folder |-> Targets[kind].override, route |-> "override"]
         /\ Targets[kind].override = <<>> =>
              /\ Declared(kind, F) # {} =>
                   Choice(kind, prefix, F)
                     = [folder |-> Listing[Min(Declared(kind, F))], route |-> "declared"]
              /\ Declared(kind, F) = {} /\ Leaf(kind, prefix, F) # <<>> =>
                   Choice(kind, prefix, F)
                     = [folder |-> Leaf(kind, prefix, F), route |-> "convention"]
              /\ Declared(kind, F) = {} /\ Leaf(kind, prefix, F) = <<>>
                  /\ Known(kind, prefix, F) # {} =>
                   Choice(kind, prefix, F)
                     = [folder |-> LastNamed(F, prefix,
                                     Targets[kind].aliases[Min(Known(kind, prefix, F))]),
                        route |-> "alias"]
              /\ Declared(kind, F) = {} /\ Leaf(kind, prefix, F) = <<>>
                  /\ Known(kind, prefix, F) = {} =>
                   Choice(kind, prefix, F)
                     = [folder |-> Append(prefix, Targets[kind].leaf), route |-> "create"]
  <1>1. {i \in DOMAIN ListOf(F) : Targets[kind].attr \in Declares[ListOf(F)[i]]} = Declared(kind, F)
    BY ListOfIs DEF Declared
  <1>2. Declared(kind, F) # {} =>
          ListOf(F)[Min(Declared(kind, F))] = Listing[Min(Declared(kind, F))]
    BY Best, ListOfIs DEF Declared
  <1>3. CASE Targets[kind].override # <<>> BY <1>3 DEF Choice, destinationFor
  <1>4. CASE Targets[kind].override = <<>>
    <2>1. Choice(kind, prefix, F) =
            chooseCurationFolder(Targets[kind], ListOf(F), prefix, Declares)
      BY <1>4 DEF Choice, destinationFor
    <2>2. CASE Declared(kind, F) # {}
      BY <1>1, <1>2, <1>4, <2>1, <2>2 DEF chooseCurationFolder
    <2>3. CASE Declared(kind, F) = {} /\ Leaf(kind, prefix, F) # <<>>
      BY <1>1, <1>4, <2>1, <2>3 DEF chooseCurationFolder, Leaf, LastNamed
    <2>4. CASE Declared(kind, F) = {} /\ Leaf(kind, prefix, F) = <<>>
      BY <1>1, <1>4, <2>1, <2>4 DEF chooseCurationFolder, Leaf, LastNamed, Known
    <2> QED BY <1>4, <2>2, <2>3, <2>4
  <1> QED BY <1>3, <1>4

\* One folder more: it is chosen, or what was chosen is chosen still.
LEMMA TopGrows ==
  ASSUME NEW kind \in Kinds, NEW prefix \in Roots,
         NEW F, NEW G, NEW z, F \subseteq G, \A x \in G : x \in F \/ x = z
  PROVE  Top(kind, prefix, G) \in {Top(kind, prefix, F), z}
  <1>1. CASE Targets[kind].override # <<>> BY <1>1, ChoiceIs DEF Top
  <1>2. CASE Targets[kind].override = <<>>
    <2>1. Spot(F) \subseteq Spot(G) /\ \A i \in Spot(G) : i \in Spot(F) \/ Listing[i] = z
      BY DEF Spot
    <2>2. /\ Declared(kind, F) \subseteq Declared(kind, G)
          /\ \A i \in Declared(kind, G) : i \in Declared(kind, F) \/ Listing[i] = z
      BY <2>1 DEF Declared
    <2>3. \A leaf : /\ LastNamed(G, prefix, leaf) \in {LastNamed(F, prefix, leaf), z}
                    /\ LastNamed(G, prefix, leaf) = <<>> => LastNamed(F, prefix, leaf) = <<>>
      <3> TAKE leaf
      <3>1. LastNamed(G, prefix, leaf) \in {LastNamed(F, prefix, leaf), z} BY LastGrows, Zenon
      <3>2. LastNamed(G, prefix, leaf) = <<>> => LastNamed(F, prefix, leaf) = <<>> BY LastGrows, Zenon
      <3> QED BY <3>1, <3>2
    <2>4. Known(kind, prefix, F) \subseteq Known(kind, prefix, G) BY <2>3 DEF Known
    <2>5. CASE Declared(kind, G) # {}
      <3>1. Top(kind, prefix, G) = Listing[Min(Declared(kind, G))]
        BY <1>2, <2>5, ChoiceIs DEF Top
      <3>2. CASE Min(Declared(kind, G)) \in Declared(kind, F)
        <4> DEFINE i == Min(Declared(kind, F))
                   j == Min(Declared(kind, G))
        <4>1. i \in Declared(kind, F) /\ i <= j BY <3>2, Best
        <4>2. j <= i BY <2>2, <2>5, <4>1, Best
        <4>3. i \in Nat /\ j \in Nat BY <2>5, <4>1, Best
        <4>4. i = j BY <4>1, <4>2, <4>3
        <4> QED BY <1>2, <3>1, <3>2, <4>4, ChoiceIs DEF Top
      <3>3. CASE Min(Declared(kind, G)) \notin Declared(kind, F)
        BY <2>2, <2>5, <3>1, <3>3, Best
      <3> QED BY <3>2, <3>3
    <2>6. CASE Declared(kind, G) = {}
      <3>1. Declared(kind, F) = {} BY <2>2, <2>6
      <3>2. CASE Leaf(kind, prefix, G) # <<>>
        <4>1. Top(kind, prefix, G) = Leaf(kind, prefix, G) BY <1>2, <2>6, <3>2, ChoiceIs DEF Top
        <4>2. Leaf(kind, prefix, G) \in {Leaf(kind, prefix, F), z} BY <2>3 DEF Leaf
        <4>3. CASE Leaf(kind, prefix, F) # <<>>
          <5>1. Top(kind, prefix, F) = Leaf(kind, prefix, F) BY <1>2, <3>1, <4>3, ChoiceIs DEF Top
          <5> QED BY <4>1, <4>2, <5>1
        <4>4. CASE Leaf(kind, prefix, F) = <<>> BY <3>2, <4>1, <4>2, <4>4
        <4> QED BY <4>3, <4>4
      <3>3. CASE Leaf(kind, prefix, G) = <<>>
        <4>1. Leaf(kind, prefix, F) = <<>> BY <2>3, <3>3 DEF Leaf
        <4>2. CASE Known(kind, prefix, G) # {}
          <5> DEFINE i == Min(Known(kind, prefix, F))
                     j == Min(Known(kind, prefix, G))
                     Named(H, k) == LastNamed(H, prefix, Targets[kind].aliases[k])
          <5>1. Top(kind, prefix, G) = Named(G, j) BY <1>2, <2>6, <3>3, <4>2, ChoiceIs DEF Top
          <5>2. Named(G, j) \in {Named(F, j), z} BY <2>3
          <5>3. CASE Named(F, j) = <<>>
            <6>1. Named(G, j) # <<>> BY <4>2, Best DEF Known
            <6> QED BY <5>1, <5>2, <5>3, <6>1
          <5>4. CASE Named(F, j) # <<>>
            <6>1. j \in Known(kind, prefix, F) BY <4>2, <5>4, Best DEF Known
            <6>2. i \in Known(kind, prefix, F) /\ i <= j BY <6>1, Best
            <6>3. j <= i BY <2>4, <4>2, <6>2, Best
            <6>4. i \in Nat /\ j \in Nat BY <6>1, <6>2, Best
            <6>5. i = j BY <6>2, <6>3, <6>4
            <6>6. Top(kind, prefix, F) = Named(F, i)
              BY <1>2, <3>1, <4>1, <6>1, ChoiceIs DEF Top
            <6> QED BY <5>1, <5>2, <6>5, <6>6
          <5> QED BY <5>3, <5>4
        <4>3. CASE Known(kind, prefix, G) = {}
          <5>1. Known(kind, prefix, F) = {} BY <2>4, <4>3
          <5>2. Top(kind, prefix, G) = Append(prefix, Targets[kind].leaf)
            BY <1>2, <2>6, <3>3, <4>3, ChoiceIs DEF Top
          <5>3. Top(kind, prefix, F) = Append(prefix, Targets[kind].leaf)
            BY <1>2, <3>1, <4>1, <5>1, ChoiceIs DEF Top
          <5> QED BY <5>2, <5>3
        <4> QED BY <4>2, <4>3
      <3> QED BY <3>2, <3>3
    <2> QED BY <2>5, <2>6
  <1> QED BY <1>1, <1>2

\* What is chosen is the name of a mailbox that can be, and exists unless the
\* configuration names it or it is to be made.
LEMMA ChoiceNamed ==
  ASSUME NEW kind \in Kinds, NEW prefix \in Roots, NEW F
  PROVE  LET chosen == Choice(kind, prefix, F) IN
         /\ chosen.folder \in Names
         /\ chosen.route = "create" => chosen.folder \notin F
         /\ chosen.route # "create" =>
              \/ chosen.folder \in F
              \/ chosen.folder = Targets[kind].override /\ chosen.folder # <<>>
         /\ Targets[kind].override # <<>> =>
              chosen.folder = Targets[kind].override /\ chosen.route # "create"
  <1> DEFINE chosen == Choice(kind, prefix, F)
  <1>1. CASE Targets[kind].override # <<>>
    <2>1. Targets[kind].override \in Names BY <1>1, NamesAssumption DEF Kinds
    <2> QED BY <1>1, <2>1, ChoiceIs
  <1>2. CASE Targets[kind].override = <<>> /\ Declared(kind, F) # {}
    <2>1. Min(Declared(kind, F)) \in Spot(F) BY <1>2, Best DEF Declared
    <2>2. Listing[Min(Declared(kind, F))] \in F \cap Names BY <2>1, Spots DEF Spot
    <2> QED BY <1>2, <2>2, ChoiceIs
  <1>3. \A leaf : LastNamed(F, prefix, leaf) # <<>> => LastNamed(F, prefix, leaf) \in F \cap Names
    BY LastIs
  <1>4. CASE Targets[kind].override = <<>> /\ Declared(kind, F) = {} /\ Leaf(kind, prefix, F) # <<>>
    BY <1>3, <1>4, ChoiceIs DEF Leaf
  <1>5. CASE /\ Targets[kind].override = <<>> /\ Declared(kind, F) = {}
             /\ Leaf(kind, prefix, F) = <<>>
    <2>1. CASE Known(kind, prefix, F) # {}
      <3>1. LastNamed(F, prefix, Targets[kind].aliases[Min(Known(kind, prefix, F))]) # <<>>
        BY <2>1, Best DEF Known
      <3> QED BY <1>3, <1>5, <2>1, <3>1, ChoiceIs
    <2>2. CASE Known(kind, prefix, F) = {}
      <3> DEFINE made == Append(prefix, Targets[kind].leaf)
      <3>1. chosen = [folder |-> made, route |-> "create"] BY <1>5, <2>2, ChoiceIs
      <3>2. made \in Names BY NamesAssumption DEF Kinds, Roots
      <3>3. leafOf(made, prefix) = <<Targets[kind].leaf>>
        <4>1. Targets[kind].leaf \in STRING BY NamesAssumption DEF Kinds
        <4> QED BY <4>1, PrefixType, LeafOfMade
      <3>4. ASSUME made \in F PROVE FALSE
        <4>1. PICK i \in DOMAIN Listing : Listing[i] = made BY <3>2 DEF Names, Range
        <4>2. i \in AtLeaf(F, prefix, Targets[kind].leaf) BY <3>3, <3>4, <4>1 DEF AtLeaf, Spot
        <4> QED BY <1>5, <4>2, LastIs DEF Leaf
      <3> QED BY <1>5, <3>1, <3>2, <3>4
    <2> QED BY <2>1, <2>2
  <1> QED BY <1>1, <1>2, <1>4, <1>5

-----------------------------------------------------------------------------
(* The inductive invariant.                                                 *)

Moving == {"mids", "move", "copy", "flag", "expunge", "checkSource", "checkDest", "same"}

\* A message has a copy in a folder, or went where the history says.
Elsewhere(m) ==
  \/ \E name \in Names : \E k \in filed[name] : k.msg = m
  \/ m \in taken \/ m \in forsaken
  \/ \E k \in destroyed : k.msg = m

\* A fallback move that nobody awaits marks only what its COPY carried over, unless the
\* COPY was refused.
Accounted(a) == a.next = "flag" /\ a.copied => \A m \in a.uids \cap source : Elsewhere(m)

\* What leaves the inbox is elsewhere, and a folder is emptied before it goes.
Safe ==
  /\ \A name \in Names \ folders : filed[name] = {}
  /\ \A m \in Mail : m \in source \/ Elsewhere(m)
  /\ \A m \in flagged : Elsewhere(m)
  /\ \A c \in Callers : At(c, "flag") => \A m \in call[c].work \cap source : Elsewhere(m)
  /\ \A a \in adrift : Accounted(a)
  /\ \A c \in Callers : At(c, "remove") => filed[call[c].folder] \subseteq late
  /\ destroyed \subseteq late

\* A call is at a step of its operation, and what it was told is not held is not.
Sound(c) ==
  LET this == call[c] IN
  /\ Running(c) => this.req \in Requests /\ report[c].req = this.req
  /\ this.pc \in {"list", "create", "locate"} => this.work = this.req.ids
  /\ this.pc = "create" => this.req.op \in Curates \cup {"create"}
  /\ this.pc = "locate" => this.req.op \in Curates \cup Moves \cup Seens
  /\ this.pc \in Moving => this.req.op \in Curates \cup Moves
  /\ this.pc = "same" => this.folder = Inbox
  /\ this.pc = "store" => this.req.op \in Seens
  /\ this.pc \in {"count", "remove"} => this.req.op = "drop"
  /\ this.work \subseteq this.req.ids
  /\ this.bad \cap source = {}
  /\ this.pc = "checkDest" => this.work \cap source = {}

\* A folder about to be deleted would not be chosen if it were there.
Guarded(c) ==
  call[c].pc \in {"count", "remove"} /\ ~call[c].misled =>
    \A kind \in DOMAIN Targets \ orphaned :
      Top(kind, Prefix, folders \cup {call[c].folder}) # call[c].folder

\* The failures of c that the code has no caller's mistake for.
Unclassed(c) ==
  LET this == call[c]
      override == Targets[TargetOf(this.req.op)].override
  IN  \/ this.req.op = "move" /\ this.req.ids \ report[c].held # {}
      \/ mode = "none" \/ (mode = "move" /\ this.req.ids \cap Anonymous # {})
      \/ /\ this.req.op \in Curates /\ override # <<>> /\ override \notin folders
         /\ this.pc # "create" /\ (this.pc # "list" => this.folder = override)

\* Every copy that c made is where it put it.
Arrived(c) == \A m \in call[c].work : Copy(m, c) \in filed[call[c].folder]

\* With nobody else at work, c has what its next command needs.
Smooth(c) ==
  LET this == call[c] IN
  /\ this.pc = "list" => (this.req.op = "move" => this.req.ids \subseteq source)
  /\ this.pc = "create" => (this.req.op \in Curates => this.folder \notin folders)
  /\ this.pc = "locate" => (this.req.op \notin Seens => this.folder \in folders)
  /\ this.pc \in Moving \ {"same"} =>
       this.folder \in folders /\ this.work # {} /\ mode # "none"
  /\ this.pc \in {"mids", "move", "copy", "flag", "expunge", "same"} => this.work \subseteq source
  /\ this.pc = "mids" => mode = "move"
  /\ this.pc \in {"mids", "move"} /\ mode = "move" => this.work \cap Anonymous = {}
  /\ this.pc \in {"copy", "flag", "expunge"} => mode = "uidplus"
  /\ this.pc \in {"flag", "expunge"} => this.sent = this.work
  /\ this.pc \in {"flag", "expunge", "checkSource", "checkDest"} => Arrived(c)
  /\ this.pc = "expunge" => this.work \subseteq flagged
  /\ this.pc \in {"checkSource", "checkDest"} =>
       this.work \cap source = {} /\ this.sent = IF mode = "move" THEN {} ELSE this.work
  /\ this.pc \in {"count", "remove"} => this.folder \in folders

Undisturbed(c) ==
  alone[c] => /\ Running(c) /\ \A d \in Callers \ {c} : ~Running(d)
              /\ Unclassed(c) \/ Smooth(c)

IInv ==
  /\ TypeOK /\ Safe /\ OnlyUnclassedMistakesCount /\ ReportsAreTrue
  /\ \A c \in Callers : Sound(c) /\ Guarded(c) /\ Undisturbed(c)

-----------------------------------------------------------------------------
(* How the pipeline moves a call.                                           *)

\* The destinations are the archive and the trash.
LEMMA KindsAre ==
  /\ DOMAIN Targets = Kinds /\ Inbox \in Names
  /\ \A op : TargetOf(op) \in Kinds
  /\ \A refused \in BOOLEAN : /\ personalPrefix(refused) \in Roots
                              /\ ~refused => personalPrefix(refused) = Prefix
  /\ \A kind, prefix : Destination(kind, prefix) = Choice(kind, prefix, folders)
  BY NamesAssumption
  DEF Kinds, TargetOf, Roots, personalPrefix, Destination, listAll, Choice

\* The calls and what became of them keep their shape.
Pipeline ==
  /\ call \in [Callers -> Calls] /\ report \in [Callers -> Reports]
  /\ fails \in 0 .. TripAfter /\ alone \in [Callers -> BOOLEAN]

\* The other calls are not touched.
OnlyThat(c) ==
  \A d \in Callers \ {c} : call'[d] = call[d] /\ report'[d] = report[d] /\ alone'[d] = alone[d]

\* What an attempt that ends leaves.
Ended(c, verdict, ok, bad, undisturbed) ==
  \/ /\ call'[c] = Attempt(call[c].req, call[c].try + 1)
     /\ ~NonRetryable(verdict) /\ verdict # "done"
     /\ report' = report /\ blamed' = blamed /\ alone'[c] = undisturbed
  \/ /\ call'[c] = NoCall /\ alone'[c] = FALSE
     /\ report'[c].req = report[c].req /\ report'[c].to = call[c].folder
     /\ report'[c].ok = (IF verdict = "done" THEN ok ELSE {}) /\ report'[c].bad = bad
     /\ \/ blamed' = blamed
        \/ /\ ~IsSuccessful(verdict) /\ undisturbed
           /\ blamed' = blamed \cup {[req |-> call[c].req,
                                      stale |-> call[c].req.ids \ report[c].held,
                                      nowhere |-> call[c].folder \notin folders]}

LEMMA SettleIs ==
  ASSUME NEW c \in Callers, TypeOK, Running(c) => call[c].req \in Requests, Running(c),
         NEW verdict \in Verdicts, NEW ok \in SUBSET Mail, NEW bad \in SUBSET Mail,
         NEW undisturbed \in BOOLEAN, Settle(c, verdict, ok, bad, undisturbed)
  PROVE  Pipeline' /\ OnlyThat(c) /\ Ended(c, verdict, ok, bad, undisturbed)
  <1> DEFINE this == call[c]
             retried == ~NonRetryable(verdict) /\ verdict # "done" /\ this.try < MaxAttempts
             counted == ~retried /\ ~IsSuccessful(verdict)
  <1>1. /\ call \in [Callers -> Calls] /\ report \in [Callers -> Reports]
        /\ fails \in 0 .. TripAfter /\ alone \in [Callers -> BOOLEAN]
        /\ MaxAttempts \in Nat /\ TripAfter \in Nat
    BY CurationAssumption DEF TypeOK
  <1>2. /\ call' = [call EXCEPT ![c] = IF retried THEN Attempt(this.req, this.try + 1)
                                                 ELSE NoCall]
        /\ report' = IF retried THEN report
                     ELSE [report EXCEPT ![c].verdict = verdict,
                                         ![c].ok = IF verdict = "done" THEN ok ELSE {},
                                         ![c].bad = bad, ![c].to = this.folder]
        /\ fails' = CASE retried -> fails
                      [] counted -> Min({fails + 1, TripAfter})
                      [] OTHER -> 0
        /\ alone' = [alone EXCEPT ![c] = retried /\ undisturbed]
        /\ blamed' = IF counted /\ undisturbed
                     THEN blamed \cup {[req |-> this.req, stale |-> this.req.ids \ report[c].held,
                                         nowhere |-> this.folder \notin folders]}
                     ELSE blamed
    BY DEF Settle
  <1>3. this \in Calls /\ report[c] \in Reports BY <1>1
  <1>4. call' \in [Callers -> Calls]
    <2>1. NoCall \in Calls BY <1>1, KindsAre DEF NoCall, Calls, Steps
    <2>2. ASSUME retried PROVE Attempt(this.req, this.try + 1) \in Calls
      <3>1. this.try + 1 \in 0 .. MaxAttempts BY <1>1, <1>3, <2>2 DEF Calls
      <3>2. this.req \in Requests /\ this.req.ids \in SUBSET Mail BY CurationAssumption
      <3> QED BY <3>1, <3>2, KindsAre DEF Attempt, First, NoCall, Calls, Steps
    <2> QED BY <1>1, <1>2, <2>1, <2>2
  <1>5. report' \in [Callers -> Reports]
    <2>1. [report[c] EXCEPT !.verdict = verdict, !.ok = IF verdict = "done" THEN ok ELSE {},
                            !.bad = bad, !.to = this.folder] \in Reports
      BY <1>3 DEF Reports, Calls
    <2> QED BY <1>1, <1>2, <2>1
  <1>6. fails' \in 0 .. TripAfter
    <2> DEFINE both == {fails + 1, TripAfter}
    <2>1. Min(both) \in both BY <1>1, MinIn
    <2>2. Min(both) <= TripAfter BY <1>1, MinIn
    <2> QED BY <1>1, <1>2, <2>1, <2>2
  <1>7. alone' \in [Callers -> BOOLEAN]
    <2>1. (retried /\ undisturbed) \in BOOLEAN
      OBVIOUS
    <2> HIDE DEF retried
    <2> QED BY <1>1, <1>2, <2>1
  <1>8. OnlyThat(c) BY <1>1, <1>2 DEF OnlyThat
  <1>9. Ended(c, verdict, ok, bad, undisturbed)
    <2>1. CASE retried BY <1>1, <1>2, <2>1 DEF Ended
    <2>2. CASE ~retried
      <3>1. call'[c] = NoCall /\ alone'[c] = FALSE BY <1>1, <1>2, <2>2
      <3>2. report'[c] = [report[c] EXCEPT !.verdict = verdict,
                            !.ok = IF verdict = "done" THEN ok ELSE {},
                            !.bad = bad, !.to = this.folder]
        BY <1>1, <1>2, <2>2
      <3>3. /\ report'[c].req = report[c].req /\ report'[c].to = this.folder
            /\ report'[c].ok = (IF verdict = "done" THEN ok ELSE {}) /\ report'[c].bad = bad
        BY <1>3, <3>2 DEF Reports
      <3> QED BY <1>2, <2>2, <3>1, <3>3 DEF Ended
    <2> QED BY <2>1, <2>2
  <1> QED BY <1>4, <1>5, <1>6, <1>7, <1>8, <1>9 DEF Pipeline

\* What an attempt that goes on leaves.
LEMMA ProceedIs ==
  ASSUME NEW c \in Callers, TypeOK, NEW next \in Calls, Proceed(c, next)
  PROVE  /\ Pipeline' /\ OnlyThat(c)
         /\ call'[c] = next /\ report' = report /\ alone' = alone /\ blamed' = blamed
  BY DEF TypeOK, Proceed, Pipeline, OnlyThat

\* A refusal is an end without a message done.
LEMMA RefuseIs ==
  ASSUME NEW c \in Callers, TypeOK, Sound(c), Running(c),
         NEW verdict \in Verdicts, Refuse(c, verdict)
  PROVE  /\ Pipeline' /\ OnlyThat(c)
         /\ Ended(c, verdict, {}, IF verdict = "badid" THEN call[c].req.ids ELSE {}, alone[c])
  <1>1. call[c].req \in Requests /\ call[c].req.ids \in SUBSET Mail BY CurationAssumption DEF Sound
  <1>2. alone[c] \in BOOLEAN BY DEF TypeOK
  <1>3. (IF verdict = "badid" THEN call[c].req.ids ELSE {}) \in SUBSET Mail BY <1>1
  <1> QED BY <1>1, <1>2, <1>3, SettleIs DEF Refuse

\* A success answers what was worked on.
LEMMA DoneIs ==
  ASSUME NEW c \in Callers, TypeOK, Sound(c), Running(c), Done(c)
  PROVE  /\ Pipeline' /\ OnlyThat(c)
         /\ Ended(c, "done", call[c].work, call[c].bad, alone[c])
  <1>1. call[c].req \in Requests BY DEF Sound
  <1>2. alone[c] \in BOOLEAN /\ call[c].work \in SUBSET Mail /\ call[c].bad \in SUBSET Mail
    BY DEF TypeOK, Calls
  <1>3. "done" \in Verdicts BY DEF Verdicts
  <1> QED BY <1>1, <1>2, <1>3, SettleIs DEF Done

\* A batch that finds nothing is answered.
LEMMA NothingFoundIs ==
  ASSUME NEW c \in Callers, TypeOK, Sound(c), Running(c),
         Settle(c, "done", {}, call[c].work, alone[c])
  PROVE  Pipeline' /\ OnlyThat(c) /\ Ended(c, "done", {}, call[c].work, alone[c])
  <1>1. call[c].req \in Requests BY DEF Sound
  <1>2. alone[c] \in BOOLEAN /\ call[c].work \in SUBSET Mail /\ {} \in SUBSET Mail
    BY DEF TypeOK, Calls
  <1>3. "done" \in Verdicts BY DEF Verdicts
  <1> QED BY <1>1, <1>2, <1>3, SettleIs

\* A COPY is carried out, or refused for want of the folder or of room.
CopyDone(c) ==
  LET copied == call[c].work \cap source IN
  /\ call[c].folder \in folders
  /\ Arriving(call[c].folder, {Copy(m, c) : m \in copied})
  /\ Proceed(c, [call[c] EXCEPT !.sent = copied, !.pc = "flag"])
  /\ UNCHANGED <<adrift, mishaps>>

CopyRefused(c, full) ==
  /\ full => mishaps < MaxMishaps
  /\ full \/ call[c].folder \notin folders
  /\ Settle(c, "fault", {}, {}, alone[c] /\ ~full)
  /\ Abandon(c, "flag", FALSE)
  /\ mishaps' = IF full THEN mishaps + 1 ELSE mishaps
  /\ UNCHANGED <<filed, late>>

LEMMA CopyOutcomes ==
  ASSUME NEW c, CopyMessages(c)
  PROVE  /\ At(c, "copy") /\ Running(c)
         /\ UNCHANGED <<mode, folders, source, flagged, seen, started, others,
                        taken, destroyed, forsaken, orphaned>>
         /\ CopyDone(c) \/ \E full \in BOOLEAN : CopyRefused(c, full)
  BY DEF CopyMessages, CopyDone, CopyRefused, At, Running

\* What a fallback move leaves at the server.
LEMMA AbandonIs ==
  ASSUME NEW c \in Callers, TypeOK, NEW next \in {"flag", "expunge"}, NEW copied \in BOOLEAN,
         Abandon(c, next, copied)
  PROVE  /\ adrift' \in SUBSET Sent
         /\ \A a \in adrift' \ adrift :
              a.next = next /\ a.copied = copied /\ a.uids = call[c].work
  <1> DEFINE sent == [by |-> c, try |-> call[c].try, uids |-> call[c].work,
                      next |-> next, copied |-> copied]
  <1>1. adrift' = adrift \cup {sent} BY DEF Abandon
  <1>2. sent \in Sent BY DEF TypeOK, Calls, Sent
  <1>3. adrift \subseteq Sent BY DEF TypeOK
  <1>4. sent.next = next /\ sent.copied = copied /\ sent.uids = call[c].work
    OBVIOUS
  <1> HIDE DEF sent
  <1> QED BY <1>1, <1>2, <1>3, <1>4

\* A refused COPY ends the attempt, with the rest of the move at the server.
LEMMA CopyRefusedIs ==
  ASSUME NEW c \in Callers, TypeOK, Sound(c), Running(c), NEW full \in BOOLEAN,
         CopyRefused(c, full)
  PROVE  /\ Pipeline' /\ OnlyThat(c) /\ adrift' \in SUBSET Sent
         /\ Ended(c, "fault", {}, {}, alone[c] /\ ~full)
         /\ mishaps' \in 0 .. MaxMishaps
         /\ \A a \in adrift' \ adrift : ~a.copied
  <1> DEFINE undisturbed == alone[c] /\ ~full
  <1>1. /\ call[c].req \in Requests /\ "fault" \in Verdicts /\ {} \in SUBSET Mail
        /\ undisturbed \in BOOLEAN
    BY DEF TypeOK, Sound, Verdicts
  <1>2. Settle(c, "fault", {}, {}, undisturbed) /\ Abandon(c, "flag", FALSE)
    BY DEF CopyRefused
  <1> HIDE DEF undisturbed
  <1>3. Pipeline' /\ OnlyThat(c) /\ Ended(c, "fault", {}, {}, undisturbed)
    BY <1>1, <1>2, SettleIs
  <1>4. FALSE \in BOOLEAN /\ "flag" \in {"flag", "expunge"}
    OBVIOUS
  <1>5. adrift' \in SUBSET Sent /\ \A a \in adrift' \ adrift : ~a.copied
    BY <1>2, <1>4, AbandonIs
  <1>6. mishaps' \in 0 .. MaxMishaps BY CurationAssumption DEF CopyRefused, TypeOK
  <1> QED BY <1>3, <1>5, <1>6 DEF undisturbed

\* The call goes on as it was asked, with what it had.
Kept(c, next) ==
  /\ next.req = call[c].req /\ next.try = call[c].try
  /\ next.work = call[c].work /\ next.sent = call[c].sent /\ next.bad = call[c].bad

\* The command that moves mail into a folder.
Route(folder) ==
  IF folder = Inbox THEN "same" ELSE IF mode = "move" THEN "mids"
  ELSE IF mode = "uidplus" THEN "copy" ELSE "move"

\* What LIST and NAMESPACE settle, by operation.
Settled(c, next) ==
  LET op == call[c].req.op
      override == Targets[TargetOf(op)].override
  IN  \/ /\ op \in Curates /\ next.pc = "create" /\ override = <<>>
         /\ next.folder \notin folders
      \/ /\ op \in Curates /\ next.pc = "locate"
         /\ IF override = <<>> THEN next.folder \in folders ELSE next.folder = override
      \/ op = "moveMany" /\ next.pc = "locate" /\ next.folder \in folders
      \/ op = "move" /\ next.pc = Route(next.folder) /\ next.folder \in folders
      \/ op = "create" /\ next.pc = "create"
      \/ /\ op = "drop" /\ next.pc = "count" /\ next.folder \in folders
         /\ ~next.misled => \A kind \in Kinds : Top(kind, Prefix, folders) # next.folder

\* An attempt that resolves its folder is refused, finds it made already, or goes on.
LEMMA ResolveIs ==
  ASSUME NEW c \in Callers, TypeOK, Sound(c), Resolve(c)
  PROVE  \/ \E verdict \in {"badfolder", "protected", "notempty"} : Refuse(c, verdict)
         \/ call[c].req.op = "create" /\ Done(c)
         \/ \E next \in Calls : Proceed(c, next) /\ Kept(c, next) /\ Settled(c, next)
  <1> DEFINE this == call[c]
             op == call[c].req.op
  <1>1. this \in Calls /\ this.req \in Requests
    BY DEF TypeOK, Sound, Resolve, At, Running
  <1>2. PICK refused \in BOOLEAN :
             \/ ResolveCuration(c, personalPrefix(refused), refused)
             \/ ResolveMove(c, personalPrefix(refused), refused)
             \/ ResolveNew(c, personalPrefix(refused), refused)
             \/ ResolveDrop(c, personalPrefix(refused), refused)
    BY DEF Resolve
  <1>3. PICK prefix \in Roots :
             /\ ~refused => prefix = Prefix
             /\ \/ ResolveCuration(c, prefix, refused) \/ ResolveMove(c, prefix, refused)
                \/ ResolveNew(c, prefix, refused) \/ ResolveDrop(c, prefix, refused)
    BY <1>2, KindsAre
  <1> DEFINE full == namespaceFolder(prefix, this.req.dest)
  <1>4. full \in Names BY <1>1, NamesAssumption DEF Roots
  <1>5. CASE ResolveCuration(c, prefix, refused)
    <2> DEFINE kind == TargetOf(op)
               to == Destination(kind, prefix)
               next == [this EXCEPT !.folder = to.folder, !.misled = refused,
                          !.pc = IF to.route = "create" THEN "create" ELSE "locate"]
    <2>1. op \in Curates /\ Proceed(c, next) BY <1>5 DEF ResolveCuration
    <2>2. kind \in Kinds /\ to = Choice(kind, prefix, folders) BY KindsAre
    <2>3. /\ to.folder \in Names
          /\ to.route = "create" => to.folder \notin folders
          /\ to.route # "create" =>
               \/ to.folder \in folders
               \/ to.folder = Targets[kind].override /\ to.folder # <<>>
          /\ Targets[kind].override # <<>> =>
               to.folder = Targets[kind].override /\ to.route # "create"
      BY <2>2, ChoiceNamed
    <2> HIDE DEF to
    <2>4. /\ next \in Calls /\ Kept(c, next) /\ next.folder = to.folder
          /\ next.pc = IF to.route = "create" THEN "create" ELSE "locate"
      BY <1>1, <2>3 DEF Calls, Steps, Kept
    <2> HIDE DEF next, this
    <2>5. Settled(c, next) BY <2>1, <2>3, <2>4 DEF Settled
    <2> QED BY <2>1, <2>4, <2>5
  <1>6. CASE ResolveMove(c, prefix, refused)
    <2> DEFINE moved == [this EXCEPT !.folder = full, !.misled = refused]
               next == [moved EXCEPT !.pc = IF op = "move" THEN AfterLocating(moved) ELSE "locate"]
    <2>1. op \in Moves /\ IF full \notin folders THEN Refuse(c, "badfolder") ELSE Proceed(c, next)
      BY <1>6 DEF ResolveMove
    <2>2. AfterLocating(moved) = Route(full) BY <1>1 DEF AfterLocating, Route, Calls
    <2>3. Route(full) \in Steps BY DEF Route, Steps
    <2>4. /\ next \in Calls /\ Kept(c, next) /\ next.folder = full
          /\ next.pc = IF op = "move" THEN Route(full) ELSE "locate"
      <3> HIDE DEF full
      <3> QED BY <1>1, <1>4, <2>2, <2>3 DEF Calls, Steps, Kept
    <2>5. full \in folders => Settled(c, next)
      <3> HIDE DEF next, this, full
      <3> QED BY <2>1, <2>4 DEF Settled, Moves
    <2> QED BY <2>1, <2>4, <2>5
  <1>7. CASE ResolveNew(c, prefix, refused)
    <2> DEFINE next == [this EXCEPT !.folder = full, !.pc = "create", !.misled = refused]
    <2>1. op = "create" /\ IF full \in folders THEN Done(c) ELSE Proceed(c, next)
      BY <1>7 DEF ResolveNew
    <2>2. next \in Calls /\ Kept(c, next) /\ next.pc = "create"
      <3> HIDE DEF full
      <3> QED BY <1>1, <1>4 DEF Calls, Steps, Kept
    <2>3. Settled(c, next)
      <3> HIDE DEF next, this
      <3> QED BY <2>1, <2>2 DEF Settled
    <2> QED BY <2>1, <2>2, <2>3
  <1>8. CASE ResolveDrop(c, prefix, refused)
    <2> DEFINE next == [this EXCEPT !.folder = full, !.pc = "count", !.misled = refused]
    <2>1. /\ op = "drop"
          /\ \/ Refuse(c, "badfolder") \/ Refuse(c, "protected") \/ Refuse(c, "notempty")
             \/ /\ full \in folders /\ CheckFolderDeletable(full, Plan(prefix))
                /\ Proceed(c, next)
      BY <1>8 DEF ResolveDrop
    <2>2. /\ next \in Calls /\ Kept(c, next) /\ next.pc = "count" /\ next.folder = full
          /\ next.misled = refused
      <3> HIDE DEF full
      <3> QED BY <1>1, <1>4 DEF Calls, Steps, Kept
    <2>3. ASSUME CheckFolderDeletable(full, Plan(prefix)), NEW kind \in Kinds
          PROVE  Top(kind, prefix, folders) # full
      <3>1. Plan(prefix) = [k \in Kinds |-> Destination(k, prefix)] BY KindsAre DEF Plan
      <3>2. Plan(prefix)[kind].folder # full BY <2>3, <3>1 DEF CheckFolderDeletable
      <3> HIDE DEF full
      <3> QED BY <3>1, <3>2, KindsAre DEF Top
    <2>4. ASSUME full \in folders, CheckFolderDeletable(full, Plan(prefix))
          PROVE  Settled(c, next)
      <3>1. ~refused => \A kind \in Kinds : Top(kind, Prefix, folders) # full
        BY <1>3, <2>3, <2>4
      <3> HIDE DEF next, this, full
      <3> QED BY <2>1, <2>2, <2>4, <3>1 DEF Settled
    <2> QED BY <2>1, <2>2, <2>4
  <1> QED BY <1>3, <1>5, <1>6, <1>7, <1>8

-----------------------------------------------------------------------------
(* Every variable keeps its shape.                                          *)

\* The state of the server, the counters and the history.
Surroundings ==
  /\ mode \in Modes /\ folders \subseteq Names /\ source \subseteq Mail
  /\ filed \in [Names -> SUBSET Copies]
  /\ flagged \subseteq source /\ adrift \subseteq Sent /\ seen \subseteq Mail
  /\ started \in 0 .. MaxCalls /\ mishaps \in 0 .. MaxMishaps /\ others \in 0 .. MaxOthers
  /\ taken \subseteq Messages
  /\ late \subseteq Copies /\ destroyed \subseteq Copies /\ forsaken \subseteq Mail
  /\ orphaned \subseteq DOMAIN Targets

LEMMA TypeParts == TypeOK <=> Surroundings /\ Pipeline
  BY DEF TypeOK, Surroundings, Pipeline

LEMMA TypePartsNext == TypeOK' <=> Surroundings' /\ Pipeline'
  BY DEF TypeOK, Surroundings, Pipeline

\* A copy is named after the message, the call and the attempt.
LEMMA CopyIs ==
  ASSUME NEW c \in Callers, TypeOK
  PROVE  \A m \in Mail : Copy(m, c) \in Copies /\ Copy(m, c).msg = m
  BY DEF TypeOK, Calls, Copy, Copies, Messages

\* What arrives in a folder adds to it, and is late when the folder was counted.
LEMMA ArrivingIs ==
  ASSUME TypeOK, NEW name \in Names, NEW copies \in SUBSET Copies, Arriving(name, copies)
  PROVE  /\ filed' \in [Names -> SUBSET Copies] /\ late' \in SUBSET Copies
         /\ late \subseteq late' /\ \A n \in Names : filed[n] \subseteq filed'[n]
         /\ filed'[name] = filed[name] \cup copies
         /\ \A n \in Names \ {name} : filed'[n] = filed[n]
         /\ (\E x \in Callers : At(x, "remove") /\ call[x].folder = name) => copies \subseteq late'
  BY DEF TypeOK, Arriving

\* What a call moves or copies arrives.
LEMMA CopiesArrive ==
  ASSUME NEW c \in Callers, TypeOK, NEW S \in SUBSET Mail,
         Arriving(call[c].folder, {Copy(m, c) : m \in S})
  PROVE  /\ filed' \in [Names -> SUBSET Copies] /\ late' \in SUBSET Copies
         /\ late \subseteq late' /\ \A n \in Names : filed[n] \subseteq filed'[n]
         /\ \A m \in S : Copy(m, c) \in filed'[call[c].folder]
         /\ \A n \in Names \ {call[c].folder} : filed'[n] = filed[n]
         /\ \A x \in Callers : At(x, "remove") =>
              filed'[call[x].folder] \subseteq filed[call[x].folder] \cup late'
  <1> DEFINE copies == {Copy(m, c) : m \in S}
             name == call[c].folder
  <1>1. name \in Names /\ \A x \in Callers : call[x].folder \in Names BY DEF TypeOK, Calls
  <1>2. copies \in SUBSET Copies BY CopyIs
  <1>3. \A m \in S : Copy(m, c) \in copies
    OBVIOUS
  <1> HIDE DEF copies, name
  <1>4. Arriving(name, copies) BY DEF copies, name
  <1>5. /\ filed' \in [Names -> SUBSET Copies] /\ late' \in SUBSET Copies
        /\ late \subseteq late' /\ \A n \in Names : filed[n] \subseteq filed'[n]
        /\ filed'[name] = filed[name] \cup copies
        /\ \A n \in Names \ {name} : filed'[n] = filed[n]
        /\ (\E x \in Callers : At(x, "remove") /\ call[x].folder = name) => copies \subseteq late'
    BY <1>1, <1>2, <1>4, ArrivingIs
  <1>6. ASSUME NEW x \in Callers, At(x, "remove")
        PROVE  filed'[call[x].folder] \subseteq filed[call[x].folder] \cup late'
    BY <1>1, <1>5, <1>6
  <1> QED BY <1>3, <1>5, <1>6 DEF name

LEMMA TypeInit == Init => TypeOK
  <1> SUFFICES ASSUME Init PROVE TypeOK
    OBVIOUS
  <1> USE DEF Init
  <1>1. folders \subseteq Names BY CurationAssumption
  <1>2. NoCall \in Calls BY KindsAre, CurationAssumption DEF NoCall, Calls, Steps
  <1>3. NoReport \in Reports BY KindsAre DEF NoReport, Reports, Verdicts
  <1>4. Surroundings BY <1>1, CurationAssumption DEF Surroundings
  <1>5. Pipeline BY <1>2, <1>3, CurationAssumption DEF Pipeline
  <1> QED BY <1>4, <1>5, TypeParts

\* A step of a call.
LEMMA TypeStep ==
  ASSUME NEW c \in Callers, TypeOK, Sound(c), Step(c)
  PROVE  TypeOK'
  <1> USE CurationAssumption
  <1>1. Surroundings /\ Pipeline BY TypeParts
  <1>2. call[c] \in Calls /\ alone[c] \in BOOLEAN BY DEF TypeOK
  <1>3. CASE Start(c)
    <2>1. PICK req \in Requests :
             /\ call' = [call EXCEPT ![c] = Attempt(req, 1)]
             /\ report' = [report EXCEPT ![c] = [NoReport EXCEPT !.req = req,
                                                                 !.held = req.ids \cap source]]
      BY <1>3 DEF Start
    <2>2. req.ids \in SUBSET Mail
      OBVIOUS
    <2>3. Attempt(req, 1) \in Calls
      <3>1. 1 \in 0 .. MaxAttempts
        OBVIOUS
      <3> QED BY <2>2, <3>1, KindsAre DEF Attempt, First, NoCall, Calls, Steps
    <2>4. [NoReport EXCEPT !.req = req, !.held = req.ids \cap source] \in Reports
      BY <2>2, KindsAre DEF NoReport, Reports, Verdicts
    <2>5. /\ call' \in [Callers -> Calls] /\ report' \in [Callers -> Reports]
      BY <1>1, <2>1, <2>3, <2>4 DEF Pipeline
    <2>6. alone' \in [Callers -> BOOLEAN] BY <1>3 DEF Start
    <2>7. Pipeline' BY <1>1, <1>3, <2>5, <2>6 DEF Pipeline, Start
    <2>8. Surroundings' BY <1>1, <1>3 DEF Surroundings, Start, server
    <2> QED BY <2>7, <2>8, TypePartsNext
  <1>4. CASE FastFail(c)
    <2>1. [NoReport EXCEPT !.verdict = "open"] \in Reports
      BY KindsAre DEF NoReport, Reports, Verdicts
    <2>2. Pipeline' BY <1>1, <1>4, <2>1 DEF Pipeline, FastFail, history
    <2>3. Surroundings' BY <1>1, <1>4 DEF Surroundings, FastFail, server, history
    <2> QED BY <2>2, <2>3, TypePartsNext
  <1>5. CASE Resolve(c)
    <2>1. Running(c) BY <1>5 DEF Resolve, At, Running
    <2>2. {"badfolder", "protected", "notempty"} \subseteq Verdicts BY DEF Verdicts
    <2>3. Pipeline' BY <1>5, <2>1, <2>2, ResolveIs, RefuseIs, DoneIs, ProceedIs
    <2>4. Surroundings' BY <1>1, <1>5 DEF Surroundings, Resolve, server
    <2> QED BY <2>3, <2>4, TypePartsNext
  <1>6. CASE Create(c)
    <2> DEFINE next == [call[c] EXCEPT !.pc = "locate"]
    <2>1. Running(c) /\ "fault" \in Verdicts BY <1>6 DEF Create, At, Running, Verdicts
    <2>2. next \in Calls BY <1>2 DEF Calls, Steps
    <2>3. Done(c) \/ Refuse(c, "fault") \/ Proceed(c, next) BY <1>6 DEF Create
    <2> HIDE DEF next
    <2>4. Pipeline' BY <2>1, <2>2, <2>3, RefuseIs, DoneIs, ProceedIs
    <2>5. Surroundings' BY <1>1, <1>2, <1>6 DEF Surroundings, Create, counters, Calls
    <2> QED BY <2>4, <2>5, TypePartsNext
  <1>7. CASE locateMany(c)
    <2> DEFINE this == call[c]
               present == this.work \cap source
               pc == IF this.req.op \in Seens THEN "store" ELSE AfterLocating(this)
               next == [this EXCEPT !.work = present, !.bad = this.work \ present, !.pc = pc]
    <2>1. Running(c) /\ "badid" \in Verdicts /\ "done" \in Verdicts
      BY <1>7 DEF locateMany, At, Running, Verdicts
    <2>2. this.work \in SUBSET Mail BY <1>2 DEF Calls
    <2>3. pc \in Steps BY DEF AfterLocating, Steps
    <2>4. next \in Calls
      <3> HIDE DEF pc
      <3> QED BY <1>2, <2>2, <2>3 DEF Calls
    <2>5. Refuse(c, "badid") \/ Settle(c, "done", {}, this.work, alone[c]) \/ Proceed(c, next)
      BY <1>7 DEF locateMany
    <2> HIDE DEF next
    <2> HIDE DEF present, pc
    <2>6. Pipeline' BY <2>1, <2>4, <2>5, RefuseIs, NothingFoundIs, ProceedIs
    <2>7. Surroundings' BY <1>1, <1>7 DEF Surroundings, locateMany, server, counters
    <2> QED BY <2>6, <2>7, TypePartsNext
  <1>8. CASE storeSeen(c)
    <2>1. Running(c) BY <1>8 DEF storeSeen, At, Running
    <2>2. Pipeline' BY <1>8, <2>1, DoneIs DEF storeSeen
    <2>3. Surroundings' BY <1>1, <1>8 DEF Surroundings, storeSeen, counters
    <2> QED BY <2>2, <2>3, TypePartsNext
  <1>9. CASE AlreadyThere(c)
    <2>1. Running(c) /\ "fault" \in Verdicts BY <1>9 DEF AlreadyThere, At, Running, Verdicts
    <2>2. Pipeline' BY <1>9, <2>1, DoneIs, RefuseIs DEF AlreadyThere
    <2>3. Surroundings' BY <1>1, <1>9 DEF Surroundings, AlreadyThere, server, counters
    <2> QED BY <2>2, <2>3, TypePartsNext
  <1>10. CASE fetchMessageIDs(c)
    <2>1. Running(c) /\ "fault" \in Verdicts BY <1>10 DEF fetchMessageIDs, At, Running, Verdicts
    <2>2. [call[c] EXCEPT !.pc = "move"] \in Calls BY <1>2 DEF Calls, Steps
    <2>3. Pipeline' BY <1>10, <2>1, <2>2, RefuseIs, ProceedIs DEF fetchMessageIDs
    <2>4. Surroundings' BY <1>1, <1>10 DEF Surroundings, fetchMessageIDs, server, counters
    <2> QED BY <2>3, <2>4, TypePartsNext
  <1>11. CASE MoveMessages(c)
    <2> DEFINE moved == call[c].work \cap source
               next == [call[c] EXCEPT !.sent = IF mode = "move" THEN {} ELSE moved,
                                       !.pc = "checkSource"]
    <2>1. Running(c) /\ "fault" \in Verdicts BY <1>11 DEF MoveMessages, At, Running, Verdicts
    <2>2. next \in Calls /\ moved \in SUBSET Mail BY <1>2 DEF Calls, Steps
    <2> HIDE DEF next
    <2>3. CASE Refuse(c, "fault") /\ UNCHANGED <<source, filed, flagged, late>>
      <3>1. Pipeline' BY <2>1, <2>3, RefuseIs
      <3>2. Surroundings' BY <1>1, <1>11, <2>3 DEF Surroundings, MoveMessages, counters
      <3> QED BY <3>1, <3>2, TypePartsNext
    <2>4. CASE /\ source' = source \ moved /\ flagged' = flagged \ moved
               /\ Arriving(call[c].folder, {Copy(m, c) : m \in moved}) /\ Proceed(c, next)
      <3>1. Pipeline' BY <2>2, <2>4, ProceedIs
      <3>2. filed' \in [Names -> SUBSET Copies] /\ late' \in SUBSET Copies
        BY <2>2, <2>4, CopiesArrive
      <3>3. Surroundings' BY <1>1, <1>11, <2>4, <3>2 DEF Surroundings, MoveMessages, counters
      <3> QED BY <3>1, <3>3, TypePartsNext
    <2> QED BY <1>11, <2>3, <2>4 DEF MoveMessages, next
  <1>12. CASE CopyMessages(c)
    <2> DEFINE copied == call[c].work \cap source
               next == [call[c] EXCEPT !.sent = copied, !.pc = "flag"]
    <2>1. /\ Running(c)
          /\ CopyDone(c) \/ \E full \in BOOLEAN : CopyRefused(c, full)
          /\ UNCHANGED <<mode, folders, source, flagged, seen, started, others,
                         taken, destroyed, forsaken, orphaned>>
      BY <1>12, CopyOutcomes
    <2>2. next \in Calls /\ copied \in SUBSET Mail BY <1>2 DEF Calls, Steps
    <2>3. ASSUME NEW full \in BOOLEAN, CopyRefused(c, full) PROVE TypeOK'
      <3>1. Pipeline' /\ adrift' \in SUBSET Sent /\ mishaps' \in 0 .. MaxMishaps
        BY <2>1, <2>3, CopyRefusedIs
      <3>2. UNCHANGED <<filed, late>> BY <2>3 DEF CopyRefused
      <3>3. Surroundings' BY <1>1, <2>1, <3>1, <3>2 DEF Surroundings
      <3> QED BY <3>1, <3>3, TypePartsNext
    <2>4. CASE CopyDone(c)
      <3>1. /\ Arriving(call[c].folder, {Copy(m, c) : m \in copied}) /\ Proceed(c, next)
            /\ UNCHANGED <<adrift, mishaps>>
        BY <2>4 DEF CopyDone
      <3> HIDE DEF next
      <3>2. Pipeline' BY <2>2, <3>1, ProceedIs
      <3>3. filed' \in [Names -> SUBSET Copies] /\ late' \in SUBSET Copies
        BY <2>2, <3>1, CopiesArrive
      <3>4. Surroundings' BY <1>1, <2>1, <3>1, <3>3 DEF Surroundings
      <3> QED BY <3>2, <3>4, TypePartsNext
    <2> QED BY <2>1, <2>3, <2>4
  <1>13. CASE FlagDeleted(c)
    <2>1. [call[c] EXCEPT !.pc = "expunge"] \in Calls BY <1>2 DEF Calls, Steps
    <2>2. Pipeline' BY <1>13, <2>1, ProceedIs DEF FlagDeleted
    <2>3. Surroundings' BY <1>1, <1>13 DEF Surroundings, FlagDeleted, counters
    <2> QED BY <2>2, <2>3, TypePartsNext
  <1>14. CASE ExpungeMoved(c)
    <2>1. [call[c] EXCEPT !.pc = "checkSource"] \in Calls BY <1>2 DEF Calls, Steps
    <2>2. Pipeline' BY <1>14, <2>1, ProceedIs DEF ExpungeMoved
    <2>3. Surroundings' BY <1>1, <1>14 DEF Surroundings, ExpungeMoved, counters
    <2> QED BY <2>2, <2>3, TypePartsNext
  <1>15. CASE VerifySource(c)
    <2>1. Running(c) /\ "fault" \in Verdicts BY <1>15 DEF VerifySource, At, Running, Verdicts
    <2>2. [call[c] EXCEPT !.pc = "checkDest"] \in Calls BY <1>2 DEF Calls, Steps
    <2>3. Pipeline' BY <1>15, <2>1, <2>2, RefuseIs, ProceedIs DEF VerifySource
    <2>4. Surroundings' BY <1>1, <1>15 DEF Surroundings, VerifySource, server, counters
    <2> QED BY <2>3, <2>4, TypePartsNext
  <1>16. CASE VerifyDestination(c)
    <2>1. Running(c) /\ "fault" \in Verdicts BY <1>16 DEF VerifyDestination, At, Running, Verdicts
    <2>2. Done(c) \/ Refuse(c, "fault") BY <1>16 DEF VerifyDestination
    <2>3. Pipeline' BY <2>1, <2>2, RefuseIs, DoneIs
    <2>4. Surroundings' BY <1>1, <1>16 DEF Surroundings, VerifyDestination, server, counters
    <2> QED BY <2>3, <2>4, TypePartsNext
  <1>17. CASE folderMessages(c)
    <2>1. Running(c) /\ {"fault", "notempty"} \subseteq Verdicts
      BY <1>17 DEF folderMessages, At, Running, Verdicts
    <2>2. [call[c] EXCEPT !.pc = "remove"] \in Calls BY <1>2 DEF Calls, Steps
    <2>3. \/ Refuse(c, "fault") \/ Refuse(c, "notempty")
          \/ Proceed(c, [call[c] EXCEPT !.pc = "remove"])
      BY <1>17 DEF folderMessages
    <2>4. Pipeline' BY <2>1, <2>2, <2>3, RefuseIs, ProceedIs
    <2>5. Surroundings' BY <1>1, <1>17 DEF Surroundings, folderMessages, server, counters
    <2> QED BY <2>4, <2>5, TypePartsNext
  <1>18. CASE DeleteMailbox(c)
    <2>1. Running(c) /\ "fault" \in Verdicts BY <1>18 DEF DeleteMailbox, At, Running, Verdicts
    <2>2. Done(c) \/ Refuse(c, "fault") BY <1>18 DEF DeleteMailbox
    <2>3. Pipeline' BY <2>1, <2>2, RefuseIs, DoneIs
    <2>4. Surroundings'
      <3>1. call[c].folder \in Names BY <1>2 DEF Calls
      <3>2. filed' \in [Names -> SUBSET Copies] /\ destroyed' \in SUBSET Copies
        BY <1>1, <1>18, <3>1 DEF Surroundings, DeleteMailbox
      <3>3. orphaned' \subseteq DOMAIN Targets BY <1>1, <1>18 DEF Surroundings, DeleteMailbox
      <3>4. folders' \subseteq Names BY <1>1, <1>18 DEF Surroundings, DeleteMailbox
      <3> QED BY <1>1, <1>18, <3>2, <3>3, <3>4 DEF Surroundings, DeleteMailbox, counters
    <2> QED BY <2>3, <2>4, TypePartsNext
  <1>19. ASSUME NEW verdict \in {"fault", "deadline", "canceled"}, Mishap(c, verdict)
         PROVE  TypeOK'
    <2>1. Running(c) /\ Settle(c, verdict, {}, {}, FALSE) BY <1>19 DEF Mishap
    <2>2. call[c].req \in Requests /\ verdict \in Verdicts BY <2>1 DEF Sound, Verdicts
    <2>3. Pipeline' BY <2>1, <2>2, SettleIs
    <2>4. adrift' \in SUBSET Sent
      <3>1. CASE UNCHANGED adrift BY <1>1, <3>1 DEF Surroundings
      <3>2. ASSUME NEW next \in {"flag", "expunge"}, Abandon(c, next, TRUE)
            PROVE  adrift' \in SUBSET Sent
        BY <3>2, AbandonIs
      <3> QED BY <1>19, <3>1, <3>2 DEF Mishap
    <2>5. Surroundings' BY <1>1, <1>19, <2>4 DEF Surroundings, Mishap
    <2> QED BY <2>3, <2>5, TypePartsNext
  <1> QED
    BY <1>3, <1>4, <1>5, <1>6, <1>7, <1>8, <1>9, <1>10, <1>11, <1>12, <1>13, <1>14, <1>15,
       <1>16, <1>17, <1>18, <1>19
    DEF Step, Fault, Deadline, Cancel

-----------------------------------------------------------------------------
(* Calls are at a step of their operation, and what is answered is true.    *)

\* What the last answer to c says of the inbox.
Truthful(c) ==
  LET r == report[c]
      gone == {m \in Mail : m \notin source}
  IN  /\ r.req.op \in Curates \cup Moves => r.ok \subseteq gone \/ r.to = Inbox
      /\ r.req.op \in Seens => r.ok \subseteq seen \cup gone
      /\ r.bad \subseteq gone

LEMMA TruthParts == ReportsAreTrue <=> \A c \in Callers : Truthful(c)
  BY DEF ReportsAreTrue, Truthful

\* The inbox never gets a UID back, and a mark stays while it does.
Shrinks == source' \subseteq source /\ seen \subseteq seen'

LEMMA StepShrinks ==
  ASSUME NEW c \in Callers, Step(c)
  PROVE  Shrinks /\ mode' = mode
  BY DEF Step, Start, FastFail, Resolve, Create, locateMany, storeSeen, AlreadyThere,
         fetchMessageIDs, MoveMessages, CopyMessages, FlagDeleted, ExpungeMoved,
         VerifySource, VerifyDestination, folderMessages, DeleteMailbox,
         Fault, Deadline, Cancel, Mishap, server, Shrinks

\* Going on, with an answer that stands.
LEMMA ProceedSound ==
  ASSUME NEW c \in Callers, TypeOK, TypeOK', Shrinks, report' = report, Truthful(c)
  PROVE  Truthful(c)'
  <1>1. source' \subseteq source /\ seen \subseteq seen' BY DEF Shrinks
  <1> QED BY <1>1 DEF Truthful

\* An end, with an answer that is true.
LEMMA EndedSound ==
  ASSUME NEW c \in Callers, TypeOK, TypeOK', Running(c), Sound(c), Truthful(c), Shrinks,
         NEW verdict, NEW ok \in SUBSET Mail, NEW bad \in SUBSET Mail, NEW u,
         Ended(c, verdict, ok, bad, u),
         verdict = "done" /\ call[c].req.op \in Curates \cup Moves =>
           ok \cap source' = {} \/ call[c].folder = Inbox,
         verdict = "done" /\ call[c].req.op \in Seens => ok \cap source' \subseteq seen',
         bad \cap source' = {}
  PROVE  Sound(c)' /\ Truthful(c)'
  <1>1. call[c].req \in Requests /\ report[c].req = call[c].req BY DEF Sound
  <1>2. source' \subseteq source /\ seen \subseteq seen' BY DEF Shrinks
  <1>3. CASE call'[c] = Attempt(call[c].req, call[c].try + 1) /\ report' = report
    <2>1. /\ call'[c].pc = First(call[c].req.op) /\ call'[c].req = call[c].req
          /\ call'[c].work = call[c].req.ids /\ call'[c].bad = {}
      BY <1>3 DEF Attempt, NoCall
    <2>2. Sound(c)' BY <1>1, <1>3, <2>1 DEF Sound, First, Moving
    <2> QED BY <1>3, <2>2, ProceedSound
  <1>4. CASE /\ call'[c] = NoCall
             /\ report'[c].req = report[c].req /\ report'[c].to = call[c].folder
             /\ report'[c].ok = (IF verdict = "done" THEN ok ELSE {}) /\ report'[c].bad = bad
    <2>1. /\ call'[c].pc = "idle" /\ call'[c].work = {} /\ call'[c].bad = {}
      BY <1>4 DEF NoCall
    <2>2. Sound(c)' BY <2>1 DEF Sound, Moving, Running
    <2>3. Truthful(c)' BY <1>1, <1>4 DEF Truthful
    <2> QED BY <2>2, <2>3
  <1> QED BY <1>3, <1>4 DEF Ended

\* A refusal other than for the messages says nothing of them.
LEMMA RefuseSound ==
  ASSUME NEW c \in Callers, TypeOK, TypeOK', Running(c), Sound(c), Truthful(c), Shrinks,
         NEW verdict \in Verdicts \ {"badid", "done"}, Refuse(c, verdict)
  PROVE  Sound(c)' /\ Truthful(c)'
  <1>1. Ended(c, verdict, {}, {}, alone[c]) BY RefuseIs
  <1>2. {} \in SUBSET Mail
    OBVIOUS
  <1> QED BY <1>1, <1>2, EndedSound

\* A success is true of what was worked on.
LEMMA DoneSound ==
  ASSUME NEW c \in Callers, TypeOK, TypeOK', Running(c), Sound(c), Truthful(c), Shrinks, Done(c),
         call[c].req.op \in Curates \cup Moves =>
           call[c].work \cap source' = {} \/ call[c].folder = Inbox,
         call[c].req.op \in Seens => call[c].work \cap source' \subseteq seen'
  PROVE  Sound(c)' /\ Truthful(c)'
  <1>1. Ended(c, "done", call[c].work, call[c].bad, alone[c]) BY DoneIs
  <1>2. call[c].work \in SUBSET Mail /\ call[c].bad \in SUBSET Mail BY DEF TypeOK, Calls
  <1>3. call[c].bad \cap source' = {} BY DEF Sound, Shrinks
  <1> QED BY <1>1, <1>2, <1>3, EndedSound

\* A step of c leaves what it answers true, and c at a step of its operation.
LEMMA OwnSound ==
  ASSUME NEW c \in Callers, TypeOK, TypeOK', Sound(c), Truthful(c), Step(c)
  PROVE  Sound(c)' /\ Truthful(c)'
  <1>1. Shrinks /\ source' \subseteq source BY StepShrinks DEF Shrinks
  <1>2. call[c] \in Calls /\ call[c].work \in SUBSET Mail BY DEF TypeOK, Calls
  <1>3. CASE Start(c)
    <2>1. PICK req \in Requests :
             /\ call' = [call EXCEPT ![c] = Attempt(req, 1)]
             /\ report' = [report EXCEPT ![c] = [NoReport EXCEPT !.req = req,
                                                                 !.held = req.ids \cap source]]
      BY <1>3 DEF Start
    <2>2. /\ call'[c] = Attempt(req, 1)
          /\ report'[c] = [NoReport EXCEPT !.req = req, !.held = req.ids \cap source]
      BY <2>1 DEF TypeOK
    <2>3. /\ call'[c].pc = First(req.op) /\ call'[c].req = req
          /\ call'[c].work = req.ids /\ call'[c].bad = {}
          /\ report'[c].req = req /\ report'[c].ok = {} /\ report'[c].bad = {}
      BY <2>2 DEF Attempt, NoCall, NoReport
    <2>4. Sound(c)' BY <2>3 DEF Sound, First, Moving
    <2>5. Truthful(c)' BY <2>3 DEF Truthful
    <2> QED BY <2>4, <2>5
  <1>4. CASE FastFail(c)
    <2>1. call' = call /\ report'[c] = [NoReport EXCEPT !.verdict = "open"] /\ source' = source
      BY <1>4 DEF FastFail, TypeOK, server
    <2>2. report'[c].ok = {} /\ report'[c].bad = {} BY <2>1 DEF NoReport
    <2>3. Sound(c)' BY <1>4, <2>1 DEF FastFail, Sound, Running, Moving
    <2>4. Truthful(c)' BY <2>2 DEF Truthful
    <2> QED BY <2>3, <2>4
  <1>5. CASE Resolve(c)
    <2>1. Running(c) /\ call[c].pc = "list" BY <1>5 DEF Resolve, At, Running
    <2>2. ASSUME NEW verdict \in {"badfolder", "protected", "notempty"}, Refuse(c, verdict)
          PROVE  Sound(c)' /\ Truthful(c)'
      <3>1. verdict \in Verdicts \ {"badid", "done"} BY <2>2 DEF Verdicts
      <3> QED BY <1>1, <2>1, <2>2, <3>1, RefuseSound
    <2>3. CASE call[c].req.op = "create" /\ Done(c)
      BY <1>1, <2>1, <2>3, DoneSound DEF Curates, Moves, Seens
    <2>4. ASSUME NEW next \in Calls, Proceed(c, next), Kept(c, next), Settled(c, next)
          PROVE  Sound(c)' /\ Truthful(c)'
      <3>1. call'[c] = next /\ report' = report BY <2>4, ProceedIs
      <3>2. Sound(c)'
        <4>1. /\ next.req = call[c].req /\ next.work = next.req.ids
              /\ next.bad = call[c].bad /\ next.req \in Requests /\ report[c].req = next.req
          BY <2>1, <2>4 DEF Kept, Sound
        <4>2. /\ next.pc \in {"create", "locate", "same", "mids", "copy", "move", "count"}
              /\ next.pc = "create" => next.req.op \in Curates \cup {"create"}
              /\ next.pc = "locate" => next.req.op \in Curates \cup Moves
              /\ next.pc \in Moving => next.req.op \in Moves
              /\ next.pc = "same" => next.folder = Inbox
              /\ next.pc = "count" => next.req.op = "drop"
          BY <2>4, <4>1 DEF Settled, Route, Curates, Moves, Moving
        <4>3. next.bad \cap source' = {} BY <1>1, <4>1 DEF Sound
        <4> QED BY <3>1, <4>1, <4>2, <4>3 DEF Sound
      <3> QED BY <1>1, <3>1, <3>2, ProceedSound
    <2> QED BY <1>5, <2>2, <2>3, <2>4, ResolveIs
  <1>6. CASE Create(c)
    <2> DEFINE next == [call[c] EXCEPT !.pc = "locate"]
    <2>1. Running(c) /\ call[c].pc = "create" BY <1>6 DEF Create, At, Running
    <2>2. \/ call[c].req.op = "create" /\ Done(c)
          \/ Refuse(c, "fault")
          \/ call[c].req.op # "create" /\ Proceed(c, next)
      BY <1>6 DEF Create
    <2>3. CASE call[c].req.op = "create" /\ Done(c)
      BY <1>1, <2>1, <2>3, DoneSound DEF Curates, Moves, Seens
    <2>4. CASE Refuse(c, "fault")
      <3>1. "fault" \in Verdicts \ {"badid", "done"} BY DEF Verdicts
      <3> QED BY <1>1, <2>1, <2>4, <3>1, RefuseSound
    <2>5. CASE call[c].req.op # "create" /\ Proceed(c, next)
      <3>1. next \in Calls BY <1>2 DEF Calls, Steps
      <3>2. call'[c] = next /\ report' = report BY <2>5, <3>1, ProceedIs
      <3>3. Sound(c)' BY <1>1, <1>2, <2>1, <2>5, <3>2 DEF Sound, Moving, Calls
      <3> QED BY <1>1, <3>2, <3>3, ProceedSound
    <2> QED BY <2>2, <2>3, <2>4, <2>5
  <1>7. CASE locateMany(c)
    <2> DEFINE this == call[c]
               present == this.work \cap source
               pc == IF this.req.op \in Seens THEN "store" ELSE AfterLocating(this)
               next == [this EXCEPT !.work = present, !.bad = this.work \ present, !.pc = pc]
    <2>1. Running(c) /\ this.pc = "locate" /\ source' = source /\ this.work = this.req.ids
      BY <1>7 DEF locateMany, At, Running, server, Sound
    <2>2. \/ present = {} /\ Refuse(c, "badid")
          \/ present = {} /\ Settle(c, "done", {}, this.work, alone[c])
          \/ Proceed(c, next)
      BY <1>7 DEF locateMany
    <2>3. {} \in SUBSET Mail /\ "badid" \in Verdicts BY DEF Verdicts
    <2>4. CASE present = {} /\ Refuse(c, "badid")
      <3>1. Ended(c, "badid", {}, this.req.ids, alone[c]) BY <2>1, <2>3, <2>4, RefuseIs
      <3> QED BY <1>1, <1>2, <2>1, <2>3, <2>4, <3>1, EndedSound
    <2>5. CASE present = {} /\ Settle(c, "done", {}, this.work, alone[c])
      <3>1. Ended(c, "done", {}, this.work, alone[c]) BY <2>1, <2>5, NothingFoundIs
      <3>2. this.work \cap source' = {} /\ {} \cap source' = {} BY <2>1, <2>5
      <3> QED BY <1>1, <1>2, <2>1, <2>3, <3>1, <3>2, EndedSound
    <2>6. CASE Proceed(c, next)
      <3>1. pc \in Steps BY DEF AfterLocating, Steps
      <3>2. next \in Calls /\ next.pc = pc /\ next.work = present /\ next.req = this.req
            /\ next.bad = this.work \ present /\ next.folder = this.folder
        <4> HIDE DEF pc
        <4> QED BY <1>2, <3>1 DEF Calls
      <3>3. call'[c] = next /\ report' = report BY <2>6, <3>2, ProceedIs
      <3>4. /\ pc \in {"store", "same", "mids", "copy", "move"}
            /\ pc = "store" => this.req.op \in Seens
            /\ pc # "store" => this.req.op \in Curates \cup Moves
            /\ pc = "same" => this.folder = Inbox
        BY <2>1 DEF AfterLocating, Sound
      <3>5. this.req \in Requests /\ report[c].req = this.req BY <2>1 DEF Sound
      <3>6. next.work \subseteq next.req.ids /\ next.bad \cap source' = {} BY <2>1, <3>2
      <3>7. Sound(c)'
        <4> HIDE DEF pc, next, this
        <4> QED BY <3>2, <3>3, <3>4, <3>5, <3>6 DEF Sound, Moving, this
      <3> QED BY <1>1, <3>3, <3>7, ProceedSound
    <2> QED BY <2>2, <2>4, <2>5, <2>6
  <1>8. CASE storeSeen(c)
    <2>1. Running(c) /\ Done(c) /\ call[c].req.op \in Seens
      BY <1>8 DEF storeSeen, At, Running, Sound
    <2>2. source' = source /\ seen' = seen \cup (call[c].work \cap source) BY <1>8 DEF storeSeen
    <2>3. call[c].req.op \notin Curates \cup Moves BY <2>1 DEF Seens, Curates, Moves
    <2> QED BY <1>1, <2>1, <2>2, <2>3, DoneSound
  <1>9. CASE AlreadyThere(c)
    <2>1. /\ Running(c) /\ call[c].folder = Inbox /\ call[c].req.op \in Curates \cup Moves
          /\ "fault" \in Verdicts \ {"badid", "done"}
      BY <1>9 DEF AlreadyThere, At, Running, Sound, Moving, Verdicts
    <2>2. call[c].req.op \notin Seens BY <2>1 DEF Seens, Curates, Moves
    <2>3. Done(c) \/ Refuse(c, "fault") BY <1>9 DEF AlreadyThere
    <2> QED BY <1>1, <2>1, <2>2, <2>3, DoneSound, RefuseSound
  <1>10. ASSUME "fault" \in Verdicts \ {"badid", "done"}, Running(c), Refuse(c, "fault")
         PROVE  Sound(c)' /\ Truthful(c)'
    BY <1>1, <1>10, RefuseSound
  <1>11. ASSUME NEW pc \in Moving \ {"same"}, NEW next \in Calls, Proceed(c, next),
                call[c].pc \in Moving, next.pc = pc, next.req = call[c].req,
                next.work = call[c].work, next.bad = call[c].bad,
                pc = "checkDest" => next.work \cap source' = {}
         PROVE  Sound(c)' /\ Truthful(c)'
    <2>1. call'[c] = next /\ report' = report BY <1>11, ProceedIs
    <2>2. /\ next.req \in Requests /\ report[c].req = next.req
          /\ next.req.op \in Curates \cup Moves
          /\ next.work \subseteq next.req.ids /\ next.bad \cap source' = {}
      BY <1>1, <1>11 DEF Sound, Moving, Running
    <2>3. Sound(c)' BY <1>11, <2>1, <2>2 DEF Sound, Moving
    <2> QED BY <1>1, <2>1, <2>3, ProceedSound
  <1>12. "fault" \in Verdicts \ {"badid", "done"} /\ "notempty" \in Verdicts \ {"badid", "done"}
    BY DEF Verdicts
  <1>13. CASE fetchMessageIDs(c)
    <2> DEFINE next == [call[c] EXCEPT !.pc = "move"]
    <2>1. Running(c) /\ call[c].pc \in Moving BY <1>13 DEF fetchMessageIDs, At, Running, Moving
    <2>2. /\ next \in Calls /\ next.pc = "move" /\ next.req = call[c].req
          /\ next.work = call[c].work /\ next.bad = call[c].bad
      BY <1>2 DEF Calls, Steps
    <2>3. Refuse(c, "fault") \/ Proceed(c, next) BY <1>13 DEF fetchMessageIDs
    <2>4. "move" \in Moving \ {"same"} BY DEF Moving
    <2> HIDE DEF next
    <2> QED BY <1>10, <1>11, <1>12, <2>1, <2>2, <2>3, <2>4
  <1>14. CASE MoveMessages(c)
    <2> DEFINE next == [call[c] EXCEPT !.sent = IF mode = "move" THEN {} ELSE call[c].work \cap source,
                                       !.pc = "checkSource"]
    <2>1. Running(c) /\ call[c].pc \in Moving BY <1>14 DEF MoveMessages, At, Running, Moving
    <2>2. /\ next \in Calls /\ next.pc = "checkSource" /\ next.req = call[c].req
          /\ next.work = call[c].work /\ next.bad = call[c].bad
      BY <1>2 DEF Calls, Steps
    <2>3. Refuse(c, "fault") \/ Proceed(c, next) BY <1>14 DEF MoveMessages
    <2>4. "checkSource" \in Moving \ {"same"} BY DEF Moving
    <2> HIDE DEF next
    <2> QED BY <1>10, <1>11, <1>12, <2>1, <2>2, <2>3, <2>4
  <1>15. CASE CopyMessages(c)
    <2> DEFINE next == [call[c] EXCEPT !.sent = call[c].work \cap source, !.pc = "flag"]
    <2>1. /\ Running(c) /\ call[c].pc \in Moving
          /\ CopyDone(c) \/ \E full \in BOOLEAN : CopyRefused(c, full)
      BY <1>15, CopyOutcomes DEF At, Moving
    <2>2. /\ next \in Calls /\ next.pc = "flag" /\ next.req = call[c].req
          /\ next.work = call[c].work /\ next.bad = call[c].bad
      BY <1>2 DEF Calls, Steps
    <2>3. "flag" \in Moving \ {"same"} BY DEF Moving
    <2>4. CASE CopyDone(c)
      <3>1. Proceed(c, next) BY <2>4 DEF CopyDone
      <3> HIDE DEF next
      <3> QED BY <1>11, <2>1, <2>2, <2>3, <3>1
    <2>5. ASSUME NEW full \in BOOLEAN, CopyRefused(c, full) PROVE Sound(c)' /\ Truthful(c)'
      <3>1. Ended(c, "fault", {}, {}, alone[c] /\ ~full) BY <2>1, <2>5, CopyRefusedIs
      <3>2. {} \in SUBSET Mail
        OBVIOUS
      <3> QED BY <1>1, <2>1, <3>1, <3>2, EndedSound
    <2> QED BY <2>1, <2>4, <2>5
  <1>16. CASE FlagDeleted(c)
    <2> DEFINE next == [call[c] EXCEPT !.pc = "expunge"]
    <2>1. call[c].pc \in Moving /\ Proceed(c, next) BY <1>16 DEF FlagDeleted, At, Moving
    <2>2. /\ next \in Calls /\ next.pc = "expunge" /\ next.req = call[c].req
          /\ next.work = call[c].work /\ next.bad = call[c].bad
      BY <1>2 DEF Calls, Steps
    <2>3. "expunge" \in Moving \ {"same"} BY DEF Moving
    <2> HIDE DEF next
    <2> QED BY <1>11, <2>1, <2>2, <2>3
  <1>17. CASE ExpungeMoved(c)
    <2> DEFINE next == [call[c] EXCEPT !.pc = "checkSource"]
    <2>1. call[c].pc \in Moving /\ Proceed(c, next) BY <1>17 DEF ExpungeMoved, At, Moving
    <2>2. /\ next \in Calls /\ next.pc = "checkSource" /\ next.req = call[c].req
          /\ next.work = call[c].work /\ next.bad = call[c].bad
      BY <1>2 DEF Calls, Steps
    <2>3. "checkSource" \in Moving \ {"same"} BY DEF Moving
    <2> HIDE DEF next
    <2> QED BY <1>11, <2>1, <2>2, <2>3
  <1>18. CASE VerifySource(c)
    <2> DEFINE next == [call[c] EXCEPT !.pc = "checkDest"]
    <2>1. Running(c) /\ call[c].pc \in Moving BY <1>18 DEF VerifySource, At, Running, Moving
    <2>2. /\ next \in Calls /\ next.pc = "checkDest" /\ next.req = call[c].req
          /\ next.work = call[c].work /\ next.bad = call[c].bad
      BY <1>2 DEF Calls, Steps
    <2>3. Refuse(c, "fault") \/ (Proceed(c, next) /\ call[c].work \cap source' = {})
      BY <1>18 DEF VerifySource, server
    <2>4. "checkDest" \in Moving \ {"same"} BY DEF Moving
    <2> HIDE DEF next
    <2> QED BY <1>10, <1>11, <1>12, <2>1, <2>2, <2>3, <2>4
  <1>19. CASE VerifyDestination(c)
    <2>1. /\ Running(c) /\ call[c].work \cap source' = {}
          /\ call[c].req.op \in Curates \cup Moves
      BY <1>1, <1>19 DEF VerifyDestination, At, Running, Sound, Moving
    <2>2. call[c].req.op \notin Seens BY <2>1 DEF Seens, Curates, Moves
    <2>3. Done(c) \/ Refuse(c, "fault") BY <1>19 DEF VerifyDestination
    <2> QED BY <1>1, <1>10, <1>12, <2>1, <2>2, <2>3, DoneSound
  <1>20. CASE folderMessages(c)
    <2> DEFINE next == [call[c] EXCEPT !.pc = "remove"]
    <2>1. Running(c) /\ call[c].pc = "count" BY <1>20 DEF folderMessages, At, Running
    <2>2. Refuse(c, "fault") \/ Refuse(c, "notempty") \/ Proceed(c, next)
      BY <1>20 DEF folderMessages
    <2>3. CASE Proceed(c, next)
      <3>1. next \in Calls BY <1>2 DEF Calls, Steps
      <3>2. call'[c] = next /\ report' = report BY <2>3, <3>1, ProceedIs
      <3>3. Sound(c)' BY <1>1, <1>2, <2>1, <3>2 DEF Sound, Moving, Calls, Running
      <3> QED BY <1>1, <3>2, <3>3, ProceedSound
    <2>4. CASE Refuse(c, "notempty") BY <1>1, <1>12, <2>1, <2>4, RefuseSound
    <2> QED BY <1>10, <1>12, <2>1, <2>2, <2>3, <2>4
  <1>21. CASE DeleteMailbox(c)
    <2>1. Running(c) /\ call[c].req.op = "drop" BY <1>21 DEF DeleteMailbox, At, Running, Sound
    <2>2. call[c].req.op \notin Curates \cup Moves \cup Seens BY <2>1 DEF Seens, Curates, Moves
    <2>3. Done(c) \/ Refuse(c, "fault") BY <1>21 DEF DeleteMailbox
    <2> QED BY <1>1, <1>10, <1>12, <2>1, <2>2, <2>3, DoneSound
  <1>22. ASSUME NEW verdict \in {"fault", "deadline", "canceled"}, Mishap(c, verdict)
         PROVE  Sound(c)' /\ Truthful(c)'
    <2>1. Running(c) /\ Settle(c, verdict, {}, {}, FALSE) BY <1>22 DEF Mishap
    <2>2. call[c].req \in Requests /\ verdict \in Verdicts /\ verdict # "done"
      BY <2>1 DEF Sound, Verdicts
    <2>3. Ended(c, verdict, {}, {}, FALSE) BY <2>1, <2>2, SettleIs
    <2>4. {} \in SUBSET Mail
      OBVIOUS
    <2> QED BY <1>1, <2>1, <2>2, <2>3, <2>4, EndedSound
  <1> QED
    BY <1>3, <1>4, <1>5, <1>6, <1>7, <1>8, <1>9, <1>13, <1>14, <1>15,
       <1>16, <1>17, <1>18, <1>19, <1>20, <1>21, <1>22
    DEF Step, Fault, Deadline, Cancel

-----------------------------------------------------------------------------
(* Destinations of curation are not deleted.                                *)

\* A step that is neither a call's first nor refused by the breaker.
Turn(c) ==
  /\ Running(c)
  /\ \/ \E verdict, ok, bad, undisturbed : Settle(c, verdict, ok, bad, undisturbed)
     \/ \E next : Proceed(c, next)

LEMMA StepTurns ==
  ASSUME NEW c \in Callers, Step(c)
  PROVE  Start(c) \/ FastFail(c) \/ Turn(c)
  <1>1. Done(c) => \E verdict, ok, bad, undisturbed : Settle(c, verdict, ok, bad, undisturbed)
    BY DEF Done
  <1>2. ASSUME NEW verdict, Refuse(c, verdict)
        PROVE  \E v, ok, bad, undisturbed : Settle(c, v, ok, bad, undisturbed)
    BY <1>2 DEF Refuse
  <1>3. CASE Resolve(c)
    <2>1. Running(c) BY <1>3 DEF Resolve, At, Running
    <2>2. Done(c) \/ (\E verdict : Refuse(c, verdict)) \/ (\E next : Proceed(c, next))
      BY <1>3 DEF Resolve, ResolveCuration, ResolveMove, ResolveNew, ResolveDrop
    <2> QED BY <1>1, <1>2, <2>1, <2>2 DEF Turn
  <1>4. CASE Create(c)
    <2>1. Running(c) BY <1>4 DEF Create, At, Running
    <2>2. Done(c) \/ (\E verdict : Refuse(c, verdict)) \/ (\E next : Proceed(c, next))
      BY <1>4 DEF Create
    <2> QED BY <1>1, <1>2, <2>1, <2>2 DEF Turn
  <1>5. CASE locateMany(c)
    <2>1. Running(c) BY <1>5 DEF locateMany, At, Running
    <2>2. \/ \E verdict : Refuse(c, verdict)
          \/ \E verdict, ok, bad, undisturbed : Settle(c, verdict, ok, bad, undisturbed)
          \/ \E next : Proceed(c, next)
      BY <1>5 DEF locateMany
    <2> QED BY <1>2, <2>1, <2>2 DEF Turn
  <1>6. CASE storeSeen(c) BY <1>1, <1>6 DEF storeSeen, At, Running, Turn
  <1>7. CASE AlreadyThere(c) \/ VerifyDestination(c) \/ DeleteMailbox(c)
    <2>1. Running(c) BY <1>7 DEF AlreadyThere, VerifyDestination, DeleteMailbox, At, Running
    <2>2. Done(c) \/ \E verdict : Refuse(c, verdict)
      BY <1>7 DEF AlreadyThere, VerifyDestination, DeleteMailbox
    <2> QED BY <1>1, <1>2, <2>1, <2>2 DEF Turn
  <1>8. CASE fetchMessageIDs(c) \/ MoveMessages(c) \/ VerifySource(c) \/ folderMessages(c)
    <2>1. Running(c)
      BY <1>8 DEF fetchMessageIDs, MoveMessages, VerifySource, folderMessages, At, Running
    <2>2. (\E verdict : Refuse(c, verdict)) \/ \E next : Proceed(c, next)
      BY <1>8 DEF fetchMessageIDs, MoveMessages, VerifySource, folderMessages
    <2> QED BY <1>2, <2>1, <2>2 DEF Turn
  <1>9. CASE FlagDeleted(c) \/ ExpungeMoved(c)
    BY <1>9 DEF FlagDeleted, ExpungeMoved, At, Running, Turn
  <1>10. CASE Fault(c) \/ Deadline(c) \/ Cancel(c)
    BY <1>10 DEF Fault, Deadline, Cancel, Mishap, Turn
  <1>11. CASE CopyMessages(c)
    <2>1. Running(c) /\ (CopyDone(c) \/ \E full \in BOOLEAN : CopyRefused(c, full))
      BY <1>11, CopyOutcomes
    <2> QED BY <2>1 DEF CopyDone, CopyRefused, Turn
  <1> QED BY <1>3, <1>4, <1>5, <1>6, <1>7, <1>8, <1>9, <1>10, <1>11 DEF Step

\* A step of c is of no other call.
LEMMA StepApart ==
  ASSUME NEW c \in Callers, TypeOK, Step(c), NEW d \in Callers \ {c}
  PROVE  /\ call'[d] = call[d] /\ report'[d] = report[d]
         /\ Turn(c) => alone'[d] = alone[d]
  <1>1. CASE Start(c) /\ ~Turn(c) BY <1>1 DEF Start, TypeOK
  <1>2. CASE FastFail(c) /\ ~Turn(c) BY <1>2 DEF FastFail, TypeOK
  <1>3. CASE Turn(c)
    <2>1. CASE \E next : Proceed(c, next) BY <2>1 DEF Proceed, TypeOK
    <2>2. CASE \E verdict, ok, bad, undisturbed : Settle(c, verdict, ok, bad, undisturbed)
      BY <2>2 DEF Settle, TypeOK
    <2> QED BY <1>3, <2>1, <2>2 DEF Turn
  <1> QED BY <1>1, <1>2, <1>3, StepTurns

\* An end leaves the call at its start, or nowhere.
LEMMA SettleLeaves ==
  ASSUME NEW c \in Callers, TypeOK, NEW verdict, NEW ok, NEW bad, NEW undisturbed,
         Settle(c, verdict, ok, bad, undisturbed)
  PROVE  call'[c].pc \in {"idle", "list", "locate"} /\ call'[c].misled = FALSE
  BY DEF TypeOK, Settle, Attempt, First, NoCall

\* Folders as they were, and one more.
LEMMA GuardedFrame ==
  ASSUME NEW d \in Callers, folders' = folders, orphaned' = orphaned,
         \/ call'[d] = call[d]
         \/ call'[d].pc \notin {"count", "remove"},
         Guarded(d)
  PROVE  Guarded(d)'
  <1> QED BY DEF Guarded

LEMMA GuardedGrows ==
  ASSUME NEW d \in Callers, NEW z, folders' = folders \cup {z}, orphaned' = orphaned,
         \/ call'[d] = call[d]
         \/ call'[d].pc \notin {"count", "remove"},
         Guarded(d)
  PROVE  Guarded(d)'
  <1> SUFFICES ASSUME call'[d].pc \in {"count", "remove"}, ~call'[d].misled,
                      NEW kind \in DOMAIN Targets \ orphaned
               PROVE  Top(kind, Prefix, folders' \cup {call[d].folder}) # call[d].folder
    BY DEF Guarded
  <1> DEFINE full == call[d].folder
             F == folders \cup {full}
             G == folders' \cup {full}
  <1>1. Top(kind, Prefix, F) # full BY DEF Guarded
  <1>2. F \subseteq G /\ \A x \in G : x \in F \/ x = z
    OBVIOUS
  <1>3. kind \in Kinds /\ Prefix \in Roots BY KindsAre DEF Roots
  <1>4. G = F \/ z # full
    OBVIOUS
  <1> HIDE DEF F, G
  <1>5. Top(kind, Prefix, G) \in {Top(kind, Prefix, F), z} BY <1>2, <1>3, TopGrows
  <1>6. Top(kind, Prefix, G) # full BY <1>1, <1>4, <1>5
  <1> QED BY <1>6 DEF G

\* One folder less, which no destination is that no misled call deleted.
LEMMA GuardedShrinks ==
  ASSUME NEW d \in Callers, NEW y \in folders, folders' = folders \ {y},
         orphaned \subseteq orphaned',
         \A kind \in DOMAIN Targets \ orphaned' : Top(kind, Prefix, folders) # y,
         \/ call'[d] = call[d]
         \/ call'[d].pc \notin {"count", "remove"},
         Guarded(d)
  PROVE  Guarded(d)'
  <1> SUFFICES ASSUME call'[d].pc \in {"count", "remove"}, ~call'[d].misled,
                      NEW kind \in DOMAIN Targets \ orphaned'
               PROVE  Top(kind, Prefix, folders' \cup {call[d].folder}) # call[d].folder
    BY DEF Guarded
  <1> DEFINE full == call[d].folder
             F == folders \cup {full}
             G == folders' \cup {full}
  <1>1. Top(kind, Prefix, F) # full /\ Top(kind, Prefix, folders) # y BY DEF Guarded
  <1>2. kind \in Kinds /\ Prefix \in Roots BY KindsAre DEF Roots
  <1>3. CASE y = full
    <2>1. G = folders BY <1>3
    <2> HIDE DEF F, G
    <2> QED BY <1>1, <1>3, <2>1 DEF G
  <1>4. CASE y # full
    <2>1. folders \subseteq F /\ \A x \in F : x \in folders \/ x = full
      OBVIOUS
    <2>2. G \subseteq F /\ \A x \in F : x \in G \/ x = y BY <1>4
    <2> HIDE DEF F, G
    <2>3. Top(kind, Prefix, F) \in {Top(kind, Prefix, folders), full}
      BY <1>2, <2>1, TopGrows
    <2>4. Top(kind, Prefix, F) # y BY <1>1, <2>3
    <2>5. Top(kind, Prefix, F) \in {Top(kind, Prefix, G), y} BY <1>2, <2>2, TopGrows
    <2>6. Top(kind, Prefix, G) # full BY <1>1, <2>4, <2>5
    <2> QED BY <2>6 DEF G
  <1> QED BY <1>3, <1>4

\* A folder about to be deleted is no destination now.
LEMMA GuardedNow ==
  ASSUME NEW d \in Callers, Guarded(d), call[d].pc = "remove", ~call[d].misled,
         call[d].folder \in folders
  PROVE  \A kind \in DOMAIN Targets \ orphaned :
           Top(kind, Prefix, folders) # call[d].folder
  <1>1. folders \cup {call[d].folder} = folders
    OBVIOUS
  <1> QED BY <1>1 DEF Guarded

LEMMA StepGuarded ==
  ASSUME NEW c \in Callers, TypeOK, Sound(c), \A d \in Callers : Guarded(d), Step(c)
  PROVE  \A d \in Callers : Guarded(d)'
  <1>1. \A d \in Callers \ {c} : call'[d] = call[d] BY StepApart
  <1>2. call[c] \in Calls BY DEF TypeOK
  <1>3. CASE DeleteMailbox(c)
    <2> DEFINE full == call[c].folder
    <2>1. call'[c].pc \notin {"count", "remove"}
      <3>1. Done(c) \/ Refuse(c, "fault") BY <1>3 DEF DeleteMailbox
      <3> QED BY <3>1, SettleLeaves DEF Done, Refuse
    <2>2. CASE full \notin folders
      <3>1. folders' = folders /\ orphaned' = orphaned BY <1>3, <2>2 DEF DeleteMailbox
      <3> QED BY <1>1, <2>1, <3>1, GuardedFrame
    <2>3. CASE full \in folders
      <3>1. /\ call[c].pc = "remove" /\ folders' = folders \ {full}
            /\ orphaned' = IF ~call[c].misled THEN orphaned
                           ELSE orphaned \cup {kind \in DOMAIN Targets :
                                                 Destination(kind, Prefix).folder = full}
        BY <1>3, <2>3 DEF DeleteMailbox, At
      <3>2. orphaned \subseteq orphaned' BY <3>1
      <3>3. ASSUME NEW kind \in DOMAIN Targets \ orphaned' PROVE Top(kind, Prefix, folders) # full
        <4>1. CASE ~call[c].misled BY <2>3, <3>1, <4>1, GuardedNow
        <4>2. CASE call[c].misled
          <5>1. Destination(kind, Prefix).folder # full BY <3>1, <4>2
          <5> QED BY <5>1, KindsAre DEF Top
        <4> QED BY <4>1, <4>2
      <3> QED BY <1>1, <2>1, <2>3, <3>1, <3>2, <3>3, GuardedShrinks
    <2> QED BY <2>2, <2>3
  <1>4. CASE Create(c)
    <2>1. call'[c].pc \notin {"count", "remove"}
      <3>1. \/ Done(c) \/ Refuse(c, "fault") \/ Proceed(c, [call[c] EXCEPT !.pc = "locate"])
        BY <1>4 DEF Create
      <3>2. Proceed(c, [call[c] EXCEPT !.pc = "locate"]) => call'[c].pc = "locate"
        BY <1>2 DEF Proceed, TypeOK, Calls
      <3> QED BY <3>1, <3>2, SettleLeaves DEF Done, Refuse
    <2>2. folders' = folders \cup {call[c].folder} /\ orphaned' = orphaned BY <1>4 DEF Create
    <2> QED BY <1>1, <2>1, <2>2, GuardedGrows
  <1>5. CASE Resolve(c)
    <2>1. folders' = folders /\ orphaned' = orphaned BY <1>5 DEF Resolve, server
    <2>2. Guarded(c)'
      <3>1. CASE (\E verdict : Refuse(c, verdict)) \/ Done(c)
        <4>1. call'[c].pc \notin {"count", "remove"} BY <3>1, SettleLeaves DEF Done, Refuse
        <4> QED BY <2>1, <4>1, GuardedFrame
      <3>2. ASSUME NEW next \in Calls, Proceed(c, next), Settled(c, next)
            PROVE  Guarded(c)'
        <4>1. call'[c] = next BY <3>2, ProceedIs
        <4>2. CASE next.pc \notin {"count", "remove"} BY <2>1, <4>1, <4>2, GuardedFrame
        <4>3. CASE next.pc \in {"count", "remove"}
          <5>1. /\ next.folder \in folders
                /\ ~next.misled => \A kind \in Kinds : Top(kind, Prefix, folders) # next.folder
            BY <3>2, <4>3 DEF Settled, Route
          <5>2. folders' \cup {next.folder} = folders BY <2>1, <5>1
          <5> QED BY <4>1, <5>1, <5>2, KindsAre DEF Guarded
        <4> QED BY <4>2, <4>3
      <3> QED BY <1>5, <3>1, <3>2, ResolveIs
    <2> QED BY <1>1, <2>1, <2>2, GuardedFrame
  <1>6. CASE folderMessages(c)
    <2> DEFINE next == [call[c] EXCEPT !.pc = "remove"]
    <2>1. folders' = folders /\ orphaned' = orphaned BY <1>6 DEF folderMessages, server
    <2>2. Guarded(c)'
      <3>1. call[c].pc = "count" /\ ((\E verdict : Refuse(c, verdict)) \/ Proceed(c, next))
        BY <1>6 DEF folderMessages, At
      <3>2. CASE \E verdict : Refuse(c, verdict)
        <4>1. call'[c].pc \notin {"count", "remove"} BY <3>2, SettleLeaves DEF Refuse
        <4> QED BY <2>1, <4>1, GuardedFrame
      <3>3. CASE Proceed(c, next)
        <4>1. next \in Calls /\ next.folder = call[c].folder /\ next.misled = call[c].misled
          BY <1>2 DEF Calls, Steps
        <4>2. call'[c] = next BY <3>3, <4>1, ProceedIs
        <4> QED BY <2>1, <3>1, <4>1, <4>2 DEF Guarded
      <3> QED BY <3>1, <3>2, <3>3
    <2> QED BY <1>1, <2>1, <2>2, GuardedFrame
  <1>7. CASE FastFail(c)
    <2>1. folders' = folders /\ orphaned' = orphaned /\ call' = call
      BY <1>7 DEF FastFail, server, history
    <2> QED BY <2>1, GuardedFrame
  <1>8. CASE Start(c)
    <2>1. folders' = folders /\ orphaned' = orphaned BY <1>8 DEF Start, server
    <2>2. call'[c].pc \in {"list", "locate"}
      BY <1>8 DEF Start, TypeOK, Attempt, First, NoCall
    <2> QED BY <1>1, <2>1, <2>2, GuardedFrame
  <1>9. CASE locateMany(c)
    <2> DEFINE this == call[c]
               present == this.work \cap source
               pc == IF this.req.op \in Seens THEN "store" ELSE AfterLocating(this)
               next == [this EXCEPT !.work = present, !.bad = this.work \ present, !.pc = pc]
    <2>1. folders' = folders /\ orphaned' = orphaned BY <1>9 DEF locateMany, server
    <2>2. pc \notin {"count", "remove"} BY DEF AfterLocating
    <2>3. \/ \E verdict, ok, bad, undisturbed : Settle(c, verdict, ok, bad, undisturbed)
          \/ Proceed(c, next)
      BY <1>9 DEF locateMany, Refuse
    <2>4. next.pc = pc
      <3> HIDE DEF pc
      <3> QED BY <1>2 DEF Calls
    <2> HIDE DEF next
    <2>5. call'[c].pc \notin {"count", "remove"}
      BY <2>2, <2>3, <2>4, SettleLeaves DEF Proceed, TypeOK
    <2> QED BY <1>1, <2>1, <2>5, GuardedFrame
  <1>10. CASE storeSeen(c) \/ AlreadyThere(c) \/ VerifyDestination(c)
    <2>1. folders' = folders /\ orphaned' = orphaned
      BY <1>10 DEF storeSeen, AlreadyThere, VerifyDestination, server
    <2>2. Done(c) \/ Refuse(c, "fault") BY <1>10 DEF storeSeen, AlreadyThere, VerifyDestination
    <2>3. call'[c].pc \notin {"count", "remove"} BY <2>2, SettleLeaves DEF Done, Refuse
    <2> QED BY <1>1, <2>1, <2>3, GuardedFrame
  <1>11. ASSUME folders' = folders, orphaned' = orphaned,
                NEW next, next.pc \notin {"count", "remove"},
                Refuse(c, "fault") \/ Proceed(c, next)
         PROVE  \A d \in Callers : Guarded(d)'
    <2>1. call'[c].pc \notin {"count", "remove"} BY <1>11, SettleLeaves DEF Refuse, Proceed, TypeOK
    <2> QED BY <1>1, <1>11, <2>1, GuardedFrame
  <1>12. CASE fetchMessageIDs(c)
    <2> DEFINE next == [call[c] EXCEPT !.pc = "move"]
    <2>1. next.pc \notin {"count", "remove"} BY <1>2 DEF Calls
    <2>2. folders' = folders /\ orphaned' = orphaned /\ (Refuse(c, "fault") \/ Proceed(c, next))
      BY <1>12 DEF fetchMessageIDs, server
    <2> HIDE DEF next
    <2> QED BY <1>11, <2>1, <2>2
  <1>13. CASE MoveMessages(c)
    <2> DEFINE next == [call[c] EXCEPT !.sent = IF mode = "move" THEN {} ELSE call[c].work \cap source,
                                       !.pc = "checkSource"]
    <2>1. next.pc \notin {"count", "remove"} BY <1>2 DEF Calls
    <2>2. folders' = folders /\ orphaned' = orphaned /\ (Refuse(c, "fault") \/ Proceed(c, next))
      BY <1>13 DEF MoveMessages
    <2> HIDE DEF next
    <2> QED BY <1>11, <2>1, <2>2
  <1>14. CASE CopyMessages(c)
    <2> DEFINE next == [call[c] EXCEPT !.sent = call[c].work \cap source, !.pc = "flag"]
    <2>1. next.pc \notin {"count", "remove"} BY <1>2 DEF Calls
    <2>2. /\ folders' = folders /\ orphaned' = orphaned
          /\ CopyDone(c) \/ \E full \in BOOLEAN : CopyRefused(c, full)
      BY <1>14, CopyOutcomes
    <2>3. CopyDone(c) => Proceed(c, next) BY DEF CopyDone
    <2> HIDE DEF next
    <2>4. call'[c].pc \notin {"count", "remove"}
      BY <2>1, <2>2, <2>3, SettleLeaves DEF CopyRefused, Proceed, TypeOK
    <2> QED BY <1>1, <2>2, <2>4, GuardedFrame
  <1>15. CASE FlagDeleted(c)
    <2> DEFINE next == [call[c] EXCEPT !.pc = "expunge"]
    <2>1. next.pc \notin {"count", "remove"} BY <1>2 DEF Calls
    <2>2. folders' = folders /\ orphaned' = orphaned /\ Proceed(c, next) BY <1>15 DEF FlagDeleted
    <2> HIDE DEF next
    <2> QED BY <1>11, <2>1, <2>2
  <1>16. CASE ExpungeMoved(c)
    <2> DEFINE next == [call[c] EXCEPT !.pc = "checkSource"]
    <2>1. next.pc \notin {"count", "remove"} BY <1>2 DEF Calls
    <2>2. folders' = folders /\ orphaned' = orphaned /\ Proceed(c, next) BY <1>16 DEF ExpungeMoved
    <2> HIDE DEF next
    <2> QED BY <1>11, <2>1, <2>2
  <1>17. CASE VerifySource(c)
    <2> DEFINE next == [call[c] EXCEPT !.pc = "checkDest"]
    <2>1. next.pc \notin {"count", "remove"} BY <1>2 DEF Calls
    <2>2. folders' = folders /\ orphaned' = orphaned /\ (Refuse(c, "fault") \/ Proceed(c, next))
      BY <1>17 DEF VerifySource, server
    <2> HIDE DEF next
    <2> QED BY <1>11, <2>1, <2>2
  <1>18. CASE Fault(c) \/ Deadline(c) \/ Cancel(c)
    <2>1. folders' = folders /\ orphaned' = orphaned
      BY <1>18 DEF Fault, Deadline, Cancel, Mishap, server
    <2>2. \E verdict : Settle(c, verdict, {}, {}, FALSE)
      BY <1>18 DEF Fault, Deadline, Cancel, Mishap
    <2>3. call'[c].pc \notin {"count", "remove"} BY <2>2, SettleLeaves
    <2> QED BY <1>1, <2>1, <2>3, GuardedFrame
  <1> QED
    BY <1>3, <1>4, <1>5, <1>6, <1>7, <1>8, <1>9, <1>10, <1>12, <1>13, <1>14, <1>15,
       <1>16, <1>17, <1>18
    DEF Step

-----------------------------------------------------------------------------
(* No message is lost.                                                      *)

\* The inbox and the folders as they were, or one more folder.
LEMMA SafeFrame ==
  ASSUME TypeOK, TypeOK', Safe, folders \subseteq folders', source' = source, filed' = filed,
         flagged' \subseteq flagged, taken' = taken, late' = late, destroyed' = destroyed,
         forsaken' = forsaken, \A a \in adrift' \ adrift : Accounted(a),
         \A d \in Callers : call'[d] = call[d] \/ call'[d].pc \notin {"flag", "remove"}
  PROVE  Safe'
  <1>1. \A m : Elsewhere(m)' <=> Elsewhere(m) BY DEF Elsewhere
  <1>2. ASSUME NEW d \in Callers, At(d, "flag")'
        PROVE  \A m \in call'[d].work \cap source' : Elsewhere(m)
    <2>1. call'[d] = call[d] BY <1>2 DEF At
    <2> QED BY <1>2, <2>1 DEF At, Safe
  <1>3. ASSUME NEW d \in Callers, At(d, "remove")'
        PROVE  filed'[call'[d].folder] \subseteq late'
    <2>1. call'[d] = call[d] BY <1>3 DEF At
    <2> QED BY <1>3, <2>1 DEF At, Safe
  <1>4. /\ \A name \in Names \ folders' : filed'[name] = {}
        /\ \A m \in Mail : m \in source' \/ Elsewhere(m)
        /\ \A m \in flagged' : Elsewhere(m)
        /\ destroyed' \subseteq late'
    BY DEF Safe
  <1>5. ASSUME NEW a \in adrift' PROVE Accounted(a)'
    <2>1. Accounted(a) BY DEF Safe
    <2> QED BY <1>1, <2>1 DEF Accounted
  <1> QED BY <1>1, <1>2, <1>3, <1>4, <1>5 DEF Safe

\* Mail moves on: what was elsewhere is, and what leaves the inbox is.
LEMMA SafeMoves ==
  ASSUME TypeOK, TypeOK', Safe,
         \A m : Elsewhere(m) => Elsewhere(m)',
         source' \subseteq source,
         \A m \in source \ source' : Elsewhere(m)',
         flagged' \subseteq flagged \cup {m \in Mail : Elsewhere(m)'},
         \A a \in adrift' \ adrift : Accounted(a)',
         \A name \in Names \ folders' : filed'[name] = {},
         destroyed' \subseteq late',
         \A d \in Callers : call'[d].pc = "flag" =>
            \/ call'[d] = call[d]
            \/ \A m \in call'[d].work \cap source' : Elsewhere(m)',
         \A d \in Callers : call'[d].pc = "remove" =>
            call'[d] = call[d] /\ filed'[call[d].folder] \subseteq filed[call[d].folder] \cup late',
         late \subseteq late'
  PROVE  Safe'
  <1>1. ASSUME NEW m \in Mail PROVE m \in source' \/ Elsewhere(m)' BY DEF Safe
  <1>2. ASSUME NEW m \in flagged' PROVE Elsewhere(m)' BY DEF Safe
  <1>3. ASSUME NEW d \in Callers, At(d, "flag")', NEW m \in call'[d].work \cap source'
        PROVE  Elsewhere(m)'
    BY <1>3 DEF Safe, At
  <1>4. ASSUME NEW d \in Callers, At(d, "remove")'
        PROVE  filed'[call'[d].folder] \subseteq late'
    BY <1>4 DEF Safe, At
  <1>5. ASSUME NEW a \in adrift' PROVE Accounted(a)'
    <2>1. CASE a \in adrift
      <3>1. Accounted(a) BY <2>1 DEF Safe
      <3> QED BY <3>1 DEF Accounted
    <2>2. CASE a \notin adrift BY <2>2
    <2> QED BY <2>1, <2>2
  <1> QED BY <1>1, <1>2, <1>3, <1>4, <1>5 DEF Safe

\* Whatever is filed more, it stays elsewhere.
LEMMA ElsewhereStays ==
  ASSUME \A name \in Names : filed[name] \subseteq filed'[name],
         taken \subseteq taken', destroyed \subseteq destroyed', forsaken \subseteq forsaken'
  PROVE  \A m : Elsewhere(m) => Elsewhere(m)'
  BY DEF Elsewhere

\* A copy in a folder is elsewhere.
LEMMA FiledElsewhere ==
  ASSUME NEW m, NEW name \in Names, NEW k, k \in filed'[name], k.msg = m
  PROVE  Elsewhere(m)'
  BY DEF Elsewhere

LEMMA StepSafe ==
  ASSUME NEW c \in Callers, TypeOK, TypeOK', Sound(c), Safe, Step(c)
  PROVE  Safe'
  <1>1. \A d \in Callers \ {c} : call'[d] = call[d] BY StepApart
  <1>2. call[c] \in Calls /\ call[c].folder \in Names /\ call[c].work \in SUBSET Mail
    BY DEF TypeOK, Calls
  <1>3. ASSUME call'[c].pc \notin {"flag", "remove"}, UNCHANGED <<source, filed, flagged>>,
               folders \subseteq folders', UNCHANGED <<taken, late, destroyed, forsaken>>,
               \A a \in adrift' \ adrift : Accounted(a)
        PROVE  Safe'
    BY <1>1, <1>3, SafeFrame
  <1>4. ASSUME NEW verdict, Refuse(c, verdict) PROVE call'[c].pc \notin {"flag", "remove"}
    BY <1>4, SettleLeaves DEF Refuse
  <1>5. Done(c) => call'[c].pc \notin {"flag", "remove"} BY SettleLeaves DEF Done
  <1>6. CASE Start(c)
    <2>1. call'[c].pc \in {"list", "locate"}
      BY <1>6 DEF Start, TypeOK, Attempt, First, NoCall
    <2> QED BY <1>3, <1>6, <2>1 DEF Start, server
  <1>7. CASE FastFail(c)
    <2>1. call' = call BY <1>7 DEF FastFail
    <2> QED BY <1>7, <2>1, SafeFrame DEF FastFail, server, history
  <1>8. CASE Resolve(c)
    <2>1. call'[c].pc \notin {"flag", "remove"}
      <3>1. ASSUME NEW next \in Calls, Proceed(c, next), Settled(c, next)
            PROVE  call'[c].pc \notin {"flag", "remove"}
        <4>1. call'[c] = next BY <3>1, ProceedIs
        <4> QED BY <3>1, <4>1 DEF Settled, Route
      <3> QED BY <1>4, <1>5, <1>8, <3>1, ResolveIs
    <2> QED BY <1>3, <1>8, <2>1 DEF Resolve, server
  <1>9. CASE Create(c)
    <2>1. \/ Done(c) \/ Refuse(c, "fault") \/ Proceed(c, [call[c] EXCEPT !.pc = "locate"])
      BY <1>9 DEF Create
    <2>2. Proceed(c, [call[c] EXCEPT !.pc = "locate"]) => call'[c].pc = "locate"
      BY <1>2 DEF Proceed, TypeOK, Calls
    <2>3. call'[c].pc \notin {"flag", "remove"} BY <1>4, <1>5, <2>1, <2>2
    <2> QED BY <1>3, <1>9, <2>3 DEF Create
  <1>10. CASE locateMany(c)
    <2> DEFINE this == call[c]
               present == this.work \cap source
               pc == IF this.req.op \in Seens THEN "store" ELSE AfterLocating(this)
               next == [this EXCEPT !.work = present, !.bad = this.work \ present, !.pc = pc]
    <2>1. pc \notin {"flag", "remove"} BY DEF AfterLocating
    <2>2. \/ \E verdict, ok, bad, undisturbed : Settle(c, verdict, ok, bad, undisturbed)
          \/ Proceed(c, next)
      BY <1>10 DEF locateMany, Refuse
    <2>3. next.pc = pc
      <3> HIDE DEF pc
      <3> QED BY <1>2 DEF Calls
    <2> HIDE DEF next
    <2>4. call'[c].pc \notin {"flag", "remove"}
      BY <2>1, <2>2, <2>3, SettleLeaves DEF Proceed, TypeOK
    <2> QED BY <1>3, <1>10, <2>4 DEF locateMany, server
  <1>11. CASE storeSeen(c) \/ AlreadyThere(c) \/ VerifyDestination(c)
    <2>1. /\ UNCHANGED <<source, filed, flagged, adrift>> /\ folders \subseteq folders'
          /\ UNCHANGED <<taken, late, destroyed, forsaken>>
      BY <1>11 DEF storeSeen, AlreadyThere, VerifyDestination, server
    <2>2. Done(c) \/ Refuse(c, "fault") BY <1>11 DEF storeSeen, AlreadyThere, VerifyDestination
    <2> QED BY <1>3, <1>4, <1>5, <2>1, <2>2
  <1>12. CASE fetchMessageIDs(c) \/ VerifySource(c)
    <2>1. \/ Refuse(c, "fault") \/ Proceed(c, [call[c] EXCEPT !.pc = "move"])
          \/ Proceed(c, [call[c] EXCEPT !.pc = "checkDest"])
      BY <1>12 DEF fetchMessageIDs, VerifySource
    <2>2. /\ Proceed(c, [call[c] EXCEPT !.pc = "move"]) => call'[c].pc = "move"
          /\ Proceed(c, [call[c] EXCEPT !.pc = "checkDest"]) => call'[c].pc = "checkDest"
      BY <1>2 DEF Proceed, TypeOK, Calls
    <2>3. call'[c].pc \notin {"flag", "remove"} BY <1>4, <2>1, <2>2
    <2>4. /\ UNCHANGED <<source, filed, flagged, adrift>> /\ folders \subseteq folders'
          /\ UNCHANGED <<taken, late, destroyed, forsaken>>
      BY <1>12 DEF fetchMessageIDs, VerifySource, server
    <2> QED BY <1>3, <2>3, <2>4
  <1>13. CASE Fault(c) \/ Deadline(c) \/ Cancel(c)
    <2>1. /\ UNCHANGED <<source, filed, flagged>> /\ folders \subseteq folders'
          /\ UNCHANGED <<taken, late, destroyed, forsaken>>
      BY <1>13 DEF Fault, Deadline, Cancel, Mishap
    <2>2. \E verdict : Settle(c, verdict, {}, {}, FALSE)
      BY <1>13 DEF Fault, Deadline, Cancel, Mishap
    <2>3. call'[c].pc \notin {"flag", "remove"} BY <2>2, SettleLeaves
    <2>4. ASSUME NEW a \in adrift' \ adrift PROVE Accounted(a)
      <3>1. PICK next \in {call[c].pc, "expunge"} :
               Abandon(c, next, TRUE) /\ call[c].pc \in {"flag", "expunge"}
        BY <1>13, <2>4 DEF Fault, Deadline, Cancel, Mishap
      <3>2. next \in {"flag", "expunge"} /\ TRUE \in BOOLEAN BY <3>1
      <3>3. a.next = next /\ a.uids = call[c].work BY <2>4, <3>1, <3>2, AbandonIs
      <3> QED BY <3>1, <3>3 DEF Accounted, Safe, At
    <2> QED BY <1>3, <2>1, <2>3, <2>4
  <1>14. CASE MoveMessages(c)
    <2> DEFINE moved == call[c].work \cap source
               next == [call[c] EXCEPT !.sent = IF mode = "move" THEN {} ELSE moved,
                                       !.pc = "checkSource"]
    <2>1. /\ folders' = folders /\ taken' = taken /\ destroyed' = destroyed
          /\ UNCHANGED <<adrift, forsaken>>
      BY <1>14 DEF MoveMessages
    <2>2. CASE Refuse(c, "fault") /\ UNCHANGED <<source, filed, flagged, late>>
      BY <1>3, <1>4, <2>1, <2>2
    <2>3. CASE /\ call[c].folder \in folders
               /\ source' = source \ moved /\ flagged' = flagged \ moved
               /\ Arriving(call[c].folder, {Copy(m, c) : m \in moved}) /\ Proceed(c, next)
      <3>1. moved \in SUBSET Mail /\ next.pc = "checkSource" BY <1>2 DEF Calls
      <3>2. /\ late \subseteq late' /\ \A n \in Names : filed[n] \subseteq filed'[n]
            /\ \A m \in moved : Copy(m, c) \in filed'[call[c].folder]
            /\ \A n \in Names \ {call[c].folder} : filed'[n] = filed[n]
            /\ \A x \in Callers : At(x, "remove") =>
                 filed'[call[x].folder] \subseteq filed[call[x].folder] \cup late'
        BY <2>3, <3>1, CopiesArrive
      <3>3. \A m \in moved : Elsewhere(m)' BY <1>2, <3>1, <3>2, CopyIs, FiledElsewhere
      <3>4. call'[c].pc = "checkSource"
        <4> HIDE DEF next
        <4> QED BY <2>3, <3>1 DEF Proceed, TypeOK
      <3> HIDE DEF moved, next
      <3>5. \A m : Elsewhere(m) => Elsewhere(m)' BY <2>1, <3>2, ElsewhereStays
      <3>6. \A name \in Names \ folders' : filed'[name] = {} BY <2>1, <2>3, <3>2 DEF Safe
      <3>7. destroyed' \subseteq late' BY <2>1, <3>2 DEF Safe
      <3>8. \A d \in Callers : call'[d].pc = "flag" => call'[d] = call[d] BY <1>1, <3>4
      <3>9. \A d \in Callers : call'[d].pc = "remove" =>
              call'[d] = call[d] /\ filed'[call[d].folder] \subseteq filed[call[d].folder] \cup late'
        BY <1>1, <3>2, <3>4 DEF At
      <3> QED BY <2>1, <2>3, <3>2, <3>3, <3>5, <3>6, <3>7, <3>8, <3>9, SafeMoves
    <2> QED BY <1>14, <2>2, <2>3 DEF MoveMessages
  <1>15. CASE CopyMessages(c)
    <2> DEFINE copied == call[c].work \cap source
               next == [call[c] EXCEPT !.sent = copied, !.pc = "flag"]
    <2>1. /\ Running(c)
          /\ CopyDone(c) \/ \E full \in BOOLEAN : CopyRefused(c, full)
          /\ UNCHANGED <<folders, source, flagged, taken, destroyed, forsaken>>
      BY <1>15, CopyOutcomes
    <2>2. ASSUME NEW full \in BOOLEAN, CopyRefused(c, full) PROVE Safe'
      <3>1. /\ Settle(c, "fault", {}, {}, alone[c] /\ ~full) /\ UNCHANGED <<filed, late>>
        BY <2>2 DEF CopyRefused
      <3>2. call'[c].pc \notin {"flag", "remove"} BY <3>1, SettleLeaves
      <3>3. \A a \in adrift' \ adrift : Accounted(a)
        BY <2>1, <2>2, CopyRefusedIs DEF Accounted
      <3> QED BY <1>3, <2>1, <3>1, <3>2, <3>3
    <2>3. CASE CopyDone(c)
      <3> USE <2>3 DEF CopyDone
      <3>1. copied \in SUBSET Mail /\ next.pc = "flag" /\ next.work = call[c].work
        BY <1>2 DEF Calls
      <3>2. /\ late \subseteq late' /\ \A n \in Names : filed[n] \subseteq filed'[n]
            /\ \A m \in copied : Copy(m, c) \in filed'[call[c].folder]
            /\ \A n \in Names \ {call[c].folder} : filed'[n] = filed[n]
            /\ \A x \in Callers : At(x, "remove") =>
                 filed'[call[x].folder] \subseteq filed[call[x].folder] \cup late'
        BY <2>3, <3>1, CopiesArrive
      <3>3. \A m \in copied : Elsewhere(m)' BY <1>2, <3>1, <3>2, CopyIs, FiledElsewhere
      <3>4. call'[c].pc = "flag" /\ call'[c].work = call[c].work
        <4> HIDE DEF next
        <4> QED BY <2>3, <3>1 DEF Proceed, TypeOK
      <3> HIDE DEF next
      <3>5. \A m : Elsewhere(m) => Elsewhere(m)' BY <2>1, <3>2, ElsewhereStays
      <3>6. \A name \in Names \ folders' : filed'[name] = {} BY <2>1, <2>3, <3>2 DEF Safe
      <3>7. destroyed' \subseteq late' BY <2>1, <3>2 DEF Safe
      <3>8. \A d \in Callers : call'[d].pc = "flag" =>
              call'[d] = call[d] \/ \A m \in call'[d].work \cap source' : Elsewhere(m)'
        BY <1>1, <2>1, <3>3, <3>4
      <3>9. \A d \in Callers : call'[d].pc = "remove" =>
              call'[d] = call[d] /\ filed'[call[d].folder] \subseteq filed[call[d].folder] \cup late'
        BY <1>1, <3>2, <3>4 DEF At
      <3> QED BY <2>1, <3>2, <3>5, <3>6, <3>7, <3>8, <3>9, SafeMoves
    <2> QED BY <2>1, <2>2, <2>3
  <1>16. CASE FlagDeleted(c) \/ ExpungeMoved(c)
    <2>1. UNCHANGED <<folders, filed, adrift, taken, late, destroyed, forsaken>>
      BY <1>16 DEF FlagDeleted, ExpungeMoved
    <2>2. call'[c].pc \in {"expunge", "checkSource"}
      BY <1>2, <1>16 DEF FlagDeleted, ExpungeMoved, Proceed, TypeOK, Calls
    <2>3. /\ source' \subseteq source /\ source \ source' \subseteq flagged
          /\ flagged' \subseteq flagged \cup {m \in Mail : Elsewhere(m)}
      <3>1. CASE FlagDeleted(c)
        <4>1. \A m \in call[c].work \cap source : Elsewhere(m)
          BY <3>1 DEF FlagDeleted, Safe
        <4> QED BY <1>2, <3>1, <4>1 DEF FlagDeleted
      <3>2. CASE ExpungeMoved(c) BY <3>2 DEF ExpungeMoved
      <3> QED BY <1>16, <3>1, <3>2
    <2>4. \A m : Elsewhere(m) => Elsewhere(m)' BY <2>1, ElsewhereStays
    <2>5. \A m \in source \ source' : Elsewhere(m)' BY <2>3, <2>4 DEF Safe
    <2>6. (\A name \in Names \ folders' : filed'[name] = {}) /\ destroyed' \subseteq late'
      BY <2>1 DEF Safe
    <2>7. \A d \in Callers : call'[d].pc \in {"flag", "remove"} => call'[d] = call[d]
      BY <1>1, <2>2
    <2> QED BY <2>1, <2>3, <2>4, <2>5, <2>6, <2>7, SafeMoves
  <1>17. CASE folderMessages(c)
    <2> DEFINE next == [call[c] EXCEPT !.pc = "remove"]
    <2>1. UNCHANGED <<folders, source, filed, flagged, adrift, taken, late, destroyed, forsaken>>
      BY <1>17 DEF folderMessages, server
    <2>2. \/ \E verdict : Refuse(c, verdict)
          \/ filed[call[c].folder] = {} /\ Proceed(c, next)
      BY <1>17 DEF folderMessages
    <2>3. CASE \E verdict : Refuse(c, verdict) BY <1>3, <1>4, <2>1, <2>3
    <2>4. CASE filed[call[c].folder] = {} /\ Proceed(c, next)
      <3>1. next.pc = "remove" /\ next.folder = call[c].folder BY <1>2 DEF Calls
      <3>2. call'[c].pc = "remove" /\ call'[c].folder = call[c].folder
        <4> HIDE DEF next
        <4> QED BY <2>4, <3>1 DEF Proceed, TypeOK
      <3>3. \A m : Elsewhere(m)' <=> Elsewhere(m) BY <2>1 DEF Elsewhere
      <3>4. ASSUME NEW d \in Callers, At(d, "flag")', NEW m \in call'[d].work \cap source'
            PROVE  Elsewhere(m)
        <4>1. d # c BY <3>2, <3>4 DEF At
        <4> QED BY <1>1, <2>1, <3>4, <4>1 DEF Safe, At
      <3>5. ASSUME NEW d \in Callers, At(d, "remove")'
            PROVE  filed'[call'[d].folder] \subseteq late'
        <4>1. CASE d = c BY <2>1, <2>4, <3>2, <4>1
        <4>2. CASE d # c BY <1>1, <2>1, <3>5, <4>2 DEF Safe, At
        <4> QED BY <4>1, <4>2
      <3>6. ASSUME NEW a \in adrift' PROVE Accounted(a)'
        <4>1. Accounted(a) BY <2>1, <3>6 DEF Safe
        <4> QED BY <2>1, <3>3, <4>1 DEF Accounted
      <3> HIDE DEF next
      <3> QED BY <2>1, <3>3, <3>4, <3>5, <3>6 DEF Safe
    <2> QED BY <2>2, <2>3, <2>4
  <1>18. CASE DeleteMailbox(c)
    <2> DEFINE full == call[c].folder
    <2>1. /\ UNCHANGED <<source, flagged, adrift, taken, late, forsaken>>
          /\ Done(c) \/ Refuse(c, "fault")
      BY <1>18 DEF DeleteMailbox
    <2>2. call'[c].pc \notin {"flag", "remove"} BY <1>4, <1>5, <2>1
    <2>3. CASE full \notin folders
      <3>1. UNCHANGED <<folders, filed, destroyed>> BY <1>18, <2>3 DEF DeleteMailbox
      <3> QED BY <1>3, <2>1, <2>2, <3>1
    <2>4. CASE full \in folders
      <3>1. /\ folders' = folders \ {full} /\ destroyed' = destroyed \cup filed[full]
            /\ filed' = [filed EXCEPT ![full] = {}]
        BY <1>18, <2>4 DEF DeleteMailbox
      <3>2. filed[full] \subseteq late BY <1>18 DEF DeleteMailbox, Safe
      <3>3. filed'[full] = {} /\ \A n \in Names \ {full} : filed'[n] = filed[n]
        BY <1>2, <3>1 DEF TypeOK
      <3>4. ASSUME NEW m, Elsewhere(m) PROVE Elsewhere(m)'
        <4>1. CASE \E name \in Names : \E k \in filed[name] : k.msg = m
          <5>1. PICK name \in Names : \E k \in filed[name] : k.msg = m BY <4>1
          <5>2. CASE name = full BY <3>1, <5>1, <5>2 DEF Elsewhere
          <5>3. CASE name # full BY <3>3, <5>1, <5>3 DEF Elsewhere
          <5> QED BY <5>2, <5>3
        <4>2. CASE m \in taken \/ m \in forsaken BY <2>1, <4>2 DEF Elsewhere
        <4>3. CASE \E k \in destroyed : k.msg = m BY <3>1, <4>3 DEF Elsewhere
        <4> QED BY <3>4, <4>1, <4>2, <4>3 DEF Elsewhere
      <3>5. \A name \in Names \ folders' : filed'[name] = {} BY <3>1, <3>3 DEF Safe
      <3>6. destroyed' \subseteq late' BY <2>1, <3>1, <3>2 DEF Safe
      <3>7. \A d \in Callers : call'[d].pc \in {"flag", "remove"} => call'[d] = call[d]
        BY <1>1, <2>2
      <3>8. \A d \in Callers : filed'[call[d].folder] \subseteq filed[call[d].folder]
        <4>1. \A d \in Callers : call[d].folder \in Names BY DEF TypeOK, Calls
        <4> QED BY <3>3, <4>1
      <3> HIDE DEF full
      <3> QED BY <2>1, <3>4, <3>5, <3>6, <3>7, <3>8, SafeMoves
    <2> QED BY <2>3, <2>4
  <1> QED
    BY <1>6, <1>7, <1>8, <1>9, <1>10, <1>11, <1>12, <1>13, <1>14, <1>15, <1>16, <1>17, <1>18
    DEF Step

-----------------------------------------------------------------------------
(* What the breaker holds against the server.                               *)

\* What happens to the calls that a step of c is not about.
LEMMA OthersUndisturbed ==
  ASSUME NEW c \in Callers, TypeOK, Step(c), NEW d \in Callers \ {c}, Undisturbed(d)
  PROVE  Undisturbed(d)'
  <1>1. call'[d] = call[d] /\ report'[d] = report[d] /\ (Turn(c) => alone'[d] = alone[d])
    BY StepApart
  <1>2. CASE Start(c)
    <2>1. alone'[d] = FALSE BY <1>2 DEF Start
    <2> QED BY <2>1 DEF Undisturbed
  <1>3. CASE FastFail(c)
    <2>1. UNCHANGED <<mode, folders, source, filed, flagged, call, alone>>
      BY <1>3 DEF FastFail, server, history
    <2>2. Unclassed(d)' <=> Unclassed(d) BY <1>1, <2>1 DEF Unclassed
    <2>3. Smooth(d)' <=> Smooth(d) BY <2>1 DEF Smooth, Arrived, Copy
    <2>4. \A x \in Callers : Running(x)' <=> Running(x) BY <2>1 DEF Running
    <2> QED BY <2>1, <2>2, <2>3, <2>4 DEF Undisturbed
  <1>4. CASE Turn(c)
    <2>1. Running(c) BY <1>4 DEF Turn
    <2>2. ~alone[d] BY <2>1 DEF Undisturbed
    <2> QED BY <1>1, <1>4, <2>2 DEF Undisturbed
  <1> QED BY <1>2, <1>3, <1>4, StepTurns

\* An end that is held against the server has its reason.
LEMMA EndedBlame ==
  ASSUME NEW c \in Callers, TypeOK, Step(c), Running(c), Sound(c), Undisturbed(c),
         OnlyUnclassedMistakesCount,
         folders' = folders \/ call[c].pc = "create",
         NEW verdict, NEW ok, NEW bad, NEW undisturbed,
         Ended(c, verdict, ok, bad, undisturbed),
         undisturbed => alone[c],
         undisturbed /\ ~IsSuccessful(verdict) => Unclassed(c) /\ call[c].pc # "list"
  PROVE  Undisturbed(c)' /\ OnlyUnclassedMistakesCount'
  <1>1. mode' = mode BY StepShrinks
  <1>2. \A d \in Callers \ {c} : call'[d] = call[d] BY StepApart
  <1>3. undisturbed => \A d \in Callers \ {c} : ~Running(d)' BY <1>2 DEF Undisturbed, Running
  <1>4. OnlyUnclassedMistakesCount' \/ blamed' # blamed BY <1>1 DEF OnlyUnclassedMistakesCount
  <1>5. CASE /\ call'[c] = Attempt(call[c].req, call[c].try + 1)
             /\ ~NonRetryable(verdict) /\ verdict # "done"
             /\ report' = report /\ blamed' = blamed /\ alone'[c] = undisturbed
    <2>1. CASE ~undisturbed BY <1>4, <1>5, <2>1 DEF Undisturbed
    <2>2. CASE undisturbed
      <3>1. ~IsSuccessful(verdict) BY <1>5 DEF NonRetryable, IsSuccessful
      <3>2. Unclassed(c) /\ call[c].pc # "list" BY <2>2, <3>1
      <3>3. call'[c].pc = First(call[c].req.op) /\ call'[c].req = call[c].req
        BY <1>5 DEF Attempt, NoCall
      <3>4. call[c].req.op \in Curates => First(call[c].req.op) = "list"
        BY DEF First, Curates, Seens
      <3>5. Unclassed(c)' BY <1>1, <1>5, <3>2, <3>3, <3>4 DEF Unclassed
      <3>6. Running(c)' BY <3>3 DEF Running, First
      <3> QED BY <1>3, <1>4, <1>5, <2>2, <3>5, <3>6 DEF Undisturbed
    <2> QED BY <2>1, <2>2
  <1>6. CASE call'[c] = NoCall /\ alone'[c] = FALSE
    <2> DEFINE b == [req |-> call[c].req, stale |-> call[c].req.ids \ report[c].held,
                     nowhere |-> call[c].folder \notin folders]
    <2>1. Undisturbed(c)' BY <1>6 DEF Undisturbed
    <2>2. CASE blamed' = blamed BY <1>4, <2>1, <2>2
    <2>3. CASE ~IsSuccessful(verdict) /\ undisturbed /\ blamed' = blamed \cup {b}
      <3>1. Unclassed(c) /\ call[c].pc # "list" BY <2>3
      <3>2. \/ b.req.op = "move" /\ b.stale # {}
            \/ mode = "none" \/ (mode = "move" /\ b.req.ids \cap Anonymous # {})
            \/ /\ b.req.op \in Curates /\ b.nowhere
               /\ Targets[TargetOf(b.req.op)].override # <<>>
        BY <3>1 DEF Unclassed
      <3> HIDE DEF b
      <3>3. OnlyUnclassedMistakesCount' BY <1>1, <2>3, <3>2 DEF OnlyUnclassedMistakesCount
      <3> QED BY <2>1, <3>3
    <2> QED BY <1>5, <1>6, <2>2, <2>3 DEF Ended, NoCall, Attempt, First
  <1> QED BY <1>5, <1>6 DEF Ended

\* A call that goes on keeps its reason, or has what its next command needs.
LEMMA ProceedBlame ==
  ASSUME NEW c \in Callers, TypeOK, Step(c), Running(c), Undisturbed(c),
         OnlyUnclassedMistakesCount,
         folders' = folders \/ call[c].pc = "create",
         NEW next \in Calls, Proceed(c, next),
         next.req = call[c].req, next.pc \notin {"idle", "list"},
         LET override == Targets[TargetOf(next.req.op)].override IN
           \/ call[c].pc # "list" /\ next.pc # "create" /\ next.folder = call[c].folder
           \/ next.req.op \in Curates /\ override # <<>> =>
                next.pc # "create" /\ next.folder = override,
         alone[c] /\ Smooth(c) /\ ~Unclassed(c) => Smooth(c)'
  PROVE  Undisturbed(c)' /\ OnlyUnclassedMistakesCount'
  <1>1. mode' = mode BY StepShrinks
  <1>2. \A d \in Callers \ {c} : call'[d] = call[d] BY StepApart
  <1>3. call'[c] = next /\ report' = report /\ alone' = alone /\ blamed' = blamed BY ProceedIs
  <1>4. OnlyUnclassedMistakesCount' BY <1>1, <1>3 DEF OnlyUnclassedMistakesCount
  <1>5. ASSUME alone[c], Unclassed(c) PROVE Unclassed(c)'
    BY <1>1, <1>3, <1>5 DEF Unclassed
  <1>6. Running(c)' BY <1>3 DEF Running
  <1>7. alone[c] => \A d \in Callers \ {c} : ~Running(d)' BY <1>2 DEF Undisturbed, Running
  <1> QED BY <1>3, <1>4, <1>5, <1>6, <1>7 DEF Undisturbed

\* A success, and a refusal of the caller's mistake, are held against nobody.
LEMMA DoneBlame ==
  ASSUME NEW c \in Callers, TypeOK, Step(c), Running(c), Sound(c), Undisturbed(c),
         OnlyUnclassedMistakesCount,
         folders' = folders \/ call[c].pc = "create" \/ call[c].req.op = "drop",
         \/ Done(c)
         \/ \E verdict \in CallerMistakes : Refuse(c, verdict)
         \/ Settle(c, "done", {}, call[c].work, alone[c])
  PROVE  Undisturbed(c)' /\ OnlyUnclassedMistakesCount'
  <1>1. mode' = mode BY StepShrinks
  <1>2. ASSUME NEW verdict \in CallerMistakes \cup {"done"}, NEW ok, NEW bad,
               Ended(c, verdict, ok, bad, alone[c])
        PROVE  alone'[c] = FALSE /\ blamed' = blamed
    BY <1>2 DEF Ended, NonRetryable, IsSuccessful
  <1>3. CallerMistakes \subseteq Verdicts BY DEF CallerMistakes, Verdicts
  <1>4. alone'[c] = FALSE /\ blamed' = blamed
    <2>1. CASE Done(c) BY <1>2, <2>1, DoneIs
    <2>2. CASE \E verdict \in CallerMistakes : Refuse(c, verdict) BY <1>2, <1>3, <2>2, RefuseIs
    <2>3. CASE Settle(c, "done", {}, call[c].work, alone[c]) BY <1>2, <2>3, NothingFoundIs
    <2> QED BY <2>1, <2>2, <2>3
  <1> QED BY <1>1, <1>4 DEF Undisturbed, OnlyUnclassedMistakesCount

\* A fault that no mishap made has its reason.
LEMMA FaultBlame ==
  ASSUME NEW c \in Callers, TypeOK, Step(c), Running(c), Sound(c), Undisturbed(c),
         OnlyUnclassedMistakesCount, folders' = folders \/ call[c].pc = "create",
         call[c].pc # "list", Refuse(c, "fault"), Smooth(c) => Unclassed(c)
  PROVE  Undisturbed(c)' /\ OnlyUnclassedMistakesCount'
  <1>1. Ended(c, "fault", {}, {}, alone[c])
    <2>1. "fault" \in Verdicts BY DEF Verdicts
    <2> QED BY <2>1, RefuseIs
  <1>2. alone[c] /\ ~IsSuccessful("fault") => Unclassed(c) /\ call[c].pc # "list"
    BY DEF Undisturbed
  <1> QED BY <1>1, <1>2, EndedBlame

\* A step of c with nobody else at work.
LEMMA OwnUndisturbed ==
  ASSUME NEW c \in Callers, TypeOK, TypeOK', Sound(c), Undisturbed(c),
         OnlyUnclassedMistakesCount, Step(c)
  PROVE  Undisturbed(c)' /\ OnlyUnclassedMistakesCount'
  <1> DEFINE this == call[c]
             op == call[c].req.op
  <1>1. mode' = mode BY StepShrinks
  <1>2. /\ call[c] \in Calls /\ call[c].folder \in Names /\ call[c].work \in SUBSET Mail
        /\ mode \in {"move+uidplus", "move", "uidplus", "none"}
    BY CurationAssumption DEF TypeOK, Calls
  <1>3. CASE Start(c)
    <2>1. PICK req \in Requests :
             /\ call' = [call EXCEPT ![c] = Attempt(req, 1)]
             /\ report' = [report EXCEPT ![c] = [NoReport EXCEPT !.req = req,
                                                                 !.held = req.ids \cap source]]
      BY <1>3 DEF Start
    <2>2. /\ call'[c] = Attempt(req, 1) /\ \A d \in Callers \ {c} : call'[d] = call[d]
          /\ report'[c] = [NoReport EXCEPT !.req = req, !.held = req.ids \cap source]
      BY <2>1 DEF TypeOK
    <2>3. /\ call'[c].pc = First(req.op) /\ call'[c].req = req
          /\ report'[c].held = req.ids \cap source
      BY <2>2 DEF Attempt, NoCall, NoReport
    <2>4. alone'[c] => \A d \in Callers \ {c} : ~Running(d)'
      <3>1. alone'[c] => \A d \in Callers : ~Running(d) BY <1>3 DEF Start
      <3> QED BY <2>2, <3>1 DEF Running
    <2>5. source' = source /\ blamed' = blamed BY <1>3 DEF Start, server
    <2>6. CASE req.op = "move" /\ ~(req.ids \subseteq source)
      <3>1. Unclassed(c)' BY <2>3, <2>6 DEF Unclassed
      <3> QED BY <1>1, <2>3, <2>4, <2>5, <3>1
          DEF Undisturbed, Running, First, OnlyUnclassedMistakesCount
    <2>7. CASE req.op # "move" \/ req.ids \subseteq source
      <3>1. Smooth(c)' BY <2>3, <2>5, <2>7 DEF Smooth, First, Moving
      <3> QED BY <1>1, <2>3, <2>4, <2>5, <3>1
          DEF Undisturbed, Running, First, OnlyUnclassedMistakesCount
    <2> QED BY <2>6, <2>7
  <1>4. CASE FastFail(c)
    <2>1. ~Running(c) /\ alone' = alone /\ blamed' = blamed BY <1>4 DEF FastFail, history
    <2> QED BY <1>1, <2>1 DEF Undisturbed, OnlyUnclassedMistakesCount
  <1>5. CASE Resolve(c)
    <2>1. Running(c) /\ this.pc = "list" /\ folders' = folders /\ source' = source
      BY <1>5 DEF Resolve, At, Running, server
    <2>2. CASE \E verdict \in {"badfolder", "protected", "notempty"} : Refuse(c, verdict)
      BY <2>1, <2>2, DoneBlame DEF CallerMistakes
    <2>3. CASE Done(c) BY <2>1, <2>3, DoneBlame
    <2>4. ASSUME NEW next \in Calls, Proceed(c, next), Kept(c, next), Settled(c, next)
          PROVE  Undisturbed(c)' /\ OnlyUnclassedMistakesCount'
      <3> DEFINE override == Targets[TargetOf(op)].override
      <3>1. call'[c] = next /\ report' = report BY <2>4, ProceedIs
      <3>2. /\ next.req = this.req /\ next.work = this.req.ids /\ this.req \in Requests
            /\ next.sent = this.sent /\ next.try = this.try
        BY <2>1, <2>4 DEF Kept, Sound
      <3>3. next.pc \notin {"idle", "list"} BY <2>4 DEF Settled, Route
      <3>4. op \in Curates /\ override # <<>> => next.pc # "create" /\ next.folder = override
        BY <2>4 DEF Settled, Route, Curates
      <3>5. ASSUME alone[c], Smooth(c), ~Unclassed(c) PROVE Smooth(c)'
        <4>1. /\ op = "move" => this.req.ids \subseteq source
              /\ mode # "none" /\ (mode = "move" => this.req.ids \cap Anonymous = {})
              /\ op \in Curates /\ override # <<>> => override \in folders
          <5>1. op = "move" => this.req.ids \subseteq source BY <2>1, <3>5 DEF Smooth
          <5>2. mode # "none" /\ (mode = "move" => this.req.ids \cap Anonymous = {})
            BY <3>5 DEF Unclassed
          <5>3. op \in Curates /\ override # <<>> => override \in folders
            BY <2>1, <3>5 DEF Unclassed
          <5> QED BY <5>1, <5>2, <5>3
        <4>2. op = "move" => this.req.ids # {} BY <3>2, CurationAssumption DEF Single
        <4>3. /\ next.pc \in {"create", "locate", "same", "mids", "copy", "move", "count"}
              /\ next.pc = "create" => (op \in Curates => next.folder \notin folders)
              /\ next.pc \in {"locate", "count"} => next.folder \in folders
              /\ next.pc \in {"same", "mids", "copy", "move"} =>
                   op = "move" /\ next.folder \in folders /\ next.pc = Route(next.folder)
          <5>1. Route(next.folder) \in {"same", "mids", "copy", "move"} BY DEF Route
          <5>2. \/ /\ op \in Curates /\ next.pc = "create" /\ override = <<>>
                   /\ next.folder \notin folders
                \/ /\ op \in Curates /\ next.pc = "locate"
                   /\ IF override = <<>> THEN next.folder \in folders ELSE next.folder = override
                \/ op = "moveMany" /\ next.pc = "locate" /\ next.folder \in folders
                \/ op = "move" /\ next.pc = Route(next.folder) /\ next.folder \in folders
                \/ op = "create" /\ next.pc = "create"
                \/ op = "drop" /\ next.pc = "count" /\ next.folder \in folders
            BY <2>4 DEF Settled
          <5>3. op = "create" => op \notin Curates BY DEF Curates
          <5> HIDE DEF override, op
          <5> QED BY <4>1, <5>1, <5>2, <5>3
        <4>4. /\ next.pc = "mids" => mode = "move"
              /\ next.pc = "copy" => mode = "uidplus"
          BY <4>3 DEF Route
        <4>5. next.pc \in {"mids", "move"} /\ mode = "move" => next.work \cap Anonymous = {}
          BY <3>2, <4>1
        <4> HIDE DEF override
        <4> QED BY <1>1, <2>1, <3>1, <3>2, <4>1, <4>2, <4>3, <4>4, <4>5 DEF Smooth, Moving
      <3> QED BY <2>1, <2>4, <3>2, <3>3, <3>4, <3>5, ProceedBlame
    <2> QED BY <1>5, <2>2, <2>3, <2>4, ResolveIs
  <1>6. CASE Create(c)
    <2> DEFINE next == [call[c] EXCEPT !.pc = "locate"]
    <2>1. Running(c) /\ this.pc = "create" /\ folders' = folders \cup {this.folder}
      BY <1>6 DEF Create, At, Running
    <2>2. \/ Done(c)
          \/ op # "create" /\ this.folder \in folders /\ Refuse(c, "fault")
          \/ op # "create" /\ Proceed(c, next)
      BY <1>6 DEF Create
    <2>3. CASE Done(c) BY <2>1, <2>3, DoneBlame
    <2>4. CASE op # "create" /\ this.folder \in folders /\ Refuse(c, "fault")
      <3>1. op \in Curates BY <2>1, <2>4 DEF Sound
      <3>2. ~Smooth(c) BY <2>1, <2>4, <3>1 DEF Smooth
      <3> QED BY <2>1, <2>4, <3>2, FaultBlame
    <2>5. CASE op # "create" /\ Proceed(c, next)
      <3>1. /\ next \in Calls /\ next.pc = "locate" /\ next.req = this.req
            /\ next.folder = this.folder
        BY <1>2 DEF Calls, Steps
      <3> HIDE DEF next
      <3>2. call'[c] = next BY <2>5, <3>1, ProceedIs
      <3>3. Smooth(c)' BY <2>1, <3>1, <3>2 DEF Smooth, Moving
      <3> QED BY <2>1, <2>5, <3>1, <3>3, ProceedBlame
    <2> QED BY <2>2, <2>3, <2>4, <2>5
  <1>7. CASE locateMany(c)
    <2> DEFINE present == this.work \cap source
               pc == IF op \in Seens THEN "store" ELSE AfterLocating(this)
               next == [this EXCEPT !.work = present, !.bad = this.work \ present, !.pc = pc]
    <2>1. /\ Running(c) /\ this.pc = "locate"
          /\ folders' = folders /\ source' = source /\ this.work = this.req.ids
      BY <1>7 DEF locateMany, At, Running, server, Sound
    <2>2. \/ Refuse(c, "badid") \/ Settle(c, "done", {}, this.work, alone[c])
          \/ present # {} /\ Proceed(c, next)
      BY <1>7 DEF locateMany
    <2>3. CASE Refuse(c, "badid") \/ Settle(c, "done", {}, this.work, alone[c])
      BY <2>1, <2>3, DoneBlame DEF CallerMistakes
    <2>4. CASE present # {} /\ Proceed(c, next)
      <3>1. pc \in Steps \ {"idle", "list", "create"} BY DEF AfterLocating, Steps
      <3>2. /\ next \in Calls /\ next.pc = pc /\ next.work = present /\ next.req = this.req
            /\ next.folder = this.folder
        <4> HIDE DEF pc
        <4> QED BY <1>2, <3>1 DEF Calls
      <3>3. call'[c] = next BY <2>4, <3>2, ProceedIs
      <3>4. op \notin Seens => pc = Route(this.folder) BY DEF AfterLocating, Route
      <3>5. ASSUME alone[c], Smooth(c), ~Unclassed(c) PROVE Smooth(c)'
        <4>1. CASE op \in Seens BY <3>2, <3>3, <4>1 DEF Smooth, Moving
        <4>2. CASE op \notin Seens
          <5>1. /\ this.folder \in folders /\ mode # "none"
                /\ (mode = "move" => this.req.ids \cap Anonymous = {})
            BY <2>1, <3>5, <4>2 DEF Smooth, Unclassed
          <5>2. /\ pc \in {"same", "mids", "copy", "move"}
                /\ pc = "mids" => mode = "move"
                /\ pc = "copy" => mode = "uidplus"
            BY <3>4, <4>2 DEF Route
          <5>3. /\ next.work # {} /\ next.work \subseteq source'
                /\ mode = "move" => next.work \cap Anonymous = {}
            BY <2>1, <2>4, <3>2, <5>1
          <5> HIDE DEF pc, next
          <5> QED BY <1>1, <2>1, <3>2, <3>3, <5>1, <5>2, <5>3 DEF Smooth, Moving
        <4> QED BY <4>1, <4>2
      <3>6. next.pc \notin {"idle", "list"} /\ next.pc # "create" BY <3>1, <3>2
      <3> HIDE DEF next, pc
      <3> QED BY <2>1, <2>4, <3>2, <3>5, <3>6, ProceedBlame
    <2> QED BY <2>2, <2>3, <2>4
  <1>8. CASE storeSeen(c)
    <2>1. Running(c) /\ folders' = folders /\ Done(c) BY <1>8 DEF storeSeen, At, Running
    <2> QED BY <2>1, DoneBlame
  <1>9. CASE AlreadyThere(c)
    <2>1. /\ Running(c) /\ folders' = folders /\ this.pc = "same"
          /\ Done(c) \/ (Refuse(c, "fault") /\ ~(this.work \subseteq source))
      BY <1>9 DEF AlreadyThere, At, Running, server
    <2>2. CASE Done(c) BY <2>1, <2>2, DoneBlame
    <2>3. CASE Refuse(c, "fault") /\ ~(this.work \subseteq source)
      <3>1. ~Smooth(c) BY <2>1, <2>3 DEF Smooth
      <3> QED BY <2>1, <2>3, <3>1, FaultBlame
    <2> QED BY <2>1, <2>2, <2>3
  <1>10. CASE fetchMessageIDs(c)
    <2> DEFINE next == [call[c] EXCEPT !.pc = "move"]
    <2>1. /\ Running(c) /\ folders' = folders /\ source' = source /\ this.pc = "mids"
          /\ \/ Refuse(c, "fault") /\ ~(this.work \subseteq source \ Anonymous)
             \/ Proceed(c, next) /\ this.work \subseteq source \ Anonymous
      BY <1>10 DEF fetchMessageIDs, At, Running, server
    <2>2. CASE Refuse(c, "fault") /\ ~(this.work \subseteq source \ Anonymous)
      <3>1. ~Smooth(c) BY <2>1, <2>2 DEF Smooth
      <3> QED BY <2>1, <2>2, <3>1, FaultBlame
    <2>3. CASE Proceed(c, next) /\ this.work \subseteq source \ Anonymous
      <3>1. /\ next \in Calls /\ next.pc = "move" /\ next.req = this.req
            /\ next.folder = this.folder /\ next.work = this.work
        BY <1>2 DEF Calls, Steps
      <3> HIDE DEF next
      <3>2. call'[c] = next BY <2>3, <3>1, ProceedIs
      <3>3. Smooth(c) => Smooth(c)'
        <4>1. next.work \cap Anonymous = {} /\ next.work \subseteq source' BY <2>1, <2>3, <3>1
        <4> QED BY <1>1, <2>1, <3>1, <3>2, <4>1 DEF Smooth, Moving
      <3> QED BY <2>1, <2>3, <3>1, <3>3, ProceedBlame
    <2> QED BY <2>1, <2>2, <2>3
  <1>11. CASE MoveMessages(c)
    <2> DEFINE moved == call[c].work \cap source
               next == [call[c] EXCEPT !.sent = IF mode = "move" THEN {} ELSE moved,
                                       !.pc = "checkSource"]
    <2>1. /\ Running(c) /\ folders' = folders /\ this.pc = "move"
          /\ \/ Refuse(c, "fault") /\ (mode = "none" \/ this.folder \notin folders)
             \/ /\ source' = source \ moved /\ this.folder \in folders
                /\ Arriving(call[c].folder, {Copy(m, c) : m \in moved}) /\ Proceed(c, next)
      BY <1>11 DEF MoveMessages, At, Running
    <2>2. CASE Refuse(c, "fault") /\ (mode = "none" \/ this.folder \notin folders)
      <3>1. ~Smooth(c) BY <2>1, <2>2 DEF Smooth, Moving
      <3> QED BY <2>1, <2>2, <3>1, FaultBlame
    <2>3. CASE /\ source' = source \ moved /\ this.folder \in folders
               /\ Arriving(call[c].folder, {Copy(m, c) : m \in moved}) /\ Proceed(c, next)
      <3>1. /\ next \in Calls /\ next.pc = "checkSource" /\ next.req = this.req
            /\ next.folder = this.folder /\ next.work = this.work /\ next.try = this.try
            /\ next.sent = IF mode = "move" THEN {} ELSE moved
        BY <1>2 DEF Calls, Steps
      <3> HIDE DEF next
      <3>2. call'[c] = next BY <2>3, <3>1, ProceedIs
      <3>3. Smooth(c) => Smooth(c)'
        <4> SUFFICES ASSUME Smooth(c) PROVE Smooth(c)'
          OBVIOUS
        <4>1. this.work \subseteq source /\ this.work # {} /\ mode # "none"
          BY <2>1 DEF Smooth, Moving
        <4>2. moved = this.work /\ moved \in SUBSET Mail BY <1>2, <4>1
        <4>3. \A m \in moved : Copy(m, c) \in filed'[this.folder] BY <2>3, <4>2, CopiesArrive
        <4>4. Arrived(c)' BY <3>1, <3>2, <4>2, <4>3 DEF Arrived, Copy
        <4>5. next.work \cap source' = {} /\ next.sent = IF mode = "move" THEN {} ELSE next.work
          BY <2>3, <3>1, <4>2
        <4> QED BY <1>1, <2>1, <2>3, <3>1, <3>2, <4>1, <4>4, <4>5 DEF Smooth, Moving
      <3> QED BY <2>1, <2>3, <3>1, <3>3, ProceedBlame
    <2> QED BY <2>1, <2>2, <2>3
  <1>12. CASE CopyMessages(c)
    <2> DEFINE copied == call[c].work \cap source
               next == [call[c] EXCEPT !.sent = copied, !.pc = "flag"]
    <2>1. /\ Running(c) /\ folders' = folders /\ source' = source /\ this.pc = "copy"
          /\ CopyDone(c) \/ \E full \in BOOLEAN : CopyRefused(c, full)
      BY <1>12, CopyOutcomes DEF At
    <2>2. ASSUME NEW full \in BOOLEAN, CopyRefused(c, full)
          PROVE  Undisturbed(c)' /\ OnlyUnclassedMistakesCount'
      <3> DEFINE undisturbed == alone[c] /\ ~full
      <3>1. Ended(c, "fault", {}, {}, undisturbed) BY <2>1, <2>2, CopyRefusedIs
      <3>2. ASSUME undisturbed PROVE alone[c] /\ Unclassed(c)
        <4>1. this.folder \notin folders BY <2>2, <3>2 DEF CopyRefused
        <4>2. ~Smooth(c) BY <2>1, <4>1 DEF Smooth, Moving
        <4> QED BY <3>2, <4>2 DEF Undisturbed
      <3> HIDE DEF undisturbed
      <3> QED BY <2>1, <3>1, <3>2, EndedBlame
    <2>3. CASE CopyDone(c)
      <3>1. /\ this.folder \in folders /\ Proceed(c, next)
            /\ Arriving(call[c].folder, {Copy(m, c) : m \in copied})
        BY <2>3 DEF CopyDone
      <3>2. /\ next \in Calls /\ next.pc = "flag" /\ next.req = this.req
            /\ next.folder = this.folder /\ next.work = this.work /\ next.try = this.try
            /\ next.sent = copied
        BY <1>2 DEF Calls, Steps
      <3> HIDE DEF next
      <3>3. call'[c] = next BY <3>1, <3>2, ProceedIs
      <3>4. Smooth(c) => Smooth(c)'
        <4> SUFFICES ASSUME Smooth(c) PROVE Smooth(c)'
          OBVIOUS
        <4>1. this.work \subseteq source /\ this.work # {} /\ mode = "uidplus"
          BY <2>1 DEF Smooth, Moving
        <4>2. copied = this.work /\ copied \in SUBSET Mail BY <1>2, <4>1
        <4>3. \A m \in copied : Copy(m, c) \in filed'[this.folder] BY <3>1, <4>2, CopiesArrive
        <4>4. Arrived(c)' BY <3>2, <3>3, <4>2, <4>3 DEF Arrived, Copy
        <4> QED BY <1>1, <2>1, <3>2, <3>3, <3>1, <4>1, <4>2, <4>4 DEF Smooth, Moving
      <3> QED BY <2>1, <3>2, <3>4, <3>1, ProceedBlame
    <2> QED BY <2>1, <2>2, <2>3
  <1>13. CASE FlagDeleted(c)
    <2> DEFINE next == [call[c] EXCEPT !.pc = "expunge"]
    <2>1. /\ Running(c) /\ UNCHANGED <<folders, source, filed>> /\ this.pc = "flag"
          /\ flagged' = flagged \cup (this.work \cap source) /\ Proceed(c, next)
      BY <1>13 DEF FlagDeleted, At, Running
    <2>2. /\ next \in Calls /\ next.pc = "expunge" /\ next.req = this.req
          /\ next.folder = this.folder /\ next.work = this.work /\ next.try = this.try
          /\ next.sent = this.sent
      BY <1>2 DEF Calls, Steps
    <2> HIDE DEF next
    <2>3. call'[c] = next BY <2>1, <2>2, ProceedIs
    <2>4. Smooth(c) => Smooth(c)'
      <3> SUFFICES ASSUME Smooth(c) PROVE Smooth(c)'
        OBVIOUS
      <3>1. /\ this.work \subseteq source /\ this.work # {} /\ mode = "uidplus"
            /\ this.folder \in folders /\ this.sent = this.work /\ Arrived(c)
        BY <2>1 DEF Smooth, Moving
      <3>2. Arrived(c)' BY <2>1, <2>2, <2>3, <3>1 DEF Arrived, Copy
      <3> QED BY <1>1, <2>1, <2>2, <2>3, <3>1, <3>2 DEF Smooth, Moving
    <2> QED BY <2>1, <2>2, <2>4, ProceedBlame
  <1>14. CASE ExpungeMoved(c)
    <2> DEFINE next == [call[c] EXCEPT !.pc = "checkSource"]
    <2>1. /\ Running(c) /\ UNCHANGED <<folders, filed>> /\ this.pc = "expunge"
          /\ source' = source \ (this.work \cap flagged) /\ Proceed(c, next)
      BY <1>14 DEF ExpungeMoved, At, Running
    <2>2. /\ next \in Calls /\ next.pc = "checkSource" /\ next.req = this.req
          /\ next.folder = this.folder /\ next.work = this.work /\ next.try = this.try
          /\ next.sent = this.sent
      BY <1>2 DEF Calls, Steps
    <2> HIDE DEF next
    <2>3. call'[c] = next BY <2>1, <2>2, ProceedIs
    <2>4. Smooth(c) => Smooth(c)'
      <3> SUFFICES ASSUME Smooth(c) PROVE Smooth(c)'
        OBVIOUS
      <3>1. /\ this.work \subseteq flagged /\ this.work # {} /\ mode = "uidplus"
            /\ this.folder \in folders /\ this.sent = this.work /\ Arrived(c)
        BY <2>1 DEF Smooth, Moving
      <3>2. Arrived(c)' BY <2>1, <2>2, <2>3, <3>1 DEF Arrived, Copy
      <3>3. next.work \cap source' = {} BY <2>1, <2>2, <3>1
      <3> QED BY <1>1, <2>1, <2>2, <2>3, <3>1, <3>2, <3>3 DEF Smooth, Moving
    <2> QED BY <2>1, <2>2, <2>4, ProceedBlame
  <1>15. CASE VerifySource(c)
    <2> DEFINE next == [call[c] EXCEPT !.pc = "checkDest"]
    <2>1. /\ Running(c) /\ UNCHANGED <<folders, source, filed>> /\ this.pc = "checkSource"
          /\ \/ Refuse(c, "fault") /\ this.work \cap source # {}
             \/ Proceed(c, next)
      BY <1>15 DEF VerifySource, At, Running, server
    <2>2. CASE Refuse(c, "fault") /\ this.work \cap source # {}
      <3>1. ~Smooth(c) BY <2>1, <2>2 DEF Smooth
      <3> QED BY <2>1, <2>2, <3>1, FaultBlame
    <2>3. CASE Proceed(c, next)
      <3>1. /\ next \in Calls /\ next.pc = "checkDest" /\ next.req = this.req
            /\ next.folder = this.folder /\ next.work = this.work /\ next.try = this.try
            /\ next.sent = this.sent
        BY <1>2 DEF Calls, Steps
      <3> HIDE DEF next
      <3>2. call'[c] = next BY <2>3, <3>1, ProceedIs
      <3>3. Smooth(c) => Smooth(c)'
        <4> SUFFICES ASSUME Smooth(c) PROVE Smooth(c)'
          OBVIOUS
        <4>1. /\ this.work \cap source = {} /\ this.work # {} /\ mode # "none"
              /\ this.sent = (IF mode = "move" THEN {} ELSE this.work)
              /\ this.folder \in folders /\ Arrived(c)
          BY <2>1 DEF Smooth, Moving
        <4>2. Arrived(c)' BY <2>1, <3>1, <3>2, <4>1 DEF Arrived, Copy
        <4> QED BY <1>1, <2>1, <3>1, <3>2, <4>1, <4>2 DEF Smooth, Moving
      <3> QED BY <2>1, <2>3, <3>1, <3>3, ProceedBlame
    <2> QED BY <2>1, <2>2, <2>3
  <1>16. CASE VerifyDestination(c)
    <2> DEFINE held == filed[this.folder]
               byUID == this.sent = this.work /\ \A m \in this.sent : Copy(m, c) \in held
               byMessageID == mode = "move" /\ this.work \subseteq {k.msg : k \in held}
               found == /\ this.folder \in folders
                        /\ IF this.sent # {} THEN byUID ELSE byMessageID
    <2>1. /\ Running(c) /\ folders' = folders /\ this.pc = "checkDest"
          /\ Done(c) \/ (Refuse(c, "fault") /\ ~found)
      BY <1>16 DEF VerifyDestination, At, Running, server
    <2>2. CASE Done(c) BY <2>1, <2>2, DoneBlame
    <2>3. CASE Refuse(c, "fault") /\ ~found
      <3>1. ASSUME Smooth(c) PROVE found
        <4>1. /\ this.work # {} /\ this.folder \in folders
              /\ this.sent = (IF mode = "move" THEN {} ELSE this.work)
              /\ \A m \in this.work : Copy(m, c) \in held
          BY <2>1, <3>1 DEF Smooth, Moving, Arrived
        <4>2. this.work \subseteq {k.msg : k \in held} BY <1>2, <4>1, CopyIs
        <4> QED BY <4>1, <4>2
      <3> HIDE DEF found
      <3> QED BY <2>1, <2>3, <3>1, FaultBlame
    <2> QED BY <2>1, <2>2, <2>3
  <1>17. CASE folderMessages(c)
    <2> DEFINE next == [call[c] EXCEPT !.pc = "remove"]
    <2>1. /\ Running(c) /\ folders' = folders /\ this.pc = "count"
          /\ \/ Refuse(c, "fault") /\ this.folder \notin folders
             \/ Refuse(c, "notempty")
             \/ Proceed(c, next)
      BY <1>17 DEF folderMessages, At, Running, server
    <2>2. CASE Refuse(c, "fault") /\ this.folder \notin folders
      <3>1. ~Smooth(c) BY <2>1, <2>2 DEF Smooth
      <3> QED BY <2>1, <2>2, <3>1, FaultBlame
    <2>3. CASE Refuse(c, "notempty") BY <2>1, <2>3, DoneBlame DEF CallerMistakes
    <2>4. CASE Proceed(c, next)
      <3>1. /\ next \in Calls /\ next.pc = "remove" /\ next.req = this.req
            /\ next.folder = this.folder
        BY <1>2 DEF Calls, Steps
      <3> HIDE DEF next
      <3>2. call'[c] = next BY <2>4, <3>1, ProceedIs
      <3>3. Smooth(c) => Smooth(c)' BY <2>1, <3>1, <3>2 DEF Smooth, Moving
      <3> QED BY <2>1, <2>4, <3>1, <3>3, ProceedBlame
    <2> QED BY <2>1, <2>2, <2>3, <2>4
  <1>18. CASE DeleteMailbox(c)
    <2>1. Running(c) /\ this.pc = "remove" /\ op = "drop"
      BY <1>18 DEF DeleteMailbox, At, Running, Sound
    <2>2. \/ Refuse(c, "fault") /\ this.folder \notin folders /\ folders' = folders
          \/ Done(c)
      BY <1>18 DEF DeleteMailbox
    <2>3. CASE Refuse(c, "fault") /\ this.folder \notin folders /\ folders' = folders
      <3>1. ~Smooth(c) BY <2>1, <2>3 DEF Smooth
      <3> QED BY <2>1, <2>3, <3>1, FaultBlame
    <2>4. CASE Done(c) BY <2>1, <2>4, DoneBlame
    <2> QED BY <2>2, <2>3, <2>4
  <1>19. ASSUME NEW verdict \in {"fault", "deadline", "canceled"}, Mishap(c, verdict)
         PROVE  Undisturbed(c)' /\ OnlyUnclassedMistakesCount'
    <2>1. Running(c) /\ Settle(c, verdict, {}, {}, FALSE) /\ folders' = folders
      BY <1>19 DEF Mishap, server
    <2>2. call[c].req \in Requests /\ verdict \in Verdicts BY <2>1 DEF Sound, Verdicts
    <2>3. {} \in SUBSET Mail /\ FALSE \in BOOLEAN
      OBVIOUS
    <2>4. Ended(c, verdict, {}, {}, FALSE) BY <2>1, <2>2, <2>3, SettleIs
    <2> QED BY <2>1, <2>4, EndedBlame
  <1> QED
    BY <1>3, <1>4, <1>5, <1>6, <1>7, <1>8, <1>9, <1>10, <1>11, <1>12, <1>13, <1>14, <1>15,
       <1>16, <1>17, <1>18, <1>19
    DEF Step, Fault, Deadline, Cancel

-----------------------------------------------------------------------------
(* The invariant.                                                           *)

LEMMA InvInit == Init => IInv
  <1> SUFFICES ASSUME Init PROVE IInv
    OBVIOUS
  <1>1. TypeOK BY TypeInit
  <1>2. /\ \A c \in Callers : call[c].pc = "idle" /\ call[c].work = {} /\ call[c].bad = {}
        /\ \A c \in Callers : /\ report[c].ok = {} /\ report[c].bad = {} /\ ~alone[c]
        /\ source = Mail /\ filed = [name \in Names |-> {}]
        /\ flagged = {} /\ adrift = {} /\ destroyed = {} /\ blamed = {}
    BY DEF Init, NoCall, NoReport
  <1>3. Safe BY <1>2 DEF Safe, At
  <1>4. OnlyUnclassedMistakesCount BY <1>2 DEF OnlyUnclassedMistakesCount
  <1>5. ReportsAreTrue BY <1>2 DEF ReportsAreTrue
  <1>6. \A c \in Callers : Sound(c) BY <1>2 DEF Sound, Running, Moving
  <1>7. \A c \in Callers : Guarded(c) /\ Undisturbed(c) BY <1>2 DEF Guarded, Undisturbed
  <1> QED BY <1>1, <1>3, <1>4, <1>5, <1>6, <1>7 DEF IInv

\* A step of a call.
LEMMA InvStep ==
  ASSUME IInv, NEW c \in Callers, Step(c)
  PROVE  IInv'
  <1> USE DEF IInv
  <1>1. TypeOK' BY TypeStep
  <1>2. Safe' BY <1>1, StepSafe
  <1>3. \A d \in Callers : Guarded(d)' BY StepGuarded
  <1>4. \A d \in Callers : Truthful(d) BY TruthParts
  <1>5. Sound(c)' /\ Truthful(c)' BY <1>1, <1>4, OwnSound
  <1>6. ASSUME NEW d \in Callers \ {c} PROVE Sound(d)' /\ Truthful(d)'
    <2>1. Shrinks BY StepShrinks
    <2>2. call'[d] = call[d] /\ report'[d] = report[d] BY StepApart
    <2>3. source' \subseteq source /\ seen \subseteq seen' BY <2>1 DEF Shrinks
    <2>4. Sound(d)' BY <2>2, <2>3 DEF Sound, Running
    <2>5. Truthful(d)' BY <1>4, <2>2, <2>3 DEF Truthful
    <2> QED BY <2>4, <2>5
  <1>7. ReportsAreTrue' BY <1>5, <1>6 DEF ReportsAreTrue, Truthful
  <1>8. Undisturbed(c)' /\ OnlyUnclassedMistakesCount' BY <1>1, OwnUndisturbed
  <1>9. \A d \in Callers \ {c} : Undisturbed(d)' BY OthersUndisturbed
  <1> QED BY <1>1, <1>2, <1>3, <1>5, <1>6, <1>7, <1>8, <1>9

\* Nothing that has to do with calls, and nobody undisturbed.
Aside ==
  /\ UNCHANGED <<mode, folders, seen, call, report, blamed, orphaned>>
  /\ \A c \in Callers : ~alone'[c]

LEMMA OthersStep ==
  ASSUME IInv, Aside, source' \subseteq source, TypeOK', Safe'
  PROVE  IInv'
  <1>1. UNCHANGED <<mode, folders, seen, call, report, blamed, orphaned>>
        /\ \A c \in Callers : ~alone'[c]
    BY DEF Aside
  <1>2. \A c \in Callers : Sound(c)' BY <1>1 DEF IInv, Sound, Running
  <1>3. \A c \in Callers : Guarded(c)' BY <1>1, GuardedFrame DEF IInv
  <1>4. \A c \in Callers : Undisturbed(c)' BY <1>1 DEF Undisturbed
  <1>5. ReportsAreTrue' BY <1>1 DEF IInv, ReportsAreTrue
  <1>6. OnlyUnclassedMistakesCount' BY <1>1 DEF IInv, OnlyUnclassedMistakesCount
  <1> QED BY <1>2, <1>3, <1>4, <1>5, <1>6 DEF IInv

\* What other clients leave of the pipeline.
LEMMA OtherTypes == ASSUME TypeOK, Other PROVE Pipeline'
  BY DEF TypeOK, Other, Pipeline

LEMMA InvOther ==
  ASSUME IInv, Deliver \/ TakeAway \/ Undelete \/ Expunge
  PROVE  IInv'
  <1>1. TypeOK /\ Safe /\ Other /\ Aside /\ Pipeline'
    <2>1. TypeOK /\ Safe /\ Other BY DEF IInv, Deliver, TakeAway, Undelete, Expunge
    <2>2. Aside BY <2>1 DEF Other, Aside
    <2> QED BY <2>1, <2>2, OtherTypes
  <1>2. /\ UNCHANGED <<mode, folders, adrift, seen, started, mishaps, destroyed, forsaken,
                       orphaned, call>>
        /\ others' \in 0 .. MaxOthers
    BY <1>1, CurationAssumption DEF Other, TypeOK
  <1>3. Surroundings BY <1>1, TypeParts
  <1>4. CASE Deliver
    <2>1. PICK m \in Incoming, name \in folders :
                 Arriving(name, {[msg |-> m, by |-> Nobody, try |-> 0]})
      BY <1>4 DEF Deliver
    <2> DEFINE k == [msg |-> m, by |-> Nobody, try |-> 0]
    <2>2. UNCHANGED <<source, flagged, taken>> BY <1>4 DEF Deliver
    <2>3. name \in Names /\ k \in Copies
      BY <1>1, CurationAssumption DEF TypeOK, Copies, Messages
    <2>4. {k} \in SUBSET Copies BY <2>3
    <2>5. /\ filed' \in [Names -> SUBSET Copies] /\ late' \in SUBSET Copies
          /\ late \subseteq late' /\ \A n \in Names : filed[n] \subseteq filed'[n]
          /\ filed'[name] = filed[name] \cup {k}
          /\ \A n \in Names \ {name} : filed'[n] = filed[n]
          /\ (\E x \in Callers : At(x, "remove") /\ call[x].folder = name) => {k} \subseteq late'
      BY <1>1, <2>1, <2>3, <2>4, ArrivingIs
    <2> HIDE DEF k
    <2>6. TypeOK'
      <3>1. Surroundings' BY <1>2, <1>3, <2>2, <2>5 DEF Surroundings
      <3> QED BY <1>1, <3>1, TypePartsNext
    <2>7. \A x : Elsewhere(x) => Elsewhere(x)' BY <1>2, <2>2, <2>5, ElsewhereStays
    <2>8. \A n \in Names \ folders' : filed'[n] = {} BY <1>1, <1>2, <2>1, <2>5 DEF Safe
    <2>9. destroyed' \subseteq late' BY <1>1, <1>2, <2>5 DEF Safe
    <2>10. \A d \in Callers : call'[d].pc = "remove" =>
             call'[d] = call[d] /\ filed'[call[d].folder] \subseteq filed[call[d].folder] \cup late'
      <3>1. \A d \in Callers : call[d].folder \in Names BY <1>1 DEF TypeOK, Calls
      <3> QED BY <1>2, <2>5, <3>1 DEF At
    <2>11. Safe' BY <1>1, <1>2, <2>2, <2>5, <2>6, <2>7, <2>8, <2>9, <2>10, SafeMoves
    <2> QED BY <1>1, <2>2, <2>6, <2>11, OthersStep
  <1>5. CASE TakeAway
    <2>1. UNCHANGED late BY <1>5 DEF TakeAway
    <2>2. CASE \E m \in source : /\ source' = source \ {m} /\ flagged' = flagged \ {m}
                                 /\ taken' = taken \cup {m} /\ UNCHANGED filed
      <3>1. PICK m \in source : /\ source' = source \ {m} /\ flagged' = flagged \ {m}
                                /\ taken' = taken \cup {m} /\ UNCHANGED filed
        BY <2>2
      <3>2. m \in Messages BY <1>1 DEF TypeOK, Messages
      <3>3. Surroundings' BY <1>2, <1>3, <2>1, <3>1, <3>2 DEF Surroundings
      <3>4. TypeOK' BY <1>1, <3>3, TypePartsNext
      <3>5. \A x : Elsewhere(x) => Elsewhere(x)' BY <1>2, <3>1, ElsewhereStays
      <3>6. \A x \in source \ source' : Elsewhere(x)' BY <3>1 DEF Elsewhere
      <3>7. (\A n \in Names \ folders' : filed'[n] = {}) /\ destroyed' \subseteq late'
        BY <1>1, <1>2, <2>1, <3>1 DEF Safe
      <3>8. Safe' BY <1>1, <1>2, <2>1, <3>1, <3>4, <3>5, <3>6, <3>7, SafeMoves
      <3> QED BY <1>1, <3>1, <3>4, <3>8, OthersStep
    <2>3. CASE \E name \in folders, k \in Copies :
                 /\ k \in filed[name] /\ filed' = [filed EXCEPT ![name] = @ \ {k}]
                 /\ taken' = taken \cup {k.msg} /\ UNCHANGED <<source, flagged>>
      <3>1. PICK name \in folders, k \in Copies :
                 /\ k \in filed[name] /\ filed' = [filed EXCEPT ![name] = @ \ {k}]
                 /\ taken' = taken \cup {k.msg} /\ UNCHANGED <<source, flagged>>
        BY <2>3
      <3>2. name \in Names /\ k.msg \in Messages BY <1>1 DEF TypeOK, Copies
      <3>3. /\ filed' \in [Names -> SUBSET Copies] /\ filed'[name] = filed[name] \ {k}
            /\ \A n \in Names \ {name} : filed'[n] = filed[n]
        BY <1>1, <3>1, <3>2 DEF TypeOK
      <3>4. Surroundings' BY <1>2, <1>3, <2>1, <3>1, <3>2, <3>3 DEF Surroundings
      <3>5. TypeOK' BY <1>1, <3>4, TypePartsNext
      <3>6. ASSUME NEW x, Elsewhere(x) PROVE Elsewhere(x)'
        <4>1. CASE \E n \in Names : \E j \in filed[n] : j.msg = x
          <5>1. PICK n \in Names : \E j \in filed[n] : j.msg = x BY <4>1
          <5>2. PICK j \in filed[n] : j.msg = x BY <5>1
          <5>3. CASE j = k BY <3>1, <5>2, <5>3 DEF Elsewhere
          <5>4. CASE j # k
            <6>1. j \in filed'[n] BY <3>3, <5>2, <5>4
            <6> QED BY <5>2, <6>1 DEF Elsewhere
          <5> QED BY <5>3, <5>4
        <4>2. CASE x \in taken \/ x \in forsaken BY <1>2, <3>1, <4>2 DEF Elsewhere
        <4>3. CASE \E j \in destroyed : j.msg = x BY <1>2, <4>3 DEF Elsewhere
        <4> QED BY <3>6, <4>1, <4>2, <4>3 DEF Elsewhere
      <3>7. (\A n \in Names \ folders' : filed'[n] = {}) /\ destroyed' \subseteq late'
        BY <1>1, <1>2, <2>1, <3>1, <3>3 DEF Safe
      <3>8. \A d \in Callers : filed'[call[d].folder] \subseteq filed[call[d].folder]
        <4>1. \A d \in Callers : call[d].folder \in Names BY <1>1 DEF TypeOK, Calls
        <4> QED BY <3>3, <4>1
      <3>9. Safe' BY <1>1, <1>2, <2>1, <3>1, <3>5, <3>6, <3>7, <3>8, SafeMoves
      <3> QED BY <1>1, <3>1, <3>5, <3>9, OthersStep
    <2> QED BY <1>5, <2>2, <2>3 DEF TakeAway
  <1>6. CASE Undelete
    <2>1. UNCHANGED <<source, filed, taken, late>> /\ flagged' \subseteq flagged
      BY <1>6 DEF Undelete
    <2>2. Surroundings' BY <1>2, <1>3, <2>1 DEF Surroundings
    <2>3. TypeOK' BY <1>1, <2>2, TypePartsNext
    <2>4. Safe' BY <1>1, <1>2, <2>1, <2>3, SafeFrame
    <2> QED BY <1>1, <2>1, <2>3, <2>4, OthersStep
  <1>7. CASE Expunge
    <2>1. UNCHANGED <<filed, taken, late>> /\ source' = source \ flagged /\ flagged' = {}
      BY <1>7 DEF Expunge
    <2>2. Surroundings' BY <1>2, <1>3, <2>1 DEF Surroundings
    <2>3. TypeOK' BY <1>1, <2>2, TypePartsNext
    <2>4. \A x : Elsewhere(x) => Elsewhere(x)' BY <1>2, <2>1, ElsewhereStays
    <2>5. \A x \in source \ source' : Elsewhere(x)' BY <1>1, <2>1, <2>4 DEF Safe
    <2>6. (\A n \in Names \ folders' : filed'[n] = {}) /\ destroyed' \subseteq late'
      BY <1>1, <1>2, <2>1 DEF Safe
    <2>7. Safe' BY <1>1, <1>2, <2>1, <2>3, <2>4, <2>5, <2>6, SafeMoves
    <2> QED BY <1>1, <2>1, <2>3, <2>7, OthersStep
  <1> QED BY <1>4, <1>5, <1>6, <1>7

\* The server comes to a command nobody awaits.
LEMMA InvDrift ==
  ASSUME IInv, NEW a \in adrift, Drift(a)
  PROVE  IInv'
  <1>1. TypeOK /\ Safe BY DEF IInv
  <1>2. /\ UNCHANGED <<mode, folders, filed, seen, call, report, fails, started, mishaps,
                       others, taken, late, destroyed, blamed, orphaned>>
        /\ alone' = [c \in Callers |-> FALSE]
    BY DEF Drift, counters
  <1>3. Aside BY <1>2 DEF Aside
  <1>4. Pipeline' BY <1>1, <1>2 DEF TypeOK, Pipeline
  <1>5. Surroundings BY <1>1, TypeParts
  <1>6. a \in Sent /\ a.uids \in SUBSET Mail BY <1>1 DEF TypeOK, Sent
  <1>7. CASE /\ a.next = "flag" /\ source' = source
             /\ flagged' = flagged \cup (a.uids \cap source)
             /\ forsaken' = IF a.copied THEN forsaken ELSE forsaken \cup (a.uids \cap source)
             /\ adrift' = (adrift \ {a}) \cup {[a EXCEPT !.next = "expunge"]}
    <2> DEFINE rest == [a EXCEPT !.next = "expunge"]
    <2>1. rest \in Sent /\ rest.next = "expunge" BY <1>6 DEF Sent
    <2> HIDE DEF rest
    <2>2. adrift' \subseteq Sent /\ \A b \in adrift' \ adrift : b.next = "expunge"
      BY <1>5, <1>7, <2>1 DEF Surroundings, rest
    <2>3. forsaken \subseteq forsaken' /\ forsaken' \subseteq Mail
      BY <1>5, <1>6, <1>7 DEF Surroundings
    <2>4. flagged' \subseteq source' /\ source' \subseteq Mail BY <1>5, <1>7 DEF Surroundings
    <2>5. Surroundings' BY <1>2, <1>5, <2>2, <2>3, <2>4 DEF Surroundings
    <2>6. TypeOK' BY <1>4, <2>5, TypePartsNext
    <2>7. \A m : Elsewhere(m) => Elsewhere(m)' BY <1>2, <2>3, ElsewhereStays
    <2>8. ASSUME NEW m \in a.uids \cap source PROVE Elsewhere(m)'
      <3>1. CASE a.copied
        <4>1. Accounted(a) BY <1>1 DEF Safe
        <4> QED BY <1>7, <2>7, <2>8, <3>1, <4>1 DEF Accounted
      <3>2. CASE ~a.copied
        <4>1. m \in forsaken' BY <1>7, <2>8, <3>2
        <4> QED BY <4>1 DEF Elsewhere
      <3> QED BY <3>1, <3>2
    <2>9. flagged' \subseteq flagged \cup {m \in Mail : Elsewhere(m)'} BY <1>6, <1>7, <2>8
    <2>10. \A b \in adrift' \ adrift : Accounted(b)' BY <2>2 DEF Accounted
    <2>11. (\A n \in Names \ folders' : filed'[n] = {}) /\ destroyed' \subseteq late'
      BY <1>1, <1>2 DEF Safe
    <2>12. Safe' BY <1>1, <1>2, <1>7, <2>6, <2>7, <2>9, <2>10, <2>11, SafeMoves
    <2> QED BY <1>3, <1>7, <2>6, <2>12, OthersStep
  <1>8. CASE /\ source' = source \ (a.uids \cap flagged) /\ flagged' = flagged \ a.uids
             /\ adrift' = adrift \ {a} /\ forsaken' = forsaken
    <2>1. flagged' \subseteq source' BY <1>5, <1>8 DEF Surroundings
    <2>2. Surroundings' BY <1>2, <1>5, <1>8, <2>1 DEF Surroundings
    <2>3. TypeOK' BY <1>4, <2>2, TypePartsNext
    <2>4. \A m : Elsewhere(m) => Elsewhere(m)' BY <1>2, <1>8, ElsewhereStays
    <2>5. \A m \in source \ source' : Elsewhere(m)' BY <1>1, <1>8, <2>4 DEF Safe
    <2>6. (\A n \in Names \ folders' : filed'[n] = {}) /\ destroyed' \subseteq late'
      BY <1>1, <1>2 DEF Safe
    <2>7. \A b \in adrift' \ adrift : Accounted(b)' BY <1>8
    <2>8. Safe' BY <1>1, <1>2, <1>8, <2>3, <2>4, <2>5, <2>6, <2>7, SafeMoves
    <2> QED BY <1>3, <1>8, <2>3, <2>8, OthersStep
  <1> QED BY <1>7, <1>8 DEF Drift

\* The breaker lets one call through, or nothing happens.
LEMMA InvQuiet ==
  ASSUME IInv, Cooldown \/ UNCHANGED vars
  PROVE  IInv'
  <1>1. UNCHANGED <<server, call, report, counters, history>>
    BY DEF Cooldown, vars
  <1>2. fails' \in 0 .. TripAfter
    BY CurationAssumption DEF IInv, TypeOK, Cooldown, vars
  <1> USE DEF server, counters, history
  <1>3. TypeOK' BY <1>1, <1>2 DEF IInv, TypeOK
  <1>4. Safe' BY <1>1, <1>3, SafeFrame DEF IInv
  <1>5. \A c \in Callers : Sound(c)' BY <1>1 DEF IInv, Sound, Running
  <1>6. \A c \in Callers : Guarded(c)' BY <1>1, GuardedFrame DEF IInv
  <1>7. ReportsAreTrue' BY <1>1 DEF IInv, ReportsAreTrue
  <1>8. OnlyUnclassedMistakesCount' BY <1>1 DEF IInv, OnlyUnclassedMistakesCount
  <1>9. ASSUME NEW c \in Callers PROVE Undisturbed(c)'
    <2>1. Unclassed(c)' <=> Unclassed(c) BY <1>1 DEF Unclassed
    <2>2. Smooth(c)' <=> Smooth(c) BY <1>1 DEF Smooth, Arrived, Copy
    <2>3. \A x \in Callers : Running(x)' <=> Running(x) BY <1>1 DEF Running
    <2> QED BY <1>1, <2>1, <2>2, <2>3 DEF IInv, Undisturbed
  <1> QED BY <1>3, <1>4, <1>5, <1>6, <1>7, <1>8, <1>9 DEF IInv

LEMMA InvNext == IInv /\ [Next]_vars => IInv'
  BY InvStep, InvDrift, InvOther, InvQuiet DEF Next

\* What every state of the system satisfies, for any callers, messages, folders,
\* servers and bounds.
THEOREM Invariance == Spec => []IInv
  BY InvInit, InvNext, PTL DEF Spec

\* Every variable keeps its shape.
THEOREM TypeCorrect == Spec => []TypeOK
  <1>1. IInv => TypeOK BY DEF IInv
  <1> QED BY <1>1, Invariance, PTL

\* A message that is in no folder was taken away by another client, was in a folder that
\* was counted empty before it was deleted, or was marked for removal by a fallback move
\* whose COPY the server had refused: in every other case what left the inbox was filed
\* first (moveUIDSet, DeleteFolder).
THEOREM NoMessageIsLost == Spec => []NothingLost
  <1>1. IInv => NothingLost
    <2> SUFFICES ASSUME IInv PROVE NothingLost
      OBVIOUS
    <2>1. ASSUME NEW m \in Mail, Elsewhere(m), m \notin forsaken
          PROVE  Held(m) \/ m \in taken \/ \E k \in destroyed : k.msg = m
      <3>1. \A name \in Names \ folders : filed[name] = {} BY DEF IInv, Safe
      <3> QED BY <2>1, <3>1 DEF Elsewhere, Held
    <2>2. ASSUME NEW m \in Mail, m \in source PROVE Held(m) BY <2>2 DEF Held
    <2>3. Lost \subseteq forsaken BY <2>1, <2>2 DEF IInv, Safe, Lost
    <2> QED BY <2>3 DEF IInv, Safe, NothingLost
  <1> QED BY <1>1, Invariance, PTL

\* What a call answers about a message is true of the inbox, whatever other calls and
\* clients did meanwhile (the verification of moveUIDSet, locateMany, storeSeen).
THEOREM AnswersAreTrue == Spec => []ReportsAreTrue
  <1>1. IInv => ReportsAreTrue BY DEF IInv
  <1> QED BY <1>1, Invariance, PTL

\* A call that met no mishap, with nobody else at work, counts against the server only
\* where the code has no caller's mistake for it (resilience.go Wrap).
THEOREM BlameIsExplained == Spec => []OnlyUnclassedMistakesCount
  <1>1. IInv => OnlyUnclassedMistakesCount BY DEF IInv
  <1> QED BY <1>1, Invariance, PTL

\* A folder that archive or delete files into is deleted only by a call that was misled
\* about the namespace, or after one such call (personalPrefix, DeleteFolder): between
\* the check and the DELETE no other call can make it the destination.
THEOREM DestinationsAreKept == Spec => DestinationsSurvive
  <1> DEFINE Survives ==
        \A c \in Callers :
          At(c, "remove") /\ folders' = folders \ {call[c].folder} /\ folders' # folders
              => \/ call[c].misled
                 \/ \A kind \in DOMAIN Targets \ orphaned :
                       Destination(kind, Prefix).folder # call[c].folder
  <1>1. IInv /\ [Next]_vars => [Survives]_vars
    <2> SUFFICES ASSUME IInv, NEW c \in Callers, At(c, "remove"),
                        folders' = folders \ {call[c].folder}, folders' # folders,
                        ~call[c].misled, NEW kind \in DOMAIN Targets \ orphaned
                 PROVE  Destination(kind, Prefix).folder # call[c].folder
      OBVIOUS
    <2>1. call[c].folder \in folders
      OBVIOUS
    <2>2. Top(kind, Prefix, folders) # call[c].folder BY <2>1, GuardedNow DEF IInv, At
    <2> QED BY <2>2, KindsAre DEF Top
  <1> QED BY <1>1, Invariance, PTL DEF Spec, DestinationsSurvive

=============================================================================
