----------------------------- MODULE FilesProofs -----------------------------
(***************************************************************************)
(* The file tree stays a tree while it is built from any archive, tar_parse *)
(* counts the whole files of it, and what /ram lists is what a plain        *)
(* archive holds: for every archive, set of devices and size of a block.    *)
(***************************************************************************)
EXTENDS Files, FiniteSetTheorems, SequenceTheorems, Induction

-----------------------------------------------------------------------------
(* Trees and paths.                                                         *)

\* The names of files and what paths are made of: strings, and those that the
\* code itself gives, which the provers do not take for strings unless told.
Name == STRING \cup {NoName, "/", "dev", "ram", "ui", "cursor", "icons"}

Node == [name : Name, dir : BOOLEAN, inode : Nat, list : Seq(Nat), read : {"none", "ram", "device"}]

\* The entries of every directory are nodes.
Closed(all) == \A n \in 1 .. Len(all) : \A k \in 1 .. Len(all[n].list) : all[n].list[k] \in 1 .. Len(all)
IsTree(all) == all \in Seq(Node) /\ Closed(all)

\* Max of FiniteSetsExt is Highest of Induction.
LEMMA MaxIsHighest == \A s : Max(s) = Highest(s)
  BY DEF Max, Highest

\* What Append gives.
LEMMA AppendIs ==
    ASSUME NEW S, NEW s \in Seq(S), NEW e \in S
    PROVE  /\ Append(s, e) \in Seq(S) /\ Len(s) \in Nat /\ Len(Append(s, e)) = Len(s) + 1
           /\ \A k \in 1 .. Len(s) : Append(s, e)[k] = s[k]
           /\ Append(s, e)[Len(s) + 1] = e
           /\ \A k \in 1 .. Len(Append(s, e)) : k \in 1 .. Len(s) \/ k = Len(s) + 1
  OBVIOUS

\* The types of what a tree holds.
LEMMA TreeIs ==
    ASSUME NEW all, IsTree(all)
    PROVE  /\ all \in [1 .. Len(all) -> Node] /\ Len(all) \in Nat
           /\ \A n \in 1 .. Len(all) : all[n] \in Node /\ all[n].list \in Seq(Nat)
                                     /\ all[n].name \in Name /\ all[n].dir \in BOOLEAN
<1>1. all \in [1 .. Len(all) -> Node] /\ Len(all) \in Nat
      BY DEF IsTree
<1>2. \A n \in 1 .. Len(all) : all[n] \in Node
      BY <1>1
<1>3. \A v \in Node : v.list \in Seq(Nat) /\ v.name \in Name /\ v.dir \in BOOLEAN
      BY DEF Node
<1> QED BY <1>1, <1>2, <1>3

\* A tree with one more entry in a list is a tree.
LEMMA PlusEntry ==
    ASSUME NEW all, IsTree(all), NEW parent \in 1 .. Len(all), NEW n \in 1 .. Len(all)
    PROVE  /\ IsTree([all EXCEPT ![parent].list = Append(@, n)])
           /\ Len([all EXCEPT ![parent].list = Append(@, n)]) = Len(all)
<1> DEFINE len == Len(all)
           list == all[parent].list
           longer == Append(list, n)
           b == [all EXCEPT ![parent].list = longer]
<1>1. all \in [1 .. len -> Node] /\ len \in Nat /\ list \in Seq(Nat) /\ n \in Nat
      BY TreeIs
<1>2. /\ longer \in Seq(Nat)
      /\ \A k \in 1 .. Len(longer) : longer[k] = n \/ (k \in 1 .. Len(list) /\ longer[k] = list[k])
      BY <1>1, AppendIs
<1>3. \A k \in 1 .. Len(longer) : longer[k] \in 1 .. len
      BY <1>2 DEF IsTree, Closed
<1>4. [all EXCEPT ![parent].list = Append(@, n)] = b
      OBVIOUS
<1> HIDE DEF longer
<1>5. b \in [1 .. len -> Node]
      BY <1>1, <1>2 DEF Node
<1>6. b \in Seq(Node) /\ Len(b) = len
      BY <1>1, <1>5
<1>7. b[parent].list = longer /\ \A m \in 1 .. len : m # parent => b[m] = all[m]
      BY <1>1 DEF Node
<1> HIDE DEF b
<1>8. Closed(b)
      BY <1>3, <1>6, <1>7 DEF IsTree, Closed
<1> QED BY <1>4, <1>6, <1>8 DEF IsTree

\* So is one with a node more that is in no list yet.
LEMMA PlusNode ==
    ASSUME NEW all, IsTree(all), NEW new \in Node, new.list = <<>>
    PROVE  IsTree(Append(all, new)) /\ Len(Append(all, new)) = Len(all) + 1
<1> DEFINE b == Append(all, new)
<1>1. b \in Seq(Node) /\ Len(b) = Len(all) + 1 /\ Len(all) \in Nat /\ b[Len(all) + 1] = new
      /\ \A n \in 1 .. Len(all) : b[n] = all[n]
      BY DEF IsTree
<1> HIDE DEF b
<1>2. Closed(b)
    <2>1. ASSUME NEW n \in 1 .. Len(all), NEW k \in 1 .. Len(b[n].list)
          PROVE  b[n].list[k] \in 1 .. Len(all) + 1
          BY <1>1 DEF IsTree, Closed
    <2>2. Len(new.list) = 0
          OBVIOUS
    <2> QED BY <1>1, <2>1, <2>2 DEF Closed
<1> QED BY <1>1, <1>2 DEF IsTree, b

\* The two kinds of new nodes.
LEMMA NewDir ==
    ASSUME NEW name \in Name PROVE Dir(name) \in Node /\ Dir(name).list = <<>>
  BY DEF Dir, Node

LEMMA NewNode ==
    ASSUME NEW name \in Name, NEW inode \in Nat, NEW by \in {"none", "ram", "device"}
    PROVE  /\ Dir(name) \in Node /\ Dir(name).list = <<>>
           /\ File(name, inode, by) \in Node /\ File(name, inode, by).list = <<>>
  BY DEF Dir, File, Node

\* AddNode keeps a tree.
LEMMA AddNodeTree ==
    ASSUME NEW all, IsTree(all), NEW parent \in 1 .. Len(all), NEW new \in Node, new.list = <<>>
    PROVE  IsTree(AddNode(all, parent, new)) /\ Len(AddNode(all, parent, new)) = Len(all) + 1
<1> DEFINE len == Len(all)
           list == all[parent].list
           longer == Append(list, len + 1)
           b == [all EXCEPT ![parent].list = longer]
           c == Append(b, new)
<1>1. all \in [1 .. len -> Node] /\ len \in Nat /\ list \in Seq(Nat)
      BY TreeIs
<1>2. /\ longer \in Seq(Nat)
      /\ \A k \in 1 .. Len(longer) : longer[k] = len + 1 \/ (k \in 1 .. Len(list) /\ longer[k] = list[k])
    <2>1. len + 1 \in Nat
          BY <1>1
    <2> DEFINE e == len + 1
    <2> HIDE DEF list, e
    <2> QED BY <1>1, <2>1, AppendIs DEF e
<1>3. \A k \in 1 .. Len(longer) : longer[k] \in 1 .. len + 1
      BY <1>1, <1>2 DEF IsTree, Closed
<1>4. AddNode(all, parent, new) = c
      BY DEF AddNode
<1> HIDE DEF longer
<1>5. b \in [1 .. len -> Node]
      BY <1>1, <1>2 DEF Node
<1>6. b \in Seq(Node) /\ Len(b) = len
      BY <1>1, <1>5
<1>7. b[parent].list = longer /\ \A m \in 1 .. len : m # parent => b[m] = all[m]
      BY <1>1 DEF Node
<1> HIDE DEF b
<1>8. c \in Seq(Node) /\ Len(c) = len + 1 /\ c[len + 1] = new /\ \A n \in 1 .. len : c[n] = b[n]
      BY <1>6
<1> HIDE DEF c
<1>9. Closed(c)
    <2>1. ASSUME NEW n \in 1 .. len, NEW k \in 1 .. Len(c[n].list) PROVE c[n].list[k] \in 1 .. len + 1
        <3>1. CASE n = parent
              BY <1>3, <1>7, <1>8, <3>1
        <3>2. CASE n # parent
              BY <1>1, <1>7, <1>8, <3>2, SMTT(30) DEF IsTree, Closed
        <3> QED BY <3>1, <3>2
    <2>2. Len(new.list) = 0
          OBVIOUS
    <2>3. Len(c) = len + 1 /\ len \in Nat
          BY <1>1, <1>8
    <2>4. ASSUME NEW n \in 1 .. len + 1, NEW k \in 1 .. Len(c[n].list) PROVE c[n].list[k] \in 1 .. len + 1
        <3>1. CASE n = len + 1
            <4>1. Len(c[n].list) = 0
                  BY <1>8, <2>2, <3>1
            <4> QED BY <4>1
        <3>2. CASE n \in 1 .. len
              BY <2>1, <3>2
        <3> QED BY <2>3, <3>1, <3>2
    <2> QED BY <2>3, <2>4 DEF Closed
<1> QED BY <1>4, <1>8, <1>9 DEF IsTree

\* FindName gives an entry of the list, or NULL.
LEMMA FindNameIs ==
    ASSUME NEW all, NEW list \in Seq(Nat), NEW name
    PROVE  FindName(all, list, name) = NULL \/ \E k \in 1 .. Len(list) : FindName(all, list, name) = list[k]
<1> DEFINE hits == {k \in DOMAIN list : all[list[k]].name = name}
<1>1. hits \subseteq Nat /\ hits \subseteq 1 .. Len(list)
      OBVIOUS
<1>2. FindName(all, list, name) = IF hits = {} THEN NULL ELSE list[CHOOSE k \in hits : \A j \in hits : k <= j]
      BY DEF FindName
<1> HIDE DEF hits
<1>3. hits # {} => (CHOOSE k \in hits : \A j \in hits : k <= j) \in hits
      BY <1>1, LeastOf
<1> QED BY <1>1, <1>2, <1>3

\* Names are not made of "/".
Clean == Name \ {"/"}
Paths == Seq(Clean) \ {<<>>}

LEMMA CleanIs ==
    /\ NoName \in Clean
    /\ \A c \in Clean : c \in Name /\ c # "/"
    /\ \A c \in Name : c # "/" => c \in Clean
    /\ \A s \in Seq(Clean) : s \in Seq(Name)
<1>1. \A c \in Clean : c \in Name
      BY DEF Clean
<1>2. ASSUME NEW s \in Seq(Clean) PROVE s \in Seq(Name)
    <2>1. \A k \in 1 .. Len(s) : s[k] \in Name
          BY <1>1
    <2> QED BY <2>1
<1>3. NoName # "/"
      BY Zenon DEF NoName
<1>4. NoName \in Name
      BY DEF Name
<1>5. NoName \in Clean
      BY <1>3, <1>4 DEF Clean
<1> QED BY <1>2, <1>5 DEF Clean

\* Trim keeps a path a path.
LEMMA TrimIs == ASSUME NEW file \in Seq(Name) PROVE Trim(file) \in Seq(Name)
<1> DEFINE s == IF file # <<>> /\ file[1] = "/" THEN Tail(file) ELSE file
<1>1. s \in Seq(Name)
    <2>1. file # <<>> => Tail(file) \in Seq(Name)
          BY HeadTailProperties
    <2> QED BY <2>1
<1> HIDE DEF s
<1>2. s # <<>> => Front(s) \in Seq(Name)
      BY <1>1 DEF Front
<1> QED BY <1>1, <1>2 DEF Trim, s


-----------------------------------------------------------------------------
(* Splitting paths.                                                         *)

\* The segments of a path that has been trimmed.
Parts(q) == FoldLeft(Split, <<NoName>>, q)

Splits == [z \in Paths \X Name |-> Split(z[1], z[2])]

\* A character more ends a segment or names the last one.
LEMMA SplitIs ==
    ASSUME NEW p \in Paths, NEW c \in Name
    PROVE  /\ Split(p, c) \in Paths
           /\ c = "/" => Split(p, c) = Append(p, NoName)
           /\ c # "/" => Split(p, c) = [p EXCEPT ![Len(p)] = c]
<1>1. p \in Seq(Clean) /\ p # <<>> /\ NoName \in Clean /\ Len(p) \in 1 .. Len(p)
      BY EmptySeq, CleanIs DEF Paths
<1>2. Append(p, NoName) \in Seq(Clean) /\ Append(p, NoName) # <<>>
      BY <1>1
<1> DEFINE r == [p EXCEPT ![Len(p)] = c]
<1>3. c # "/" => r \in Seq(Clean) /\ Len(r) = Len(p)
    <2>1. c # "/" => c \in Clean
          BY CleanIs
    <2> QED BY <1>1, <2>1, ExceptSeq
<1>4. c # "/" => r # <<>>
      BY <1>1, <1>3
<1>5. Split(p, c) = IF c = "/" THEN Append(p, NoName) ELSE r
      BY DEF Split
<1> HIDE DEF r
<1>6. (c # "/" => r \in Paths) /\ Append(p, NoName) \in Paths
      BY <1>2, <1>3, <1>4 DEF Paths
<1> QED BY <1>5, <1>6 DEF r

LEMMA SplitsIs == Splits \in [Paths \X Name -> Paths] /\ \A p \in Paths, c \in Name : Splits[<<p, c>>] = Split(p, c)
<1>1. \A p \in Paths, c \in Name : Split(p, c) \in Paths
      BY SplitIs
<1> QED BY <1>1 DEF Splits

\* How the segments come about, a character at a time.
LEMMA PartsRun ==
    ASSUME NEW q \in Seq(Name)
    PROVE  \E S \in [0 .. Len(q) -> Paths] :
               Run(S, Len(q), Splits, <<NoName>>, q) /\ S[Len(q)] = Parts(q)
<1> DEFINE n == Len(q)
           base == <<NoName>>
           Is(w) == w = [s \in SUBSET DOMAIN q |-> IF s = {} THEN base ELSE Split(w[s \ {Max(s)}], q[Max(s)])]
           it == CHOOSE w : Is(w)
<1>1. Parts(q) = it[DOMAIN q]
      BY DEF Parts, FoldLeft, MapThenFoldSet
<1>2. n \in Nat /\ DOMAIN q = 1 .. n /\ \A k \in 1 .. n : q[k] \in Name
      OBVIOUS
<1> HIDE DEF n
<1>3. Splits \in [Paths \X Name -> Paths] /\ \A p \in Paths, c \in Name : Splits[<<p, c>>] = Split(p, c)
      BY SplitsIs
<1>4. base \in Paths
      BY CleanIs DEF Paths
<1> HIDE DEF base
<1>5. PICK w \in [SUBSET (1 .. n) -> Paths] : Folds(w, n, Splits, base, q)
      BY <1>2, <1>3, <1>4, FoldExists
<1>6. Is(w)
    <2>1. ASSUME NEW s \in SUBSET (1 .. n)
          PROVE  w[s] = IF s = {} THEN base ELSE Split(w[s \ {Max(s)}], q[Max(s)])
        <3>1. s # {} => Max(s) \in s
              BY <1>2, HighestIn, MaxIsHighest
        <3>2. s # {} => w[s \ {Max(s)}] \in Paths /\ q[Max(s)] \in Name
              BY <1>2, <1>5, <3>1
        <3> QED BY <1>3, <1>5, <3>2, MaxIsHighest DEF Folds
    <2> QED BY <1>2, <1>5, <2>1
<1>7. Is(it)
      BY <1>6
<1> HIDE DEF it
<1>8. it[{}] = base
      BY <1>7
<1>9. ASSUME NEW k \in 0 .. n - 1, it[1 .. k] \in Paths
      PROVE  it[1 .. k + 1] = Splits[<<it[1 .. k], q[k + 1]>>]
    <2>1. k \in Nat /\ k + 1 \in 1 .. n /\ 1 .. k + 1 \in SUBSET (1 .. n)
          BY <1>2
    <2>2. Max(1 .. k + 1) = k + 1 /\ (1 .. k + 1) \ {k + 1} = 1 .. k /\ 1 .. k + 1 # {}
          BY <2>1, HighestOfPrefix, MaxIsHighest
    <2>3. it[1 .. k + 1] = Split(it[1 .. k], q[k + 1])
          BY <1>2, <1>7, <2>1, <2>2
    <2> QED BY <1>2, <1>3, <1>9, <2>1, <2>3
<1>10. \E S \in [0 .. n -> Paths] : RunOf(S, it, n, Splits, base, q)
    <2>1. FoldsIn(it, n, Splits, base, q, Paths)
          BY <1>8, <1>9 DEF FoldsIn
    <2> HIDE DEF Is, base
    <2> QED BY <1>2, <1>3, <1>4, <2>1, FoldRun
<1> QED BY <1>1, <1>2, <1>10 DEF RunOf, n, base

\* One character more, and none.
LEMMA PartsAppend ==
    ASSUME NEW q \in Seq(Name), NEW c \in Name
    PROVE  Parts(q) \in Paths /\ Parts(Append(q, c)) = Split(Parts(q), c)
<1> DEFINE n == Len(q)
           m == n + 1
           more == Append(q, c)
           base == <<NoName>>
<1>1. more \in Seq(Name) /\ Len(more) = m /\ n \in Nat /\ more[m] = c /\ \A k \in 1 .. n : q[k] = more[k]
      OBVIOUS
<1>2. m = n + 1 /\ m \in Nat
      BY <1>1
<1> HIDE DEF more, n, m
<1>3. PICK S \in [0 .. n -> Paths] : Run(S, n, Splits, base, q) /\ S[n] = Parts(q)
      BY PartsRun DEF n
<1>4. PICK T \in [0 .. m -> Paths] : Run(T, m, Splits, base, more) /\ T[m] = Parts(more)
      BY <1>1, PartsRun
<1> HIDE DEF base
<1>5. T[m] = Splits[<<S[n], more[m]>>]
    <2>1. Same(q, more, n)
          BY <1>1 DEF Same
    <2>2. GoesOn(T, m, S, n, Splits, more)
          BY <1>1, <1>2, <1>3, <1>4, <2>1, RunAppend
    <2> QED BY <2>2 DEF GoesOn
<1>6. Parts(q) \in Paths
      BY <1>1, <1>3
<1> QED BY <1>1, <1>3, <1>4, <1>5, <1>6, SplitsIs DEF more

\* None.
LEMMA PartsEmpty == Parts(<<>>) = <<NoName>>
<1>1. <<>> \in Seq(Name) /\ Len(<<>>) = 0
      OBVIOUS
<1>2. PICK S : Run(S, 0, Splits, <<NoName>>, <<>>) /\ S[0] = Parts(<<>>)
      BY <1>1, PartsRun
<1> QED BY <1>2 DEF Run

\* One segment more.
LEMMA PartsSlash ==
    ASSUME NEW q \in Seq(Name), NEW c \in Name, c # "/"
    PROVE  Parts(Append(Append(q, "/"), c)) = Append(Parts(q), c)
<1> DEFINE p == Parts(q)
           r == Append(q, "/")
           longer == Append(p, NoName)
<1>1. p \in Paths /\ "/" \in Name /\ NoName \in Name
      BY PartsAppend DEF Name
<1>2. r \in Seq(Name)
      BY <1>1
<1>3. Parts(r) = longer
    <2>1. Parts(r) = Split(p, "/")
          BY <1>1, PartsAppend
    <2> QED BY <1>1, <2>1, SplitIs
<1>4. longer \in Paths
      BY <1>1, <1>2, <1>3, PartsAppend
<1> HIDE DEF r
<1>5. Parts(Append(r, c)) = [longer EXCEPT ![Len(longer)] = c]
    <2> HIDE DEF longer
    <2> QED BY <1>2, <1>3, <1>4, PartsAppend, SplitIs
<1>6. p \in Seq(Name)
      BY <1>1, CleanIs DEF Paths
<1> HIDE DEF p
<1>7. [longer EXCEPT ![Len(longer)] = c] = Append(p, c)
    <2> DEFINE a == [longer EXCEPT ![Len(longer)] = c]
               b == Append(p, c)
    <2>1. /\ longer \in Seq(Name) /\ Len(longer) = Len(p) + 1 /\ Len(p) \in Nat
          /\ \A k \in 1 .. Len(p) : longer[k] = p[k]
          BY <1>1, <1>6
    <2> HIDE DEF longer
    <2>2. a \in Seq(Name) /\ Len(a) = Len(p) + 1 /\ a[Len(p) + 1] = c /\ \A k \in 1 .. Len(p) : a[k] = p[k]
        <3>1. Len(longer) \in 1 .. Len(longer)
              BY <2>1
        <3>2. a \in Seq(Name) /\ Len(a) = Len(longer)
              BY <2>1, <3>1, ExceptSeq
        <3>3. DOMAIN longer = 1 .. Len(p) + 1
              BY <2>1
        <3>4. a[Len(p) + 1] = c /\ \A k \in 1 .. Len(p) : a[k] = longer[k]
              BY <2>1, <3>3
        <3> QED BY <2>1, <3>2, <3>4
    <2>3. b \in Seq(Name) /\ Len(b) = Len(p) + 1 /\ b[Len(p) + 1] = c /\ \A k \in 1 .. Len(p) : b[k] = p[k]
          BY <1>6
    <2> HIDE DEF a, b
    <2>4. \A k \in 1 .. Len(a) : a[k] = b[k]
          BY <2>1, <2>2, <2>3
    <2>5. a = b
          BY <2>2, <2>3, <2>4, SeqEqual
    <2> QED BY <2>5 DEF a, b
<1> QED BY <1>5, <1>7 DEF r, p

\* One name is one segment.
LEMMA PartsOne == ASSUME NEW c \in Name, c # "/" PROVE Parts(<<c>>) = <<c>>
<1> DEFINE none == <<>>
           first == <<NoName>>
<1>1. none \in Seq(Name) /\ Parts(none) = first /\ NoName \in Name /\ <<c>> = Append(none, c)
      BY PartsEmpty DEF Name
<1>2. first \in Paths /\ Len(first) = 1
      BY <1>1, PartsAppend
<1>3. Parts(Append(none, c)) = [first EXCEPT ![Len(first)] = c]
    <2> HIDE DEF none, first
    <2> QED BY <1>1, <1>2, PartsAppend, SplitIs
<1>4. [first EXCEPT ![1] = c] = <<c>>
      OBVIOUS
<1> HIDE DEF none, first
<1> QED BY <1>1, <1>2, <1>3, <1>4


Namings == [z \in Seq(Name) \X Name |-> AddName(z[1], z[2])]

\* A character more is a name more, if it is one.
LEMMA NamingsIs ==
    /\ Namings \in [Seq(Name) \X Name -> Seq(Name)]
    /\ \A p \in Seq(Name), c \in Name : Namings[<<p, c>>] = AddName(p, c)
<1>1. \A p \in Seq(Name), c \in Name : AddName(p, c) \in Seq(Name)
      BY DEF AddName
<1> QED BY <1>1 DEF Namings

\* How the names of a path come about.
LEMMA NamesRun ==
    ASSUME NEW q \in Seq(Name)
    PROVE  \E S \in [0 .. Len(q) -> Seq(Name)] :
               Run(S, Len(q), Namings, <<>>, q) /\ S[Len(q)] = Names(q)
<1> DEFINE n == Len(q)
           States == Seq(Name)
           Inputs == Name
           base == <<>>
           f == Namings
           Is(w) == w = [s \in SUBSET DOMAIN q |-> IF s = {} THEN base ELSE AddName(w[s \ {Max(s)}], q[Max(s)])]
           it == CHOOSE w : Is(w)
<1>1. Names(q) = it[DOMAIN q]
      BY DEF Names, FoldLeft, MapThenFoldSet
<1>2. n \in Nat /\ DOMAIN q = 1 .. n /\ \A k \in 1 .. n : q[k] \in Inputs
      OBVIOUS
<1> HIDE DEF n
<1>3. f \in [States \X Inputs -> States] /\ \A a \in States, b \in Inputs : f[<<a, b>>] = AddName(a, b)
      BY NamingsIs
<1>4. base \in States
      OBVIOUS
<1> HIDE DEF base, f
<1>5. PICK w \in [SUBSET (1 .. n) -> States] : Folds(w, n, f, base, q)
      BY <1>2, <1>3, <1>4, FoldExists
<1>6. Is(w)
    <2>1. ASSUME NEW s \in SUBSET (1 .. n)
          PROVE  w[s] = IF s = {} THEN base ELSE AddName(w[s \ {Max(s)}], q[Max(s)])
        <3>1. s # {} => Max(s) \in s
              BY <1>2, HighestIn, MaxIsHighest
        <3>2. s # {} => w[s \ {Max(s)}] \in States /\ q[Max(s)] \in Inputs
              BY <1>2, <1>5, <3>1
        <3> QED BY <1>3, <1>5, <3>2, MaxIsHighest DEF Folds
    <2> QED BY <1>2, <1>5, <2>1
<1>7. Is(it)
      BY <1>6
<1> HIDE DEF it
<1>8. it[{}] = base
      BY <1>7
<1>9. ASSUME NEW k \in 0 .. n - 1, it[1 .. k] \in States
      PROVE  it[1 .. k + 1] = f[<<it[1 .. k], q[k + 1]>>]
    <2>1. k \in Nat /\ k + 1 \in 1 .. n /\ 1 .. k + 1 \in SUBSET (1 .. n)
          BY <1>2
    <2>2. Max(1 .. k + 1) = k + 1 /\ (1 .. k + 1) \ {k + 1} = 1 .. k /\ 1 .. k + 1 # {}
          BY <2>1, HighestOfPrefix, MaxIsHighest
    <2>3. it[1 .. k + 1] = AddName(it[1 .. k], q[k + 1])
          BY <1>2, <1>7, <2>1, <2>2
    <2> QED BY <1>2, <1>3, <1>9, <2>1, <2>3
<1> HIDE DEF States, Inputs
<1>10. \E S \in [0 .. n -> States] : RunOf(S, it, n, f, base, q)
    <2>1. FoldsIn(it, n, f, base, q, States)
          BY <1>8, <1>9 DEF FoldsIn
    <2> HIDE DEF Is, base
    <2> QED BY <1>2, <1>3, <1>4, <2>1, FoldRun
<1> QED BY <1>1, <1>2, <1>10 DEF RunOf, n, base, f, States

\* One character more, and none.
LEMMA NamesAppend ==
    ASSUME NEW q \in Seq(Name), NEW c \in Name
    PROVE  Names(q) \in Seq(Name) /\ Names(Append(q, c)) = AddName(Names(q), c)
<1> DEFINE n == Len(q)
           m == n + 1
           more == Append(q, c)
           base == <<>>
           f == Namings
<1>1. more \in Seq(Name) /\ Len(more) = m /\ n \in Nat /\ more[m] = c /\ \A k \in 1 .. n : q[k] = more[k]
      OBVIOUS
<1>2. m = n + 1 /\ m \in Nat
      BY <1>1
<1> HIDE DEF more, n, m
<1>3. PICK S \in [0 .. n -> Seq(Name)] : Run(S, n, f, base, q) /\ S[n] = Names(q)
      BY NamesRun DEF n
<1>4. PICK T \in [0 .. m -> Seq(Name)] : Run(T, m, f, base, more) /\ T[m] = Names(more)
      BY <1>1, NamesRun
<1> HIDE DEF base, f
<1>5. T[m] = f[<<S[n], more[m]>>]
    <2>1. Same(q, more, n)
          BY <1>1 DEF Same
    <2>2. GoesOn(T, m, S, n, f, more)
          BY <1>1, <1>2, <1>3, <1>4, <2>1, RunAppend
    <2> QED BY <2>2 DEF GoesOn
<1>6. Names(q) \in Seq(Name)
      BY <1>1, <1>3
<1>7. \A a \in Seq(Name), b \in Name : f[<<a, b>>] = AddName(a, b)
      BY NamingsIs DEF f
<1> QED BY <1>1, <1>3, <1>4, <1>5, <1>6, <1>7 DEF more

\* None.
LEMMA NamesEmpty == Names(<<>>) = <<>>
<1> DEFINE f == Namings
           base == <<>>
<1>1. <<>> \in Seq(Name) /\ Len(<<>>) = 0
      OBVIOUS
<1>2. PICK S : Run(S, 0, f, base, <<>>) /\ S[0] = Names(<<>>)
      BY <1>1, NamesRun
<1> HIDE DEF f, base
<1>3. Names(<<>>) = base
      BY <1>2 DEF Run
<1> QED BY <1>3 DEF base


-----------------------------------------------------------------------------
(* Sequences from their last element on.                                    *)

\* The beginning of a sequence, one element longer.
LEMMA PrefixIs ==
    ASSUME NEW S, NEW s \in Seq(S)
    PROVE  /\ SubSeq(s, 1, 0) = <<>> /\ SubSeq(s, 1, Len(s)) = s
           /\ \A k \in 0 .. Len(s) : SubSeq(s, 1, k) \in Seq(S) /\ Len(SubSeq(s, 1, k)) = k
           /\ \A k \in 0 .. Len(s) - 1 : SubSeq(s, 1, k + 1) = Append(SubSeq(s, 1, k), s[k + 1])
<1>1. SubSeq(s, 1, 0) = <<>> /\ SubSeq(s, 1, Len(s)) = s
      OBVIOUS
<1>2. ASSUME NEW k \in 0 .. Len(s) PROVE SubSeq(s, 1, k) \in Seq(S) /\ Len(SubSeq(s, 1, k)) = k
      OBVIOUS
<1>3. ASSUME NEW k \in 0 .. Len(s) - 1 PROVE SubSeq(s, 1, k + 1) = Append(SubSeq(s, 1, k), s[k + 1])
    <2> DEFINE a == SubSeq(s, 1, k + 1)
               b == SubSeq(s, 1, k)
               c == Append(b, s[k + 1])
    <2>1. k \in 0 .. Len(s) /\ k + 1 \in 0 .. Len(s) /\ k + 1 \in 1 .. Len(s) /\ k \in Nat /\ s[k + 1] \in S
          OBVIOUS
    <2>2. a \in Seq(S) /\ Len(a) = k + 1 /\ \A j \in 1 .. k + 1 : a[j] = s[j]
          BY <2>1
    <2>3. b \in Seq(S) /\ Len(b) = k /\ \A j \in 1 .. k : b[j] = s[j]
          BY <2>1
    <2> HIDE DEF a, b
    <2>4. c \in Seq(S) /\ Len(c) = k + 1 /\ c[k + 1] = s[k + 1] /\ \A j \in 1 .. k : c[j] = b[j]
          BY <2>1, <2>3
    <2> HIDE DEF c
    <2>5. \A j \in 1 .. Len(a) : a[j] = c[j]
          BY <2>1, <2>2, <2>3, <2>4
    <2>6. a = c
          BY <2>2, <2>4, <2>5, SeqEqual
    <2> QED BY <2>6 DEF a, b, c
<1> QED BY <1>1, <1>2, <1>3

\* Induction over the elements of a sequence.
LEMMA SeqInduction ==
    ASSUME NEW S, NEW T, <<>> \in T, \A q \in Seq(S), e \in S : q \in T => Append(q, e) \in T
    PROVE  \A s \in Seq(S) : s \in T
<1> SUFFICES ASSUME NEW s \in Seq(S) PROVE s \in T
    OBVIOUS
<1> DEFINE n == Len(s)
           U == {k \in 0 .. n : SubSeq(s, 1, k) \in T}
<1>1. n \in Nat /\ 0 \in Nat /\ 0 \in 0 .. n /\ n \in 0 .. n
      OBVIOUS
<1>2. 0 \in U
    <2>1. SubSeq(s, 1, 0) = <<>>
          BY PrefixIs
    <2> QED BY <1>1, <2>1
<1>3. ASSUME NEW k \in 0 .. n - 1, k \in U PROVE k + 1 \in U
    <2>1. k \in 0 .. n /\ k + 1 \in 0 .. n /\ s[k + 1] \in S
          BY <1>1
    <2>2. SubSeq(s, 1, k) \in Seq(S) /\ SubSeq(s, 1, k + 1) = Append(SubSeq(s, 1, k), s[k + 1])
          BY <2>1, PrefixIs
    <2> QED BY <1>3, <2>1, <2>2
<1> HIDE DEF U
<1>4. \A k \in 0 .. n : k \in U
      BY <1>1, <1>2, <1>3, SetInduction
<1>5. SubSeq(s, 1, n) \in T
      BY <1>1, <1>4 DEF U
<1> QED BY <1>5, PrefixIs

\* Front and Last.
LEMMA FrontIs ==
    ASSUME NEW S, NEW s \in Seq(S), s # <<>>
    PROVE  /\ Front(s) \in Seq(S) /\ Last(s) \in S /\ s = Append(Front(s), Last(s))
           /\ Len(Front(s)) = Len(s) - 1 /\ Len(s) \in Nat \ {0} /\ Last(s) = s[Len(s)]
<1> DEFINE n == Len(s) - 1
<1>1. n \in 0 .. Len(s) - 1 /\ n \in 0 .. Len(s) /\ n + 1 = Len(s) /\ Len(s) \in Nat \ {0} /\ s[Len(s)] \in S
      BY EmptySeq
<1>2. Front(s) = SubSeq(s, 1, n) /\ Last(s) = s[n + 1]
      BY <1>1 DEF Front, Last
<1> HIDE DEF n
<1> QED BY <1>1, <1>2, PrefixIs

LEMMA FrontAppend ==
    ASSUME NEW S, NEW s \in Seq(S), NEW e \in S
    PROVE  /\ Front(Append(s, e)) = s /\ Last(Append(s, e)) = e
           /\ Append(s, e) \in Seq(S) /\ Append(s, e) # <<>>
<1>1. Append(s, e) \in Seq(S) /\ Len(Append(s, e)) = Len(s) + 1 /\ Append(s, e) # <<>>
      /\ Append(s, e)[Len(s) + 1] = e /\ Len(s) \in Nat
      OBVIOUS
<1>2. SubSeq(Append(s, e), 1, Len(s)) = s
      OBVIOUS
<1>3. Len(Append(s, e)) - 1 = Len(s)
      BY <1>1
<1> QED BY <1>1, <1>2, <1>3 DEF Front, Last

\* Tail.
LEMMA TailAppend ==
    ASSUME NEW S, NEW s \in Seq(S), NEW e \in S
    PROVE  /\ s # <<>> => Tail(Append(s, e)) = Append(Tail(s), e) /\ Tail(s) \in Seq(S) /\ Append(s, e)[1] = s[1]
           /\ s = <<>> => Tail(Append(s, e)) = <<>> /\ Append(s, e)[1] = e
  OBVIOUS


-----------------------------------------------------------------------------
(* Spelling paths.                                                          *)

\* Names with a "/" before each.
AddSlashed(d, name) == Append(Append(d, "/"), name)
Slashed(segs) == FoldLeft(AddSlashed, <<>>, segs)

\* Names that a directory may have, so that its path is split as it was spelled.
Proper == Name \ {"/", NoName}

Slashings == [z \in Seq(Name) \X Name |-> AddSlashed(z[1], z[2])]

LEMMA SlashingsIs ==
    /\ Slashings \in [Seq(Name) \X Name -> Seq(Name)]
    /\ \A p \in Seq(Name), c \in Name : Slashings[<<p, c>>] = AddSlashed(p, c)
<1>1. \A p \in Seq(Name), c \in Name : AddSlashed(p, c) \in Seq(Name)
      BY DEF AddSlashed, Name
<1> QED BY <1>1 DEF Slashings

\* How names are spelled.
LEMMA SlashedRun ==
    ASSUME NEW q \in Seq(Name)
    PROVE  \E S \in [0 .. Len(q) -> Seq(Name)] :
               Run(S, Len(q), Slashings, <<>>, q) /\ S[Len(q)] = Slashed(q)
<1> DEFINE n == Len(q)
           States == Seq(Name)
           Inputs == Name
           base == <<>>
           f == Slashings
           Is(w) == w = [s \in SUBSET DOMAIN q |-> IF s = {} THEN base ELSE AddSlashed(w[s \ {Max(s)}], q[Max(s)])]
           it == CHOOSE w : Is(w)
<1>1. Slashed(q) = it[DOMAIN q]
      BY DEF Slashed, FoldLeft, MapThenFoldSet
<1>2. n \in Nat /\ DOMAIN q = 1 .. n /\ \A k \in 1 .. n : q[k] \in Inputs
      OBVIOUS
<1> HIDE DEF n
<1>3. f \in [States \X Inputs -> States] /\ \A a \in States, b \in Inputs : f[<<a, b>>] = AddSlashed(a, b)
      BY SlashingsIs
<1>4. base \in States
      OBVIOUS
<1> HIDE DEF base, f
<1>5. PICK w \in [SUBSET (1 .. n) -> States] : Folds(w, n, f, base, q)
      BY <1>2, <1>3, <1>4, FoldExists
<1>6. Is(w)
    <2>1. ASSUME NEW s \in SUBSET (1 .. n)
          PROVE  w[s] = IF s = {} THEN base ELSE AddSlashed(w[s \ {Max(s)}], q[Max(s)])
        <3>1. s # {} => Max(s) \in s
              BY <1>2, HighestIn, MaxIsHighest
        <3>2. s # {} => w[s \ {Max(s)}] \in States /\ q[Max(s)] \in Inputs
              BY <1>2, <1>5, <3>1
        <3> QED BY <1>3, <1>5, <3>2, MaxIsHighest DEF Folds
    <2> QED BY <1>2, <1>5, <2>1
<1>7. Is(it)
      BY <1>6
<1> HIDE DEF it
<1>8. it[{}] = base
      BY <1>7
<1>9. ASSUME NEW k \in 0 .. n - 1, it[1 .. k] \in States
      PROVE  it[1 .. k + 1] = f[<<it[1 .. k], q[k + 1]>>]
    <2>1. k \in Nat /\ k + 1 \in 1 .. n /\ 1 .. k + 1 \in SUBSET (1 .. n)
          BY <1>2
    <2>2. Max(1 .. k + 1) = k + 1 /\ (1 .. k + 1) \ {k + 1} = 1 .. k /\ 1 .. k + 1 # {}
          BY <2>1, HighestOfPrefix, MaxIsHighest
    <2>3. it[1 .. k + 1] = AddSlashed(it[1 .. k], q[k + 1])
          BY <1>2, <1>7, <2>1, <2>2
    <2> QED BY <1>2, <1>3, <1>9, <2>1, <2>3
<1> HIDE DEF States, Inputs
<1>10. \E S \in [0 .. n -> States] : RunOf(S, it, n, f, base, q)
    <2>1. FoldsIn(it, n, f, base, q, States)
          BY <1>8, <1>9 DEF FoldsIn
    <2> HIDE DEF Is, base
    <2> QED BY <1>2, <1>3, <1>4, <2>1, FoldRun
<1> QED BY <1>1, <1>2, <1>10 DEF RunOf, n, base, f, States

\* One name more.
LEMMA SlashedAppend ==
    ASSUME NEW q \in Seq(Name), NEW c \in Name
    PROVE  Slashed(q) \in Seq(Name) /\ Slashed(Append(q, c)) = AddSlashed(Slashed(q), c)
<1> DEFINE n == Len(q)
           m == n + 1
           more == Append(q, c)
           base == <<>>
           f == Slashings
<1>1. more \in Seq(Name) /\ Len(more) = m /\ n \in Nat /\ more[m] = c /\ \A k \in 1 .. n : q[k] = more[k]
      OBVIOUS
<1>2. m = n + 1 /\ m \in Nat
      BY <1>1
<1> HIDE DEF more, n, m
<1>3. PICK S \in [0 .. n -> Seq(Name)] : Run(S, n, f, base, q) /\ S[n] = Slashed(q)
      BY SlashedRun DEF n
<1>4. PICK T \in [0 .. m -> Seq(Name)] : Run(T, m, f, base, more) /\ T[m] = Slashed(more)
      BY <1>1, SlashedRun
<1> HIDE DEF base, f
<1>5. T[m] = f[<<S[n], more[m]>>]
    <2>1. Same(q, more, n)
          BY <1>1 DEF Same
    <2>2. GoesOn(T, m, S, n, f, more)
          BY <1>1, <1>2, <1>3, <1>4, <2>1, RunAppend
    <2> QED BY <2>2 DEF GoesOn
<1>6. Slashed(q) \in Seq(Name)
      BY <1>1, <1>3
<1>7. \A a \in Seq(Name), b \in Name : f[<<a, b>>] = AddSlashed(a, b)
      BY SlashingsIs DEF f
<1> QED BY <1>1, <1>3, <1>4, <1>5, <1>6, <1>7 DEF more

\* None.
LEMMA SlashedEmpty == Slashed(<<>>) = <<>>
<1> DEFINE f == Slashings
           base == <<>>
<1>1. <<>> \in Seq(Name) /\ Len(<<>>) = 0
      OBVIOUS
<1>2. PICK S : Run(S, 0, f, base, <<>>) /\ S[0] = Slashed(<<>>)
      BY <1>1, SlashedRun
<1> HIDE DEF f, base
<1>3. Slashed(<<>>) = base
      BY <1>2 DEF Run
<1> QED BY <1>3 DEF base


LEMMA ProperIs ==
    /\ \A s \in Seq(Proper) : s \in Seq(Name)
    /\ \A c \in Proper : c \in Name /\ c # "/" /\ c # NoName
<1>1. \A c \in Proper : c \in Name /\ c # "/" /\ c # NoName
      BY DEF Proper
<1>2. ASSUME NEW s \in Seq(Proper) PROVE s \in Seq(Name)
    <2>1. \A k \in 1 .. Len(s) : s[k] \in Name
          BY <1>1
    <2> QED BY <2>1
<1> QED BY <1>1, <1>2

\* What is spelled is split as it was, with and without the first "/".
SplitsAsSpelled(s) ==
    /\ Slashed(s) \in Seq(Name) /\ Slashed(s) # <<>> /\ Slashed(s)[1] = "/"
    /\ Len(Slashed(s)) = 2 * Len(s)
    /\ Tail(Slashed(s)) \in Seq(Name) /\ Tail(Slashed(s)) # <<>> /\ Tail(Slashed(s))[1] # "/"
    /\ Last(Tail(Slashed(s))) # "/"
    /\ Parts(Tail(Slashed(s))) = s /\ Names(Tail(Slashed(s))) = s

\* Which sequence Append gives.
LEMMA AppendUnique ==
    ASSUME NEW S, NEW s \in Seq(S), NEW e \in S, NEW t \in Seq(S),
           Len(t) = Len(s) + 1, t[Len(s) + 1] = e, \A k \in 1 .. Len(s) : t[k] = s[k]
    PROVE  Append(s, e) = t
<1> DEFINE more == Append(s, e)
<1>1. /\ more \in Seq(S) /\ Len(s) \in Nat /\ Len(more) = Len(s) + 1 /\ more[Len(s) + 1] = e
      /\ \A k \in 1 .. Len(s) : more[k] = s[k]
      /\ \A k \in 1 .. Len(more) : k \in 1 .. Len(s) \/ k = Len(s) + 1
      BY AppendIs
<1> HIDE DEF more
<1>2. \A k \in 1 .. Len(more) : more[k] = t[k]
      BY <1>1
<1>3. more = t
      BY <1>1, <1>2, SeqEqual
<1> QED BY <1>3 DEF more

LEMMA PairIs == ASSUME NEW a, NEW b PROVE Append(<<a>>, b) = <<a, b>>
<1> DEFINE one == <<a>>
           two == <<a, b>>
           S == {a, b}
<1>1. one \in Seq(S) /\ Len(one) = 1 /\ one[1] = a /\ b \in S
      OBVIOUS
<1>2. two \in Seq(S) /\ Len(two) = 2 /\ two[1] = a /\ two[2] = b
      OBVIOUS
<1> HIDE DEF one, two, S
<1>3. Len(two) = Len(one) + 1 /\ two[Len(one) + 1] = b /\ \A k \in 1 .. Len(one) : two[k] = one[k]
      BY <1>1, <1>2
<1>4. one \in Seq(S) /\ b \in S /\ two \in Seq(S)
      BY <1>1, <1>2
<1>5. Append(one, b) = two
      BY <1>3, <1>4, AppendUnique
<1> QED BY <1>5 DEF one, two

LEMMA SpellOne == ASSUME NEW c \in Proper PROVE SplitsAsSpelled(<<c>>)
<1> DEFINE none == <<>>
           s == <<c>>
           two == <<"/", c>>
<1>1. none \in Seq(Name) /\ c \in Name /\ c # "/" /\ "/" \in Name /\ s \in Seq(Name) /\ s = Append(none, c) /\ Len(s) = 1
      BY ProperIs DEF Name
<1>2. two \in Seq(Name) /\ Len(two) = 2 /\ two[1] = "/" /\ Tail(two) = s /\ s # <<>> /\ s[1] = c /\ two # <<>>
      BY <1>1
<1>3. Slashed(s) = two
    <2>1. Slashed(Append(none, c)) = AddSlashed(Slashed(none), c) /\ Slashed(none) = none
          BY <1>1, SlashedAppend, SlashedEmpty
    <2>2. Append(none, "/") = <<"/">>
          OBVIOUS
    <2>3. Append(<<"/">>, c) = two
          BY PairIs
    <2>4. AddSlashed(none, c) = two
          BY <2>2, <2>3 DEF AddSlashed
    <2> QED BY <1>1, <2>1, <2>4
<1>4. Last(s) = c
      BY <1>1 DEF Last
<1>5. Parts(s) = s
      BY <1>1, PartsOne
<1>6. Names(s) = s
    <2>1. Names(Append(none, c)) = AddName(Names(none), c) /\ Names(none) = none
          BY <1>1, NamesAppend, NamesEmpty
    <2>2. AddName(none, c) = s
          BY <1>1 DEF AddName
    <2> QED BY <1>1, <2>1, <2>2
<1> HIDE DEF s, two
<1>7. 2 * Len(s) = 2
      BY <1>1
<1>8. SplitsAsSpelled(s)
      BY <1>1, <1>2, <1>3, <1>4, <1>5, <1>6, <1>7 DEF SplitsAsSpelled
<1> QED BY <1>8 DEF s

LEMMA SpellMore ==
    ASSUME NEW s \in Seq(Proper), SplitsAsSpelled(s), NEW c \in Proper
    PROVE  SplitsAsSpelled(Append(s, c))
<1> DEFINE d == Slashed(s)
           e == Append(d, "/")
           g == Append(e, c)
           t == Tail(d)
           u == Append(t, "/")
           v == Append(u, c)
           more == Append(s, c)
<1>1. s \in Seq(Name) /\ c \in Name /\ c # "/" /\ "/" \in Name
      BY ProperIs DEF Name
<1>2. /\ d \in Seq(Name) /\ d # <<>> /\ d[1] = "/" /\ Len(d) = 2 * Len(s)
      /\ t \in Seq(Name) /\ t # <<>> /\ t[1] # "/" /\ Parts(t) = s /\ Names(t) = s
      BY DEF SplitsAsSpelled
<1> HIDE DEF d
<1>3. e \in Seq(Name) /\ e # <<>> /\ e[1] = "/" /\ Tail(e) = u /\ Len(e) = Len(d) + 1 /\ Len(d) \in Nat
      BY <1>1, <1>2, TailAppend, SMTT(30)
<1>4. u \in Seq(Name) /\ u # <<>> /\ u[1] = t[1]
    <2> HIDE DEF t
    <2> QED BY <1>1, <1>2, TailAppend
<1> HIDE DEF e
<1>5. g \in Seq(Name) /\ g # <<>> /\ g[1] = "/" /\ Tail(g) = v /\ Len(g) = Len(d) + 2
    <2>1. Tail(g) = Append(Tail(e), c) /\ g[1] = e[1]
          BY <1>1, <1>3, TailAppend
    <2>2. g \in Seq(Name) /\ g # <<>> /\ Len(g) = Len(e) + 1
          BY <1>1, <1>3
    <2> QED BY <1>3, <2>1, <2>2
<1>6. v \in Seq(Name) /\ v # <<>> /\ v[1] = t[1] /\ Last(v) = c
    <2> HIDE DEF u
    <2>1. Append(u, c)[1] = u[1]
          BY <1>1, <1>4, TailAppend, ZenonT(30)
    <2>2. Append(u, c) \in Seq(Name) /\ Append(u, c) # <<>> /\ Last(Append(u, c)) = c
          BY <1>1, <1>4, FrontAppend
    <2> QED BY <1>4, <2>1, <2>2
<1>7. Slashed(more) = g
      BY <1>1, SlashedAppend DEF AddSlashed, d, e
<1>8. Parts(v) = more
    <2> HIDE DEF t
    <2> QED BY <1>1, <1>2, PartsSlash
<1>9. Names(v) = more
    <2> HIDE DEF t
    <2>1. Names(u) = Names(t)
          BY <1>1, <1>2, NamesAppend DEF AddName
    <2> HIDE DEF u
    <2>2. Names(v) = Append(Names(u), c)
          BY <1>1, <1>4, NamesAppend DEF AddName
    <2> QED BY <1>2, <2>1, <2>2
<1>10. Len(more) = Len(s) + 1 /\ Len(s) \in Nat
      BY <1>1
<1> HIDE DEF more, g, v
<1>11. Len(g) = 2 * Len(more)
      BY <1>2, <1>5, <1>10
<1> QED BY <1>1, <1>2, <1>5, <1>6, <1>7, <1>8, <1>9, <1>11 DEF SplitsAsSpelled, more

LEMMA SpelledIs == ASSUME NEW segs \in Seq(Proper), segs # <<>> PROVE SplitsAsSpelled(segs)
<1> DEFINE n == Len(segs)
           T == {k \in 1 .. n : SplitsAsSpelled(SubSeq(segs, 1, k))}
<1>1. n \in Nat /\ 1 \in Nat /\ n >= 1
      BY EmptySeq
<1>2. \A k \in 1 .. n : segs[k] \in Proper
      OBVIOUS
<1>3. 1 \in T
    <2>1. 0 \in 0 .. n - 1 /\ 1 \in 1 .. n
          BY <1>1
    <2>2. SubSeq(segs, 1, 0) = <<>> /\ SubSeq(segs, 1, 0 + 1) = Append(SubSeq(segs, 1, 0), segs[0 + 1])
          BY <2>1, PrefixIs
    <2> DEFINE c == segs[1]
    <2>3. Append(<<>>, c) = <<c>>
          OBVIOUS
    <2>4. SubSeq(segs, 1, 1) = <<c>>
        <3>1. 0 + 1 = 1
              OBVIOUS
        <3>2. SubSeq(segs, 1, 1) = Append(<<>>, c)
              BY <2>2, <3>1
        <3> QED BY <2>3, <3>2
    <2>5. c \in Proper
          BY <1>2, <2>1
    <2> HIDE DEF c
    <2>6. SplitsAsSpelled(<<c>>)
          BY <2>5, SpellOne
    <2> QED BY <2>1, <2>4, <2>6
<1>4. ASSUME NEW k \in 1 .. n - 1, k \in T PROVE k + 1 \in T
    <2>1. k \in 0 .. n /\ k \in 0 .. n - 1 /\ k + 1 \in 1 .. n
          BY <1>1
    <2>2. /\ SubSeq(segs, 1, k) \in Seq(Proper)
          /\ SubSeq(segs, 1, k + 1) = Append(SubSeq(segs, 1, k), segs[k + 1])
          BY <2>1, PrefixIs
    <2>3. SplitsAsSpelled(SubSeq(segs, 1, k + 1))
          BY <1>2, <1>4, <2>1, <2>2, SpellMore
    <2> QED BY <2>1, <2>3
<1> HIDE DEF T
<1>5. \A k \in 1 .. n : k \in T
      BY <1>1, <1>3, <1>4, SetInduction
<1>6. n \in T
      BY <1>1, <1>5
<1>7. SplitsAsSpelled(SubSeq(segs, 1, n))
      BY <1>6 DEF T
<1> QED BY <1>7, PrefixIs


\* Paths as the navigator and the archive spell them.
LEMMA PathSpelled ==
    ASSUME NEW segs \in Seq(Proper), segs # <<>>
    PROVE  /\ path(Slashed(segs)) = segs /\ path(Append(Slashed(segs), "/")) = segs
           /\ path(Tail(Slashed(segs))) = segs /\ path(Append(Tail(Slashed(segs)), "/")) = segs
<1> DEFINE d == Slashed(segs)
           t == Tail(d)
           u == Append(t, "/")
           e == Append(d, "/")
<1>1. /\ d \in Seq(Name) /\ d # <<>> /\ d[1] = "/" /\ "/" \in Name
      /\ t \in Seq(Name) /\ t # <<>> /\ t[1] # "/" /\ Last(t) # "/" /\ Parts(t) = segs
      BY SpelledIs DEF SplitsAsSpelled, Name
<1> HIDE DEF d
<1>2. e \in Seq(Name) /\ e # <<>> /\ e[1] = "/" /\ Tail(e) = u
      BY <1>1, TailAppend
<1> HIDE DEF t
<1>3. u \in Seq(Name) /\ u # <<>> /\ u[1] # "/" /\ Last(u) = "/" /\ Front(u) = t
      BY <1>1, TailAppend, FrontAppend
<1> HIDE DEF e, u
<1>4. Trim(d) = t /\ Trim(t) = t /\ Trim(u) = t
      BY <1>1, <1>3 DEF Trim, t
<1>5. Trim(e) = t
      BY <1>2, <1>3 DEF Trim
<1>6. path(d) = segs /\ path(t) = segs /\ path(u) = segs /\ path(e) = segs
      BY <1>1, <1>4, <1>5 DEF path, Parts
<1> QED BY <1>6 DEF d, t, u, e

\* A file in a directory that ends with "/": the path has a segment without a name.
LEMMA PathDouble ==
    ASSUME NEW segs \in Seq(Proper), NEW c \in Proper
    PROVE  path(Append(Append(Append(Slashed(segs), "/"), "/"), c)) = Append(Append(segs, NoName), c)
<1>1. segs \in Seq(Name) /\ c \in Name /\ c # "/" /\ "/" \in Name
      BY ProperIs DEF Name
<1> DEFINE d == Slashed(segs)
           e == Append(d, "/")
           f == Append(e, "/")
           g == Append(f, c)
           t == Tail(e)
           u == Append(t, "/")
           v == Append(u, c)
<1>2. d \in Seq(Name)
      BY <1>1, SlashedAppend
<1>3. e \in Seq(Name) /\ e # <<>> /\ e[1] = "/" /\ t \in Seq(Name) /\ Parts(t) = Append(segs, NoName)
    <2>1. CASE segs = <<>>
        <3>1. d = <<>>
              BY <2>1, SlashedEmpty
        <3>2. e = <<"/">> /\ t = <<>>
              BY <3>1
        <3> HIDE DEF e
        <3>3. Parts(t) = <<NoName>>
              BY <3>2, PartsEmpty
        <3>4. Append(<<>>, NoName) = <<NoName>>
              OBVIOUS
        <3>5. <<>> \in Seq(Name) /\ <<"/">> \in Seq(Name) /\ <<"/">> # <<>> /\ <<"/">>[1] = "/"
              BY <1>1
        <3> QED BY <2>1, <3>2, <3>3, <3>4, <3>5
    <2>2. CASE segs # <<>>
        <3>1. /\ d # <<>> /\ d[1] = "/" /\ Tail(d) \in Seq(Name) /\ Parts(Tail(d)) = segs
              BY <2>2, SpelledIs DEF SplitsAsSpelled
        <3> HIDE DEF d
        <3>2. e \in Seq(Name) /\ e # <<>> /\ e[1] = "/" /\ t = Append(Tail(d), "/")
              BY <1>1, <1>2, <3>1, TailAppend
        <3>3. t \in Seq(Name)
              BY <1>1, <3>1, <3>2
        <3>4. Parts(t) = Split(segs, "/")
              BY <1>1, <3>1, <3>2, PartsAppend
        <3>5. Parts(t) = Append(segs, NoName)
              BY <3>4 DEF Split
        <3> QED BY <3>2, <3>3, <3>5
    <2> QED BY <2>1, <2>2
<1> HIDE DEF e
<1>4. f \in Seq(Name) /\ f # <<>> /\ f[1] = "/" /\ Tail(f) = u
      BY <1>1, <1>3, TailAppend
<1> HIDE DEF t
<1>5. u \in Seq(Name)
      BY <1>1, <1>3
<1> HIDE DEF f
<1>6. g \in Seq(Name) /\ g # <<>> /\ g[1] = "/" /\ Tail(g) = v
    <2>1. Tail(g) = Append(Tail(f), c) /\ g[1] = f[1]
          BY <1>1, <1>4, TailAppend
    <2>2. g \in Seq(Name) /\ g # <<>>
          BY <1>1, <1>4
    <2> QED BY <1>4, <2>1, <2>2
<1>7. Parts(v) = Append(Parts(t), c)
      BY <1>1, <1>3, PartsSlash
<1> HIDE DEF u
<1>8. v # <<>> /\ Last(v) = c
      BY <1>1, <1>5, FrontAppend
<1> HIDE DEF g, v
<1>9. Trim(g) = v
      BY <1>1, <1>6, <1>8 DEF Trim
<1>10. path(g) = Append(Append(segs, NoName), c)
      BY <1>3, <1>7, <1>9 DEF path, Parts
<1> QED BY <1>10 DEF g, f, e, d

\* A path of the archive without empty names spells its names.
SpellsNames(name) ==
    /\ Names(name) \in Seq(Proper) /\ Names(name) # <<>>
    /\ IF Last(name) = "/" THEN name = Append(Tail(Slashed(Names(name))), "/")
       ELSE name = Tail(Slashed(Names(name)))

LEMMA PartedStep ==
    ASSUME NEW p \in Seq(Name), p # <<>>, SpellsNames(p), NEW c \in Name, c # NoName,
           (Last(p) = "/") # (c = "/")
    PROVE  SpellsNames(Append(p, c))
<1> DEFINE segs == Names(p)
           d == Slashed(segs)
           t == Tail(d)
           q == Append(p, c)
<1>1. segs \in Seq(Proper) /\ segs # <<>> /\ segs \in Seq(Name) /\ "/" \in Name
      BY ProperIs DEF SpellsNames, Name
<1>2. d \in Seq(Name) /\ d # <<>> /\ t \in Seq(Name)
      BY <1>1, SpelledIs DEF SplitsAsSpelled
<1>3. Last(q) = c
      BY FrontAppend
<1>4. Names(q) = AddName(segs, c)
      BY NamesAppend
<1>5. CASE c = "/"
    <2>1. Names(q) = segs
          BY <1>4, <1>5 DEF AddName
    <2>2. p = t
          BY <1>5 DEF SpellsNames
    <2>3. q = Append(t, "/")
          BY <1>5, <2>2
    <2> HIDE DEF q, segs
    <2>4. SpellsNames(q)
          BY <1>1, <1>3, <1>5, <2>1, <2>3 DEF SpellsNames
    <2> QED BY <2>4 DEF q
<1>6. CASE c # "/"
    <2> DEFINE more == Append(segs, c)
    <2>1. Names(q) = more
          BY <1>4, <1>6 DEF AddName
    <2>2. c \in Proper
          BY <1>6 DEF Proper
    <2>3. p = Append(t, "/")
          BY <1>6 DEF SpellsNames
    <2>4. more \in Seq(Proper) /\ more # <<>>
          BY <1>1, <2>2
    <2>5. Slashed(more) = Append(Append(d, "/"), c)
          BY <1>1, SlashedAppend DEF AddSlashed
    <2>6. Tail(Append(Append(d, "/"), c)) = Append(Append(t, "/"), c)
        <3> HIDE DEF d
        <3> DEFINE e == Append(d, "/")
        <3>1. e \in Seq(Name) /\ e # <<>> /\ Tail(e) = Append(t, "/")
              BY <1>1, <1>2, TailAppend
        <3> HIDE DEF e
        <3>2. Tail(Append(e, c)) = Append(Tail(e), c)
              BY <3>1, TailAppend
        <3> QED BY <3>1, <3>2 DEF e
    <2>7. q = Tail(Slashed(more))
          BY <2>3, <2>5, <2>6
    <2> HIDE DEF q, more
    <2>8. SpellsNames(q)
          BY <1>3, <1>6, <2>1, <2>4, <2>7 DEF SpellsNames
    <2> QED BY <2>8 DEF q
<1> QED BY <1>5, <1>6

LEMMA PartedOne == ASSUME NEW c \in Proper PROVE SpellsNames(<<c>>)
<1> DEFINE none == <<>>
           s == <<c>>
<1>1. c \in Name /\ c # "/" /\ none \in Seq(Name) /\ s = Append(none, c) /\ s \in Seq(Proper) /\ s # <<>>
      BY ProperIs
<1>2. Names(s) = s
    <2>1. Names(Append(none, c)) = AddName(Names(none), c) /\ Names(none) = none
          BY <1>1, NamesAppend, NamesEmpty
    <2>2. AddName(none, c) = s
          BY <1>1 DEF AddName
    <2> QED BY <1>1, <2>1, <2>2
<1>3. Slashed(s) = Append(<<"/">>, c)
    <2>1. Slashed(Append(none, c)) = AddSlashed(Slashed(none), c) /\ Slashed(none) = none
          BY <1>1, SlashedAppend, SlashedEmpty
    <2>2. Append(none, "/") = <<"/">>
          OBVIOUS
    <2> QED BY <1>1, <2>1, <2>2 DEF AddSlashed
<1>4. Tail(Append(<<"/">>, c)) = s
    <2> DEFINE one == <<"/">>
    <2>1. one \in Seq(Name) /\ one # <<>> /\ Tail(one) = none
          BY DEF Name
    <2> HIDE DEF one
    <2>2. Tail(Append(one, c)) = Append(Tail(one), c)
          BY <1>1, <2>1, TailAppend
    <2> QED BY <1>1, <2>1, <2>2 DEF one
<1>5. Last(s) = c
      BY <1>1, FrontAppend, ZenonT(30)
<1> HIDE DEF s
<1>6. SpellsNames(s)
      BY <1>1, <1>2, <1>3, <1>4, <1>5 DEF SpellsNames
<1> QED BY <1>6 DEF s

LEMMA PartedSpells ==
    ASSUME NEW name \in Seq(Name), name # <<>>, \A k \in 1 .. Len(name) : name[k] # NoName, Parted(name)
    PROVE  SpellsNames(name)
<1> DEFINE n == Len(name)
           T == {k \in 1 .. n : SpellsNames(SubSeq(name, 1, k))}
<1>1. n \in Nat /\ 1 \in Nat /\ n >= 1
      BY EmptySeq
<1>2. \A k \in 1 .. n : name[k] \in Name
      OBVIOUS
<1>3. 1 \in T
    <2>1. 0 \in 0 .. n - 1 /\ 1 \in 1 .. n
          BY <1>1
    <2>2. SubSeq(name, 1, 0) = <<>> /\ SubSeq(name, 1, 0 + 1) = Append(SubSeq(name, 1, 0), name[0 + 1])
          BY <2>1, PrefixIs
    <2> DEFINE c == name[1]
    <2>3. Append(<<>>, c) = <<c>>
          OBVIOUS
    <2>4. SubSeq(name, 1, 1) = <<c>>
        <3>1. 0 + 1 = 1
              OBVIOUS
        <3>2. SubSeq(name, 1, 1) = Append(<<>>, c)
              BY <2>2, <3>1
        <3> QED BY <2>3, <3>2
    <2>5. c \in Proper
          BY <1>2, <2>1 DEF Parted, Proper
    <2> HIDE DEF c
    <2>6. SpellsNames(<<c>>)
          BY <2>5, PartedOne
    <2> QED BY <2>1, <2>4, <2>6
<1>4. ASSUME NEW k \in 1 .. n - 1, k \in T PROVE k + 1 \in T
    <2> DEFINE p == SubSeq(name, 1, k)
               c == name[k + 1]
    <2>1. k \in 0 .. n /\ k \in 0 .. n - 1 /\ k + 1 \in 1 .. n /\ k \in 1 .. n
          BY <1>1
    <2>2. p \in Seq(Name) /\ Len(p) = k /\ SubSeq(name, 1, k + 1) = Append(p, c)
          BY <2>1, PrefixIs
    <2>3. p # <<>> /\ Last(p) = name[k]
          BY <2>1, <2>2 DEF Last
    <2>4. c \in Name /\ c # NoName /\ (name[k] = "/") # (c = "/")
          BY <1>2, <2>1 DEF Parted
    <2>5. SpellsNames(p)
          BY <1>4
    <2> HIDE DEF p, c
    <2>6. SpellsNames(Append(p, c))
          BY <2>2, <2>3, <2>4, <2>5, PartedStep
    <2> QED BY <2>1, <2>2, <2>6
<1> HIDE DEF T
<1>5. \A k \in 1 .. n : k \in T
      BY <1>1, <1>3, <1>4, SetInduction
<1>6. n \in T
      BY <1>1, <1>5
<1>7. SpellsNames(SubSeq(name, 1, n))
      BY <1>6 DEF T
<1> QED BY <1>7, PrefixIs

\* Splitting it gives its names.
LEMMA PartedPath ==
    ASSUME NEW name \in Seq(Name), name # <<>>, \A k \in 1 .. Len(name) : name[k] # NoName, Parted(name)
    PROVE  path(name) = Names(name) /\ Names(name) \in Seq(Proper) /\ Names(name) # <<>>
<1> DEFINE segs == Names(name)
<1>1. SpellsNames(name)
      BY PartedSpells
<1>2. segs \in Seq(Proper) /\ segs # <<>> /\ (name = Tail(Slashed(segs)) \/ name = Append(Tail(Slashed(segs)), "/"))
      BY <1>1 DEF SpellsNames
<1> HIDE DEF segs
<1>3. path(name) = segs
      BY <1>2, PathSpelled
<1> QED BY <1>2, <1>3 DEF segs


-----------------------------------------------------------------------------
(* Lookup.                                                                  *)

\* FindName gives the first entry of that name, or NULL when there is none.
FoundIs(all, list, name, n) ==
    \/ n = NULL /\ \A k \in 1 .. Len(list) : all[list[k]].name # name
    \/ \E k \in 1 .. Len(list) : /\ n = list[k] /\ all[n].name = name
                                /\ \A j \in 1 .. k - 1 : all[list[j]].name # name

LEMMA FindFirst ==
    ASSUME NEW all, NEW list \in Seq(Nat), NEW name
    PROVE  FoundIs(all, list, name, FindName(all, list, name))
<1> DEFINE hits == {k \in DOMAIN list : all[list[k]].name = name}
<1>1. hits \subseteq Nat /\ \A k \in hits : k \in 1 .. Len(list) /\ all[list[k]].name = name
      OBVIOUS
<1>2. FindName(all, list, name) = IF hits = {} THEN NULL ELSE list[CHOOSE k \in hits : \A j \in hits : k <= j]
      BY DEF FindName
<1>3. \A k \in 1 .. Len(list) : all[list[k]].name = name => k \in hits
      OBVIOUS
<1> HIDE DEF hits
<1>4. CASE hits = {}
      BY <1>2, <1>3, <1>4 DEF FoundIs
<1>5. CASE hits # {}
    <2> DEFINE least == CHOOSE k \in hits : \A j \in hits : k <= j
    <2>1. least \in hits /\ \A j \in hits : least <= j
          BY <1>1, <1>5, LeastOf
    <2>2. FindName(all, list, name) = list[least]
          BY <1>2, <1>5
    <2> HIDE DEF least
    <2>3. \A j \in 1 .. least - 1 : all[list[j]].name # name
        <3>1. SUFFICES ASSUME NEW j \in 1 .. least - 1, all[list[j]].name = name PROVE FALSE
              OBVIOUS
        <3>2. least \in 1 .. Len(list)
              BY <1>1, <2>1
        <3>3. j \in 1 .. Len(list)
              BY <3>2
        <3>4. j \in hits
              BY <1>3, <3>1, <3>3
        <3> QED BY <2>1, <3>2, <3>4
    <2> QED BY <1>1, <2>1, <2>2, <2>3 DEF FoundIs
<1> QED BY <1>4, <1>5

NodeOf(all) == {NULL} \cup 1 .. Len(all)

\* A step of a walk down the tree, and the walk from a node.
Look(all, n, seg) ==
    IF n = NULL THEN NULL
    ELSE IF all[n].dir THEN IF all[n].dir THEN FindName(all, all[n].list, seg) ELSE NULL ELSE NULL
Reached(all, from, segs) == FoldLeft(LAMBDA n, seg : Look(all, n, seg), from, segs)

\* It gives a node, or NULL.
LEMMA LookIs ==
    ASSUME NEW all, IsTree(all), NEW n \in NodeOf(all), NEW seg
    PROVE  /\ Look(all, n, seg) \in NodeOf(all)
           /\ Look(all, n, seg) # NULL =>
                 n \in 1 .. Len(all) /\ all[n].dir /\ Look(all, n, seg) = FindName(all, all[n].list, seg)
<1>1. CASE n = NULL \/ ~all[n].dir
      BY <1>1 DEF Look, NodeOf
<1>2. CASE n # NULL /\ all[n].dir
    <2>1. n \in 1 .. Len(all)
          BY <1>2 DEF NodeOf
    <2> DEFINE list == all[n].list
               found == FindName(all, list, seg)
    <2>2. list \in Seq(Nat) /\ \A k \in 1 .. Len(list) : list[k] \in 1 .. Len(all)
          BY <2>1, TreeIs DEF IsTree, Closed
    <2>3. Look(all, n, seg) = found
          BY <1>2 DEF Look
    <2> HIDE DEF list
    <2>4. found = NULL \/ \E k \in 1 .. Len(list) : found = list[k]
          BY <2>2, FindNameIs
    <2> HIDE DEF found
    <2>5. found \in NodeOf(all)
          BY <2>2, <2>4 DEF NodeOf
    <2> QED BY <1>2, <2>1, <2>3, <2>5 DEF found, list
<1> QED BY <1>1, <1>2

Looks(all) == [z \in NodeOf(all) \X Name |-> Look(all, z[1], z[2])]

LEMMA LooksIs ==
    ASSUME NEW all, IsTree(all)
    PROVE  /\ Looks(all) \in [NodeOf(all) \X Name -> NodeOf(all)]
           /\ \A n \in NodeOf(all), seg \in Name : Looks(all)[<<n, seg>>] = Look(all, n, seg)
<1>1. \A n \in NodeOf(all), seg \in Name : Look(all, n, seg) \in NodeOf(all)
      BY LookIs
<1> QED BY <1>1 DEF Looks

\* The nodes a walk passes through.
LEMMA ReachRun ==
    ASSUME NEW all, IsTree(all), NEW from \in NodeOf(all), NEW q \in Seq(Name)
    PROVE  \E S \in [0 .. Len(q) -> NodeOf(all)] :
               Run(S, Len(q), Looks(all), from, q) /\ S[Len(q)] = Reached(all, from, q)
<1> DEFINE n == Len(q)
           States == NodeOf(all)
           Inputs == Name
           base == from
           f == Looks(all)
           Is(w) == w = [s \in SUBSET DOMAIN q |-> IF s = {} THEN base ELSE Look(all, w[s \ {Max(s)}], q[Max(s)])]
           it == CHOOSE w : Is(w)
<1>1. Reached(all, from, q) = it[DOMAIN q]
      BY DEF Reached, FoldLeft, MapThenFoldSet
<1>2. n \in Nat /\ DOMAIN q = 1 .. n /\ \A k \in 1 .. n : q[k] \in Inputs
      OBVIOUS
<1> HIDE DEF n
<1>3. f \in [States \X Inputs -> States] /\ \A a \in States, b \in Inputs : f[<<a, b>>] = Look(all, a, b)
      BY LooksIs
<1>4. base \in States
      OBVIOUS
<1> HIDE DEF base, f
<1>5. PICK w \in [SUBSET (1 .. n) -> States] : Folds(w, n, f, base, q)
      BY <1>2, <1>3, <1>4, FoldExists
<1>6. Is(w)
    <2>1. ASSUME NEW s \in SUBSET (1 .. n)
          PROVE  w[s] = IF s = {} THEN base ELSE Look(all, w[s \ {Max(s)}], q[Max(s)])
        <3>1. s # {} => Max(s) \in s
              BY <1>2, HighestIn, MaxIsHighest
        <3>2. s # {} => w[s \ {Max(s)}] \in States /\ q[Max(s)] \in Inputs
              BY <1>2, <1>5, <3>1
        <3> QED BY <1>3, <1>5, <3>2, MaxIsHighest DEF Folds
    <2> QED BY <1>2, <1>5, <2>1
<1>7. Is(it)
      BY <1>6
<1> HIDE DEF it
<1>8. it[{}] = base
      BY <1>7
<1>9. ASSUME NEW k \in 0 .. n - 1, it[1 .. k] \in States
      PROVE  it[1 .. k + 1] = f[<<it[1 .. k], q[k + 1]>>]
    <2>1. k \in Nat /\ k + 1 \in 1 .. n /\ 1 .. k + 1 \in SUBSET (1 .. n)
          BY <1>2
    <2>2. Max(1 .. k + 1) = k + 1 /\ (1 .. k + 1) \ {k + 1} = 1 .. k /\ 1 .. k + 1 # {}
          BY <2>1, HighestOfPrefix, MaxIsHighest
    <2>3. it[1 .. k + 1] = Look(all, it[1 .. k], q[k + 1])
          BY <1>2, <1>7, <2>1, <2>2
    <2> QED BY <1>2, <1>3, <1>9, <2>1, <2>3
<1> HIDE DEF States, Inputs
<1>10. \E S \in [0 .. n -> States] : RunOf(S, it, n, f, base, q)
    <2>1. FoldsIn(it, n, f, base, q, States)
          BY <1>8, <1>9 DEF FoldsIn
    <2> HIDE DEF Is, base
    <2> QED BY <1>2, <1>3, <1>4, <2>1, FoldRun
<1> QED BY <1>1, <1>2, <1>10 DEF RunOf, n, base, f, States

\* One name more.
LEMMA ReachAppend ==
    ASSUME NEW all, IsTree(all), NEW from \in NodeOf(all), NEW q \in Seq(Name), NEW c \in Name
    PROVE  Reached(all, from, q) \in NodeOf(all) /\ Reached(all, from, Append(q, c)) = Look(all, Reached(all, from, q), c)
<1> DEFINE n == Len(q)
           m == n + 1
           more == Append(q, c)
           base == from
           f == Looks(all)
<1>1. more \in Seq(Name) /\ Len(more) = m /\ n \in Nat /\ more[m] = c /\ \A k \in 1 .. n : q[k] = more[k]
      OBVIOUS
<1>2. m = n + 1 /\ m \in Nat
      BY <1>1
<1> HIDE DEF more, n, m
<1>3. PICK S \in [0 .. n -> NodeOf(all)] : Run(S, n, f, base, q) /\ S[n] = Reached(all, from, q)
      BY ReachRun DEF n
<1>4. PICK T \in [0 .. m -> NodeOf(all)] : Run(T, m, f, base, more) /\ T[m] = Reached(all, from, more)
      BY <1>1, ReachRun
<1> HIDE DEF base, f
<1>5. T[m] = f[<<S[n], more[m]>>]
    <2>1. Same(q, more, n)
          BY <1>1 DEF Same
    <2>2. GoesOn(T, m, S, n, f, more)
          BY <1>1, <1>2, <1>3, <1>4, <2>1, RunAppend
    <2> QED BY <2>2 DEF GoesOn
<1>6. Reached(all, from, q) \in NodeOf(all)
      BY <1>1, <1>3
<1>7. \A a \in NodeOf(all), b \in Name : f[<<a, b>>] = Look(all, a, b)
      BY LooksIs DEF f
<1> QED BY <1>1, <1>3, <1>4, <1>5, <1>6, <1>7 DEF more

\* None.
LEMMA ReachEmpty == ASSUME NEW all, IsTree(all), NEW from \in NodeOf(all) PROVE Reached(all, from, <<>>) = from
<1> DEFINE f == Looks(all)
           base == from
<1>1. <<>> \in Seq(Name) /\ Len(<<>>) = 0
      OBVIOUS
<1>2. PICK S : Run(S, 0, f, base, <<>>) /\ S[0] = Reached(all, from, <<>>)
      BY <1>1, ReachRun
<1> HIDE DEF f, base
<1>3. Reached(all, from, <<>>) = base
      BY <1>2 DEF Run
<1> QED BY <1>3 DEF base


\* find walks down from the root.
LEMMA FindReached ==
    ASSUME NEW name
    PROVE  find(name) = IF name = <<"/">> THEN ROOT ELSE Reached(nodes, ROOT, path(name))
<1>1. FoldLeft(Enter, ROOT, path(name)) = Reached(nodes, ROOT, path(name))
      BY DEF Reached, Enter, Look, finddir_fs, ramfs_finddir, FoldLeft, MapThenFoldSet
<1> QED BY <1>1 DEF find


\* A name more in front of a walk.
LEMMA ConcatIs ==
    ASSUME NEW S, NEW c \in S, NEW q \in Seq(S), NEW e \in S
    PROVE  /\ <<c>> \o q \in Seq(S) /\ <<c>> \o q # <<>>
           /\ <<c>> \o Append(q, e) = Append(<<c>> \o q, e)
<1> DEFINE one == <<c>>
           a == one \o q
           more == Append(q, e)
           b == one \o more
<1>1. one \in Seq(S) /\ Len(one) = 1 /\ Len(q) \in Nat
      OBVIOUS
<1>2. more \in Seq(S) /\ Len(more) = Len(q) + 1 /\ more[Len(q) + 1] = e /\ \A k \in 1 .. Len(q) : more[k] = q[k]
      OBVIOUS
<1> HIDE DEF one, more
<1>3. a \in Seq(S) /\ Len(a) = Len(one) + Len(q)
      /\ \A k \in 1 .. Len(one) + Len(q) : a[k] = IF k <= Len(one) THEN one[k] ELSE q[k - Len(one)]
      BY <1>1, ConcatProperties
<1>4. b \in Seq(S) /\ Len(b) = Len(one) + Len(more)
      /\ \A k \in 1 .. Len(one) + Len(more) : b[k] = IF k <= Len(one) THEN one[k] ELSE more[k - Len(one)]
      BY <1>1, <1>2, ConcatProperties
<1>5. Len(b) = Len(a) + 1
      BY <1>1, <1>2, <1>3, <1>4
<1>6. b[Len(a) + 1] = e
      BY <1>1, <1>2, <1>3, <1>4
<1>7. ASSUME NEW k \in 1 .. Len(a) PROVE b[k] = a[k]
    <2>1. k \in 1 .. Len(one) + Len(q) /\ k \in 1 .. Len(one) + Len(more)
          BY <1>1, <1>2, <1>3
    <2>2. k > Len(one) => k - Len(one) \in 1 .. Len(q)
          BY <1>1, <2>1
    <2>3. a[k] = IF k <= Len(one) THEN one[k] ELSE q[k - Len(one)]
          BY <1>3, <2>1
    <2>4. b[k] = IF k <= Len(one) THEN one[k] ELSE more[k - Len(one)]
          BY <1>4, <2>1
    <2>5. CASE k <= Len(one)
          BY <2>3, <2>4, <2>5
    <2>6. CASE k > Len(one)
        <3>1. ~(k <= Len(one))
              BY <1>1, <2>1, <2>6
        <3> QED BY <1>2, <2>2, <2>3, <2>4, <2>6, <3>1
    <2>7. k <= Len(one) \/ k > Len(one)
          BY <1>1, <2>1
    <2> QED BY <2>5, <2>6, <2>7
<1>8. a # <<>>
      BY <1>1, <1>3
<1> HIDE DEF a, b
<1>9. Append(a, e) = b
      BY <1>3, <1>4, <1>5, <1>6, <1>7, AppendUnique
<1> QED BY <1>3, <1>8, <1>9 DEF a, b, one, more

LEMMA ReachUnder ==
    ASSUME NEW all, IsTree(all), NEW from \in NodeOf(all), NEW c \in Name, NEW segs \in Seq(Name)
    PROVE  Reached(all, from, <<c>> \o segs) = Reached(all, Look(all, from, c), segs)
<1> DEFINE to == Look(all, from, c)
           P(q) == Reached(all, from, <<c>> \o q) = Reached(all, to, q)
           T == {q \in Seq(Name) : P(q)}
<1>1. to \in NodeOf(all)
      BY LookIs
<1> HIDE DEF to
<1>2. P(<<>>)
    <2> DEFINE none == <<>>
    <2>1. none \in Seq(Name) /\ Append(none, c) = <<c>> /\ <<c>> \o none = <<c>>
          OBVIOUS
    <2>2. Reached(all, from, Append(none, c)) = Look(all, Reached(all, from, none), c)
          BY <2>1, ReachAppend
    <2>3. Reached(all, from, none) = from /\ Reached(all, to, none) = to
          BY <1>1, ReachEmpty
    <2> QED BY <2>1, <2>2, <2>3 DEF to
<1>3. ASSUME NEW q \in Seq(Name), NEW e \in Name, P(q) PROVE P(Append(q, e))
    <2>1. <<c>> \o q \in Seq(Name) /\ <<c>> \o Append(q, e) = Append(<<c>> \o q, e)
          BY ConcatIs
    <2>2. Reached(all, from, Append(<<c>> \o q, e)) = Look(all, Reached(all, from, <<c>> \o q), e)
          BY <2>1, ReachAppend
    <2>3. Reached(all, to, Append(q, e)) = Look(all, Reached(all, to, q), e)
          BY <1>1, ReachAppend
    <2> QED BY <1>3, <2>1, <2>2, <2>3
<1> HIDE DEF P
<1>4. <<>> \in T
      BY <1>2
<1>5. \A q \in Seq(Name), e \in Name : q \in T => Append(q, e) \in T
      BY <1>3
<1> HIDE DEF T
<1>6. segs \in T
      BY <1>4, <1>5, SeqInduction
<1>7. P(segs)
      BY <1>6 DEF T
<1> QED BY <1>7 DEF P, to

\* A name in front is spelled in front.
LEMMA SlashedUnder ==
    ASSUME NEW c \in Name, NEW segs \in Seq(Name)
    PROVE  Slashed(<<c>> \o segs) = <<"/", c>> \o Slashed(segs)
<1> DEFINE two == <<"/", c>>
           P(q) == Slashed(<<c>> \o q) = two \o Slashed(q)
           T == {q \in Seq(Name) : P(q)}
<1>1. "/" \in Name
      BY DEF Name
<1>2. P(<<>>)
    <2> DEFINE none == <<>>
    <2>1. none \in Seq(Name) /\ Append(none, c) = <<c>> /\ <<c>> \o none = <<c>>
          OBVIOUS
    <2>2. Slashed(Append(none, c)) = AddSlashed(none, c) /\ Slashed(none) = none
          BY <2>1, SlashedAppend, SlashedEmpty
    <2>3. Append(none, "/") = <<"/">>
          OBVIOUS
    <2>4. AddSlashed(none, c) = two
          BY <2>3, PairIs DEF AddSlashed
    <2>5. two \o none = two
          OBVIOUS
    <2> QED BY <2>1, <2>2, <2>4, <2>5
<1>3. ASSUME NEW q \in Seq(Name), NEW e \in Name, P(q) PROVE P(Append(q, e))
    <2>1. <<c>> \o q \in Seq(Name) /\ <<c>> \o Append(q, e) = Append(<<c>> \o q, e)
          BY ConcatIs
    <2>2. Slashed(Append(<<c>> \o q, e)) = AddSlashed(Slashed(<<c>> \o q), e)
          BY <2>1, SlashedAppend
    <2> DEFINE d == Slashed(q)
    <2>3. d \in Seq(Name) /\ Slashed(Append(q, e)) = AddSlashed(d, e)
          BY SlashedAppend
    <2> HIDE DEF d
    <2>4. two \in Seq(Name)
          BY <1>1
    <2> HIDE DEF two
    <2>5. two \o AddSlashed(d, e) = AddSlashed(two \o d, e)
        <3>1. two \o Append(d, "/") = Append(two \o d, "/")
              BY <1>1, <2>3, <2>4
        <3>2. Append(d, "/") \in Seq(Name)
              BY <1>1, <2>3
        <3> DEFINE f == Append(d, "/")
        <3> HIDE DEF f
        <3>3. two \o Append(f, e) = Append(two \o f, e)
              BY <2>4, <3>2 DEF f
        <3> QED BY <3>1, <3>3 DEF AddSlashed, f
    <2> QED BY <1>3, <2>1, <2>2, <2>3, <2>5 DEF d
<1> HIDE DEF P
<1>4. <<>> \in T
      BY <1>2
<1>5. \A q \in Seq(Name), e \in Name : q \in T => Append(q, e) \in T
      BY <1>3
<1> HIDE DEF T
<1>6. segs \in T
      BY <1>4, <1>5, SeqInduction
<1>7. P(segs)
      BY <1>6 DEF T
<1> QED BY <1>7 DEF P


-----------------------------------------------------------------------------
(* Trees that grow.                                                         *)

\* Two nodes that differ in their lists only.
Alike(u, v) == u.name = v.name /\ u.dir = v.dir /\ u.inode = v.inode /\ u.read = v.read

\* b is all with new as an entry of parent; b is all with an entry e more.
NodeAdded(all, b, parent, new) ==
    /\ Len(b) = Len(all) + 1 /\ b[Len(all) + 1] = new
    /\ \A n \in 1 .. Len(all) :
          Alike(b[n], all[n]) /\ b[n].list = IF n = parent THEN Append(all[n].list, Len(all) + 1) ELSE all[n].list
EntryAdded(all, b, parent, e) ==
    /\ Len(b) = Len(all)
    /\ \A n \in 1 .. Len(all) :
          Alike(b[n], all[n]) /\ b[n].list = IF n = parent THEN Append(all[n].list, e) ELSE all[n].list

LEMMA PlusEntryIs ==
    ASSUME NEW all, IsTree(all), NEW parent \in 1 .. Len(all), NEW n \in 1 .. Len(all)
    PROVE  /\ IsTree([all EXCEPT ![parent].list = Append(@, n)])
           /\ EntryAdded(all, [all EXCEPT ![parent].list = Append(@, n)], parent, n)
<1> DEFINE longer == Append(all[parent].list, n)
           b == [all EXCEPT ![parent].list = longer]
<1>1. all \in [1 .. Len(all) -> Node] /\ Len(all) \in Nat
      BY TreeIs
<1>2. IsTree(b) /\ Len(b) = Len(all)
      BY PlusEntry
<1> HIDE DEF longer
<1>3. b[parent].list = longer /\ Alike(b[parent], all[parent]) /\ \A m \in 1 .. Len(all) : m # parent => b[m] = all[m]
      BY <1>1 DEF Node, Alike
<1> HIDE DEF b
<1>4. EntryAdded(all, b, parent, n)
      BY <1>2, <1>3 DEF EntryAdded, Alike, longer
<1> QED BY <1>2, <1>4 DEF b, longer

LEMMA AddNodeIs ==
    ASSUME NEW all, IsTree(all), NEW parent \in 1 .. Len(all), NEW new \in Node, new.list = <<>>
    PROVE  IsTree(AddNode(all, parent, new)) /\ NodeAdded(all, AddNode(all, parent, new), parent, new)
<1> DEFINE len == Len(all)
           longer == Append(all[parent].list, len + 1)
           b == [all EXCEPT ![parent].list = longer]
           c == Append(b, new)
<1>1. all \in [1 .. len -> Node] /\ len \in Nat /\ longer \in Seq(Nat)
    <2>1. all \in [1 .. len -> Node] /\ len \in Nat /\ all[parent].list \in Seq(Nat)
          BY TreeIs
    <2> QED BY <2>1
<1>2. AddNode(all, parent, new) = c
      BY DEF AddNode
<1>3. IsTree(c) /\ Len(c) = len + 1
      BY <1>2, AddNodeTree
<1> HIDE DEF longer
<1>4. b \in [1 .. len -> Node]
      BY <1>1 DEF Node
<1>5. b[parent].list = longer /\ Alike(b[parent], all[parent]) /\ \A m \in 1 .. len : m # parent => b[m] = all[m]
      BY <1>1 DEF Node, Alike
<1>6. b \in Seq(Node) /\ Len(b) = len
      BY <1>1, <1>4
<1> HIDE DEF b
<1>7. c[len + 1] = new /\ \A n \in 1 .. len : c[n] = b[n]
      BY <1>6
<1> HIDE DEF c
<1>8. NodeAdded(all, c, parent, new)
      BY <1>3, <1>5, <1>7 DEF NodeAdded, Alike, longer
<1> QED BY <1>2, <1>3, <1>8

\* In every directory a file stands before what was made after it.
Ordered(all) ==
    \A n \in 1 .. Len(all) : \A k \in 1 .. Len(all[n].list) : \A j \in 1 .. k - 1 :
        all[all[n].list[j]].read # "none" => all[n].list[j] <= all[n].list[k]

\* The ramdisk's nodes are in its own directories, and no others are, but that the
\* root lists /ram.
Apart(all) ==
    \A n \in DEV .. Len(all) : \A k \in 1 .. Len(all[n].list) : all[n].list[k] >= RAM <=> n >= RAM

\* What a list has that an element was appended to.
LEMMA LongerIs ==
    ASSUME NEW all, IsTree(all), NEW n \in 1 .. Len(all), NEW e \in Nat
    PROVE  LET list == all[n].list
               longer == Append(list, e)
           IN  /\ Len(longer) = Len(list) + 1 /\ Len(list) \in Nat
               /\ longer[Len(list) + 1] = e
               /\ \A k \in 1 .. Len(list) : longer[k] = list[k] /\ list[k] \in 1 .. Len(all)
<1> DEFINE list == all[n].list
<1>1. list \in Seq(Nat) /\ \A k \in 1 .. Len(list) : list[k] \in 1 .. Len(all)
      BY TreeIs DEF IsTree, Closed
<1> HIDE DEF list
<1>2. /\ Len(Append(list, e)) = Len(list) + 1 /\ Len(list) \in Nat
      /\ Append(list, e)[Len(list) + 1] = e
      /\ \A k \in 1 .. Len(list) : Append(list, e)[k] = list[k]
      BY <1>1
<1> QED BY <1>1, <1>2 DEF list

LEMMA AddedOrdered ==
    ASSUME NEW all, IsTree(all), Ordered(all), NEW b, IsTree(b), NEW parent, NEW new, new.list = <<>>,
           NodeAdded(all, b, parent, new)
    PROVE  Ordered(b)
<1> SUFFICES ASSUME NEW n \in 1 .. Len(b), NEW k \in 1 .. Len(b[n].list), NEW j \in 1 .. k - 1,
                    b[b[n].list[j]].read # "none"
             PROVE  b[n].list[j] <= b[n].list[k]
    BY DEF Ordered
<1>1. Len(all) \in Nat /\ Len(b) = Len(all) + 1 /\ b[Len(all) + 1] = new /\ Len(new.list) = 0
    <2>1. Len(new.list) = 0
          OBVIOUS
    <2> QED BY <2>1, TreeIs DEF NodeAdded
<1>2. n \in 1 .. Len(all)
      BY <1>1
<1> DEFINE list == all[n].list
           l == b[n].list
           e == Len(all) + 1
<1>3. Len(list) \in Nat /\ \A m \in 1 .. Len(list) : list[m] \in 1 .. Len(all)
      BY <1>1, <1>2, LongerIs
<1>4. \A m \in 1 .. Len(all) : b[m].read = all[m].read
      BY DEF NodeAdded, Alike
<1>5. \A m \in 1 .. Len(list) : \A h \in 1 .. m - 1 : all[list[h]].read # "none" => list[h] <= list[m]
      BY <1>2 DEF Ordered
<1>6. CASE n # parent
    <2>1. l = list
          BY <1>2, <1>6 DEF NodeAdded
    <2>2. k \in 1 .. Len(list) /\ j \in 1 .. Len(list)
          BY <1>3, <2>1
    <2>3. all[list[j]].read # "none"
          BY <1>3, <1>4, <2>1, <2>2
    <2>4. list[j] <= list[k]
          BY <1>5, <2>2, <2>3
    <2> QED BY <2>1, <2>4
<1>7. CASE n = parent
    <2> HIDE DEF l, list, e
    <2>1. l = Append(list, e) /\ e \in Nat
        <3>1. b[n].list = Append(all[n].list, Len(all) + 1)
              BY <1>2, <1>7, Zenon DEF NodeAdded
        <3> QED BY <1>1, <3>1 DEF l, list, e
    <2> USE DEF l, list
    <2>2. Len(l) = Len(list) + 1 /\ l[Len(list) + 1] = e /\ \A m \in 1 .. Len(list) : l[m] = list[m]
          BY <1>2, <2>1, LongerIs
    <2>3. k \in 1 .. Len(list) \/ k = Len(list) + 1
          BY <1>3, <2>2
    <2>4. j \in 1 .. Len(list)
          BY <1>3, <2>3
    <2>5. l[j] = list[j] /\ list[j] \in 1 .. Len(all) /\ all[list[j]].read # "none"
          BY <1>3, <1>4, <2>2, <2>4
    <2> HIDE DEF l, list
    <2>6. CASE k \in 1 .. Len(list)
        <3>1. l[k] = list[k]
              BY <2>2, <2>6
        <3>2. list[j] <= list[k]
              BY <1>5, <2>5, <2>6
        <3> QED BY <2>5, <3>1, <3>2 DEF l
    <2>7. CASE k = Len(list) + 1
          BY <1>1, <2>2, <2>5, <2>7 DEF l, e
    <2> QED BY <2>3, <2>6, <2>7
<1> QED BY <1>6, <1>7

LEMMA EntryOrdered ==
    ASSUME NEW all, IsTree(all), Ordered(all), NEW b, IsTree(b), NEW parent \in 1 .. Len(all), NEW e \in Nat,
           EntryAdded(all, b, parent, e),
           \A k \in 1 .. Len(all[parent].list) : all[all[parent].list[k]].read # "none" => all[parent].list[k] <= e
    PROVE  Ordered(b)
<1> SUFFICES ASSUME NEW n \in 1 .. Len(b), NEW k \in 1 .. Len(b[n].list), NEW j \in 1 .. k - 1,
                    b[b[n].list[j]].read # "none"
             PROVE  b[n].list[j] <= b[n].list[k]
    BY DEF Ordered
<1>1. Len(all) \in Nat /\ Len(b) = Len(all)
      BY TreeIs DEF EntryAdded
<1>2. n \in 1 .. Len(all)
      BY <1>1
<1> DEFINE list == all[n].list
           l == b[n].list
<1>3. Len(list) \in Nat /\ \A m \in 1 .. Len(list) : list[m] \in 1 .. Len(all)
      BY <1>1, <1>2, LongerIs
<1>4. \A m \in 1 .. Len(all) : b[m].read = all[m].read
      BY DEF EntryAdded, Alike
<1>5. \A m \in 1 .. Len(list) : \A h \in 1 .. m - 1 : all[list[h]].read # "none" => list[h] <= list[m]
      BY <1>2 DEF Ordered
<1>6. CASE n # parent
    <2>1. l = list
          BY <1>2, <1>6 DEF EntryAdded
    <2>2. k \in 1 .. Len(list) /\ j \in 1 .. Len(list)
          BY <1>3, <2>1
    <2>3. all[list[j]].read # "none"
          BY <1>3, <1>4, <2>1, <2>2
    <2>4. list[j] <= list[k]
          BY <1>5, <2>2, <2>3
    <2> QED BY <2>1, <2>4
<1>7. CASE n = parent
    <2>1. l = Append(list, e)
          BY <1>2, <1>7 DEF EntryAdded
    <2>2. Len(l) = Len(list) + 1 /\ l[Len(list) + 1] = e /\ \A m \in 1 .. Len(list) : l[m] = list[m]
          BY <1>2, <2>1, LongerIs
    <2>3. k \in 1 .. Len(list) \/ k = Len(list) + 1
          BY <1>3, <2>2, SMTT(30)
    <2>4. j \in 1 .. Len(list)
          BY <1>3, <2>3
    <2>5. l[j] = list[j] /\ list[j] \in 1 .. Len(all) /\ all[list[j]].read # "none"
          BY <1>3, <1>4, <2>2, <2>4
    <2>6. list[j] <= e
          BY <1>7, <2>4, <2>5
    <2> HIDE DEF l, list
    <2>7. CASE k \in 1 .. Len(list)
        <3>1. l[k] = list[k]
              BY <2>2, <2>7
        <3>2. list[j] <= list[k]
              BY <1>5, <2>5, <2>7
        <3> QED BY <2>5, <3>1, <3>2 DEF l
    <2>8. CASE k = Len(list) + 1
          BY <1>1, <2>2, <2>5, <2>6, <2>8 DEF l
    <2> QED BY <2>3, <2>7, <2>8
<1> QED BY <1>6, <1>7

LEMMA AddedApart ==
    ASSUME NEW all, IsTree(all), Apart(all), NEW b, IsTree(b), NEW parent, NEW new, new.list = <<>>,
           NodeAdded(all, b, parent, new), Len(all) + 1 >= RAM <=> parent >= RAM
    PROVE  Apart(b)
<1> SUFFICES ASSUME NEW n \in DEV .. Len(b), NEW k \in 1 .. Len(b[n].list)
             PROVE  b[n].list[k] >= RAM <=> n >= RAM
    BY DEF Apart
<1>1. Len(all) \in Nat /\ Len(b) = Len(all) + 1 /\ b[Len(all) + 1] = new /\ Len(new.list) = 0
    <2>1. Len(new.list) = 0
          OBVIOUS
    <2> QED BY <2>1, TreeIs DEF NodeAdded
<1>2. n \in 1 .. Len(all) /\ n \in DEV .. Len(all)
    <2>1. n # Len(all) + 1
          BY <1>1
    <2> QED BY <1>1, <2>1 DEF DEV
<1> DEFINE list == all[n].list
           e == Len(all) + 1
<1>3. \A m \in 1 .. Len(list) : list[m] >= RAM <=> n >= RAM
      BY <1>2 DEF Apart
<1>4. CASE n # parent
      BY <1>2, <1>3, <1>4 DEF NodeAdded
<1>5. CASE n = parent
    <2>1. b[n].list = Append(list, e) /\ e \in Nat
        <3>1. b[n].list = Append(all[n].list, Len(all) + 1)
              BY <1>2, <1>5, Zenon DEF NodeAdded
        <3> QED BY <1>1, <3>1
    <2>2. /\ Len(Append(list, e)) = Len(list) + 1 /\ Append(list, e)[Len(list) + 1] = e /\ Len(list) \in Nat
          /\ \A m \in 1 .. Len(list) : Append(list, e)[m] = list[m]
          BY <1>2, <2>1, LongerIs
    <2>3. k \in 1 .. Len(list) \/ k = Len(list) + 1
          BY <2>1, <2>2, SMTT(30)
    <2> QED BY <1>3, <1>5, <2>1, <2>2, <2>3
<1> QED BY <1>4, <1>5

LEMMA EntryApart ==
    ASSUME NEW all, IsTree(all), Apart(all), NEW b, IsTree(b), NEW parent, NEW e \in Nat,
           EntryAdded(all, b, parent, e), e >= RAM <=> parent >= RAM
    PROVE  Apart(b)
<1> SUFFICES ASSUME NEW n \in DEV .. Len(b), NEW k \in 1 .. Len(b[n].list)
             PROVE  b[n].list[k] >= RAM <=> n >= RAM
    BY DEF Apart
<1>1. n \in 1 .. Len(all) /\ n \in DEV .. Len(all)
      BY TreeIs DEF EntryAdded, DEV
<1> DEFINE list == all[n].list
<1>2. \A m \in 1 .. Len(list) : list[m] >= RAM <=> n >= RAM
      BY <1>1 DEF Apart
<1>3. CASE n # parent
      BY <1>1, <1>2, <1>3 DEF EntryAdded
<1>4. CASE n = parent
    <2>1. b[n].list = Append(list, e)
          BY <1>1, <1>4 DEF EntryAdded
    <2>2. /\ Len(Append(list, e)) = Len(list) + 1 /\ Append(list, e)[Len(list) + 1] = e /\ Len(list) \in Nat
          /\ \A m \in 1 .. Len(list) : Append(list, e)[m] = list[m]
          BY <1>1, LongerIs
    <2>3. k \in 1 .. Len(list) \/ k = Len(list) + 1
          BY <2>1, <2>2
    <2> QED BY <1>2, <1>4, <2>1, <2>2, <2>3
<1> QED BY <1>3, <1>4


\* What Register leaves: the nodes there were, files in /dev, and order.
DevList(all) == \A k \in 1 .. Len(all[DEV].list) : all[DEV].list[k] \in 3 .. Len(all)
Registered(base, a, by) ==
    /\ IsTree(a) /\ Ordered(a) /\ DevList(a) /\ Len(a) >= Len(base)
    /\ \A n \in 1 .. Len(base) : Alike(a[n], base[n]) /\ (n # DEV => a[n].list = base[n].list)
    /\ \A n \in Len(base) + 1 .. Len(a) :
          ~a[n].dir /\ a[n].read = by /\ a[n].name \in Proper /\ a[n].list = <<>>

LEMMA RegisterOne ==
    ASSUME NEW base, IsTree(base), DEV \in 1 .. Len(base), NEW by \in {"none", "device"},
           NEW a, Registered(base, a, by), NEW name \in Proper
    PROVE  LET b == AddNode(a, DEV, File(name, 0, by))
           IN  Registered(base, b, by) /\ Len(b) = Len(a) + 1
<1> DEFINE new == File(name, 0, by)
           b == AddNode(a, DEV, new)
<1>1. name \in Name /\ 0 \in Nat /\ by \in {"none", "ram", "device"}
      BY ProperIs
<1>2. new \in Node /\ new.list = <<>> /\ new.name = name /\ ~new.dir /\ new.read = by
    <2>1. new \in Node /\ new.list = <<>>
          BY <1>1, NewNode
    <2> QED BY <2>1 DEF File
<1>3. IsTree(a) /\ Len(a) >= Len(base) /\ Len(a) \in Nat /\ Len(base) \in Nat /\ DEV \in 1 .. Len(a) /\ Ordered(a)
      BY TreeIs DEF Registered
<1> HIDE DEF new
<1>4. IsTree(b) /\ NodeAdded(a, b, DEV, new)
      BY <1>2, <1>3, AddNodeIs
<1> HIDE DEF b
<1>5. Ordered(b)
      BY <1>2, <1>3, <1>4, AddedOrdered
<1>6. Len(b) = Len(a) + 1 /\ b[Len(a) + 1] = new
      BY <1>4 DEF NodeAdded
<1>7. DevList(b)
    <2> DEFINE list == a[DEV].list
               e == Len(a) + 1
    <2>1. b[DEV].list = Append(list, e) /\ e \in Nat
        <3>1. b[DEV].list = Append(a[DEV].list, Len(a) + 1)
              BY <1>3, <1>4, Zenon DEF NodeAdded
        <3> QED BY <1>3, <3>1
    <2>2. /\ Len(Append(list, e)) = Len(list) + 1 /\ Append(list, e)[Len(list) + 1] = e /\ Len(list) \in Nat
          /\ \A m \in 1 .. Len(list) : Append(list, e)[m] = list[m]
          BY <1>3, <2>1, LongerIs
    <2>3. \A m \in 1 .. Len(list) : list[m] \in 3 .. Len(a)
          BY DEF Registered, DevList
    <2>4. e \in 3 .. Len(b)
          BY <1>3, <1>6 DEF DEV
    <2> HIDE DEF e, list
    <2>5. \A m \in 1 .. Len(list) : list[m] \in 3 .. Len(b)
          BY <1>3, <1>6, <2>3
    <2> QED BY <2>1, <2>2, <2>4, <2>5 DEF DevList
<1>8. \A n \in 1 .. Len(base) : Alike(b[n], base[n]) /\ (n # DEV => b[n].list = base[n].list)
    <2> TAKE n \in 1 .. Len(base)
    <2>1. n \in 1 .. Len(a)
          BY <1>3
    <2>2. Alike(a[n], base[n]) /\ (n # DEV => a[n].list = base[n].list)
          BY DEF Registered
    <2>3. Alike(b[n], a[n]) /\ (n # DEV => b[n].list = a[n].list)
          BY <1>4, <2>1 DEF NodeAdded
    <2> QED BY <2>2, <2>3 DEF Alike
<1>9. \A n \in Len(base) + 1 .. Len(b) :
          ~b[n].dir /\ b[n].read = by /\ b[n].name \in Proper /\ b[n].list = <<>>
    <2> TAKE n \in Len(base) + 1 .. Len(b)
    <2>1. CASE n = Len(a) + 1
          BY <1>2, <1>6, <2>1
    <2>2. CASE n # Len(a) + 1
        <3>1. n \in Len(base) + 1 .. Len(a) /\ n \in 1 .. Len(a) /\ n # DEV
              BY <1>3, <1>6, <2>2
        <3>2. ~a[n].dir /\ a[n].read = by /\ a[n].name \in Proper /\ a[n].list = <<>>
              BY <3>1 DEF Registered
        <3>3. Alike(b[n], a[n]) /\ b[n].list = a[n].list
              BY <1>4, <3>1 DEF NodeAdded
        <3> QED BY <3>2, <3>3 DEF Alike
    <2> QED BY <2>1, <2>2
<1>10. Len(b) >= Len(base)
      BY <1>3, <1>6
<1> QED BY <1>4, <1>5, <1>6, <1>7, <1>8, <1>9, <1>10 DEF Registered, b, new

\* Register adds a file for every name.
LEMMA RegisterIs ==
    ASSUME NEW all, IsTree(all), DEV \in 1 .. Len(all), Ordered(all), DevList(all), NEW names \in Seq(Proper),
           NEW read_by \in {"none", "device"}
    PROVE  /\ Registered(all, Register(all, names, read_by), read_by)
           /\ Len(Register(all, names, read_by)) = Len(all) + Len(names)
<1> DEFINE A == {a \in Seq(Node) : Registered(all, a, read_by)}
           q == names
           n == Len(q)
           Add(a, name) == AddNode(a, DEV, File(name, 0, read_by))
           f == [x \in A \X Proper |-> Add(x[1], x[2])]
           base == all
           P == [k \in 0 .. n |-> {a \in A : Len(a) = Len(all) + k}]
           Is(w) == w = [s \in SUBSET DOMAIN q |-> IF s = {} THEN base ELSE Add(w[s \ {Max(s)}], q[Max(s)])]
           it == CHOOSE w : Is(w)
<1>1. Register(all, names, read_by) = it[DOMAIN q]
      BY DEF Register, FoldLeft, MapThenFoldSet
<1>2. q \in Seq(Proper)
      OBVIOUS
<1> HIDE DEF q
<1>3. n \in Nat /\ DOMAIN q = 1 .. n /\ \A k \in 1 .. n : q[k] \in Proper
      BY <1>2
<1> HIDE DEF n
<1>4. ASSUME NEW a \in A, NEW name \in Proper PROVE Add(a, name) \in A /\ Len(Add(a, name)) = Len(a) + 1
    <2>1. Registered(all, a, read_by)
          OBVIOUS
    <2>2. Registered(all, Add(a, name), read_by) /\ Len(Add(a, name)) = Len(a) + 1
          BY <2>1, RegisterOne
    <2> HIDE DEF Add
    <2>3. Add(a, name) \in Seq(Node)
          BY <2>2 DEF Registered, IsTree
    <2> QED BY <2>2, <2>3
<1>5. f \in [A \X Proper -> A] /\ \A a \in A, name \in Proper : f[<<a, name>>] = Add(a, name)
      BY <1>4
<1>6. base \in A
    <2>1. Len(all) \in Nat
          BY TreeIs
    <2>2. Registered(all, all, read_by)
          BY <2>1 DEF Registered, Alike
    <2> QED BY <2>2 DEF IsTree
<1>7a. Len(all) \in Nat
      BY TreeIs
<1> HIDE DEF Add, f, base, A
<1>7. PICK w \in [SUBSET (1 .. n) -> A] : Folds(w, n, f, base, q)
      BY <1>3, <1>5, <1>6, FoldExists
<1>8. Is(w)
    <2>1. ASSUME NEW s \in SUBSET (1 .. n)
          PROVE  w[s] = IF s = {} THEN base ELSE Add(w[s \ {Max(s)}], q[Max(s)])
        <3>1. s # {} => Max(s) \in s
              BY <1>3, HighestIn, MaxIsHighest
        <3>2. s # {} => w[s \ {Max(s)}] \in A /\ q[Max(s)] \in Proper
              BY <1>3, <1>7, <3>1
        <3> QED BY <1>5, <1>7, <3>2, MaxIsHighest DEF Folds
    <2> QED BY <1>3, <1>7, <2>1
<1>9. Is(it)
      BY <1>8
<1> HIDE DEF it
<1>10. FoldsFromTo(it, n, f, base, q, P)
    <2>1. it[{}] = base
          BY <1>9
    <2>2. ASSUME NEW k \in 0 .. n - 1, it[1 .. k] \in P[k] PROVE it[1 .. k + 1] = f[<<it[1 .. k], q[k + 1]>>]
        <3>1. k \in Nat /\ k + 1 \in 1 .. n /\ k \in 0 .. n /\ 1 .. k + 1 \in SUBSET (1 .. n)
              BY <1>3
        <3>2. Max(1 .. k + 1) = k + 1 /\ (1 .. k + 1) \ {k + 1} = 1 .. k /\ 1 .. k + 1 # {}
              BY <3>1, HighestOfPrefix, MaxIsHighest
        <3>3. it[1 .. k + 1] = Add(it[1 .. k], q[k + 1])
              BY <1>3, <1>9, <3>1, <3>2
        <3>4. it[1 .. k] \in A /\ q[k + 1] \in Proper
              BY <1>3, <2>2, <3>1
        <3> QED BY <1>5, <3>3, <3>4
    <2> QED BY <2>1, <2>2 DEF FoldsFromTo
<1>11. base \in P[0] /\ \A k \in 0 .. n - 1 : \A x \in P[k] : f[<<x, q[k + 1]>>] \in P[k + 1]
    <2>1. ASSUME NEW k \in 0 .. n - 1 PROVE k + 1 \in 1 .. n /\ k \in 0 .. n /\ k + 1 \in 0 .. n
          BY <1>3
    <2>2. \A k \in 0 .. n : P[k] = {a \in A : Len(a) = Len(all) + k}
          OBVIOUS
    <2>3. 0 \in 0 .. n /\ Len(base) = Len(all) + 0
          BY <1>3, <1>7a DEF base
    <2> HIDE DEF P
    <2>4. ASSUME NEW k \in 0 .. n - 1, NEW x \in P[k] PROVE f[<<x, q[k + 1]>>] \in P[k + 1]
        <3>1. x \in A /\ Len(x) = Len(all) + k /\ q[k + 1] \in Proper
              BY <1>3, <2>1, <2>2, <2>4
        <3>2. f[<<x, q[k + 1]>>] \in A /\ Len(f[<<x, q[k + 1]>>]) = Len(x) + 1
              BY <1>4, <1>5, <3>1
        <3>3. Len(x) + 1 = Len(all) + (k + 1)
              BY <1>7a, <3>1
        <3> QED BY <2>1, <2>2, <3>2, <3>3
    <2> QED BY <1>6, <2>2, <2>3, <2>4
<1> HIDE DEF P
<1>12. it[1 .. n] \in P[n]
      BY <1>3, <1>10, <1>11, PrefixFold
<1>13. it[1 .. n] \in A /\ Len(it[1 .. n]) = Len(all) + n
      BY <1>3, <1>12 DEF P
<1> QED BY <1>1, <1>3, <1>13 DEF A, q, n


-----------------------------------------------------------------------------
(* What the constants are.                                                  *)

\* Names of headers as they stand in the archive.
Spellings == {name \in Seq(Name) : name # <<>> /\ \A k \in 1 .. Len(name) : name[k] # NoName}

LEMMA Sized ==
    /\ Len(DevFiles) \in Nat /\ Len(Ports) \in Nat
    /\ RAM = 3 + Len(DevFiles) + Len(Ports) /\ RAM \in Nat
    /\ DevFiles \in Seq(Proper) /\ Ports \in Seq(Proper)
<1>1. DevFiles \in Seq(STRING) /\ Ports \in Seq(STRING)
      BY FilesAssumption
<1>2. Len(DevFiles \o Ports) = Len(DevFiles) + Len(Ports) /\ Len(DevFiles) \in Nat /\ Len(Ports) \in Nat
      BY <1>1
<1>3. RAM = 3 + Len(DevFiles) + Len(Ports) /\ RAM \in Nat
      BY <1>2 DEF RAM
<1> DEFINE both == DevFiles \o Ports
<1>4. both \in Seq(STRING) /\ \A k \in 1 .. Len(both) : both[k] \in Proper
    <2>1. both \in Seq(STRING)
          BY <1>1
    <2>2. \A name \in Range(both) : name # NoName /\ name # "/"
          BY FilesAssumption
    <2> HIDE DEF both
    <2>3. \A k \in 1 .. Len(both) : both[k] \in STRING /\ both[k] \in Range(both)
          BY <2>1 DEF Range
    <2> QED BY <2>1, <2>2, <2>3 DEF Proper, Name
<1>5. ASSUME NEW k \in 1 .. Len(DevFiles) PROVE DevFiles[k] \in Proper
    <2>1. k \in 1 .. Len(both) /\ both[k] = DevFiles[k]
          BY <1>1, <1>2
    <2> QED BY <1>4, <2>1
<1>6. ASSUME NEW k \in 1 .. Len(Ports) PROVE Ports[k] \in Proper
    <2> DEFINE j == Len(DevFiles) + k
    <2>1. j \in 1 .. Len(both) /\ both[j] = Ports[k]
          BY <1>1, <1>2
    <2> QED BY <1>4, <2>1
<1> QED BY <1>1, <1>2, <1>3, <1>5, <1>6

LEMMA Constants ==
    \A m \in DOMAIN Disks :
        /\ Len(Disks[m].entries) \in Nat
        /\ \A k \in 1 .. Len(Disks[m].entries) :
              /\ Disks[m].entries[k].name \in Spellings
              /\ Disks[m].entries[k].type \in {"file", "dir", "other"}
              /\ Disks[m].entries[k].size \in Seq(0 .. 7)
<1> SUFFICES ASSUME NEW m \in DOMAIN Disks
             PROVE  /\ Len(Disks[m].entries) \in Nat
                    /\ \A k \in 1 .. Len(Disks[m].entries) :
                          /\ Disks[m].entries[k].name \in Spellings
                          /\ Disks[m].entries[k].type \in {"file", "dir", "other"}
                          /\ Disks[m].entries[k].size \in Seq(0 .. 7)
    OBVIOUS
<1> DEFINE d == Disks[m].entries
<1>1. d \in Seq(Range(d)) /\ \A h \in Range(d) : /\ h.name \in Seq(STRING) \ {<<>>} /\ NoName \notin Range(h.name)
                                                 /\ h.type \in {"file", "dir", "other"} /\ h.size \in Seq(0 .. 7)
      BY FilesAssumption
<1> HIDE DEF d
<1>2. Len(d) \in Nat /\ \A k \in 1 .. Len(d) : d[k] \in Range(d)
      BY <1>1
<1>3. \A s \in Seq(STRING) : s \in Seq(Name)
      BY SMT DEF Name
<1>4. ASSUME NEW s \in Seq(STRING), s # <<>>, NoName \notin Range(s) PROVE s \in Spellings
    <2>1. \A k \in 1 .. Len(s) : s[k] \in Range(s)
          BY DEF Range
    <2>2. \A k \in 1 .. Len(s) : s[k] # NoName
          BY <1>4, <2>1
    <2> QED BY <1>3, <1>4, <2>2 DEF Spellings
<1> QED BY <1>1, <1>2, <1>4 DEF d

-----------------------------------------------------------------------------
(* The walks of _ramfs_create_path.                                         *)

\* A tree grown from base inside /ram, and a node of /ram in it.
IsWalk(base, w) ==
    /\ IsTree(w.all) /\ Ordered(w.all) /\ Apart(w.all)
    /\ w.at \in RAM .. Len(w.all) /\ Len(w.all) >= Len(base)
    /\ \A n \in 1 .. Len(base) : Alike(w.all[n], base[n]) /\ (n < RAM => w.all[n].list = base[n].list)
    /\ \A n \in Len(base) + 1 .. Len(w.all) : w.all[n].read = "none" /\ w.all[n].name # "/"
Walks(base) == {w \in [all : Seq(Node), at : Nat, missing : BOOLEAN] : IsWalk(base, w)}

\* A segment of the walk: a node found, or a directory made.
LEMMA WalkStep ==
    ASSUME NEW base, IsTree(base), NEW w \in Walks(base), NEW seg \in Clean
    PROVE  EnterOrAdd(w, seg) \in Walks(base)
<1> DEFINE all == w.all
           list == all[w.at].list
           found == FindName(all, list, seg)
           new == Dir(seg)
           more == AddNode(all, w.at, new)
           len == Len(all)
<1>1. /\ IsTree(all) /\ Ordered(all) /\ Apart(all) /\ len >= Len(base) /\ w.at \in RAM .. len /\ all \in Seq(Node)
      /\ w = [all |-> all, at |-> w.at, missing |-> w.missing] /\ w.missing \in BOOLEAN
      /\ \A n \in 1 .. Len(base) : Alike(all[n], base[n]) /\ (n < RAM => all[n].list = base[n].list)
      /\ \A n \in Len(base) + 1 .. len : all[n].read = "none" /\ all[n].name # "/"
      BY DEF Walks, IsWalk
<1>2. len \in Nat /\ RAM \in Nat /\ RAM >= 1 /\ w.at \in 1 .. len /\ Len(base) \in Nat
      BY <1>1, TreeIs, Sized
<1>3. seg \in Name /\ seg # "/"
      BY CleanIs
<1>4. found # NULL => found \in RAM .. len
    <2>1. list \in Seq(Nat)
          BY <1>1, <1>2, TreeIs
    <2>2. \A k \in 1 .. Len(list) : list[k] \in 1 .. len /\ list[k] >= RAM
          BY <1>1, <1>2, Sized, SMTT(30) DEF IsTree, Closed, Apart, DEV
    <2> HIDE DEF list, all
    <2>3. found # NULL => \E k \in 1 .. Len(list) : found = list[k]
          BY <2>1, FindNameIs
    <2> QED BY <1>2, <2>2, <2>3
<1>5. EnterOrAdd(w, seg) = IF found # NULL THEN [w EXCEPT !.at = found]
                           ELSE [all |-> more, at |-> len + 1, missing |-> TRUE]
      BY DEF EnterOrAdd
<1>6. ASSUME found # NULL PROVE [w EXCEPT !.at = found] \in Walks(base)
    <2> DEFINE v == [all |-> all, at |-> found, missing |-> w.missing]
    <2>1. [w EXCEPT !.at = found] = v
          BY <1>1
    <2> HIDE DEF all, found
    <2>2. found \in RAM .. len /\ found \in Nat
          BY <1>2, <1>4, <1>6
    <2>3. v \in [all : Seq(Node), at : Nat, missing : BOOLEAN] /\ v.all = all /\ v.at = found
          BY <1>1, <2>2
    <2> HIDE DEF v
    <2>4. IsWalk(base, v)
          BY <1>1, <2>2, <2>3 DEF IsWalk
    <2> QED BY <2>1, <2>3, <2>4 DEF Walks
<1>7. new \in Node /\ new.list = <<>> /\ new.read = "none" /\ new.name = seg
    <2>1. new \in Node /\ new.list = <<>>
          BY <1>3, NewNode
    <2> QED BY <2>1 DEF Dir
<1> HIDE DEF new, found, list
<1>8. IsTree(more) /\ NodeAdded(all, more, w.at, new)
    <2> HIDE DEF all
    <2> QED BY <1>1, <1>2, <1>7, AddNodeIs
<1> HIDE DEF more
<1>9. Ordered(more) /\ Apart(more)
    <2>1. len + 1 >= RAM <=> w.at >= RAM
          BY <1>1, <1>2
    <2> HIDE DEF all
    <2> QED BY <1>1, <1>7, <1>8, <2>1, AddedOrdered, AddedApart
<1>10. Len(more) = len + 1 /\ more[len + 1] = new
      BY <1>8 DEF NodeAdded
<1>11. \A n \in 1 .. Len(base) : Alike(more[n], base[n]) /\ (n < RAM => more[n].list = base[n].list)
    <2> TAKE n \in 1 .. Len(base)
    <2>1. n \in 1 .. len /\ (n < RAM => n # w.at)
          BY <1>1, <1>2
    <2>2. Alike(more[n], all[n]) /\ (n # w.at => more[n].list = all[n].list)
          BY <1>8, <2>1 DEF NodeAdded
    <2>3. Alike(all[n], base[n]) /\ (n < RAM => all[n].list = base[n].list)
          BY <1>1
    <2> HIDE DEF all
    <2> QED BY <2>1, <2>2, <2>3 DEF Alike
<1>12. \A n \in Len(base) + 1 .. Len(more) : more[n].read = "none" /\ more[n].name # "/"
    <2> TAKE n \in Len(base) + 1 .. Len(more)
    <2>1. CASE n = len + 1
          BY <1>3, <1>7, <1>10, <2>1
    <2>2. CASE n # len + 1
        <3>1. n \in Len(base) + 1 .. len /\ n \in 1 .. len
              BY <1>1, <1>2, <1>10, <2>2
        <3>2. Alike(more[n], all[n])
              BY <1>8, <3>1 DEF NodeAdded
        <3> QED BY <1>1, <3>1, <3>2 DEF Alike
    <2> QED BY <2>1, <2>2
<1>13. [all |-> more, at |-> len + 1, missing |-> TRUE] \in Walks(base)
    <2> DEFINE v == [all |-> more, at |-> len + 1, missing |-> TRUE]
    <2>1. more \in Seq(Node) /\ len + 1 \in RAM .. Len(more) /\ len + 1 \in Nat /\ Len(more) >= Len(base)
          BY <1>1, <1>2, <1>8, <1>10 DEF IsTree
    <2>2. v \in [all : Seq(Node), at : Nat, missing : BOOLEAN] /\ v.all = more /\ v.at = len + 1
          BY <2>1
    <2> HIDE DEF v, len
    <2>3. IsWalk(base, v)
          BY <1>8, <1>9, <1>11, <1>12, <2>1, <2>2 DEF IsWalk
    <2> QED BY <2>2, <2>3 DEF Walks, v
<1> QED BY <1>5, <1>6, <1>13

Turns(base) == [z \in Walks(base) \X Clean |-> EnterOrAdd(z[1], z[2])]

LEMMA TurnsIs ==
    ASSUME NEW base, IsTree(base)
    PROVE  /\ Turns(base) \in [Walks(base) \X Clean -> Walks(base)]
           /\ \A w \in Walks(base), seg \in Clean : Turns(base)[<<w, seg>>] = EnterOrAdd(w, seg)
<1>1. \A w \in Walks(base), seg \in Clean : EnterOrAdd(w, seg) \in Walks(base)
      BY WalkStep
<1> QED BY <1>1 DEF Turns

Walked(from, q) == FoldLeft(EnterOrAdd, from, q)

\* The walks that its loop passes through.
LEMMA WalkRun ==
    ASSUME NEW old, IsTree(old), NEW from \in Walks(old), NEW q \in Seq(Clean)
    PROVE  \E S \in [0 .. Len(q) -> Walks(old)] :
               Run(S, Len(q), Turns(old), from, q) /\ S[Len(q)] = Walked(from, q)
<1> DEFINE n == Len(q)
           States == Walks(old)
           Inputs == Clean
           base == from
           f == Turns(old)
           Is(w) == w = [s \in SUBSET DOMAIN q |-> IF s = {} THEN base ELSE EnterOrAdd(w[s \ {Max(s)}], q[Max(s)])]
           it == CHOOSE w : Is(w)
<1>1. Walked(from, q) = it[DOMAIN q]
      BY DEF Walked, FoldLeft, MapThenFoldSet
<1>2. n \in Nat /\ DOMAIN q = 1 .. n /\ \A k \in 1 .. n : q[k] \in Inputs
      OBVIOUS
<1> HIDE DEF n
<1>3. f \in [States \X Inputs -> States] /\ \A a \in States, b \in Inputs : f[<<a, b>>] = EnterOrAdd(a, b)
      BY TurnsIs
<1>4. base \in States
      OBVIOUS
<1> HIDE DEF base, f
<1>5. PICK w \in [SUBSET (1 .. n) -> States] : Folds(w, n, f, base, q)
      BY <1>2, <1>3, <1>4, FoldExists
<1>6. Is(w)
    <2>1. ASSUME NEW s \in SUBSET (1 .. n)
          PROVE  w[s] = IF s = {} THEN base ELSE EnterOrAdd(w[s \ {Max(s)}], q[Max(s)])
        <3>1. s # {} => Max(s) \in s
              BY <1>2, HighestIn, MaxIsHighest
        <3>2. s # {} => w[s \ {Max(s)}] \in States /\ q[Max(s)] \in Inputs
              BY <1>2, <1>5, <3>1
        <3> QED BY <1>3, <1>5, <3>2, MaxIsHighest DEF Folds
    <2> QED BY <1>2, <1>5, <2>1
<1>7. Is(it)
      BY <1>6
<1> HIDE DEF it
<1>8. it[{}] = base
      BY <1>7
<1>9. ASSUME NEW k \in 0 .. n - 1, it[1 .. k] \in States
      PROVE  it[1 .. k + 1] = f[<<it[1 .. k], q[k + 1]>>]
    <2>1. k \in Nat /\ k + 1 \in 1 .. n /\ 1 .. k + 1 \in SUBSET (1 .. n)
          BY <1>2
    <2>2. Max(1 .. k + 1) = k + 1 /\ (1 .. k + 1) \ {k + 1} = 1 .. k /\ 1 .. k + 1 # {}
          BY <2>1, HighestOfPrefix, MaxIsHighest
    <2>3. it[1 .. k + 1] = EnterOrAdd(it[1 .. k], q[k + 1])
          BY <1>2, <1>7, <2>1, <2>2
    <2> QED BY <1>2, <1>3, <1>9, <2>1, <2>3
<1> HIDE DEF States, Inputs
<1>10. \E S \in [0 .. n -> States] : RunOf(S, it, n, f, base, q)
    <2>1. FoldsIn(it, n, f, base, q, States)
          BY <1>8, <1>9 DEF FoldsIn
    <2> HIDE DEF Is, base
    <2> QED BY <1>2, <1>3, <1>4, <2>1, FoldRun
<1> QED BY <1>1, <1>2, <1>10 DEF RunOf, n, base, f, States

\* One segment more.
LEMMA WalkAppend ==
    ASSUME NEW old, IsTree(old), NEW from \in Walks(old), NEW q \in Seq(Clean), NEW c \in Clean
    PROVE  Walked(from, q) \in Walks(old) /\ Walked(from, Append(q, c)) = EnterOrAdd(Walked(from, q), c)
<1> DEFINE n == Len(q)
           m == n + 1
           more == Append(q, c)
           base == from
           f == Turns(old)
<1>1. more \in Seq(Clean) /\ Len(more) = m /\ n \in Nat /\ more[m] = c /\ \A k \in 1 .. n : q[k] = more[k]
      OBVIOUS
<1>2. m = n + 1 /\ m \in Nat
      BY <1>1
<1> HIDE DEF more, n, m
<1>3. PICK S \in [0 .. n -> Walks(old)] : Run(S, n, f, base, q) /\ S[n] = Walked(from, q)
      BY WalkRun DEF n
<1>4. PICK T \in [0 .. m -> Walks(old)] : Run(T, m, f, base, more) /\ T[m] = Walked(from, more)
      BY <1>1, WalkRun
<1> HIDE DEF base, f
<1>5. T[m] = f[<<S[n], more[m]>>]
    <2>1. Same(q, more, n)
          BY <1>1 DEF Same
    <2>2. GoesOn(T, m, S, n, f, more)
          BY <1>1, <1>2, <1>3, <1>4, <2>1, RunAppend
    <2> QED BY <2>2 DEF GoesOn
<1>6. Walked(from, q) \in Walks(old)
      BY <1>1, <1>3
<1>7. \A a \in Walks(old), b \in Clean : f[<<a, b>>] = EnterOrAdd(a, b)
      BY TurnsIs DEF f
<1> QED BY <1>1, <1>3, <1>4, <1>5, <1>6, <1>7 DEF more

\* None.
LEMMA WalkEmpty == ASSUME NEW old, IsTree(old), NEW from \in Walks(old) PROVE Walked(from, <<>>) = from
<1> DEFINE f == Turns(old)
           base == from
<1>1. <<>> \in Seq(Clean) /\ Len(<<>>) = 0
      OBVIOUS
<1>2. PICK S : Run(S, 0, f, base, <<>>) /\ S[0] = Walked(from, <<>>)
      BY <1>1, WalkRun
<1> HIDE DEF f, base
<1>3. Walked(from, <<>>) = base
      BY <1>2 DEF Run
<1> QED BY <1>3 DEF base


\* Where the segments lead to nodes, nothing is made.
LEMMA WalkedReach ==
    ASSUME NEW old, IsTree(old), NEW from \in Walks(old), NEW q \in Seq(Clean),
           Reached(from.all, from.at, q) # NULL
    PROVE  Walked(from, q) = [all |-> from.all, at |-> Reached(from.all, from.at, q), missing |-> from.missing]
<1> DEFINE all == from.all
           At(r) == Reached(all, from.at, r)
           To(n) == [all |-> all, at |-> n, missing |-> from.missing]
           P(r) == At(r) # NULL => Walked(from, r) = To(At(r))
           T == {r \in Seq(Clean) : P(r)}
<1>1. IsTree(all) /\ from.at \in NodeOf(all) /\ from = To(from.at)
    <2>1. /\ IsTree(all) /\ from.at \in RAM .. Len(all) /\ from \in [all : Seq(Node), at : Nat, missing : BOOLEAN]
          BY DEF Walks, IsWalk
    <2>2. from.at \in 1 .. Len(all)
          BY <2>1, Sized
    <2> QED BY <2>1, <2>2 DEF NodeOf
<1>2. P(<<>>)
    <2>1. At(<<>>) = from.at
          BY <1>1, ReachEmpty
    <2>2. Walked(from, <<>>) = from
          BY WalkEmpty
    <2> HIDE DEF To, At
    <2> QED BY <1>1, <2>1, <2>2
<1>3. ASSUME NEW r \in Seq(Clean), NEW c \in Clean, P(r) PROVE P(Append(r, c))
    <2> SUFFICES ASSUME At(Append(r, c)) # NULL PROVE Walked(from, Append(r, c)) = To(At(Append(r, c)))
        OBVIOUS
    <2>1. r \in Seq(Name) /\ c \in Name
          BY CleanIs
    <2>2. At(r) \in NodeOf(all) /\ At(Append(r, c)) = Look(all, At(r), c)
          BY <1>1, <2>1, ReachAppend
    <2> DEFINE at == At(r)
               next == At(Append(r, c))
               w == To(at)
    <2>3. next # NULL /\ at \in NodeOf(all) /\ next = Look(all, at, c)
          BY <2>2
    <2> HIDE DEF at, next, all
    <2>4. at \in 1 .. Len(all) /\ next = FindName(all, all[at].list, c)
          BY <1>1, <2>3, LookIs
    <2>5. at # NULL
          BY <2>4 DEF NULL
    <2>6. Walked(from, r) = w
          BY <1>3, <2>5 DEF at
    <2>7. Walked(from, Append(r, c)) = EnterOrAdd(w, c)
          BY <2>6, WalkAppend
    <2>8. w.all = all /\ w.at = at /\ [w EXCEPT !.at = next] = To(next)
          OBVIOUS
    <2> HIDE DEF w, To
    <2>9. EnterOrAdd(w, c) = [w EXCEPT !.at = next]
          BY <2>3, <2>4, <2>8 DEF EnterOrAdd
    <2> QED BY <2>7, <2>8, <2>9 DEF next
<1> HIDE DEF P
<1>4. <<>> \in T
      BY <1>2
<1>5. \A r \in Seq(Clean), c \in Clean : r \in T => Append(r, c) \in T
      BY <1>3
<1> HIDE DEF T
<1>6. q \in T
      BY <1>4, <1>5, SeqInduction
<1>7. P(q)
      BY <1>6 DEF T
<1> QED BY <1>7 DEF P

\* path splits into names that are not "/", one at least.
LEMMA PathIs == ASSUME NEW name \in Seq(Name) PROVE path(name) \in Paths
<1>1. Trim(name) \in Seq(Name) /\ NoName \in Name
      BY TrimIs DEF Name
<1>2. Parts(Trim(name)) \in Paths
      BY <1>1, PartsAppend
<1> QED BY <1>2 DEF path, Parts

\* _ramfs_create_path ends at a node of a tree that has grown, and makes nothing
\* where the directory is there.
LEMMA CreatePathIs ==
    ASSUME IsTree(nodes), Ordered(nodes), Apart(nodes), RAM \in 1 .. Len(nodes), NEW p \in Paths
    PROVE  /\ _ramfs_create_path(p) \in Walks(nodes)
           /\ Reached(nodes, RAM, Front(p)) # NULL =>
                 _ramfs_create_path(p) = [all |-> nodes, at |-> Reached(nodes, RAM, Front(p)), missing |-> FALSE]
<1> DEFINE start == [all |-> nodes, at |-> RAM, missing |-> FALSE]
           parent == Walked(start, Front(p))
           last == Last(p)
<1>1. Front(p) \in Seq(Clean) /\ last \in Clean
      BY FrontIs DEF Paths
<1>2. start \in Walks(nodes) /\ start.all = nodes /\ start.at = RAM /\ start.missing = FALSE
    <2>1. /\ nodes \in Seq(Node) /\ Len(nodes) \in Nat /\ RAM \in Nat /\ RAM \in RAM .. Len(nodes)
          BY TreeIs, Sized DEF IsTree
    <2>2. start \in [all : Seq(Node), at : Nat, missing : BOOLEAN] /\ start.all = nodes /\ start.at = RAM
          BY <2>1
    <2> HIDE DEF start
    <2>3. IsWalk(nodes, start)
          BY <2>1, <2>2 DEF IsWalk, Alike
    <2> QED BY <2>2, <2>3 DEF Walks, start
<1>3. _ramfs_create_path(p) = IF parent.missing THEN EnterOrAdd(parent, last) ELSE parent
      BY DEF _ramfs_create_path, Walked
<1> HIDE DEF start, last
<1>4. parent \in Walks(nodes)
      BY <1>1, <1>2, WalkAppend
<1>5. EnterOrAdd(parent, last) \in Walks(nodes)
    <2> HIDE DEF parent
    <2> QED BY <1>1, <1>4, WalkStep
<1>6. ASSUME Reached(nodes, RAM, Front(p)) # NULL
      PROVE  parent = [all |-> nodes, at |-> Reached(nodes, RAM, Front(p)), missing |-> FALSE]
      BY <1>1, <1>2, <1>6, WalkedReach
<1> HIDE DEF parent
<1>7. _ramfs_create_path(p) \in Walks(nodes)
      BY <1>3, <1>4, <1>5
<1>8. ASSUME Reached(nodes, RAM, Front(p)) # NULL
      PROVE  _ramfs_create_path(p) = [all |-> nodes, at |-> Reached(nodes, RAM, Front(p)), missing |-> FALSE]
    <2> DEFINE there == [all |-> nodes, at |-> Reached(nodes, RAM, Front(p)), missing |-> FALSE]
    <2>1. there.missing = FALSE
          OBVIOUS
    <2>2. parent = there
          BY <1>6, <1>8
    <2> HIDE DEF there
    <2>3. _ramfs_create_path(p) = there
          BY <1>3, <2>1, <2>2
    <2> QED BY <2>3 DEF there
<1> QED BY <1>7, <1>8

-----------------------------------------------------------------------------
(* The boot of the file system.                                             *)

\* How many nodes there are as the boot goes on.
Sizes == /\ phase = "start" => Len(nodes) = ROOT
         /\ phase = "serial" => Len(nodes) = DEV + Len(DevFiles)
         /\ phase \in {"parse", "parsed"} => Len(nodes) = RAM - 1
         /\ phase = "build" => Len(nodes) >= RAM

\* /dev and its files; the root of the ramdisk.
Devices(all) ==
    /\ Len(all) >= DEV /\ all[ROOT].dir /\ all[DEV].dir /\ all[DEV].name = "dev" /\ DevList(all)
    /\ \A n \in 3 .. Len(all) : n < RAM => ~all[n].dir /\ all[n].list = <<>> /\ all[n].name \in Proper
Mount(all) == Len(all) >= RAM /\ all[RAM].dir /\ all[RAM].name = "ram"

\* What the root lists.
Mounts ==
    /\ phase = "start" => nodes = <<Dir("/")>>
    /\ phase \in {"serial", "parse", "parsed", "build"} => nodes[ROOT].list = <<DEV>>
    /\ phase \in {"parse", "parsed", "build"} => disk.end # 0
    /\ phase \in {"up", "gui"} =>
          IF disk.end = 0 THEN nodes[ROOT].list = <<DEV>> /\ Len(nodes) = RAM - 1
          ELSE nodes[ROOT].list = <<DEV, RAM>> /\ Mount(nodes)
    /\ phase = "build" => Mount(nodes)
    /\ phase # "start" => Devices(nodes)

\* Only the root is called "/"; a file of the ramdisk is an entry of its archive.
NodeInv(all, d) ==
    \A n \in 1 .. Len(all) : /\ n # ROOT => all[n].name # "/"
                             /\ all[n].read = "ram" => all[n].inode \in 1 .. Len(d.entries)

\* The last node that ramfs() made; every file of the ramdisk is up to it.
LastMade == phase = "build" => \A n \in RAM .. Len(nodes) : nodes[n].read # "none" => n <= node /\ node # NULL

FilesInv ==
    /\ IsTree(nodes) /\ Ordered(nodes) /\ Apart(nodes) /\ NodeInv(nodes, disk)
    /\ Len(nodes) >= ROOT /\ Sizes /\ Mounts /\ LastMade
    /\ module \in DOMAIN Disks /\ files \in 0 .. Len(disk.entries) /\ i \in 0 .. files
    /\ node \in NodeOf(nodes) /\ (node # NULL => phase # "start" /\ node >= RAM)

\* Before the ramdisk has a root, nothing is in it.
LEMMA ApartBelow == ASSUME NEW all, IsTree(all), Len(all) < RAM PROVE Apart(all)
<1> SUFFICES ASSUME NEW n \in DEV .. Len(all), NEW k \in 1 .. Len(all[n].list)
             PROVE  all[n].list[k] >= RAM <=> n >= RAM
    BY DEF Apart
<1>1. Len(all) \in Nat /\ n \in 1 .. Len(all)
      BY TreeIs DEF DEV
<1>2. all[n].list[k] \in 1 .. Len(all)
      BY <1>1 DEF IsTree, Closed
<1> QED BY <1>1, <1>2, Sized

\* /dev stays as the tree grows elsewhere.
LEMMA DevicesStay ==
    ASSUME NEW base, IsTree(base), Devices(base), Len(base) >= RAM - 1, NEW all, IsTree(all), Len(all) >= Len(base),
           \A n \in 1 .. Len(base) : Alike(all[n], base[n]) /\ (n \in DEV .. RAM - 1 => all[n].list = base[n].list)
    PROVE  Devices(all)
<1>1. Len(base) \in Nat /\ Len(all) \in Nat /\ RAM \in Nat /\ RAM >= 3
      BY TreeIs, Sized
<1>2. ROOT \in 1 .. Len(base) /\ DEV \in 1 .. Len(base) /\ DEV \in DEV .. RAM - 1
      BY <1>1 DEF Devices, ROOT, DEV
<1>3. all[ROOT].dir /\ all[DEV].dir /\ all[DEV].name = "dev" /\ all[DEV].list = base[DEV].list
      BY <1>2 DEF Devices, Alike
<1>4. DevList(all)
      BY <1>1, <1>3 DEF Devices, DevList
<1>5. ASSUME NEW n \in 3 .. Len(all), n < RAM PROVE ~all[n].dir /\ all[n].list = <<>> /\ all[n].name \in Proper
    <2>1. n \in 3 .. Len(base) /\ n \in 1 .. Len(base) /\ n \in DEV .. RAM - 1
          BY <1>1, <1>5 DEF DEV
    <2> QED BY <1>5, <2>1 DEF Devices, Alike
<1> QED BY <1>1, <1>2, <1>3, <1>4, <1>5 DEF Devices

\* A new node that is not called "/" and is an entry of the archive.
LEMMA NodeInvStays ==
    ASSUME NEW d, NEW base, IsTree(base), NodeInv(base, d), NEW all, IsTree(all), Len(all) >= Len(base),
           \A n \in 1 .. Len(base) : Alike(all[n], base[n]),
           \A n \in Len(base) + 1 .. Len(all) :
              all[n].name # "/" /\ (all[n].read = "ram" => all[n].inode \in 1 .. Len(d.entries))
    PROVE  NodeInv(all, d)
<1>1. Len(base) \in Nat /\ Len(all) \in Nat
      BY TreeIs
<1> SUFFICES ASSUME NEW n \in 1 .. Len(all)
             PROVE  /\ n # ROOT => all[n].name # "/"
                    /\ all[n].read = "ram" => all[n].inode \in 1 .. Len(d.entries)
    BY DEF NodeInv
<1>2. CASE n \in 1 .. Len(base)
      BY <1>2 DEF NodeInv, Alike
<1>3. CASE n \notin 1 .. Len(base)
    <2>1. n \in Len(base) + 1 .. Len(all)
          BY <1>1, <1>3
    <2> QED BY <2>1
<1> QED BY <1>2, <1>3

\* At first there is the root alone.
LEMMA InitFiles == FInit => FilesInv
<1> SUFFICES ASSUME FInit PROVE FilesInv
    OBVIOUS
<1> DEFINE root == Dir("/")
<1>1. nodes = <<root>> /\ phase = "start" /\ files = 0 /\ i = 0 /\ node = NULL /\ module \in DOMAIN Disks
      BY DEF FInit
<1>2. root \in Node /\ root.list = <<>> /\ root.read = "none"
    <2>1. "/" \in Name
          BY SMT DEF Name
    <2>2. root \in Node /\ root.list = <<>>
          BY <2>1, NewDir
    <2> QED BY <2>2 DEF Dir
<1> HIDE DEF root
<1>3. nodes \in Seq(Node) /\ Len(nodes) = 1 /\ nodes[1] = root
      BY <1>1, <1>2
<1>4. Closed(nodes) /\ Ordered(nodes)
    <2>1. Len(root.list) = 0
          BY <1>2
    <2> QED BY <1>3, <2>1 DEF Closed, Ordered
<1>5. IsTree(nodes)
      BY <1>3, <1>4 DEF IsTree
<1>6. files \in 0 .. Len(disk.entries) /\ i \in 0 .. files
      BY <1>1, Constants DEF disk
<1>7. Apart(nodes)
    <2>1. Len(nodes) < RAM
          BY <1>3, Sized
    <2> QED BY <1>5, <2>1, ApartBelow
<1>8. NodeInv(nodes, disk)
      BY <1>2, <1>3 DEF NodeInv, ROOT
<1>9. Sizes /\ Mounts /\ LastMade
      BY <1>1, <1>3 DEF Sizes, Mounts, LastMade, ROOT, root
<1> QED BY <1>1, <1>3, <1>4, <1>5, <1>6, <1>7, <1>8, <1>9 DEF FilesInv, ROOT, NodeOf

\* devfs adds /dev and its files.
LEMMA RootStep == ASSUME FilesInv, fs_root PROVE FilesInv'
<1> DEFINE root == Dir("/")
           dev == Dir("dev")
           all == AddNode(nodes, ROOT, dev)
<1>1. /\ phase = "start" /\ phase' = "serial" /\ nodes' = Register(all, DevFiles, "device")
      /\ UNCHANGED <<module, files, i, node>> /\ Len(nodes) = 1 /\ IsTree(nodes) /\ Ordered(nodes) /\ node = NULL
      /\ nodes = <<root>> /\ NodeInv(nodes, disk)
      BY DEF fs_root, devfs, FilesInv, Sizes, Mounts, ROOT
<1>2. root.list = <<>> /\ root.dir /\ root.read = "none" /\ nodes[1] = root
      BY <1>1 DEF Dir
<1>3. dev \in Node /\ dev.list = <<>> /\ dev.dir /\ dev.name = "dev" /\ dev.read = "none"
    <2>1. "dev" \in Name
          BY SMT DEF Name
    <2>2. dev \in Node /\ dev.list = <<>>
          BY <2>1, NewDir
    <2> QED BY <2>2 DEF Dir
<1> HIDE DEF root, dev
<1>4. IsTree(all) /\ NodeAdded(nodes, all, ROOT, dev)
    <2>1. ROOT \in 1 .. Len(nodes)
          BY <1>1 DEF ROOT
    <2> QED BY <1>1, <1>3, <2>1, AddNodeIs
<1> HIDE DEF all
<1>5. Ordered(all)
      BY <1>1, <1>3, <1>4, AddedOrdered
<1>6. Len(all) = 2 /\ all[2] = dev /\ Alike(all[1], root) /\ all[1].list = <<2>>
    <2>1. Len(all) = 2 /\ all[Len(nodes) + 1] = dev /\ 1 \in 1 .. Len(nodes)
          BY <1>1, <1>4 DEF NodeAdded
    <2>2. Alike(all[1], nodes[1]) /\ all[1].list = Append(nodes[1].list, Len(nodes) + 1)
          BY <1>4, <2>1, Zenon DEF NodeAdded, ROOT
    <2>3. Len(nodes) + 1 = 2
          BY <1>1
    <2> QED BY <1>2, <2>1, <2>2, <2>3
<1>7. DEV \in 1 .. Len(all) /\ DevList(all) /\ DevFiles \in Seq(Proper)
    <2>1. Len(dev.list) = 0
          BY <1>3
    <2> QED BY <1>6, <2>1, Sized DEF DEV, DevList
<1>8. Registered(all, nodes', "device") /\ Len(nodes') = 2 + Len(DevFiles)
      BY <1>1, <1>4, <1>5, <1>6, <1>7, RegisterIs
<1>9. /\ IsTree(nodes') /\ Ordered(nodes') /\ DevList(nodes')
      /\ \A n \in 1 .. 2 : Alike(nodes'[n], all[n]) /\ (n # DEV => nodes'[n].list = all[n].list)
      /\ \A n \in 3 .. Len(nodes') : /\ ~nodes'[n].dir /\ nodes'[n].read = "device" /\ nodes'[n].name \in Proper
                                     /\ nodes'[n].list = <<>>
      BY <1>6, <1>8 DEF Registered
<1>10. Apart(nodes')
    <2>1. Len(nodes') < RAM
          BY <1>8, Sized
    <2> QED BY <1>9, <2>1, ApartBelow
<1>11. nodes'[ROOT].list = <<DEV>> /\ nodes'[ROOT].dir /\ nodes'[DEV].dir /\ nodes'[DEV].name = "dev"
       /\ nodes'[ROOT].read = "none" /\ nodes'[DEV].read = "none"
    <2>1. Alike(nodes'[1], all[1]) /\ nodes'[1].list = all[1].list /\ Alike(nodes'[2], all[2])
          BY <1>9 DEF DEV
    <2> QED BY <1>2, <1>3, <1>6, <2>1 DEF Alike, ROOT, DEV
<1>12. Devices(nodes')
    <2>1. Len(nodes') >= DEV
          BY <1>8, Sized DEF DEV
    <2> QED BY <1>9, <1>11, <2>1 DEF Devices
<1>13. NodeInv(nodes', disk')
    <2> SUFFICES ASSUME NEW n \in 1 .. Len(nodes')
                 PROVE  (n # ROOT => nodes'[n].name # "/") /\ nodes'[n].read # "ram"
        BY DEF NodeInv
    <2>1. CASE n = 1
          BY <1>11, <2>1 DEF ROOT
    <2>2. CASE n = 2
          BY <1>11, <2>2 DEF DEV
    <2>3. CASE n \in 3 .. Len(nodes')
          BY <1>9, <2>3 DEF Proper
    <2>4. Len(nodes') \in Nat
          BY <1>9, TreeIs
    <2> QED BY <2>1, <2>2, <2>3, <2>4
<1>14. Sizes' /\ Mounts' /\ LastMade'
      BY <1>1, <1>8, <1>11, <1>12 DEF Sizes, DEV, Mounts, LastMade
<1>15. Len(nodes') >= ROOT /\ node' \in NodeOf(nodes') /\ node' = NULL
      BY <1>1, <1>8, Sized DEF ROOT, NodeOf
<1> QED BY <1>1, <1>9, <1>10, <1>13, <1>14, <1>15 DEF FilesInv, disk

\* serial adds its ports.
LEMMA SerialStep == ASSUME FilesInv, serial PROVE FilesInv'
<1>1. /\ phase = "serial" /\ nodes' = Register(nodes, Ports, "none")
      /\ phase' = IF disk.end = 0 THEN "up" ELSE "parse"
      /\ UNCHANGED <<module, files, i, node>> /\ Len(nodes) = 2 + Len(DevFiles) /\ IsTree(nodes) /\ Ordered(nodes)
      /\ Devices(nodes) /\ nodes[ROOT].list = <<DEV>> /\ NodeInv(nodes, disk)
      BY DEF serial, FilesInv, Sizes, DEV, Mounts
<1>2. DEV \in 1 .. Len(nodes) /\ ROOT \in 1 .. Len(nodes) /\ ROOT # DEV /\ DevList(nodes)
      BY <1>1, Sized DEF DEV, ROOT, Devices
<1>3. Registered(nodes, nodes', "none") /\ Len(nodes') = Len(nodes) + Len(Ports)
      BY <1>1, <1>2, Sized, RegisterIs
<1>4. /\ IsTree(nodes') /\ Ordered(nodes') /\ DevList(nodes') /\ Len(nodes') >= Len(nodes)
      /\ \A n \in 1 .. Len(nodes) : Alike(nodes'[n], nodes[n]) /\ (n # DEV => nodes'[n].list = nodes[n].list)
      /\ \A n \in Len(nodes) + 1 .. Len(nodes') :
            ~nodes'[n].dir /\ nodes'[n].read = "none" /\ nodes'[n].name \in Proper /\ nodes'[n].list = <<>>
      BY <1>3 DEF Registered
<1>5. Len(nodes') >= ROOT /\ NodeOf(nodes) \subseteq NodeOf(nodes') /\ Len(nodes') = RAM - 1 /\ Len(nodes') < RAM
      BY <1>1, <1>3, Sized, SMTT(30) DEF ROOT, NodeOf
<1>6. Apart(nodes')
      BY <1>4, <1>5, ApartBelow
<1>7. Devices(nodes')
    <2>1. Len(nodes') >= DEV
          BY <1>1, <1>3, Sized DEF DEV
    <2>2. nodes'[ROOT].dir /\ nodes'[DEV].dir /\ nodes'[DEV].name = "dev"
          BY <1>1, <1>2, <1>4 DEF Devices, Alike
    <2>3. ASSUME NEW n \in 3 .. Len(nodes') PROVE ~nodes'[n].dir /\ nodes'[n].list = <<>> /\ nodes'[n].name \in Proper
        <3>1. CASE n \in 1 .. Len(nodes)
            <4>1. n \in 3 .. Len(nodes) /\ n < RAM /\ n # DEV
                  BY <1>1, <1>4, <1>5, <3>1, Sized, TreeIs DEF DEV
            <4>2. ~nodes[n].dir /\ nodes[n].list = <<>> /\ nodes[n].name \in Proper
                  BY <1>1, <4>1 DEF Devices
            <4> QED BY <1>4, <3>1, <4>1, <4>2 DEF Alike
        <3>2. CASE n \notin 1 .. Len(nodes)
            <4>1. n \in Len(nodes) + 1 .. Len(nodes')
                  BY <1>4, <3>2, TreeIs
            <4> QED BY <1>4, <4>1
        <3> QED BY <3>1, <3>2
    <2> QED BY <1>4, <2>1, <2>2, <2>3 DEF Devices
<1>8. NodeInv(nodes', disk)
    <2>1. \A n \in Len(nodes) + 1 .. Len(nodes') : nodes'[n].name # "/" /\ nodes'[n].read # "ram"
          BY <1>4 DEF Proper
    <2> QED BY <1>1, <1>4, <2>1, NodeInvStays
<1>9. nodes'[ROOT].list = <<DEV>>
      BY <1>1, <1>2, <1>4
<1>10. disk' = disk /\ phase' \in {"up", "parse"} /\ node' \in NodeOf(nodes')
      BY <1>1, <1>5 DEF disk, FilesInv
<1>11. Sizes' /\ Mounts' /\ LastMade'
      BY <1>1, <1>5, <1>7, <1>9, <1>10 DEF Sizes, Mounts, LastMade
<1> QED BY <1>1, <1>4, <1>5, <1>6, <1>8, <1>10, <1>11 DEF FilesInv

\* tar_parse changes no node.
LEMMA ParseStep == ASSUME FilesInv, tar_parse \/ tar_parse_end PROVE FilesInv'
<1>1. /\ phase = "parse" /\ UNCHANGED <<module, i, node, nodes>>
      /\ phase' \in {"parse", "parsed", "stopped"}
      /\ files' = files \/ (files < Len(disk.entries) /\ files' = files + 1)
    <2>1. CASE tar_parse_end
          BY <2>1 DEF tar_parse_end, boot
    <2>2. CASE tar_parse
          BY <2>2 DEF tar_parse
    <2> QED BY <2>1, <2>2
<1>2. files' \in 0 .. Len(disk.entries) /\ i' \in 0 .. files' /\ disk' = disk
      BY <1>1, Constants DEF FilesInv, disk
<1>3. Sizes' /\ Mounts' /\ LastMade'
      BY <1>1, <1>2 DEF Sizes, Mounts, LastMade, FilesInv
<1> QED BY <1>1, <1>2, <1>3 DEF FilesInv

\* ramfs_root_node gets the index RAM.
LEMMA RamRootStep == ASSUME FilesInv, ramfs_root PROVE FilesInv'
<1> DEFINE new == Dir("ram")
           len == Len(nodes)
<1>1. /\ phase = "parsed" /\ phase' = "build" /\ nodes' = Append(nodes, new)
      /\ UNCHANGED <<module, files, i, node>> /\ len = RAM - 1 /\ IsTree(nodes) /\ Ordered(nodes)
      /\ Devices(nodes) /\ nodes[ROOT].list = <<DEV>> /\ NodeInv(nodes, disk) /\ disk.end # 0
      BY DEF ramfs_root, FilesInv, Sizes, Mounts
<1>2. new \in Node /\ new.list = <<>> /\ new.name = "ram" /\ new.dir /\ new.read = "none" /\ "ram" # "/"
    <2>1. "ram" \in Name
          BY SMT DEF Name
    <2>2. new \in Node /\ new.list = <<>>
          BY <2>1, NewDir
    <2> QED BY <2>2 DEF Dir
<1> HIDE DEF new
<1>3. IsTree(nodes') /\ Len(nodes') = len + 1 /\ nodes'[len + 1] = new /\ \A n \in 1 .. len : nodes'[n] = nodes[n]
    <2>1. IsTree(nodes') /\ Len(nodes') = len + 1
          BY <1>1, <1>2, PlusNode
    <2> QED BY <1>1, <2>1 DEF IsTree
<1>4. len \in Nat /\ RAM \in Nat /\ RAM >= 3 /\ RAM = len + 1 /\ Len(nodes') = RAM /\ nodes'[RAM] = new
      BY <1>1, <1>3, TreeIs, Sized
<1>5. Ordered(nodes')
    <2> SUFFICES ASSUME NEW n \in 1 .. Len(nodes'), NEW k \in 1 .. Len(nodes'[n].list), NEW j \in 1 .. k - 1,
                        nodes'[nodes'[n].list[j]].read # "none"
                 PROVE  nodes'[n].list[j] <= nodes'[n].list[k]
        BY DEF Ordered
    <2>1. n # len + 1
        <3>1. Len(new.list) = 0
              BY <1>2
        <3> QED BY <1>3, <3>1
    <2>2. n \in 1 .. len /\ nodes'[n] = nodes[n]
          BY <1>3, <1>4, <2>1
    <2>3. nodes[n].list \in Seq(Nat) /\ j \in 1 .. Len(nodes[n].list)
        <3>1. nodes[n].list \in Seq(Nat)
              BY <1>1, <2>2, TreeIs
        <3> QED BY <2>2, <3>1
    <2>4. nodes[n].list[j] \in 1 .. len
          BY <1>1, <2>2, <2>3 DEF IsTree, Closed
    <2> QED BY <1>1, <1>3, <2>2, <2>4 DEF Ordered
<1>6. Apart(nodes')
    <2> SUFFICES ASSUME NEW n \in DEV .. Len(nodes'), NEW k \in 1 .. Len(nodes'[n].list)
                 PROVE  nodes'[n].list[k] >= RAM <=> n >= RAM
        BY DEF Apart
    <2>1. n # len + 1
        <3>1. Len(new.list) = 0
              BY <1>2
        <3> QED BY <1>3, <3>1
    <2>2. n \in DEV .. len /\ n \in 1 .. len /\ nodes'[n] = nodes[n]
          BY <1>3, <1>4, <2>1 DEF DEV
    <2>3. nodes[n].list[k] \in 1 .. len
          BY <1>1, <2>2 DEF IsTree, Closed
    <2> QED BY <1>4, <2>2, <2>3
<1>7. \A n \in 1 .. len : Alike(nodes'[n], nodes[n]) /\ nodes'[n].list = nodes[n].list
      BY <1>3 DEF Alike
<1>7a. Len(nodes') >= len /\ len >= RAM - 1
      BY <1>4
<1>8. Devices(nodes')
      BY <1>1, <1>3, <1>7, <1>7a, DevicesStay
<1>9. NodeInv(nodes', disk)
    <2>1. \A n \in len + 1 .. Len(nodes') : nodes'[n].name # "/" /\ nodes'[n].read # "ram"
          BY <1>2, <1>3, <1>4
    <2>2. /\ \A n \in 1 .. Len(nodes) : Alike(nodes'[n], nodes[n])
          /\ IsTree(nodes) /\ IsTree(nodes') /\ Len(nodes') >= Len(nodes) /\ NodeInv(nodes, disk)
          BY <1>1, <1>3, <1>7, <1>7a
    <2> QED BY <2>1, <2>2, NodeInvStays
<1>10. nodes'[ROOT].list = <<DEV>> /\ Mount(nodes')
    <2>1. ROOT \in 1 .. len
          BY <1>4 DEF ROOT
    <2> QED BY <1>1, <1>2, <1>4, <1>7, <2>1 DEF Mount
<1>11. LastMade'
    <2>1. \A n \in RAM .. Len(nodes') : nodes'[n].read = "none"
          BY <1>2, <1>4
    <2> QED BY <2>1 DEF LastMade
<1>12. Len(nodes') >= ROOT /\ NodeOf(nodes) \subseteq NodeOf(nodes') /\ disk' = disk
      BY <1>1, <1>3, <1>4 DEF ROOT, NodeOf, disk
<1>13. Sizes' /\ Mounts'
      BY <1>1, <1>4, <1>8, <1>10, <1>12 DEF Sizes, Mounts
<1> QED BY <1>1, <1>3, <1>5, <1>6, <1>9, <1>11, <1>12, <1>13 DEF FilesInv

\* /ram becomes an entry of the root.
LEMMA RegisterStep == ASSUME FilesInv, ramfs_register PROVE FilesInv'
<1>1. /\ phase = "build" /\ phase' = "up" /\ nodes' = [nodes EXCEPT ![ROOT].list = Append(@, RAM)]
      /\ UNCHANGED <<module, files, i, node>> /\ Len(nodes) >= RAM /\ IsTree(nodes) /\ Len(nodes) >= ROOT
      /\ Ordered(nodes) /\ Apart(nodes) /\ NodeInv(nodes, disk)
      /\ nodes[ROOT].list = <<DEV>> /\ Mount(nodes) /\ Devices(nodes) /\ disk.end # 0
      BY DEF ramfs_register, FilesInv, Sizes, Mounts
<1>2. RAM \in 1 .. Len(nodes) /\ ROOT \in 1 .. Len(nodes) /\ RAM >= 3 /\ RAM \in Nat /\ Len(nodes) \in Nat
      BY <1>1, Sized, TreeIs DEF ROOT
<1>3. IsTree(nodes') /\ EntryAdded(nodes, nodes', ROOT, RAM)
      BY <1>1, <1>2, PlusEntryIs
<1>4. Len(nodes') = Len(nodes) /\ \A n \in 1 .. Len(nodes) :
         Alike(nodes'[n], nodes[n]) /\ (n # ROOT => nodes'[n].list = nodes[n].list)
      BY <1>3 DEF EntryAdded
<1>5. nodes'[ROOT].list = <<DEV, RAM>>
    <2>1. nodes'[ROOT].list = Append(nodes[ROOT].list, RAM)
          BY <1>2, <1>3, Zenon DEF EntryAdded
    <2> QED BY <1>1, <2>1, PairIs
<1>6. Ordered(nodes')
    <2>1. Len(<<DEV>>) = 1 /\ <<DEV>>[1] = DEV
          OBVIOUS
    <2>2. \A k \in 1 .. Len(nodes[ROOT].list) : nodes[ROOT].list[k] <= RAM
          BY <1>1, <1>2, <2>1 DEF DEV
    <2> QED BY <1>1, <1>2, <1>3, <2>2, EntryOrdered
<1>7. Apart(nodes')
    <2> SUFFICES ASSUME NEW n \in DEV .. Len(nodes'), NEW k \in 1 .. Len(nodes'[n].list)
                 PROVE  nodes'[n].list[k] >= RAM <=> n >= RAM
        BY DEF Apart
    <2>1. n \in 1 .. Len(nodes) /\ n # ROOT /\ n \in DEV .. Len(nodes)
          BY <1>2, <1>4 DEF DEV, ROOT
    <2> QED BY <1>1, <1>4, <2>1 DEF Apart
<1>8. Devices(nodes')
    <2>1. \A n \in DEV .. RAM - 1 : n # ROOT
          BY DEF DEV, ROOT
    <2>2. Len(nodes) >= RAM - 1 /\ Len(nodes') >= Len(nodes)
          BY <1>1, <1>2, <1>4
    <2> QED BY <1>1, <1>3, <1>4, <2>1, <2>2, DevicesStay
<1>9. NodeInv(nodes', disk)
    <2>1. Len(nodes') >= Len(nodes) /\ Len(nodes) + 1 .. Len(nodes') = {}
          BY <1>2, <1>4
    <2> QED BY <1>1, <1>3, <1>4, <2>1, NodeInvStays
<1>10. Mount(nodes')
      BY <1>1, <1>2, <1>4 DEF Mount, Alike
<1>11. NodeOf(nodes') = NodeOf(nodes) /\ disk' = disk
      BY <1>1, <1>4 DEF NodeOf, disk
<1>12. Sizes' /\ Mounts' /\ LastMade'
      BY <1>1, <1>5, <1>8, <1>10, <1>11 DEF Sizes, Mounts, LastMade
<1> QED BY <1>1, <1>3, <1>4, <1>6, <1>7, <1>9, <1>11, <1>12 DEF FilesInv

\* A turn of ramfs() with the node it adds, new: the tree it leaves.
Grown(base, all) ==
    /\ IsTree(all) /\ Ordered(all) /\ Apart(all) /\ Len(all) >= Len(base)
    /\ \A n \in 1 .. Len(base) : Alike(all[n], base[n]) /\ (n < RAM => all[n].list = base[n].list)

LEMMA AddGrows ==
    ASSUME NEW base, IsTree(base), Len(base) >= RAM, NEW w \in Walks(base), NEW new \in Node, new.list = <<>>
    PROVE  LET all == AddNode(w.all, w.at, new)
           IN  /\ Grown(base, all) /\ Len(all) = Len(w.all) + 1 /\ all[Len(all)] = new
               /\ \A n \in Len(base) + 1 .. Len(all) - 1 : all[n].read = "none" /\ all[n].name # "/"
<1> DEFINE a == w.all
           all == AddNode(a, w.at, new)
<1>1. /\ IsTree(a) /\ Ordered(a) /\ Apart(a) /\ w.at \in RAM .. Len(a) /\ Len(a) >= Len(base)
      /\ \A n \in 1 .. Len(base) : Alike(a[n], base[n]) /\ (n < RAM => a[n].list = base[n].list)
      /\ \A n \in Len(base) + 1 .. Len(a) : a[n].read = "none" /\ a[n].name # "/"
      BY DEF Walks, IsWalk
<1> HIDE DEF a
<1>2. Len(a) \in Nat /\ Len(base) \in Nat /\ RAM \in Nat /\ RAM >= 3 /\ w.at \in 1 .. Len(a)
      BY <1>1, TreeIs, Sized
<1>3. IsTree(all) /\ NodeAdded(a, all, w.at, new)
      BY <1>1, <1>2, AddNodeIs
<1> HIDE DEF all
<1>4. Ordered(all) /\ Apart(all)
    <2>1. Len(a) + 1 >= RAM <=> w.at >= RAM
          BY <1>1, <1>2
    <2> QED BY <1>1, <1>3, <2>1, AddedOrdered, AddedApart
<1>5. Len(all) = Len(a) + 1 /\ all[Len(all)] = new /\ Len(all) >= Len(base) /\ Len(all) - 1 = Len(a)
      BY <1>1, <1>2, <1>3 DEF NodeAdded
<1>6. \A n \in 1 .. Len(base) : Alike(all[n], base[n]) /\ (n < RAM => all[n].list = base[n].list)
    <2> TAKE n \in 1 .. Len(base)
    <2>1. n \in 1 .. Len(a) /\ (n < RAM => n # w.at)
          BY <1>1, <1>2
    <2>2. Alike(all[n], a[n]) /\ (n < RAM => all[n].list = a[n].list)
          BY <1>3, <2>1 DEF NodeAdded
    <2> QED BY <1>1, <2>2 DEF Alike
<1>7. \A n \in Len(base) + 1 .. Len(a) : all[n].read = "none" /\ all[n].name # "/"
    <2> TAKE n \in Len(base) + 1 .. Len(a)
    <2>1. n \in 1 .. Len(a)
          BY <1>2
    <2>2. Alike(all[n], a[n])
          BY <1>3, <2>1 DEF NodeAdded
    <2> QED BY <1>1, <2>2 DEF Alike
<1>8. Grown(base, all)
      BY <1>3, <1>4, <1>5, <1>6 DEF Grown
<1> QED BY <1>5, <1>7, <1>8 DEF all, a

\* The node of the turn before once more.
LEMMA AgainGrows ==
    ASSUME NEW base, IsTree(base), Len(base) >= RAM, NEW w \in Walks(base), NEW e \in RAM .. Len(base),
           \A n \in RAM .. Len(base) : base[n].read # "none" => n <= e
    PROVE  LET all == [w.all EXCEPT ![w.at].list = Append(@, e)]
           IN  /\ Grown(base, all)
               /\ \A n \in Len(base) + 1 .. Len(all) : all[n].read = "none" /\ all[n].name # "/"
<1> DEFINE a == w.all
           all == [a EXCEPT ![w.at].list = Append(@, e)]
<1>1. /\ IsTree(a) /\ Ordered(a) /\ Apart(a) /\ w.at \in RAM .. Len(a) /\ Len(a) >= Len(base)
      /\ \A n \in 1 .. Len(base) : Alike(a[n], base[n]) /\ (n < RAM => a[n].list = base[n].list)
      /\ \A n \in Len(base) + 1 .. Len(a) : a[n].read = "none" /\ a[n].name # "/"
      BY DEF Walks, IsWalk
<1> HIDE DEF a
<1>2. Len(a) \in Nat /\ Len(base) \in Nat /\ RAM \in Nat /\ RAM >= 3 /\ w.at \in 1 .. Len(a)
      /\ e \in 1 .. Len(a) /\ e \in Nat /\ e >= RAM
      BY <1>1, TreeIs, Sized
<1>3. IsTree(all) /\ EntryAdded(a, all, w.at, e)
      BY <1>1, <1>2, PlusEntryIs
<1> HIDE DEF all
<1>4. \A k \in 1 .. Len(a[w.at].list) : a[a[w.at].list[k]].read # "none" => a[w.at].list[k] <= e
    <2> TAKE k \in 1 .. Len(a[w.at].list)
    <2> DEFINE n == a[w.at].list[k]
    <2>1. n \in 1 .. Len(a) /\ n >= RAM
        <3>1. w.at \in DEV .. Len(a) /\ w.at >= RAM
              BY <1>1, <1>2 DEF DEV
        <3>2. n >= RAM <=> w.at >= RAM
              BY <1>1, <3>1 DEF Apart
        <3>3. n \in 1 .. Len(a)
              BY <1>1, <1>2 DEF IsTree, Closed
        <3> QED BY <3>1, <3>2, <3>3
    <2> HIDE DEF n
    <2>2. CASE n \in 1 .. Len(base)
        <3>1. n \in RAM .. Len(base) /\ Alike(a[n], base[n])
              BY <1>1, <1>2, <2>1, <2>2
        <3> QED BY <3>1 DEF Alike, n
    <2>3. CASE n \notin 1 .. Len(base)
        <3>1. n \in Len(base) + 1 .. Len(a)
              BY <1>2, <2>1, <2>3
        <3> QED BY <1>1, <3>1 DEF n
    <2> QED BY <2>2, <2>3
<1>5. Ordered(all) /\ Apart(all)
    <2>1. e >= RAM <=> w.at >= RAM
          BY <1>1, <1>2
    <2> QED BY <1>1, <1>2, <1>3, <1>4, <2>1, EntryOrdered, EntryApart
<1>6. Len(all) = Len(a) /\ Len(all) >= Len(base)
      BY <1>1, <1>2, <1>3 DEF EntryAdded
<1>7. \A n \in 1 .. Len(base) : Alike(all[n], base[n]) /\ (n < RAM => all[n].list = base[n].list)
    <2> TAKE n \in 1 .. Len(base)
    <2>1. n \in 1 .. Len(a) /\ (n < RAM => n # w.at)
          BY <1>1, <1>2
    <2>2. Alike(all[n], a[n]) /\ (n < RAM => all[n].list = a[n].list)
          BY <1>3, <2>1 DEF EntryAdded
    <2> QED BY <1>1, <2>2 DEF Alike
<1>8. \A n \in Len(base) + 1 .. Len(all) : all[n].read = "none" /\ all[n].name # "/"
    <2> TAKE n \in Len(base) + 1 .. Len(all)
    <2>1. n \in 1 .. Len(a) /\ n \in Len(base) + 1 .. Len(a)
          BY <1>2, <1>6
    <2>2. Alike(all[n], a[n])
          BY <1>3, <2>1 DEF EntryAdded
    <2> QED BY <1>1, <2>1, <2>2 DEF Alike
<1>9. Grown(base, all)
      BY <1>3, <1>5, <1>6, <1>7 DEF Grown
<1> QED BY <1>8, <1>9 DEF all, a

\* What a turn of ramfs() adds.
Header == disk.entries[i + 1]
Parent == _ramfs_create_path(path(Header.name))
NewOf(header, c, k) == IF header.type = "file" THEN File(c, k, "ram") ELSE Dir(c)
New == NewOf(Header, Last(path(Header.name)), i + 1)

LEMMA NewOfIs ==
    ASSUME NEW header, NEW c \in Name, NEW k \in Nat
    PROVE  /\ NewOf(header, c, k) \in Node /\ NewOf(header, c, k).list = <<>> /\ NewOf(header, c, k).name = c
           /\ NewOf(header, c, k).dir = (header.type # "file")
           /\ header.type = "file" => NewOf(header, c, k).read = "ram" /\ NewOf(header, c, k).inode = k
           /\ header.type # "file" => NewOf(header, c, k).read = "none"
<1>1. Dir(c) \in Node /\ Dir(c).list = <<>> /\ Dir(c).name = c /\ Dir(c).dir = TRUE /\ Dir(c).read = "none"
    <2>1. Dir(c) \in Node /\ Dir(c).list = <<>>
          BY NewNode
    <2> QED BY <2>1 DEF Dir
<1>2. /\ File(c, k, "ram") \in Node /\ File(c, k, "ram").list = <<>> /\ File(c, k, "ram").name = c
      /\ File(c, k, "ram").dir = FALSE /\ File(c, k, "ram").read = "ram" /\ File(c, k, "ram").inode = k
    <2>1. File(c, k, "ram") \in Node /\ File(c, k, "ram").list = <<>>
          BY NewNode
    <2> QED BY <2>1 DEF File
<1>3. CASE header.type = "file"
    <2>1. NewOf(header, c, k) = File(c, k, "ram")
          BY <1>3 DEF NewOf
    <2> QED BY <1>2, <1>3, <2>1
<1>4. CASE header.type # "file"
    <2>1. NewOf(header, c, k) = Dir(c)
          BY <1>4 DEF NewOf
    <2> QED BY <1>1, <1>4, <2>1
<1> QED BY <1>3, <1>4

\* The three ways a turn may end.
LEMMA AddCases ==
    ASSUME ramfs_add
    PROVE  \/ /\ phase' = "stopped" /\ UNCHANGED <<i, node, nodes>>
              /\ Header.type # "other" => Parent.missing
              /\ Header.type = "other" => node = NULL
           \/ /\ nodes' = AddNode(Parent.all, Parent.at, New) /\ node' = Len(Parent.all) + 1
              /\ i' = i + 1 /\ UNCHANGED phase /\ ~Parent.missing /\ Header.type # "other"
           \/ /\ node # NULL /\ nodes' = [Parent.all EXCEPT ![Parent.at].list = Append(@, node)]
              /\ i' = i + 1 /\ UNCHANGED <<phase, node>> /\ Header.type = "other"
<1> DEFINE stop == phase' = "stopped" /\ harm' = harm \cup {"path", "disk"} /\ UNCHANGED <<i, node, nodes>>
           add == /\ nodes' = AddNode(Parent.all, Parent.at, New) /\ node' = Len(Parent.all) + 1
                  /\ i' = i + 1 /\ harm' = harm \cup {"path"} /\ UNCHANGED phase
           again == /\ nodes' = [Parent.all EXCEPT ![Parent.at].list = Append(@, node)]
                    /\ i' = i + 1 /\ harm' = harm \cup {"path"} /\ UNCHANGED <<phase, node>>
           other == Header.type # "other"
<1>1. (CASE other /\ Parent.missing -> stop
         [] other /\ ~Parent.missing -> add
         [] ~other /\ node = NULL -> stop
         [] OTHER -> again)
      BY DEF ramfs_add, Header, Parent, New, NewOf
<1> HIDE DEF stop, add, again, other
<1>2. \/ stop /\ (other => Parent.missing) /\ (~other => node = NULL)
      \/ add /\ ~Parent.missing /\ other
      \/ node # NULL /\ again /\ ~other
      BY <1>1
<1> QED BY <1>2 DEF stop, add, again, other

\* A header's path, and where its walk ends.
LEMMA HeaderIs ==
    ASSUME FilesInv, phase = "build", i < files
    PROVE  /\ i + 1 \in 1 .. Len(disk.entries) /\ Header.name \in Spellings /\ path(Header.name) \in Paths
           /\ Last(path(Header.name)) \in Clean /\ Parent \in Walks(nodes) /\ Len(nodes) >= RAM
<1>1. /\ Len(nodes) >= RAM /\ IsTree(nodes) /\ Ordered(nodes) /\ Apart(nodes)
      /\ files \in 0 .. Len(disk.entries) /\ i \in 0 .. files /\ Len(disk.entries) \in Nat
      /\ module \in DOMAIN Disks
      BY Constants DEF FilesInv, Sizes, disk
<1>2. i + 1 \in 1 .. Len(disk.entries)
      BY <1>1
<1>3. Header.name \in Spellings
      BY <1>1, <1>2, Constants DEF disk, Header
<1>4. path(Header.name) \in Paths
    <2>1. Header.name \in Seq(Name)
          BY <1>3 DEF Spellings
    <2> QED BY <2>1, PathIs
<1>5. Last(path(Header.name)) \in Clean
      BY <1>4, FrontIs DEF Paths
<1>6. Parent \in Walks(nodes)
    <2>1. RAM \in 1 .. Len(nodes)
          BY <1>1, Sized, TreeIs
    <2> QED BY <1>1, <1>4, <2>1, CreatePathIs DEF Parent
<1> QED BY <1>1, <1>2, <1>3, <1>4, <1>5, <1>6

\* A turn of ramfs() leaves a tree, also when it adds the last node once more.
LEMMA AddStep == ASSUME FilesInv, ramfs_add PROVE FilesInv'
<1>1. /\ phase = "build" /\ i < files /\ UNCHANGED <<module, files>>
      /\ Len(nodes) >= RAM /\ IsTree(nodes) /\ Len(nodes) >= ROOT /\ Len(nodes) \in Nat
      /\ files \in 0 .. Len(disk.entries) /\ i \in 0 .. files /\ Len(disk.entries) \in Nat
      /\ module \in DOMAIN Disks /\ NodeInv(nodes, disk) /\ disk' = disk
      /\ Devices(nodes) /\ Mount(nodes) /\ disk.end # 0 /\ nodes[ROOT].list = <<DEV>>
      BY Constants, TreeIs DEF ramfs_add, FilesInv, Sizes, Mounts, disk
<1>2. Parent \in Walks(nodes) /\ i + 1 \in 1 .. Len(disk.entries) /\ Last(path(Header.name)) \in Clean
      BY <1>1, HeaderIs
<1>3. RAM \in 1 .. Len(nodes) /\ ROOT \in 1 .. Len(nodes) /\ ROOT < RAM /\ RAM >= 3 /\ RAM \in Nat
      BY <1>1, Sized DEF ROOT
<1>4. ASSUME Grown(nodes, nodes') PROVE Devices(nodes') /\ Mount(nodes') /\ nodes'[ROOT].list = <<DEV>> /\ Len(nodes') \in Nat
    <2>1. /\ IsTree(nodes') /\ Len(nodes') >= Len(nodes) /\ Len(nodes) >= RAM - 1 /\ Len(nodes') \in Nat
          /\ \A n \in 1 .. Len(nodes) :
                Alike(nodes'[n], nodes[n]) /\ (n < RAM => nodes'[n].list = nodes[n].list)
          BY <1>1, <1>3, <1>4, TreeIs DEF Grown
    <2>2. Devices(nodes')
        <3>1. \A n \in DEV .. RAM - 1 : n < RAM
              BY <1>3 DEF DEV
        <3> QED BY <1>1, <2>1, <3>1, DevicesStay
    <2>3. Mount(nodes') /\ nodes'[ROOT].list = <<DEV>>
          BY <1>1, <1>3, <2>1 DEF Mount, Alike
    <2> QED BY <2>1, <2>2, <2>3
<1>5. CASE phase' = "stopped" /\ UNCHANGED <<i, node, nodes>>
      BY <1>1, <1>5 DEF FilesInv, Sizes, Mounts, LastMade
<1>6. CASE /\ nodes' = AddNode(Parent.all, Parent.at, New) /\ node' = Len(Parent.all) + 1
           /\ i' = i + 1 /\ UNCHANGED phase
    <2>1. /\ New \in Node /\ New.list = <<>> /\ New.name # "/"
          /\ New.read = "ram" => New.inode = i + 1
        <3> DEFINE c == Last(path(Header.name))
                   k == i + 1
        <3>1. c \in Name /\ c # "/" /\ k \in Nat /\ New = NewOf(Header, c, k)
              BY <1>1, <1>2, CleanIs DEF New
        <3> HIDE DEF c, k
        <3>2. /\ NewOf(Header, c, k) \in Node /\ NewOf(Header, c, k).list = <<>> /\ NewOf(Header, c, k).name = c
              /\ Header.type = "file" => NewOf(Header, c, k).inode = k
              /\ Header.type # "file" => NewOf(Header, c, k).read = "none"
              BY <3>1, NewOfIs
        <3>3. New.read = "ram" => New.inode = k
              BY <3>1, <3>2
        <3> QED BY <3>1, <3>2, <3>3 DEF k
    <2>2. /\ Grown(nodes, nodes') /\ Len(nodes') = Len(Parent.all) + 1 /\ nodes'[Len(nodes')] = New
          /\ \A n \in Len(nodes) + 1 .. Len(nodes') - 1 : nodes'[n].read = "none" /\ nodes'[n].name # "/"
          BY <1>1, <1>2, <1>6, <2>1, AddGrows
    <2>3. /\ IsTree(nodes') /\ Ordered(nodes') /\ Apart(nodes') /\ Len(nodes') >= Len(nodes)
          /\ \A n \in 1 .. Len(nodes) : Alike(nodes'[n], nodes[n])
          BY <2>2 DEF Grown
    <2>4. Devices(nodes') /\ Mount(nodes') /\ nodes'[ROOT].list = <<DEV>> /\ Len(nodes') \in Nat
          BY <1>4, <2>2
    <2>5. NodeInv(nodes', disk)
        <3>1. \A n \in Len(nodes) + 1 .. Len(nodes') :
                 nodes'[n].name # "/" /\ (nodes'[n].read = "ram" => nodes'[n].inode \in 1 .. Len(disk.entries))
            <4> TAKE n \in Len(nodes) + 1 .. Len(nodes')
            <4>1. CASE n = Len(nodes')
                  BY <1>2, <2>1, <2>2, <4>1
            <4>2. CASE n # Len(nodes')
                <5>1. n \in Len(nodes) + 1 .. Len(nodes') - 1
                      BY <1>1, <2>4, <4>2
                <5> QED BY <2>2, <5>1
            <4> QED BY <4>1, <4>2
        <3> QED BY <1>1, <2>3, <3>1, NodeInvStays
    <2>6. node' = Len(nodes') /\ node' \in NodeOf(nodes') /\ node' >= RAM /\ node' # NULL
          BY <1>1, <1>3, <1>6, <2>2, <2>3, <2>4 DEF NodeOf, NULL
    <2>7. LastMade'
          BY <2>4, <2>6 DEF LastMade
    <2>8. Sizes' /\ Mounts' /\ Len(nodes') >= ROOT /\ i' \in 0 .. files'
        <3>1. phase' = phase /\ phase = "build"
              BY <1>1, <1>6
        <3>2. Sizes'
              BY <1>1, <1>3, <2>3, <2>4, <3>1 DEF Sizes, Mount
        <3>3. Mounts'
              BY <1>1, <1>3, <2>3, <2>4, <3>1 DEF Mounts
        <3>4. Len(nodes') >= ROOT
              BY <1>1, <2>3, <2>4 DEF ROOT
        <3>5. i' \in 0 .. files'
              BY <1>1, <1>3, <1>6
        <3> QED BY <3>2, <3>3, <3>4, <3>5
    <2> QED BY <1>1, <1>6, <2>3, <2>5, <2>6, <2>7, <2>8 DEF FilesInv
<1>7. CASE /\ node # NULL /\ nodes' = [Parent.all EXCEPT ![Parent.at].list = Append(@, node)]
           /\ i' = i + 1 /\ UNCHANGED <<phase, node>>
    <2>1. node \in RAM .. Len(nodes) /\ \A n \in RAM .. Len(nodes) : nodes[n].read # "none" => n <= node
          BY <1>1, <1>3, <1>7 DEF FilesInv, NodeOf, LastMade
    <2>2. /\ Grown(nodes, nodes')
          /\ \A n \in Len(nodes) + 1 .. Len(nodes') : nodes'[n].read = "none" /\ nodes'[n].name # "/"
        <3> DEFINE all == [Parent.all EXCEPT ![Parent.at].list = Append(@, node)]
        <3>1. Grown(nodes, all) /\ \A n \in Len(nodes) + 1 .. Len(all) : all[n].read = "none" /\ all[n].name # "/"
              BY <1>1, <1>2, <2>1, AgainGrows, ZenonT(30)
        <3>2. nodes' = all
              BY <1>7
        <3> HIDE DEF all
        <3> QED BY <3>1, <3>2
    <2>3. /\ IsTree(nodes') /\ Ordered(nodes') /\ Apart(nodes') /\ Len(nodes') >= Len(nodes)
          /\ \A n \in 1 .. Len(nodes) : Alike(nodes'[n], nodes[n])
          BY <2>2 DEF Grown
    <2>4. Devices(nodes') /\ Mount(nodes') /\ nodes'[ROOT].list = <<DEV>> /\ Len(nodes') \in Nat
          BY <1>4, <2>2
    <2>5. NodeInv(nodes', disk)
          BY <1>1, <2>2, <2>3, NodeInvStays
    <2>6. node' \in NodeOf(nodes') /\ node' >= RAM /\ node' # NULL
          BY <1>1, <1>3, <1>7, <2>1, <2>3, <2>4 DEF NodeOf, NULL
    <2>7. LastMade'
        <3> SUFFICES ASSUME NEW n \in RAM .. Len(nodes'), nodes'[n].read # "none" PROVE n <= node
            BY <1>7 DEF LastMade
        <3>1. n \in RAM .. Len(nodes) /\ n \in 1 .. Len(nodes)
            <4>1. n \notin Len(nodes) + 1 .. Len(nodes')
                  BY <2>2
            <4> QED BY <1>1, <1>3, <2>4, <4>1
        <3> QED BY <2>1, <2>3, <3>1 DEF Alike
    <2>8. Sizes' /\ Mounts' /\ Len(nodes') >= ROOT /\ i' \in 0 .. files'
        <3>1. phase' = phase /\ phase = "build"
              BY <1>1, <1>7
        <3>2. Sizes'
              BY <1>1, <1>3, <2>3, <2>4, <3>1 DEF Sizes, Mount
        <3>3. Mounts'
              BY <1>1, <1>3, <2>3, <2>4, <3>1 DEF Mounts
        <3>4. Len(nodes') >= ROOT
              BY <1>1, <2>3, <2>4 DEF ROOT
        <3>5. i' \in 0 .. files'
              BY <1>1, <1>3, <1>7
        <3> QED BY <3>2, <3>3, <3>4, <3>5
    <2> QED BY <1>1, <1>7, <2>3, <2>5, <2>6, <2>7, <2>8 DEF FilesInv
<1> QED BY <1>5, <1>6, <1>7, AddCases

\* The boot keeps FilesInv.
LEMMA FilesStep == FilesInv /\ FNext => FilesInv'
  BY RootStep, SerialStep, ParseStep, RamRootStep, AddStep, RegisterStep DEF FNext

\* The boot is over.
LEMMA FilesRest == ASSUME FilesInv, UNCHANGED boot, phase \in {"up", "gui"}, phase' \in {"gui", "stopped"} PROVE FilesInv'
  BY DEF FilesInv, Sizes, Mounts, LastMade, boot, disk

\* find gives a node, or NULL.
LEMMA FindIs ==
    ASSUME IsTree(nodes), Len(nodes) >= 1, NEW name \in Seq(Name)
    PROVE  find(name) \in NodeOf(nodes)
<1>1. path(name) \in Seq(Name) /\ ROOT \in NodeOf(nodes)
    <2>1. path(name) \in Seq(Clean) /\ Len(nodes) \in Nat
          BY PathIs, TreeIs DEF Paths
    <2>2. \A q \in Seq(Clean) : q \in Seq(Name)
          BY DEF Clean
    <2> QED BY <2>1, <2>2 DEF NodeOf, ROOT
<1>2. NoName \in Name
      BY DEF Name
<1>3. Reached(nodes, ROOT, path(name)) \in NodeOf(nodes)
    <2> DEFINE q == path(name)
    <2> HIDE DEF q
    <2> QED BY <1>1, <1>2, ReachAppend DEF q
<1> QED BY <1>1, <1>3, FindReached

\* The boot of the file system ends before the GUI's.
LEMMA BootStep ==
    ASSUME FNext
    PROVE  /\ phase \in {"start", "serial", "parse", "parsed", "build"}
           /\ phase' \in {"serial", "parse", "parsed", "build", "up", "stopped"}
<1>1. CASE fs_root \/ serial \/ tar_parse_end \/ ramfs_root \/ ramfs_register
      BY <1>1 DEF fs_root, serial, tar_parse_end, ramfs_root, ramfs_register
<1>2. CASE tar_parse
      BY <1>2 DEF tar_parse
<1>3. CASE ramfs_add
    <2>1. phase = "build" /\ (phase' = "stopped" \/ phase' = phase)
          BY <1>3 DEF ramfs_add
    <2> QED BY <2>1
<1> QED BY <1>1, <1>2, <1>3 DEF FNext

-----------------------------------------------------------------------------
(* What tar_parse counts.                                                   *)

\* The digits of a size give a number.
LEMMA OctalIs == ASSUME NEW in \in Seq(0 .. 7) PROVE Octal(in) \in Nat
<1> DEFINE B == 0 .. 7
           q == in
           n == Len(q)
           Add(size, digit) == size * 8 + digit
           f == [x \in Nat \X B |-> Add(x[1], x[2])]
           base == 0
           P == [k \in 0 .. n |-> Nat]
           Is(w) == w = [s \in SUBSET DOMAIN q |-> IF s = {} THEN base ELSE Add(w[s \ {Max(s)}], q[Max(s)])]
           it == CHOOSE w : Is(w)
<1>1. Octal(in) = it[DOMAIN q]
      BY DEF Octal, FoldLeft, MapThenFoldSet
<1>2. q \in Seq(B)
      OBVIOUS
<1> HIDE DEF q
<1>3. n \in Nat /\ DOMAIN q = 1 .. n /\ \A k \in 1 .. n : q[k] \in B
      BY <1>2
<1> HIDE DEF n
<1>4. ASSUME NEW p \in Nat, NEW digit \in B PROVE Add(p, digit) \in Nat
      OBVIOUS
<1> HIDE DEF B, Add
<1>5. f \in [Nat \X B -> Nat] /\ \A p \in Nat, c \in B : f[<<p, c>>] = Add(p, c)
      BY <1>4
<1>6. base \in Nat
      OBVIOUS
<1> HIDE DEF f, base
<1>7. PICK w \in [SUBSET (1 .. n) -> Nat] : Folds(w, n, f, base, q)
      BY <1>3, <1>5, <1>6, FoldExists
<1>8. Is(w)
    <2>1. ASSUME NEW s \in SUBSET (1 .. n)
          PROVE  w[s] = IF s = {} THEN base ELSE Add(w[s \ {Max(s)}], q[Max(s)])
        <3>1. s # {} => Max(s) \in s
              BY <1>3, HighestIn, MaxIsHighest
        <3>2. s # {} => w[s \ {Max(s)}] \in Nat /\ q[Max(s)] \in B
              BY <1>3, <1>7, <3>1
        <3> QED BY <1>5, <1>7, <3>2, MaxIsHighest DEF Folds
    <2> QED BY <1>3, <1>7, <2>1
<1>9. Is(it)
      BY <1>8
<1> HIDE DEF it
<1>10. FoldsFromTo(it, n, f, base, q, P)
    <2>1. it[{}] = base
          BY <1>9
    <2>2. ASSUME NEW k \in 0 .. n - 1, it[1 .. k] \in P[k] PROVE it[1 .. k + 1] = f[<<it[1 .. k], q[k + 1]>>]
        <3>1. k \in Nat /\ k + 1 \in 1 .. n /\ k \in 0 .. n /\ 1 .. k + 1 \in SUBSET (1 .. n)
              BY <1>3
        <3>2. Max(1 .. k + 1) = k + 1 /\ (1 .. k + 1) \ {k + 1} = 1 .. k /\ 1 .. k + 1 # {}
              BY <3>1, HighestOfPrefix, MaxIsHighest
        <3>3. it[1 .. k + 1] = Add(it[1 .. k], q[k + 1])
              BY <1>3, <1>9, <3>1, <3>2
        <3>4. it[1 .. k] \in Nat /\ q[k + 1] \in B
              BY <1>3, <2>2, <3>1
        <3> QED BY <1>5, <3>3, <3>4
    <2> QED BY <2>1, <2>2 DEF FoldsFromTo
<1>11. base \in P[0] /\ \A k \in 0 .. n - 1 : \A x \in P[k] : f[<<x, q[k + 1]>>] \in P[k + 1]
    <2>1. ASSUME NEW k \in 0 .. n - 1 PROVE k + 1 \in 1 .. n /\ k \in 0 .. n /\ k + 1 \in 0 .. n
          BY <1>3
    <2>2. \A k \in 0 .. n : P[k] = Nat
          OBVIOUS
    <2>3. 0 \in 0 .. n
          BY <1>3
    <2> HIDE DEF P
    <2>4. ASSUME NEW k \in 0 .. n - 1, NEW x \in P[k] PROVE f[<<x, q[k + 1]>>] \in P[k + 1]
        <3>1. P[k] = Nat /\ P[k + 1] = Nat /\ q[k + 1] \in B
              BY <1>3, <2>1, <2>2
        <3> QED BY <1>5, <2>4, <3>1
    <2> QED BY <1>6, <2>2, <2>3, <2>4
<1> HIDE DEF P
<1>12. it[1 .. n] \in P[n]
      BY <1>3, <1>10, <1>11, PrefixFold
<1> QED BY <1>1, <1>3, <1>12 DEF P

\* A fold of + gives the sum.
LEMMA FoldSum ==
    ASSUME NEW top \in Nat, NEW c \in [1 .. top -> Nat], NEW S, SumsTo(S, top, c), NEW n \in 0 .. top
    PROVE  FoldLeft(+, 0, [j \in 1 .. n |-> c[j]]) = S[n]
<1> DEFINE q == [j \in 1 .. n |-> c[j]]
           Add(a, b) == a + b
           f == [x \in Nat \X Nat |-> Add(x[1], x[2])]
           base == 0
           P == [k \in 0 .. n |-> {S[k]}]
           Is(w) == w = [s \in SUBSET DOMAIN q |-> IF s = {} THEN base ELSE Add(w[s \ {Max(s)}], q[Max(s)])]
           it == CHOOSE w : Is(w)
<1>1. FoldLeft(+, 0, q) = it[DOMAIN q]
      BY DEF FoldLeft, MapThenFoldSet
<1>3. n \in Nat /\ DOMAIN q = 1 .. n /\ \A k \in 1 .. n : q[k] \in Nat
      OBVIOUS
<1>2. \A k \in 0 .. n - 1 : q[k + 1] = c[k + 1] /\ k \in 0 .. top - 1
      BY <1>3
<1>3a. \A k \in 0 .. n : S[k] \in Nat
      BY <1>3 DEF SumsTo
<1>3b. S[0] = 0 /\ \A k \in 0 .. n - 1 : S[k + 1] = S[k] + q[k + 1]
      BY <1>2 DEF SumsTo
<1> HIDE DEF q
<1>4. ASSUME NEW a \in Nat, NEW b \in Nat PROVE Add(a, b) \in Nat
      OBVIOUS
<1>4a. \A a, b \in Nat : Add(a, b) = a + b
      OBVIOUS
<1> HIDE DEF Add
<1>5. f \in [Nat \X Nat -> Nat] /\ \A a, b \in Nat : f[<<a, b>>] = Add(a, b)
      BY <1>4
<1>6. base \in Nat
      OBVIOUS
<1> HIDE DEF f
<1>7. PICK w \in [SUBSET (1 .. n) -> Nat] : Folds(w, n, f, base, q)
      BY <1>3, <1>5, <1>6, FoldExists
<1>8. Is(w)
    <2>1. ASSUME NEW s \in SUBSET (1 .. n)
          PROVE  w[s] = IF s = {} THEN base ELSE Add(w[s \ {Max(s)}], q[Max(s)])
        <3>1. s # {} => Max(s) \in s
              BY <1>3, HighestIn, MaxIsHighest
        <3>2. s # {} => w[s \ {Max(s)}] \in Nat /\ q[Max(s)] \in Nat
              BY <1>3, <1>7, <3>1
        <3> QED BY <1>5, <1>7, <3>2, MaxIsHighest DEF Folds
    <2> QED BY <1>3, <1>7, <2>1
<1>9. Is(it)
      BY <1>8
<1> HIDE DEF it
<1>10. FoldsFromTo(it, n, f, base, q, P)
    <2>1. it[{}] = base
          BY <1>9
    <2>2. ASSUME NEW k \in 0 .. n - 1, it[1 .. k] \in P[k] PROVE it[1 .. k + 1] = f[<<it[1 .. k], q[k + 1]>>]
        <3>1. k \in Nat /\ k + 1 \in 1 .. n /\ k \in 0 .. n /\ 1 .. k + 1 \in SUBSET (1 .. n)
              BY <1>3
        <3>2. Max(1 .. k + 1) = k + 1 /\ (1 .. k + 1) \ {k + 1} = 1 .. k /\ 1 .. k + 1 # {}
              BY <3>1, HighestOfPrefix, MaxIsHighest
        <3>3. it[1 .. k + 1] = Add(it[1 .. k], q[k + 1])
              BY <1>3, <1>9, <3>1, <3>2
        <3>4. it[1 .. k] \in Nat /\ q[k + 1] \in Nat
              BY <1>3, <1>3a, <2>2, <3>1
        <3> QED BY <1>5, <3>3, <3>4
    <2> QED BY <2>1, <2>2 DEF FoldsFromTo
<1>11. base \in P[0] /\ \A k \in 0 .. n - 1 : \A x \in P[k] : f[<<x, q[k + 1]>>] \in P[k + 1]
    <2>1. \A k \in 0 .. n : P[k] = {S[k]}
          OBVIOUS
    <2>2. 0 \in 0 .. n
          BY <1>3
    <2> HIDE DEF P
    <2>3. ASSUME NEW k \in 0 .. n - 1, NEW x \in P[k] PROVE f[<<x, q[k + 1]>>] \in P[k + 1]
        <3>1. k + 1 \in 1 .. n /\ k \in 0 .. n /\ k + 1 \in 0 .. n
              BY <1>3
        <3>2. x = S[k] /\ x \in Nat /\ q[k + 1] \in Nat
              BY <1>3, <1>3a, <2>1, <2>3, <3>1
        <3>3. f[<<x, q[k + 1]>>] = x + q[k + 1]
              BY <1>4a, <1>5, <3>2
        <3>4. f[<<x, q[k + 1]>>] = S[k + 1]
              BY <1>3b, <3>2, <3>3
        <3> QED BY <2>1, <3>1, <3>4
    <2> QED BY <1>3b, <2>1, <2>2, <2>3
<1> HIDE DEF P
<1>12. it[1 .. n] \in P[n]
      BY <1>3, <1>10, <1>11, PrefixFold
<1>13. it[1 .. n] = S[n]
      BY <1>3, <1>12 DEF P
<1> QED BY <1>1, <1>3, <1>13 DEF q

-----------------------------------------------------------------------------
(* Headers.                                                                 *)

\* What a header and its data take of the archive, and where they end.
Room(d, k) == Block * (1 + ((Octal(d.entries[k].size) + Block - 1) \div Block))
EndsAt(d, k) == FoldLeft(+, 0, [j \in 1 .. k |-> Room(d, j)])

LEMMA EndsAtEndOf == \A d, k : EndOf(d, k) = EndsAt(d, k)
  BY DEF EndOf, EndsAt, Room

\* The next header is behind the whole blocks of this one and its data.
LEMMA RoomIs ==
    ASSUME NEW m \in DOMAIN Disks, NEW k \in 1 .. Len(Disks[m].entries), NEW from \in Nat
    PROVE  /\ Room(Disks[m], k) \in Nat /\ Room(Disks[m], k) >= 1
           /\ Octal(Disks[m].entries[k].size) \in 0 .. Room(Disks[m], k)
           /\ Behind(from, Octal(Disks[m].entries[k].size)) = from + Room(Disks[m], k)
<1> DEFINE d == Disks[m].entries
           size == Octal(d[k].size)
           u == (size + Block - 1) \div Block
           up == IF size % Block # 0 THEN Block ELSE 0
<1>1. d \in Seq(Range(d)) /\ \A h \in Range(d) : h.size \in Seq(0 .. 7)
      BY FilesAssumption
<1>2. d[k].size \in Seq(0 .. 7)
    <2> HIDE DEF d
    <2>1. k \in 1 .. Len(d)
          BY DEF d
    <2>2. d[k] \in Range(d)
          BY <1>1, <2>1
    <2> QED BY <1>1, <2>2
<1>3. size \in Nat
      BY <1>2, OctalIs
<1>4. Block \in Nat \ {0}
      BY FilesAssumption
<1>5. /\ Room(Disks[m], k) = Block * (1 + u)
      /\ Behind(from, size) = from + (size \div Block + 1) * Block + up
      BY DEF Room, Behind
<1> HIDE DEF size
<1>6. u \in Nat /\ (size \div Block + 1) * Block + up = Block * (1 + u)
      BY <1>3, <1>4, RoundUp
<1>7. size \div Block \in Nat
      BY <1>3, <1>4, DivIs
<1> DEFINE v == size \div Block
<1> HIDE DEF u, v
<1>8. (v + 1) * Block \in Nat /\ up \in Nat /\ Block * (1 + u) \in Nat /\ Block * (1 + u) >= 1
    <2>1. Block * (1 + u) = Block * u + Block /\ Block * u \in Nat
          BY <1>4, <1>6
    <2> QED BY <1>4, <1>6, <1>7, <2>1 DEF v
<1> HIDE DEF up
<1>9. from + (v + 1) * Block + up = from + Block * (1 + u)
    <2> DEFINE x == (v + 1) * Block
               y == Block * (1 + u)
    <2>1. x \in Nat /\ y \in Nat /\ up \in Nat /\ x + up = y
          BY <1>6, <1>8 DEF v
    <2> HIDE DEF x, y
    <2>2. from + x + up = from + y
          BY <2>1
    <2> QED BY <2>2 DEF x, y
<1>10. size <= Block * (1 + u)
    <2>1. size % Block \in 0 .. Block - 1 /\ size = Block * v + (size % Block)
          BY <1>3, <1>4, DivIs DEF v
    <2>2. (v + 1) * Block = Block * v + Block /\ Block * v \in Nat
          BY <1>4, <1>7 DEF v
    <2>3. (v + 1) * Block + up = Block * (1 + u)
          BY <1>6 DEF v
    <2> DEFINE a == Block * v
               b == Block * (1 + u)
               c == (v + 1) * Block
               e == size % Block
    <2>4. e \in 0 .. Block - 1 /\ size = a + e /\ c = a + Block /\ c + up = b /\ a \in Nat /\ b \in Nat
          BY <1>8, <2>1, <2>2, <2>3
    <2> HIDE DEF a, b, c, e
    <2>5. size <= b
          BY <1>3, <1>4, <1>8, <2>4
    <2> QED BY <2>5 DEF b
<1> QED BY <1>3, <1>5, <1>8, <1>9, <1>10 DEF size, v

\* tar_parse finds it there, unless that address takes more bits than there are.
LEMMA NextIs ==
    ASSUME NEW m \in DOMAIN Disks, NEW k \in 1 .. Len(Disks[m].entries), NEW from \in Nat
    PROVE  LET in == Disks[m].entries[k].size
               next == NextHeader(from, tar_getsize(in))
           IN  /\ Behind(from, Octal(in)) = from + Room(Disks[m], k)
               /\ next # Behind(from, Octal(in)) => from + Room(Disks[m], k) >= Word
<1> DEFINE in == Disks[m].entries[k].size
           room == Room(Disks[m], k)
           size == Octal(in)
           to == from + room
           next == NextHeader(from, tar_getsize(in))
<1>1. room \in Nat /\ size \in 0 .. room /\ Behind(from, size) = to
      BY RoomIs
<1>2. Word \in Nat \ {0}
      BY FilesAssumption
<1>3. tar_getsize(in) = size % Word /\ next = Behind(from, tar_getsize(in)) % Word
      BY DEF tar_getsize, NextHeader
<1>4. CASE to < Word
    <2>1. size \in Nat /\ size < Word /\ to \in Nat
        <3> HIDE DEF room, size
        <3> QED BY <1>1, <1>2, <1>4
    <2> HIDE DEF size, to, next
    <2>2. size % Word = size /\ to % Word = to
          BY <1>2, <1>4, <2>1
    <2>3. next = to
          BY <1>1, <1>3, <2>2
    <2> QED BY <1>1, <2>3 DEF size, to, next
<1>5. CASE ~(to < Word)
    <2>1. to >= Word
        <3> HIDE DEF room
        <3> QED BY <1>1, <1>2, <1>5
    <2> QED BY <1>1, <2>1
<1> QED BY <1>4, <1>5

\* Where headers end is a sum, a header at a time.
LEMMA EndsAtIs ==
    ASSUME NEW m \in DOMAIN Disks
    PROVE  LET d == Disks[m]
               n == Len(d.entries)
           IN  /\ \A k \in 0 .. n : EndsAt(d, k) \in Nat
               /\ EndsAt(d, 0) = 0
               /\ \A k \in 0 .. n - 1 : EndsAt(d, k + 1) = EndsAt(d, k) + Room(d, k + 1)
<1> DEFINE d == Disks[m]
           n == Len(d.entries)
           c == [k \in 1 .. n |-> Room(d, k)]
<1>1. n \in Nat
      BY Constants
<1>2. \A k \in 1 .. n : Room(d, k) \in Nat
      BY <1>1, RoomIs, 0 \in Nat
<1> HIDE DEF n
<1>3. c \in [1 .. n -> Nat]
      BY <1>2
<1>4. \A k \in 1 .. n : c[k] = Room(d, k)
      OBVIOUS
<1> HIDE DEF c, d
<1>5. PICK S : SumsTo(S, n, c)
      BY <1>1, <1>3, SumsExist
<1>6. ASSUME NEW k \in 0 .. n PROVE EndsAt(d, k) = S[k]
    <2>1. \A j \in 1 .. k : j \in 1 .. n
          BY <1>1
    <2>2. [j \in 1 .. k |-> Room(d, j)] = [j \in 1 .. k |-> c[j]]
          BY <1>4, <2>1
    <2>3. FoldLeft(+, 0, [j \in 1 .. k |-> c[j]]) = S[k]
          BY <1>1, <1>3, <1>5, FoldSum
    <2> QED BY <2>2, <2>3 DEF EndsAt
<1>7. ASSUME NEW k \in 0 .. n - 1 PROVE EndsAt(d, k + 1) = EndsAt(d, k) + Room(d, k + 1)
    <2>1. k \in 0 .. n /\ k + 1 \in 0 .. n /\ k + 1 \in 1 .. n
          BY <1>1
    <2> QED BY <1>4, <1>5, <1>6, <2>1 DEF SumsTo
<1>8. EndsAt(d, 0) = 0 /\ \A k \in 0 .. n : EndsAt(d, k) \in Nat
    <2>1. 0 \in 0 .. n
          BY <1>1
    <2> QED BY <1>5, <1>6, <2>1 DEF SumsTo
<1> QED BY <1>7, <1>8 DEF d, n

\* Later headers end later.
LEMMA EndsGrow ==
    ASSUME NEW m \in DOMAIN Disks, NEW j \in 0 .. Len(Disks[m].entries),
           NEW k \in j .. Len(Disks[m].entries)
    PROVE  EndsAt(Disks[m], j) <= EndsAt(Disks[m], k)
<1> DEFINE d == Disks[m]
           n == Len(d.entries)
           T == {l \in j .. n : EndsAt(d, j) <= EndsAt(d, l)}
<1>1. n \in Nat /\ j \in Nat
      BY Constants
<1>2. /\ \A l \in 0 .. n : EndsAt(d, l) \in Nat
      /\ \A l \in 0 .. n - 1 : EndsAt(d, l + 1) = EndsAt(d, l) + Room(d, l + 1)
      BY EndsAtIs
<1>3. \A l \in 1 .. n : Room(d, l) \in Nat
      BY RoomIs, 0 \in Nat
<1>4. j \in 0 .. n /\ k \in j .. n
      OBVIOUS
<1> HIDE DEF d, n
<1>5. j \in T
      BY <1>1, <1>2, <1>4
<1>6. ASSUME NEW l \in j .. n - 1, l \in T PROVE l + 1 \in T
    <2>1. l + 1 \in j .. n /\ l + 1 \in 1 .. n /\ l \in 0 .. n - 1 /\ l \in 0 .. n
          BY <1>1
    <2>2. EndsAt(d, l + 1) = EndsAt(d, l) + Room(d, l + 1) /\ EndsAt(d, l) \in Nat /\ Room(d, l + 1) \in Nat
          /\ EndsAt(d, j) \in Nat /\ EndsAt(d, j) <= EndsAt(d, l)
          BY <1>2, <1>3, <1>4, <1>6, <2>1
    <2>3. EndsAt(d, j) <= EndsAt(d, l + 1)
          BY <2>2
    <2> QED BY <2>1, <2>3
<1> HIDE DEF T
<1>7. \A l \in j .. n : l \in T
      BY <1>1, <1>5, <1>6, SetInduction
<1>8. k \in T
      BY <1>4, <1>7
<1> QED BY <1>8 DEF T, d

\* The headers counted so far are those of whole files.
Fit == files >= 1 => EndsAt(disk, files) <= disk.end

\* The module ends with its last file.
Tight == EndsAt(disk, Len(disk.entries)) = disk.end

\* tar_parse stands behind the data of the headers it has counted, which end
\* inside the module; when it stops there are no more, or the next one's do not,
\* or 32 bits do not hold where it ends.
ParseInv ==
    /\ phase \in {"start", "serial"} => files = 0
    /\ phase \in {"start", "serial", "parse"} => address = Start + EndsAt(disk, files) /\ Fit
    /\ phase \in {"parsed", "build", "up"} /\ disk.end > 0 =>
          \/ Wraps(disk)
          \/ Fit /\ (files = Len(disk.entries) \/ EndsAt(disk, files + 1) > disk.end)

\* Nothing is counted yet.
LEMMA InitParse == FInit => ParseInv
<1> SUFFICES ASSUME FInit PROVE ParseInv
    OBVIOUS
<1>1. module \in DOMAIN Disks /\ files = 0 /\ address = Start /\ phase = "start" /\ Start \in Nat
      BY FilesAssumption DEF FInit
<1>2. EndsAt(disk, 0) = 0
      BY <1>1, EndsAtIs DEF disk
<1> QED BY <1>1, <1>2 DEF ParseInv, Fit

\* A turn of tar_parse, at a header whose data ends at to.
LEMMA ParseTurn ==
    ASSUME FilesInv, ParseInv, tar_parse
    PROVE  LET to == EndsAt(disk, files + 1)
           IN  /\ phase = "parse" /\ files < Len(disk.entries) /\ UNCHANGED module
               /\ to \in Nat /\ Fit
               /\ \/ /\ files >= MaxHeaders /\ phase' = "stopped" /\ harm' = harm \cup {"headers"}
                  \/ /\ to > disk.end \/ Wraps(disk)
                     /\ phase' = "parsed" /\ harm' = harm
                     /\ files' = files \/ Wraps(disk)
                  \/ /\ to <= disk.end /\ files' = files + 1 /\ address' = Start + to
                     /\ phase' = "parse" /\ harm' = harm
                  \/ Wraps(disk) /\ phase' = "stopped" /\ harm' = harm \cup {"wrap"}
<1> DEFINE n == Len(disk.entries)
           in == disk.entries[files + 1].size
           next == NextHeader(address, tar_getsize(in))
           to == EndsAt(disk, files + 1)
           astray == next # Behind(address, Octal(in))
<1>1. /\ phase = "parse" /\ files < n /\ UNCHANGED module
      /\ \/ files >= MaxHeaders /\ phase' = "stopped" /\ harm' = harm \cup {"headers"}
         \/ next > Start + disk.end /\ phase' = "parsed" /\ UNCHANGED <<files, harm>>
         \/ /\ next <= Start + disk.end /\ files' = files + 1 /\ address' = next
            /\ \/ ~astray /\ UNCHANGED <<phase, harm>>
               \/ astray /\ phase' = "parsed" /\ UNCHANGED harm
               \/ astray /\ phase' = "stopped" /\ harm' = harm \cup {"wrap"}
      BY DEF tar_parse
<1>2. module \in DOMAIN Disks /\ files \in 0 .. n /\ n \in Nat /\ DOMAIN disk.entries = 1 .. n
      BY Constants, FilesAssumption DEF FilesInv, disk
<1>3. files + 1 \in 1 .. n /\ files \in 0 .. n - 1
      BY <1>1, <1>2
<1>4. /\ address = Start + EndsAt(disk, files) /\ EndsAt(disk, files) \in Nat /\ disk.end \in Nat
      /\ Start \in Nat /\ Fit
      BY <1>1, <1>2, EndsAtIs, FilesAssumption DEF ParseInv, disk
<1>5. to = EndsAt(disk, files) + Room(disk, files + 1) /\ Room(disk, files + 1) \in Nat
      BY <1>2, <1>3, <1>4, EndsAtIs, RoomIs DEF disk
<1>6. /\ Behind(address, Octal(in)) = address + Room(disk, files + 1)
      /\ astray => address + Room(disk, files + 1) >= Word
    <2>1. address \in Nat
          BY <1>4
    <2> QED BY <1>2, <1>3, <2>1, NextIs DEF disk
<1> HIDE DEF n, in, next, to, astray
<1>7. to \in Nat /\ address + Room(disk, files + 1) = Start + to
      BY <1>4, <1>5
<1>8. astray => Wraps(disk)
    <2> SUFFICES ASSUME astray PROVE Wraps(disk)
        OBVIOUS
    <2>1. Start + to >= Word
          BY <1>6, <1>7
    <2>2. files + 1 = 1 \/ (files + 1) - 1 \in WholeHeaders(disk)
        <3>1. CASE files = 0
              BY <3>1
        <3>2. CASE files # 0
            <4>1. files \in 1 .. n /\ files >= 1 /\ (files + 1) - 1 = files
                  BY <1>2, <3>2
            <4>2. EndOf(disk, files) <= disk.end
                  BY <1>4, <4>1, EndsAtEndOf DEF Fit
            <4> QED BY <1>2, <4>1, <4>2 DEF WholeHeaders
        <3> QED BY <3>1, <3>2
    <2>3. Start + EndOf(disk, files + 1) >= Word
          BY <2>1, EndsAtEndOf DEF to
    <2> QED BY <1>2, <1>3, <2>2, <2>3 DEF Wraps
<1>9. ~astray => next = Start + to
      BY <1>6, <1>7 DEF astray
<1>10. \/ files >= MaxHeaders /\ phase' = "stopped" /\ harm' = harm \cup {"headers"}
       \/ /\ to > disk.end \/ Wraps(disk)
          /\ phase' = "parsed" /\ harm' = harm
          /\ files' = files \/ Wraps(disk)
       \/ /\ to <= disk.end /\ files' = files + 1 /\ address' = Start + to
          /\ phase' = "parse" /\ harm' = harm
       \/ Wraps(disk) /\ phase' = "stopped" /\ harm' = harm \cup {"wrap"}
    <2>1. CASE astray
          BY <1>1, <1>8, <2>1
    <2>2. CASE ~astray
        <3>1. next > Start + disk.end <=> to > disk.end
              BY <1>4, <1>7, <1>9, <2>2
        <3>2. next <= Start + disk.end <=> to <= disk.end
              BY <1>4, <1>7, <1>9, <2>2
        <3> QED BY <1>1, <1>9, <2>2, <3>1, <3>2
    <2> QED BY <2>1, <2>2
<1> QED BY <1>1, <1>4, <1>7, <1>10 DEF to, n

\* A header is counted when its data ends inside the module.
LEMMA ParseCounts == ASSUME FilesInv, ParseInv, tar_parse PROVE ParseInv'
<1> DEFINE to == EndsAt(disk, files + 1)
<1>1. /\ phase = "parse" /\ UNCHANGED module /\ to \in Nat /\ Fit
      /\ \/ phase' = "stopped"
         \/ /\ to > disk.end \/ Wraps(disk)
            /\ phase' = "parsed"
            /\ files' = files \/ Wraps(disk)
         \/ to <= disk.end /\ files' = files + 1 /\ address' = Start + to /\ phase' = "parse"
      BY ParseTurn
<1>2. disk' = disk
      BY <1>1 DEF disk
<1>3. Wraps(disk)' <=> Wraps(disk)
      BY <1>2
<1>4. CASE phase' = "stopped"
      BY <1>4 DEF ParseInv
<1>5. CASE phase' = "parsed" /\ Wraps(disk)
      BY <1>3, <1>5 DEF ParseInv
<1>6. CASE phase' = "parsed" /\ to > disk.end /\ files' = files
      BY <1>1, <1>2, <1>6 DEF ParseInv, Fit
<1>7. CASE to <= disk.end /\ files' = files + 1 /\ address' = Start + to /\ phase' = "parse"
    <2>1. EndsAt(disk, files)' = to
          BY <1>2, <1>7
    <2>2. Fit'
          BY <1>2, <1>7, <2>1 DEF Fit
    <2> HIDE DEF to
    <2> QED BY <1>7, <2>1, <2>2 DEF ParseInv
<1> QED BY <1>1, <1>4, <1>5, <1>6, <1>7

\* Behind the last header there is nothing to count.
LEMMA ParseEnds ==
    ASSUME FilesInv, ParseInv, tar_parse_end
    PROVE  /\ ParseInv'
           /\ \/ phase' = "parsed" /\ harm' = harm
              \/ /\ files = Len(disk.entries) /\ Tight /\ phase' = "stopped"
                 /\ harm' = harm \cup {IF files >= MaxHeaders THEN "headers" ELSE "wrap"}
<1>1. /\ phase = "parse" /\ files = Len(disk.entries) /\ UNCHANGED <<module, files>>
      /\ \/ phase' = "parsed" /\ harm' = harm
         \/ /\ address = Start + disk.end /\ phase' = "stopped"
            /\ harm' = harm \cup {IF files >= MaxHeaders THEN "headers" ELSE "wrap"}
      BY DEF tar_parse_end, boot
<1>2. disk' = disk
      BY <1>1 DEF disk
<1>3. /\ address = Start + EndsAt(disk, files) /\ Fit /\ Start \in Nat /\ disk.end \in Nat
      /\ EndsAt(disk, files) \in Nat
    <2>1. module \in DOMAIN Disks /\ files \in 0 .. Len(disk.entries)
          BY DEF FilesInv
    <2> QED BY <1>1, <2>1, EndsAtIs, FilesAssumption DEF ParseInv, disk
<1>4. ParseInv'
    <2>1. Fit'
          BY <1>1, <1>2, <1>3 DEF Fit
    <2> QED BY <1>1, <1>2, <2>1 DEF ParseInv
<1>5. address = Start + disk.end => Tight
      BY <1>1, <1>3 DEF Tight
<1> QED BY <1>1, <1>4, <1>5

-----------------------------------------------------------------------------
(* What is listed under a path.                                             *)

\* The names of the k-th header of an archive, and the list of what is in p.
SegmentsOf(d, k) == Names(d.entries[k].name)
Filed(d, p, list, k) == IF Front(SegmentsOf(d, k)) = p THEN Append(list, k) ELSE list
Collected(d, p, q) == FoldLeft(LAMBDA list, k : Filed(d, p, list, k), <<>>, q)
UpTo(n) == [k \in 1 .. n |-> k]
ListedIn(d, p, n) == Collected(d, p, UpTo(n))

Filings(d, p) == [z \in Seq(Nat) \X Nat |-> Filed(d, p, z[1], z[2])]

LEMMA FilingsIs ==
    ASSUME NEW d, NEW p
    PROVE  /\ Filings(d, p) \in [Seq(Nat) \X Nat -> Seq(Nat)]
           /\ \A list \in Seq(Nat), k \in Nat : Filings(d, p)[<<list, k>>] = Filed(d, p, list, k)
<1>1. \A list \in Seq(Nat), k \in Nat : Filed(d, p, list, k) \in Seq(Nat)
      BY DEF Filed
<1> QED BY <1>1 DEF Filings

\* How a list comes about.
LEMMA CollectRun ==
    ASSUME NEW d, NEW p, NEW q \in Seq(Nat)
    PROVE  \E S \in [0 .. Len(q) -> Seq(Nat)] :
               Run(S, Len(q), Filings(d, p), <<>>, q) /\ S[Len(q)] = Collected(d, p, q)
<1> DEFINE n == Len(q)
           States == Seq(Nat)
           Inputs == Nat
           base == <<>>
           f == Filings(d, p)
           Is(w) == w = [s \in SUBSET DOMAIN q |-> IF s = {} THEN base ELSE Filed(d, p, w[s \ {Max(s)}], q[Max(s)])]
           it == CHOOSE w : Is(w)
<1>1. Collected(d, p, q) = it[DOMAIN q]
      BY DEF Collected, FoldLeft, MapThenFoldSet
<1>2. n \in Nat /\ DOMAIN q = 1 .. n /\ \A k \in 1 .. n : q[k] \in Inputs
      OBVIOUS
<1> HIDE DEF n
<1>3. f \in [States \X Inputs -> States] /\ \A a \in States, b \in Inputs : f[<<a, b>>] = Filed(d, p, a, b)
      BY FilingsIs
<1>4. base \in States
      OBVIOUS
<1> HIDE DEF base, f, States, Inputs
<1>5. PICK w \in [SUBSET (1 .. n) -> States] : Folds(w, n, f, base, q)
      BY <1>2, <1>3, <1>4, FoldExists
<1>6. Is(w)
    <2>1. ASSUME NEW s \in SUBSET (1 .. n)
          PROVE  w[s] = IF s = {} THEN base ELSE Filed(d, p, w[s \ {Max(s)}], q[Max(s)])
        <3>1. s # {} => Max(s) \in s
              BY <1>2, HighestIn, MaxIsHighest
        <3>2. s # {} => w[s \ {Max(s)}] \in States /\ q[Max(s)] \in Inputs
              BY <1>2, <1>5, <3>1
        <3> QED BY <1>3, <1>5, <3>2, MaxIsHighest DEF Folds
    <2> QED BY <1>2, <1>5, <2>1
<1>7. Is(it)
      BY <1>6
<1> HIDE DEF it
<1>8. it[{}] = base
      BY <1>7
<1>9. ASSUME NEW k \in 0 .. n - 1, it[1 .. k] \in States
      PROVE  it[1 .. k + 1] = f[<<it[1 .. k], q[k + 1]>>]
    <2>1. k \in Nat /\ k + 1 \in 1 .. n /\ 1 .. k + 1 \in SUBSET (1 .. n)
          BY <1>2
    <2>2. Max(1 .. k + 1) = k + 1 /\ (1 .. k + 1) \ {k + 1} = 1 .. k /\ 1 .. k + 1 # {}
          BY <2>1, HighestOfPrefix, MaxIsHighest
    <2>3. it[1 .. k + 1] = Filed(d, p, it[1 .. k], q[k + 1])
          BY <1>2, <1>7, <2>1, <2>2
    <2> QED BY <1>2, <1>3, <1>9, <2>1, <2>3
<1>10. \E S \in [0 .. n -> States] : RunOf(S, it, n, f, base, q)
    <2>1. FoldsIn(it, n, f, base, q, States)
          BY <1>8, <1>9 DEF FoldsIn
    <2> HIDE DEF Is, base
    <2> QED BY <1>2, <1>3, <1>4, <2>1, FoldRun
<1> QED BY <1>1, <1>2, <1>10 DEF RunOf, n, base, f, States

\* One header more.
LEMMA CollectAppend ==
    ASSUME NEW d, NEW p, NEW q \in Seq(Nat), NEW c \in Nat
    PROVE  Collected(d, p, q) \in Seq(Nat) /\ Collected(d, p, Append(q, c)) = Filed(d, p, Collected(d, p, q), c)
<1> DEFINE n == Len(q)
           m == n + 1
           more == Append(q, c)
           base == <<>>
           f == Filings(d, p)
<1>1. more \in Seq(Nat) /\ Len(more) = m /\ n \in Nat /\ more[m] = c /\ \A k \in 1 .. n : q[k] = more[k]
      OBVIOUS
<1>2. m = n + 1 /\ m \in Nat
      BY <1>1
<1> HIDE DEF more, n, m
<1>3. PICK S \in [0 .. n -> Seq(Nat)] : Run(S, n, f, base, q) /\ S[n] = Collected(d, p, q)
      BY CollectRun DEF n
<1>4. PICK T \in [0 .. m -> Seq(Nat)] : Run(T, m, f, base, more) /\ T[m] = Collected(d, p, more)
      BY <1>1, CollectRun
<1> HIDE DEF base, f
<1>5. T[m] = f[<<S[n], more[m]>>]
    <2>1. Same(q, more, n)
          BY <1>1 DEF Same
    <2>2. GoesOn(T, m, S, n, f, more)
          BY <1>1, <1>2, <1>3, <1>4, <2>1, RunAppend
    <2> QED BY <2>2 DEF GoesOn
<1>6. Collected(d, p, q) \in Seq(Nat)
      BY <1>1, <1>3
<1>7. \A a \in Seq(Nat), b \in Nat : f[<<a, b>>] = Filed(d, p, a, b)
      BY FilingsIs DEF f
<1> QED BY <1>1, <1>3, <1>4, <1>5, <1>6, <1>7 DEF more

\* None.
LEMMA CollectEmpty == ASSUME NEW d, NEW p PROVE Collected(d, p, <<>>) = <<>>
<1> DEFINE f == Filings(d, p)
           base == <<>>
<1>1. <<>> \in Seq(Nat) /\ Len(<<>>) = 0
      OBVIOUS
<1>2. PICK S : Run(S, 0, f, base, <<>>) /\ S[0] = Collected(d, p, <<>>)
      BY <1>1, CollectRun
<1> HIDE DEF f, base
<1>3. Collected(d, p, <<>>) = base
      BY <1>2 DEF Run
<1> QED BY <1>3 DEF base


\* The list grows by the headers that are in p.
LEMMA ListedMore ==
    ASSUME NEW d, NEW p, NEW n \in Nat
    PROVE  /\ ListedIn(d, p, n) \in Seq(Nat)
           /\ ListedIn(d, p, 0) = <<>>
           /\ ListedIn(d, p, n + 1) = Filed(d, p, ListedIn(d, p, n), n + 1)
<1> DEFINE m == n + 1
           q == UpTo(n)
           r == UpTo(m)
<1>1. m \in Nat /\ q \in Seq(Nat) /\ Len(q) = n /\ \A k \in 1 .. n : q[k] = k
      BY DEF UpTo
<1>2. r \in Seq(Nat) /\ Len(r) = m /\ \A k \in 1 .. m : r[k] = k
      BY <1>1 DEF UpTo
<1>3. UpTo(0) = <<>>
      BY DEF UpTo
<1> HIDE DEF q, r
<1>4. r = Append(q, m)
    <2> DEFINE s == Append(q, m)
    <2>1. s \in Seq(Nat) /\ Len(s) = n + 1 /\ s[n + 1] = m /\ \A k \in 1 .. n : s[k] = q[k]
          BY <1>1
    <2> HIDE DEF s
    <2>2. \A k \in 1 .. m : r[k] = s[k]
          BY <1>1, <1>2, <2>1
    <2>3. r = s
          BY <1>2, <2>1, <2>2, SeqEqual
    <2> QED BY <2>3 DEF s
<1>5. Collected(d, p, q) \in Seq(Nat) /\ Collected(d, p, r) = Filed(d, p, Collected(d, p, q), m)
      BY <1>1, <1>4, CollectAppend
<1>6. ListedIn(d, p, 0) = <<>>
      BY <1>3, CollectEmpty DEF ListedIn
<1> QED BY <1>5, <1>6 DEF ListedIn, q, r

\* It holds each of them, in their order.
IsListing(d, p, n, list) ==
    /\ list \in Seq(Nat)
    /\ \A k \in 1 .. Len(list) : /\ list[k] \in 1 .. n /\ Front(SegmentsOf(d, list[k])) = p
                                /\ \A j \in 1 .. k - 1 : list[j] < list[k]
    /\ \A c \in 1 .. n : Front(SegmentsOf(d, c)) = p => \E k \in 1 .. Len(list) : list[k] = c

LEMMA ListedIs == ASSUME NEW d, NEW p, NEW n \in Nat PROVE IsListing(d, p, n, ListedIn(d, p, n))
<1> DEFINE T == {m \in 0 .. n : IsListing(d, p, m, ListedIn(d, p, m))}
<1>1. 0 \in T
    <2> DEFINE none == <<>>
    <2>1. none \in Seq(Nat) /\ Len(none) = 0
          OBVIOUS
    <2>2. ListedIn(d, p, 0) = none
          BY ListedMore
    <2> HIDE DEF none
    <2>3. IsListing(d, p, 0, none)
          BY <2>1 DEF IsListing
    <2> QED BY <2>2, <2>3
<1>2. ASSUME NEW m \in 0 .. n - 1, m \in T PROVE m + 1 \in T
    <2> DEFINE list == ListedIn(d, p, m)
               more == ListedIn(d, p, m + 1)
    <2>1. m \in Nat /\ IsListing(d, p, m, list) /\ m + 1 \in 0 .. n
          BY <1>2
    <2>2. more = Filed(d, p, list, m + 1)
          BY <2>1, ListedMore
    <2> HIDE DEF list, more
    <2>3. CASE Front(SegmentsOf(d, m + 1)) = p
        <3>1. list \in Seq(Nat) /\ more = Append(list, m + 1)
              BY <2>1, <2>2, <2>3 DEF IsListing, Filed
        <3>2. /\ more \in Seq(Nat) /\ Len(more) = Len(list) + 1 /\ more[Len(list) + 1] = m + 1 /\ Len(list) \in Nat
              /\ \A k \in 1 .. Len(list) : more[k] = list[k]
              BY <2>1, <3>1
        <3>3. ASSUME NEW k \in 1 .. Len(more)
              PROVE  /\ more[k] \in 1 .. m + 1 /\ Front(SegmentsOf(d, more[k])) = p
                     /\ \A j \in 1 .. k - 1 : more[j] < more[k]
            <4>1. CASE k = Len(list) + 1
                <5>1. more[k] = m + 1
                      BY <3>2, <4>1
                <5>2. \A j \in 1 .. k - 1 : more[j] \in 1 .. m
                      BY <2>1, <3>2, <4>1, SMTT(30) DEF IsListing
                <5> QED BY <2>1, <2>3, <5>1, <5>2
            <4>2. CASE k # Len(list) + 1
                <5>1. k \in 1 .. Len(list) /\ \A j \in 1 .. k - 1 : j \in 1 .. Len(list)
                      BY <3>2, <4>2
                <5>2. more[k] = list[k] /\ \A j \in 1 .. k - 1 : more[j] = list[j]
                      BY <3>2, <5>1
                <5> QED BY <2>1, <5>1, <5>2 DEF IsListing
            <4> QED BY <4>1, <4>2
        <3>4. ASSUME NEW c \in 1 .. m + 1, Front(SegmentsOf(d, c)) = p PROVE \E k \in 1 .. Len(more) : more[k] = c
            <4>1. CASE c = m + 1
                <5>1. Len(list) + 1 \in 1 .. Len(more)
                      BY <3>2
                <5> QED BY <3>2, <4>1, <5>1
            <4>2. CASE c # m + 1
                <5>1. c \in 1 .. m
                      BY <2>1, <4>2
                <5>2. PICK k \in 1 .. Len(list) : list[k] = c
                      BY <2>1, <3>4, <5>1 DEF IsListing
                <5>3. k \in 1 .. Len(more) /\ more[k] = c
                      BY <3>2, <5>2
                <5> QED BY <5>3
            <4> QED BY <4>1, <4>2
        <3> QED BY <2>1, <3>2, <3>3, <3>4 DEF IsListing, more
    <2>4. CASE Front(SegmentsOf(d, m + 1)) # p
        <3>1. more = list
              BY <2>2, <2>4 DEF Filed
        <3>2. \A c \in 1 .. m + 1 : Front(SegmentsOf(d, c)) = p => c \in 1 .. m
              BY <2>1, <2>4
        <3>3. 1 .. m \subseteq 1 .. m + 1
              BY <2>1
        <3> QED BY <2>1, <3>1, <3>2, <3>3 DEF IsListing, more
    <2> QED BY <2>3, <2>4
<1> HIDE DEF T
<1>3. n \in 0 .. n
      OBVIOUS
<1>4. n \in T
      BY <1>1, <1>2, <1>3, SetInduction
<1> QED BY <1>4 DEF T

\* Where the model asks what is listed.
LEMMA ListedOf == ASSUME NEW p, NEW n PROVE Listed(p, n) = ListedIn(disk, p, n)
  BY DEF Listed, ListedIn, Collected, Filed, UpTo, SegmentsOf, Segments, FoldLeft, MapThenFoldSet

-----------------------------------------------------------------------------
(* The tree that a plain archive becomes.                                   *)

\* What a plain archive's headers are.
PlainDisk(d) ==
    /\ Len(d.entries) \in Nat
    /\ \A k \in 1 .. Len(d.entries) :
          /\ SegmentsOf(d, k) \in Seq(Proper) /\ SegmentsOf(d, k) # <<>>
          /\ path(d.entries[k].name) = SegmentsOf(d, k)
          /\ SpellsNames(d.entries[k].name)
          /\ d.entries[k].type \in {"file", "dir"}
          /\ \/ Front(SegmentsOf(d, k)) = <<>>
             \/ \E j \in 1 .. k - 1 : /\ d.entries[j].type = "dir"
                                      /\ SegmentsOf(d, j) = Front(SegmentsOf(d, k))
    /\ \A j, k \in 1 .. Len(d.entries) :
          SegmentsOf(d, j) = SegmentsOf(d, k) => d.entries[j].type = d.entries[k].type

LEMMA PlainIs == ASSUME NEW m \in DOMAIN Disks, PlainArchive(Disks[m]) PROVE PlainDisk(Disks[m])
<1> DEFINE d == Disks[m]
<1>1. /\ Len(d.entries) \in Nat
      /\ \A k \in 1 .. Len(d.entries) : d.entries[k].name \in Spellings /\ d.entries[k].type \in {"file", "dir", "other"}
      BY Constants
<1>2. DOMAIN d.entries = 1 .. Len(d.entries)
    <2>1. d.entries \in Seq(Range(d.entries))
          BY FilesAssumption
    <2> HIDE DEF d
    <2> DEFINE e == d.entries
    <2> HIDE DEF e
    <2>2. DOMAIN e = 1 .. Len(e)
          BY <2>1 DEF e
    <2> QED BY <2>2 DEF e
<1>3. PlainArchive(d)
      OBVIOUS
<1> HIDE DEF d
<1>4. ASSUME NEW k \in 1 .. Len(d.entries)
      PROVE  /\ SegmentsOf(d, k) \in Seq(Proper) /\ SegmentsOf(d, k) # <<>>
             /\ path(d.entries[k].name) = SegmentsOf(d, k)
             /\ SpellsNames(d.entries[k].name)
             /\ d.entries[k].type \in {"file", "dir"}
             /\ \/ Front(SegmentsOf(d, k)) = <<>>
                \/ \E j \in 1 .. k - 1 : /\ d.entries[j].type = "dir"
                                         /\ SegmentsOf(d, j) = Front(SegmentsOf(d, k))
    <2> DEFINE h == d.entries[k]
    <2>1. h.type # "other" /\ Parted(h.name)
          BY <1>2, <1>3 DEF PlainArchive
    <2>2. ParentOf(h) = <<>> \/ \E j \in 1 .. k - 1 : /\ d.entries[j].type = "dir"
                                                      /\ Names(d.entries[j].name) = ParentOf(h)
          BY <1>2, <1>3 DEF PlainArchive
    <2>3. Front(SegmentsOf(d, k)) = ParentOf(h) /\ SegmentsOf(d, k) = Names(h.name)
          BY DEF ParentOf, SegmentsOf
    <2>4. h.name \in Seq(Name) /\ h.name # <<>> /\ \A j \in 1 .. Len(h.name) : h.name[j] # NoName
          BY <1>1 DEF Spellings
    <2>5. path(h.name) = Names(h.name) /\ Names(h.name) \in Seq(Proper) /\ Names(h.name) # <<>> /\ SpellsNames(h.name)
        <3> DEFINE name == h.name
        <3>1. name \in Seq(Name) /\ name # <<>> /\ (\A j \in 1 .. Len(name) : name[j] # NoName) /\ Parted(name)
              BY <2>1, <2>4
        <3> HIDE DEF name
        <3>2. path(name) = Names(name) /\ Names(name) \in Seq(Proper) /\ Names(name) # <<>> /\ SpellsNames(name)
              BY <3>1, PartedPath, PartedSpells
        <3> QED BY <3>2 DEF name
    <2>6. h.type \in {"file", "dir"}
          BY <1>1, <2>1
    <2> QED BY <2>2, <2>3, <2>5, <2>6 DEF SegmentsOf
<1>5. \A j, k \in 1 .. Len(d.entries) :
          SegmentsOf(d, j) = SegmentsOf(d, k) => d.entries[j].type = d.entries[k].type
      BY <1>2, <1>3 DEF PlainArchive, SegmentsOf
<1> QED BY <1>1, <1>4, <1>5 DEF PlainDisk, d

\* The first header of a path.
Leads(d, k) == \A j \in 1 .. k - 1 : SegmentsOf(d, j) # SegmentsOf(d, k)

\* The nodes of a list's headers.
Shifted(list) == [k \in DOMAIN list |-> RAM + list[k]]

\* all is the tree after n headers: a node for each, in the list of the first
\* node of the directory it is in.
TreeOf(d, all, n) ==
    /\ Len(all) = RAM + n
    /\ \A k \in 1 .. n : /\ all[RAM + k].name = Last(SegmentsOf(d, k))
                         /\ all[RAM + k].dir = (d.entries[k].type = "dir")
                         /\ d.entries[k].type = "file" => all[RAM + k].read = "ram" /\ all[RAM + k].inode = k
                         /\ d.entries[k].type = "dir" => all[RAM + k].read = "none"
    /\ all[RAM].list = Shifted(ListedIn(d, <<>>, n))
    /\ \A k \in 1 .. n :
          all[RAM + k].list = IF Leads(d, k) /\ d.entries[k].type = "dir" THEN Shifted(ListedIn(d, SegmentsOf(d, k), n))
                              ELSE <<>>

\* m is the node of the path q, or NULL when none of the headers has it.
IsAt(d, n, q, m) ==
    \/ q = <<>> /\ m = RAM
    \/ q # <<>> /\ m = NULL /\ \A k \in 1 .. n : SegmentsOf(d, k) # q
    \/ q # <<>> /\ \E k \in 1 .. n : m = RAM + k /\ SegmentsOf(d, k) = q /\ Leads(d, k)

LEMMA ShiftedIs ==
    ASSUME NEW list \in Seq(Nat)
    PROVE  /\ Shifted(list) \in Seq(Nat) /\ Len(Shifted(list)) = Len(list)
           /\ \A k \in 1 .. Len(list) : Shifted(list)[k] = RAM + list[k]
<1> DEFINE n == Len(list)
           s == Shifted(list)
<1>1. n \in Nat /\ DOMAIN list = 1 .. n /\ \A k \in 1 .. n : RAM + list[k] \in Nat
      BY Sized
<1>2. s = [k \in 1 .. n |-> RAM + list[k]]
      BY <1>1 DEF Shifted
<1> HIDE DEF n, s
<1>3. s \in [1 .. n -> Nat] /\ \A k \in 1 .. n : s[k] = RAM + list[k]
      BY <1>1, <1>2
<1>4. s \in Seq(Nat) /\ Len(s) = n
      BY <1>1, <1>3
<1> QED BY <1>3, <1>4 DEF n, s

\* In the list of a directory p, the first entry with a name is the first header
\* of that path.
LEMMA FindIn ==
    ASSUME NEW d, PlainDisk(d), NEW n \in 0 .. Len(d.entries), NEW all, TreeOf(d, all, n),
           NEW p \in Seq(Proper), NEW c \in Proper
    PROVE  IsAt(d, n, Append(p, c), FindName(all, Shifted(ListedIn(d, p, n)), c))
<1> DEFINE L == ListedIn(d, p, n)
           list == Shifted(L)
           q == Append(p, c)
           r == FindName(all, list, c)
<1>1. n \in Nat /\ RAM \in Nat /\ Len(d.entries) \in Nat /\ \A k \in 1 .. n : k \in 1 .. Len(d.entries)
      BY Sized DEF PlainDisk
<1>2. IsListing(d, p, n, L)
      BY <1>1, ListedIs
<1> HIDE DEF L
<1>3. list \in Seq(Nat) /\ Len(list) = Len(L) /\ \A k \in 1 .. Len(L) : list[k] = RAM + L[k]
      BY <1>2, ShiftedIs DEF IsListing
<1> HIDE DEF list
<1>4. \A k \in 1 .. Len(L) : L[k] \in 1 .. n /\ all[list[k]].name = Last(SegmentsOf(d, L[k]))
      BY <1>2, <1>3 DEF IsListing, TreeOf
<1>5. q # <<>> /\ Front(q) = p /\ Last(q) = c
      BY FrontAppend
<1>6. \A k \in 1 .. n : Front(SegmentsOf(d, k)) = p /\ Last(SegmentsOf(d, k)) = c => SegmentsOf(d, k) = q
    <2> TAKE k \in 1 .. n
    <2>1. SegmentsOf(d, k) \in Seq(Proper) /\ SegmentsOf(d, k) # <<>>
          BY <1>1 DEF PlainDisk
    <2> QED BY <2>1, FrontIs
<1> HIDE DEF q
<1>7. FoundIs(all, list, c, r)
      BY <1>3, FindFirst
<1> HIDE DEF r
<1>8. ASSUME NEW k \in 1 .. n, SegmentsOf(d, k) = q
      PROVE  \E x \in 1 .. Len(L) : L[x] = k /\ all[list[x]].name = c
    <2>1. Front(SegmentsOf(d, k)) = p /\ Last(SegmentsOf(d, k)) = c
          BY <1>5, <1>8
    <2>2. PICK x \in 1 .. Len(L) : L[x] = k
          BY <1>2, <2>1 DEF IsListing
    <2> QED BY <1>4, <2>1, <2>2
<1>9. CASE r = NULL /\ \A k \in 1 .. Len(list) : all[list[k]].name # c
    <2>1. \A k \in 1 .. n : SegmentsOf(d, k) # q
          BY <1>3, <1>8, <1>9
    <2> QED BY <1>5, <1>9, <2>1 DEF IsAt, r, list, L, q
<1>10. CASE \E k \in 1 .. Len(list) : /\ r = list[k] /\ all[r].name = c
                                      /\ \A j \in 1 .. k - 1 : all[list[j]].name # c
    <2>1. PICK x \in 1 .. Len(L) : /\ r = list[x] /\ all[r].name = c
                                   /\ \A j \in 1 .. x - 1 : all[list[j]].name # c
          BY <1>3, <1>10
    <2> DEFINE k == L[x]
    <2>2. k \in 1 .. n /\ r = RAM + k /\ Front(SegmentsOf(d, k)) = p /\ Last(SegmentsOf(d, k)) = c
          BY <1>2, <1>3, <1>4, <2>1 DEF IsListing
    <2> HIDE DEF k
    <2>3. SegmentsOf(d, k) = q
          BY <1>6, <2>2
    <2>4. ASSUME NEW j \in 1 .. k - 1, SegmentsOf(d, j) = SegmentsOf(d, k) PROVE FALSE
        <3>1. j \in 1 .. n
              BY <1>1, <2>2
        <3>2. PICK y \in 1 .. Len(L) : L[y] = j /\ all[list[y]].name = c
              BY <1>8, <2>3, <2>4, <3>1
        <3>3. y \in 1 .. x - 1
            <4>1. Len(L) \in Nat /\ L[y] \in Nat /\ L[x] \in Nat /\ L[y] < L[x]
                  BY <1>2, <1>4, <2>2, <3>2, SMTT(30) DEF IsListing, k
            <4>2. ~(x \in 1 .. y - 1)
                <5>1. x \in 1 .. y - 1 => L[x] < L[y]
                      BY <1>2 DEF IsListing
                <5> QED BY <4>1, <5>1
            <4>3. x # y
                  BY <4>1
            <4> QED BY <4>1, <4>2, <4>3
        <3> QED BY <2>1, <3>2, <3>3
    <2>5. Leads(d, k)
          BY <2>4 DEF Leads
    <2>6. IsAt(d, n, q, r)
          BY <1>5, <2>2, <2>3, <2>5 DEF IsAt
    <2> QED BY <2>6 DEF r, list, L, q
<1> QED BY <1>7, <1>9, <1>10 DEF FoundIs

\* Nothing is listed in a path that no header is in.
LEMMA ListsNothing ==
    ASSUME NEW d, NEW p, NEW n \in Nat, \A k \in 1 .. n : Front(SegmentsOf(d, k)) # p
    PROVE  ListedIn(d, p, n) = <<>>
<1> DEFINE L == ListedIn(d, p, n)
<1>1. L \in Seq(Nat) /\ \A k \in 1 .. Len(L) : L[k] \in 1 .. n /\ Front(SegmentsOf(d, L[k])) = p
      BY ListedIs DEF IsListing
<1> HIDE DEF L
<1>2. Len(L) = 0
    <2>1. 1 \notin 1 .. Len(L)
          BY <1>1
    <2> QED BY <1>1, <2>1
<1>3. L = <<>>
      BY <1>1, <1>2, EmptySeq
<1> QED BY <1>3 DEF L

\* A step of a lookup in the tree of a plain archive.
LEMMA LookPlain ==
    ASSUME NEW d, PlainDisk(d), NEW n \in 0 .. Len(d.entries), NEW all, TreeOf(d, all, n), Mount(all),
           NEW q \in Seq(Proper), NEW c \in Proper, NEW m, IsAt(d, n, q, m)
    PROVE  IsAt(d, n, Append(q, c), Look(all, m, c))
<1> DEFINE more == Append(q, c)
<1>1. n \in Nat /\ RAM \in Nat /\ RAM >= 3 /\ Len(d.entries) \in Nat /\ \A k \in 1 .. n : k \in 1 .. Len(d.entries)
      BY Sized DEF PlainDisk
<1>2. more # <<>> /\ Front(more) = q /\ Last(more) = c
      BY FrontAppend
<1> HIDE DEF more
\* a header of that path has its directory's before it
<1>3. ASSUME NEW k \in 1 .. n, SegmentsOf(d, k) = more, q # <<>>
      PROVE  \E j \in 1 .. n : d.entries[j].type = "dir" /\ SegmentsOf(d, j) = q
    <2>1. PICK j \in 1 .. k - 1 : d.entries[j].type = "dir" /\ SegmentsOf(d, j) = q
        <3>1. k \in 1 .. Len(d.entries) /\ Front(SegmentsOf(d, k)) = q
              BY <1>1, <1>2, <1>3
        <3> QED BY <1>3, <3>1 DEF PlainDisk
    <2>2. j \in 1 .. n
          BY <1>1, <2>1
    <2> QED BY <2>1, <2>2
<1>4. CASE q = <<>> /\ m = RAM
    <2>1. all[RAM].dir /\ all[RAM].list = Shifted(ListedIn(d, q, n)) /\ m # NULL
          BY <1>1, <1>4 DEF Mount, TreeOf, NULL
    <2>2. Look(all, m, c) = FindName(all, Shifted(ListedIn(d, q, n)), c)
          BY <1>4, <2>1 DEF Look
    <2> QED BY <2>2, FindIn
<1>5. CASE q # <<>> /\ m = NULL /\ \A k \in 1 .. n : SegmentsOf(d, k) # q
    <2>1. \A k \in 1 .. n : SegmentsOf(d, k) # more
          BY <1>3, <1>5
    <2>2. Look(all, m, c) = NULL
          BY <1>5 DEF Look
    <2>3. IsAt(d, n, more, Look(all, m, c))
          BY <1>2, <2>1, <2>2 DEF IsAt
    <2> QED BY <2>3 DEF more
<1>6. CASE q # <<>> /\ \E k \in 1 .. n : m = RAM + k /\ SegmentsOf(d, k) = q /\ Leads(d, k)
    <2>1. PICK k \in 1 .. n : m = RAM + k /\ SegmentsOf(d, k) = q /\ Leads(d, k)
          BY <1>6
    <2>2. m # NULL /\ all[m].dir = (d.entries[k].type = "dir")
          BY <1>1, <2>1 DEF NULL, TreeOf
    <2>3. CASE d.entries[k].type = "dir"
        <3>1. all[m].list = Shifted(ListedIn(d, q, n))
              BY <2>1, <2>3 DEF TreeOf
        <3>2. Look(all, m, c) = FindName(all, Shifted(ListedIn(d, q, n)), c)
              BY <2>2, <2>3, <3>1 DEF Look
        <3> QED BY <3>2, FindIn
    <2>4. CASE d.entries[k].type # "dir"
        <3>1. Look(all, m, c) = NULL
              BY <2>2, <2>4 DEF Look
        <3>2. \A j \in 1 .. n : SegmentsOf(d, j) # more
            <4> SUFFICES ASSUME NEW j \in 1 .. n, SegmentsOf(d, j) = more PROVE FALSE
                OBVIOUS
            <4>1. PICK x \in 1 .. n : d.entries[x].type = "dir" /\ SegmentsOf(d, x) = q
                  BY <1>3, <1>6
            <4>2. x \in 1 .. Len(d.entries) /\ k \in 1 .. Len(d.entries) /\ SegmentsOf(d, x) = SegmentsOf(d, k)
                  BY <1>1, <2>1, <4>1
            <4>3. d.entries[x].type = d.entries[k].type
                  BY <4>2 DEF PlainDisk
            <4> QED BY <2>4, <4>1, <4>3
        <3>3. IsAt(d, n, more, Look(all, m, c))
              BY <1>2, <3>1, <3>2 DEF IsAt
        <3> QED BY <3>3 DEF more
    <2> QED BY <2>3, <2>4
<1> QED BY <1>4, <1>5, <1>6 DEF IsAt

\* A lookup from the root of the ramdisk.
LEMMA LookedUp ==
    ASSUME NEW d, PlainDisk(d), NEW n \in 0 .. Len(d.entries), NEW all, IsTree(all), TreeOf(d, all, n), Mount(all),
           NEW q \in Seq(Proper)
    PROVE  IsAt(d, n, q, Reached(all, RAM, q))
<1> DEFINE P(r) == IsAt(d, n, r, Reached(all, RAM, r))
           T == {r \in Seq(Proper) : P(r)}
<1>1. RAM \in NodeOf(all)
      BY TreeIs, Sized DEF NodeOf, Mount
<1>2. P(<<>>)
    <2>1. Reached(all, RAM, <<>>) = RAM
          BY <1>1, ReachEmpty
    <2> QED BY <2>1 DEF IsAt
<1>3. ASSUME NEW r \in Seq(Proper), NEW c \in Proper, P(r) PROVE P(Append(r, c))
    <2>1. r \in Seq(Name) /\ c \in Name
          BY ProperIs
    <2>2. Reached(all, RAM, Append(r, c)) = Look(all, Reached(all, RAM, r), c)
          BY <1>1, <2>1, ReachAppend
    <2> DEFINE m == Reached(all, RAM, r)
    <2>3. IsAt(d, n, r, m)
          BY <1>3
    <2> HIDE DEF m
    <2>4. IsAt(d, n, Append(r, c), Look(all, m, c))
          BY <2>3, LookPlain
    <2> QED BY <2>2, <2>4 DEF m
<1>4. \A r \in Seq(Proper), c \in Proper : Append(r, c) \in Seq(Proper)
      OBVIOUS
<1> HIDE DEF P
<1>5. <<>> \in T /\ \A r \in Seq(Proper), c \in Proper : r \in T => Append(r, c) \in T
    <2>1. <<>> \in Seq(Proper)
          OBVIOUS
    <2> QED BY <1>2, <1>3, <1>4, <2>1
<1> HIDE DEF T
<1>6. q \in T
      BY <1>5, SeqInduction
<1>7. P(q)
      BY <1>6 DEF T
<1> QED BY <1>7 DEF P

\* The nodes of a list that a header may be added to.
LEMMA ListGrows ==
    ASSUME NEW d, NEW p, NEW n \in Nat
    PROVE  LET s == Front(SegmentsOf(d, n + 1))
               before == Shifted(ListedIn(d, p, n))
               after == Shifted(ListedIn(d, p, n + 1))
           IN  /\ s = p => after = Append(before, RAM + n + 1)
               /\ s # p => after = before
<1> DEFINE L == ListedIn(d, p, n)
           M == ListedIn(d, p, n + 1)
           e == n + 1
<1>1. L \in Seq(Nat) /\ M = Filed(d, p, L, e) /\ e \in Nat /\ RAM \in Nat /\ RAM + n + 1 = RAM + e /\ RAM + e \in Nat
      BY ListedMore, Sized
<1> HIDE DEF L, M, e
<1>2. CASE Front(SegmentsOf(d, e)) = p
    <2> DEFINE a == Shifted(M)
               b == Shifted(L)
               c == Append(b, RAM + e)
    <2>1. M = Append(L, e)
          BY <1>1, <1>2 DEF Filed
    <2>2. M \in Seq(Nat) /\ Len(M) = Len(L) + 1 /\ M[Len(L) + 1] = e /\ (\A k \in 1 .. Len(L) : M[k] = L[k]) /\ Len(L) \in Nat
          BY <1>1, <2>1
    <2>3. a \in Seq(Nat) /\ Len(a) = Len(M) /\ \A k \in 1 .. Len(M) : a[k] = RAM + M[k]
          BY <2>2, ShiftedIs
    <2>4. b \in Seq(Nat) /\ Len(b) = Len(L) /\ \A k \in 1 .. Len(L) : b[k] = RAM + L[k]
          BY <1>1, ShiftedIs
    <2> HIDE DEF a, b
    <2>5. c \in Seq(Nat) /\ Len(c) = Len(b) + 1 /\ c[Len(b) + 1] = RAM + e /\ \A k \in 1 .. Len(b) : c[k] = b[k]
          BY <1>1, <2>4
    <2> HIDE DEF c
    <2>6. \A k \in 1 .. Len(a) : a[k] = c[k]
        <3> TAKE k \in 1 .. Len(a)
        <3>1. CASE k = Len(L) + 1
              BY <2>2, <2>3, <2>4, <2>5, <3>1
        <3>2. CASE k # Len(L) + 1
            <4>1. k \in 1 .. Len(L) /\ k \in 1 .. Len(M) /\ k \in 1 .. Len(b)
                  BY <2>2, <2>3, <2>4, <3>2
            <4> QED BY <2>2, <2>3, <2>4, <2>5, <4>1
        <3> QED BY <3>1, <3>2
    <2>7. a = c
          BY <2>2, <2>3, <2>4, <2>5, <2>6, SeqEqual
    <2> QED BY <1>1, <1>2, <2>7 DEF a, b, c, L, M, e
<1>3. CASE Front(SegmentsOf(d, e)) # p
    <2>1. M = L
          BY <1>1, <1>3 DEF Filed
    <2> QED BY <1>3, <2>1 DEF L, M, e
<1> QED BY <1>2, <1>3

\* A header more.
LEMMA TreeGrows ==
    ASSUME NEW d, PlainDisk(d), NEW n \in Nat, n < Len(d.entries), NEW base, TreeOf(d, base, n),
           NEW at, at # NULL, IsAt(d, n, Front(SegmentsOf(d, n + 1)), at),
           NEW new, new.name = Last(SegmentsOf(d, n + 1)), new.dir = (d.entries[n + 1].type = "dir"), new.list = <<>>,
           d.entries[n + 1].type = "file" => new.read = "ram" /\ new.inode = n + 1,
           d.entries[n + 1].type = "dir" => new.read = "none",
           NEW all, NodeAdded(base, all, at, new)
    PROVE  TreeOf(d, all, n + 1)
<1> DEFINE e == n + 1
           s == SegmentsOf(d, e)
           parent == Front(s)
<1>1. /\ n \in Nat /\ e \in Nat /\ e \in 1 .. Len(d.entries) /\ RAM \in Nat /\ RAM >= 3 /\ Len(d.entries) \in Nat
      /\ \A k \in 1 .. e : k \in 1 .. Len(d.entries)
      BY Sized DEF PlainDisk
<1>2. \A k \in 1 .. e : k \in 1 .. n \/ k = e
      BY <1>1
<1>3. Len(base) = RAM + n /\ Len(base) + 1 = RAM + e /\ Len(all) = RAM + e /\ all[RAM + e] = new
    <2>1. Len(base) = RAM + n
          BY DEF TreeOf
    <2>2. Len(all) = Len(base) + 1 /\ all[Len(base) + 1] = new
          BY DEF NodeAdded
    <2>3. RAM + n + 1 = RAM + e
          BY <1>1
    <2> QED BY <2>1, <2>2, <2>3
<1>4. \A m \in 1 .. RAM + n : /\ Alike(all[m], base[m])
                              /\ m = at => all[m].list = Append(base[m].list, RAM + e)
                              /\ m # at => all[m].list = base[m].list
    <2> TAKE m \in 1 .. RAM + n
    <2>1. m \in 1 .. Len(base)
          BY <1>3
    <2>2. Alike(all[m], base[m]) /\ all[m].list = IF m = at THEN Append(base[m].list, Len(base) + 1) ELSE base[m].list
          BY <2>1, Zenon DEF NodeAdded
    <2> QED BY <1>3, <2>2
<1>5. \A k \in 1 .. n : RAM + k \in 1 .. RAM + n
      BY <1>1
<1>6. s \in Seq(Proper) /\ s # <<>>
      /\ (parent = <<>> \/ \E j \in 1 .. n : d.entries[j].type = "dir" /\ SegmentsOf(d, j) = parent)
    <2>1. \A j \in 1 .. e - 1 : j \in 1 .. n
          BY <1>1
    <2> QED BY <1>1, <2>1 DEF PlainDisk
<1>7. ASSUME NEW k \in 1 .. e
      PROVE  /\ all[RAM + k].name = Last(SegmentsOf(d, k))
             /\ all[RAM + k].dir = (d.entries[k].type = "dir")
             /\ d.entries[k].type = "file" => all[RAM + k].read = "ram" /\ all[RAM + k].inode = k
             /\ d.entries[k].type = "dir" => all[RAM + k].read = "none"
    <2>1. CASE k = e
          BY <1>3, <2>1
    <2>2. CASE k \in 1 .. n
        <3>1. Alike(all[RAM + k], base[RAM + k])
              BY <1>4, <1>5, <2>2
        <3> QED BY <2>2, <3>1 DEF TreeOf, Alike
    <2> QED BY <1>2, <2>1, <2>2
<1>8. \A p : /\ parent = p => Shifted(ListedIn(d, p, e)) = Append(Shifted(ListedIn(d, p, n)), RAM + e)
             /\ parent # p => Shifted(ListedIn(d, p, e)) = Shifted(ListedIn(d, p, n))
    <2> TAKE p
    <2>1. RAM + n + 1 = RAM + e
          BY <1>1
    <2> QED BY <2>1, ListGrows
<1>9. \/ parent = <<>> /\ at = RAM
      \/ parent # <<>> /\ \E k \in 1 .. n : at = RAM + k /\ SegmentsOf(d, k) = parent /\ Leads(d, k)
      BY DEF IsAt
<1> HIDE DEF parent
<1>10. all[RAM].list = Shifted(ListedIn(d, <<>>, e))
    <2>1. at = RAM <=> parent = <<>>
        <3>1. \A k \in 1 .. n : RAM + k # RAM
              BY <1>1
        <3> QED BY <1>9, <3>1
    <2>2. RAM \in 1 .. RAM + n /\ base[RAM].list = Shifted(ListedIn(d, <<>>, n))
          BY <1>1 DEF TreeOf
    <2> QED BY <1>4, <1>8, <2>1, <2>2
<1>11. \A j, k \in 1 .. n : Leads(d, j) /\ Leads(d, k) /\ SegmentsOf(d, j) = SegmentsOf(d, k) => j = k
    <2> SUFFICES ASSUME NEW j \in 1 .. n, NEW k \in 1 .. n, Leads(d, j), Leads(d, k), SegmentsOf(d, j) = SegmentsOf(d, k)
                 PROVE  j = k
        OBVIOUS
    <2>1. ~(j \in 1 .. k - 1) /\ ~(k \in 1 .. j - 1)
          BY DEF Leads
    <2> QED BY <1>1, <2>1
<1>12. ASSUME NEW k \in 1 .. n
       PROVE  all[RAM + k].list = IF Leads(d, k) /\ d.entries[k].type = "dir"
                                  THEN Shifted(ListedIn(d, SegmentsOf(d, k), e)) ELSE <<>>
    <2>1. /\ Alike(all[RAM + k], base[RAM + k])
          /\ RAM + k = at => all[RAM + k].list = Append(base[RAM + k].list, RAM + e)
          /\ RAM + k # at => all[RAM + k].list = base[RAM + k].list
          BY <1>4, <1>5
    <2>2. SegmentsOf(d, k) # <<>> /\ k \in 1 .. Len(d.entries)
          BY <1>1 DEF PlainDisk
    <2>3. \A j \in 1 .. n : RAM + j = RAM + k => j = k
          BY <1>1
    <2>4. RAM + k # RAM
          BY <1>1
    <2>5. CASE Leads(d, k) /\ d.entries[k].type = "dir"
        <3>1. RAM + k = at <=> parent = SegmentsOf(d, k)
              BY <1>9, <1>11, <2>2, <2>3, <2>4, <2>5
        <3>2. base[RAM + k].list = Shifted(ListedIn(d, SegmentsOf(d, k), n))
              BY <2>5 DEF TreeOf
        <3>3. all[RAM + k].list = Shifted(ListedIn(d, SegmentsOf(d, k), e))
              BY <1>8, <2>1, <3>1, <3>2
        <3> QED BY <2>5, <3>3
    <2>6. CASE ~(Leads(d, k) /\ d.entries[k].type = "dir")
        <3>1. RAM + k # at
            <4> SUFFICES ASSUME at = RAM + k PROVE FALSE
                OBVIOUS
            <4>1. Leads(d, k) /\ SegmentsOf(d, k) = parent /\ parent # <<>>
                  BY <1>9, <2>3, <2>4
            <4>2. PICK j \in 1 .. n : d.entries[j].type = "dir" /\ SegmentsOf(d, j) = SegmentsOf(d, k)
                  BY <1>6, <4>1
            <4>3. j \in 1 .. Len(d.entries)
                  BY <1>1
            <4>4. d.entries[j].type = d.entries[k].type
                  BY <2>2, <4>2, <4>3 DEF PlainDisk
            <4> QED BY <2>6, <4>1, <4>2, <4>4
        <3>2. base[RAM + k].list = <<>>
              BY <2>6 DEF TreeOf
        <3>3. all[RAM + k].list = <<>>
              BY <2>1, <3>1, <3>2
        <3> QED BY <2>6, <3>3
    <2> QED BY <2>5, <2>6
<1>13. Leads(d, e) => Shifted(ListedIn(d, s, e)) = <<>>
    <2> SUFFICES ASSUME Leads(d, e) PROVE Shifted(ListedIn(d, s, e)) = <<>>
        OBVIOUS
    <2>1. ASSUME NEW k \in 1 .. e, Front(SegmentsOf(d, k)) = s PROVE FALSE
        <3>1. k \in 1 .. Len(d.entries) /\ SegmentsOf(d, k) \in Seq(Proper) /\ SegmentsOf(d, k) # <<>>
              BY <1>1 DEF PlainDisk
        <3>2. CASE k = e
            <4>1. Len(Front(s)) = Len(s) - 1 /\ Len(s) \in Nat
                  BY <1>6, FrontIs
            <4>2. Front(s) = s
                  BY <2>1, <3>2
            <4> HIDE DEF s
            <4> QED BY <4>1, <4>2
        <3>3. CASE k # e
            <4>1. PICK j \in 1 .. k - 1 : SegmentsOf(d, j) = Front(SegmentsOf(d, k))
                  BY <1>6, <2>1, <3>1 DEF PlainDisk
            <4>2. j \in 1 .. e - 1
                  BY <1>1, <3>3, <4>1
            <4> QED BY <2>1, <4>1, <4>2 DEF Leads
        <3> QED BY <3>2, <3>3
    <2> HIDE DEF s
    <2>2. ListedIn(d, s, e) = <<>>
          BY <1>1, <2>1, ListsNothing
    <2> DEFINE none == <<>>
    <2>3. none \in Seq(Nat) /\ Len(none) = 0
          OBVIOUS
    <2> HIDE DEF none
    <2>4. Shifted(none) \in Seq(Nat) /\ Len(Shifted(none)) = 0
          BY <2>3, ShiftedIs
    <2>5. Shifted(none) = <<>>
          BY <2>4, EmptySeq
    <2> QED BY <2>2, <2>5 DEF none
<1>14. ASSUME NEW k \in 1 .. e
       PROVE  all[RAM + k].list = IF Leads(d, k) /\ d.entries[k].type = "dir"
                                  THEN Shifted(ListedIn(d, SegmentsOf(d, k), e)) ELSE <<>>
    <2>1. CASE k \in 1 .. n
          BY <1>12, <2>1
    <2>2. CASE k = e
          BY <1>3, <1>13, <2>2
    <2> QED BY <1>2, <2>1, <2>2
<1> QED BY <1>3, <1>7, <1>10, <1>14 DEF TreeOf

-----------------------------------------------------------------------------
(* What a plain archive leaves.                                             *)

\* After i turns of ramfs() the tree is that of the first i headers.
PlainInv ==
    /\ phase \in {"start", "serial", "parse", "parsed"} => i = 0
    /\ phase \in {"up", "gui"} /\ disk.end # 0 => i = files
    /\ PlainDisk(disk) => /\ phase \in {"build", "up", "gui"} /\ disk.end # 0 => TreeOf(disk, nodes, i)
                          /\ "disk" \notin harm

\* The ramdisk's root alone is the tree of no header.
LEMMA TreeOfNone == ASSUME NEW d, NEW all, Len(all) = RAM, all[RAM].list = <<>> PROVE TreeOf(d, all, 0)
<1>1. RAM + 0 = RAM /\ 1 .. 0 = {} /\ 0 \in Nat
      BY Sized
<1>2. ListedIn(d, <<>>, 0) = <<>>
      BY <1>1, ListsNothing
<1> DEFINE none == <<>>
<1>3. none \in Seq(Nat) /\ Len(none) = 0
      OBVIOUS
<1> HIDE DEF none
<1>4. Shifted(none) \in Seq(Nat) /\ Len(Shifted(none)) = 0
      BY <1>3, ShiftedIs
<1>5. Shifted(none) = <<>>
      BY <1>4, EmptySeq
<1>6. all[RAM].list = Shifted(ListedIn(d, <<>>, 0))
      BY <1>2, <1>5 DEF none
<1> QED BY <1>1, <1>6 DEF TreeOf

\* The tree does not change with the list of another node.
LEMMA TreeStays ==
    ASSUME NEW d, NEW n \in Nat, NEW base, TreeOf(d, base, n), NEW all, Len(all) = Len(base),
           \A m \in RAM .. Len(base) : Alike(all[m], base[m]) /\ all[m].list = base[m].list
    PROVE  TreeOf(d, all, n)
<1>1. Len(base) = RAM + n /\ RAM \in RAM .. Len(base) /\ \A k \in 1 .. n : RAM + k \in RAM .. Len(base)
    <2>1. Len(base) = RAM + n
          BY DEF TreeOf
    <2> QED BY <2>1, Sized
<1>2. all[RAM].list = base[RAM].list
      BY <1>1
<1>3. \A k \in 1 .. n : /\ all[RAM + k].list = base[RAM + k].list /\ all[RAM + k].name = base[RAM + k].name
                        /\ all[RAM + k].dir = base[RAM + k].dir /\ all[RAM + k].read = base[RAM + k].read
                        /\ all[RAM + k].inode = base[RAM + k].inode
      BY <1>1 DEF Alike
<1> QED BY <1>1, <1>2, <1>3, ZenonT(30) DEF TreeOf

LEMMA InitPlain == FInit => PlainInv
  BY DEF FInit, PlainInv

\* A header of a plain archive finds its directory there, and becomes a node in it.
LEMMA AddPlain == ASSUME FilesInv, PlainInv, ramfs_add PROVE PlainInv'
<1>1. /\ phase = "build" /\ i < files /\ UNCHANGED <<module, files>> /\ disk' = disk /\ disk.end # 0
      /\ phase' \in {"build", "stopped"} /\ module \in DOMAIN Disks /\ files \in 0 .. Len(disk.entries)
      /\ i \in 0 .. files /\ Len(disk.entries) \in Nat /\ Len(nodes) >= RAM /\ Mount(nodes)
      /\ IsTree(nodes) /\ Ordered(nodes) /\ Apart(nodes)
    <2>1. phase = "build" /\ i < files /\ UNCHANGED <<module, files>> /\ disk' = disk
          BY DEF ramfs_add, disk
    <2>2. phase' \in {"build", "stopped"}
          BY <2>1, AddCases
    <2>3. /\ disk.end # 0 /\ module \in DOMAIN Disks /\ files \in 0 .. Len(disk.entries) /\ i \in 0 .. files
          /\ Len(nodes) >= RAM /\ Mount(nodes) /\ IsTree(nodes) /\ Ordered(nodes) /\ Apart(nodes)
          BY <2>1 DEF FilesInv, Sizes, Mounts
    <2>4. Len(disk.entries) \in Nat
          BY <2>3, Constants DEF disk
    <2> QED BY <2>1, <2>2, <2>3, <2>4
<1> SUFFICES ASSUME PlainDisk(disk)
             PROVE  (phase' = "build" => TreeOf(disk, nodes', i')) /\ "disk" \notin harm'
    BY <1>1 DEF PlainInv
<1>2. TreeOf(disk, nodes, i) /\ "disk" \notin harm
      BY <1>1 DEF PlainInv
<1> DEFINE e == i + 1
           s == SegmentsOf(disk, e)
           at == Reached(nodes, RAM, Front(s))
<1>3. i \in Nat /\ e \in 1 .. Len(disk.entries) /\ i \in 0 .. Len(disk.entries) /\ i < Len(disk.entries) /\ e \in Nat
      BY <1>1
<1>4. /\ s \in Seq(Proper) /\ s # <<>> /\ path(Header.name) = s /\ Header.type \in {"file", "dir"}
      /\ Front(s) = <<>> \/ \E j \in 1 .. e - 1 : disk.entries[j].type = "dir" /\ SegmentsOf(disk, j) = Front(s)
      BY <1>3 DEF PlainDisk, Header
<1>5. Front(s) \in Seq(Proper) /\ Last(s) \in Proper
      BY <1>4, FrontIs
<1>6. IsAt(disk, i, Front(s), at)
      BY <1>1, <1>2, <1>3, <1>5, LookedUp
<1>7. at # NULL
    <2>1. RAM # NULL /\ \A k \in 1 .. i : RAM + k # NULL
          BY <1>3, Sized DEF NULL
    <2>2. \A j \in 1 .. e - 1 : j \in 1 .. i
          BY <1>3
    <2> QED BY <1>4, <1>6, <2>1, <2>2 DEF IsAt
<1>8. Parent = [all |-> nodes, at |-> at, missing |-> FALSE]
    <2>1. s \in Paths /\ RAM \in 1 .. Len(nodes)
        <3>1. \A c \in Proper : c \in Clean
              BY DEF Proper, Clean
        <3>2. RAM \in 1 .. Len(nodes)
              BY <1>1, Sized, TreeIs
        <3> QED BY <1>4, <3>1, <3>2 DEF Paths
    <2> HIDE DEF s
    <2>2. _ramfs_create_path(s) = [all |-> nodes, at |-> Reached(nodes, RAM, Front(s)), missing |-> FALSE]
          BY <1>1, <1>7, <2>1, CreatePathIs
    <2> QED BY <1>4, <2>2 DEF Parent
<1> HIDE DEF at
<1>9. Parent.all = nodes /\ Parent.at = at /\ Parent.missing = FALSE
      BY <1>8
<1>10. /\ nodes' = AddNode(nodes, at, New) /\ i' = i + 1 /\ phase' = phase /\ Header.type # "other"
    <2>1. Header.type # "other"
          BY <1>4
    <2> QED BY <1>9, <2>1, AddCases
<1>11. harm' = harm \cup {"path"}
    <2> DEFINE stop == phase' = "stopped" /\ harm' = harm \cup {"path", "disk"} /\ UNCHANGED <<i, node, nodes>>
               add == /\ nodes' = AddNode(Parent.all, Parent.at, New) /\ node' = Len(Parent.all) + 1
                      /\ i' = i + 1 /\ harm' = harm \cup {"path"} /\ UNCHANGED phase
               again == /\ nodes' = [Parent.all EXCEPT ![Parent.at].list = Append(@, node)]
                        /\ i' = i + 1 /\ harm' = harm \cup {"path"} /\ UNCHANGED <<phase, node>>
               other == Header.type # "other"
    <2>1. (CASE other /\ Parent.missing -> stop
             [] other /\ ~Parent.missing -> add
             [] ~other /\ node = NULL -> stop
             [] OTHER -> again)
          BY DEF ramfs_add, Header, Parent, New, NewOf
    <2> HIDE DEF stop, add, again
    <2>2. add
          BY <1>9, <1>10, <2>1
    <2> QED BY <2>2 DEF add
<1>12. TreeOf(disk, nodes', e)
    <2> DEFINE c == Last(s)
               all == AddNode(nodes, at, New)
    <2>1. c \in Name /\ New = NewOf(Header, c, e)
        <3>1. c \in Name
              BY <1>5, ProperIs
        <3> QED BY <1>4, <3>1 DEF New
    <2> HIDE DEF c
    <2>2. /\ New \in Node /\ New.list = <<>> /\ New.name = c /\ New.dir = (Header.type # "file")
          /\ Header.type = "file" => New.read = "ram" /\ New.inode = e
          /\ Header.type # "file" => New.read = "none"
        <3> DEFINE k == e
        <3>1. k \in Nat /\ New = NewOf(Header, c, k)
              BY <1>3, <2>1
        <3> HIDE DEF k
        <3>2. /\ NewOf(Header, c, k) \in Node /\ NewOf(Header, c, k).list = <<>> /\ NewOf(Header, c, k).name = c
              /\ NewOf(Header, c, k).dir = (Header.type # "file")
              /\ Header.type = "file" => NewOf(Header, c, k).read = "ram" /\ NewOf(Header, c, k).inode = k
              /\ Header.type # "file" => NewOf(Header, c, k).read = "none"
              BY <2>1, <3>1, NewOfIs
        <3>3. k = e
              BY DEF k
        <3> QED BY <3>1, <3>2, <3>3
    <2>3. at \in 1 .. Len(nodes)
        <3>1. Len(nodes) = RAM + i /\ RAM \in Nat /\ RAM >= 3
              BY <1>2, Sized DEF TreeOf
        <3>2. at = RAM \/ \E k \in 1 .. i : at = RAM + k
              BY <1>6, <1>7 DEF IsAt
        <3> QED BY <1>3, <3>1, <3>2
    <2>4. NodeAdded(nodes, all, at, New)
          BY <1>1, <2>2, <2>3, AddNodeIs
    <2> HIDE DEF all
    <2>5. /\ New.name = Last(SegmentsOf(disk, i + 1)) /\ New.dir = (disk.entries[i + 1].type = "dir") /\ New.list = <<>>
          /\ disk.entries[i + 1].type = "file" => New.read = "ram" /\ New.inode = i + 1
          /\ disk.entries[i + 1].type = "dir" => New.read = "none"
        <3>1. Header = disk.entries[i + 1] /\ New.dir = (Header.type = "dir")
              BY <1>4, <2>2 DEF Header
        <3> QED BY <2>2, <3>1 DEF c
    <2>6. IsAt(disk, i, Front(SegmentsOf(disk, i + 1)), at)
          BY <1>6
    <2>7. TreeOf(disk, all, i + 1)
          BY <1>2, <1>3, <1>7, <2>4, <2>5, <2>6, TreeGrows
    <2> QED BY <1>10, <2>7 DEF all
<1> QED BY <1>2, <1>10, <1>11, <1>12

\* The boot makes the tree of the archive and nothing else.
LEMMA PlainStep == ASSUME FilesInv, PlainInv, FNext PROVE PlainInv'
<1>1. CASE fs_root
      BY <1>1 DEF fs_root, PlainInv, disk
<1>2. CASE serial
      BY <1>2 DEF serial, PlainInv, disk
<1>3. CASE tar_parse
      BY <1>3 DEF tar_parse, PlainInv, disk
<1>4. CASE tar_parse_end
      BY <1>4 DEF tar_parse_end, PlainInv, disk, boot
<1>5. CASE ramfs_root
    <2>1. /\ phase = "parsed" /\ phase' = "build" /\ UNCHANGED <<i, harm>> /\ disk' = disk /\ i = 0
          /\ nodes' = Append(nodes, Dir("ram")) /\ IsTree(nodes) /\ Len(nodes) = RAM - 1
          BY <1>5 DEF ramfs_root, PlainInv, FilesInv, Sizes, disk
    <2> DEFINE new == Dir("ram")
    <2>2. new \in Node /\ new.list = <<>>
        <3>1. "ram" \in Name
              BY SMT DEF Name
        <3> QED BY <3>1, NewDir
    <2> HIDE DEF new
    <2>3. nodes \in Seq(Node) /\ RAM \in Nat
          BY <2>1, Sized DEF IsTree
    <2>4. Len(nodes') = RAM /\ nodes'[RAM] = new
        <3>1. nodes' = Append(nodes, new)
              BY <2>1 DEF new
        <3>2. Len(nodes') = Len(nodes) + 1 /\ nodes'[Len(nodes) + 1] = new
              BY <2>2, <2>3, <3>1
        <3>3. Len(nodes) + 1 = RAM
              BY <2>1, <2>3
        <3> QED BY <3>2, <3>3
    <2>5. TreeOf(disk, nodes', 0)
          BY <2>2, <2>4, TreeOfNone
    <2> QED BY <2>1, <2>5 DEF PlainInv
<1>6. CASE ramfs_add
      BY <1>6, AddPlain
<1>7. CASE ramfs_register
    <2>1. /\ phase = "build" /\ phase' = "up" /\ UNCHANGED <<i, harm, files>> /\ disk' = disk /\ i = files
          /\ nodes' = [nodes EXCEPT ![ROOT].list = Append(@, RAM)] /\ IsTree(nodes) /\ Len(nodes) >= RAM
          /\ disk.end # 0 /\ i \in 0 .. files /\ module \in DOMAIN Disks /\ files \in 0 .. Len(disk.entries)
          BY <1>7 DEF ramfs_register, PlainInv, FilesInv, Sizes, Mounts, disk
    <2>2. RAM \in 1 .. Len(nodes) /\ ROOT \in 1 .. Len(nodes) /\ i \in Nat
        <3>1. Len(disk.entries) \in Nat
              BY <2>1, Constants DEF disk
        <3> QED BY <2>1, <3>1, Sized, TreeIs DEF ROOT
    <2> DEFINE all == [nodes EXCEPT ![ROOT].list = Append(@, RAM)]
    <2>3. EntryAdded(nodes, all, ROOT, RAM)
          BY <2>1, <2>2, PlusEntryIs
    <2>4. nodes' = all
          BY <2>1
    <2> HIDE DEF all
    <2>5. Len(all) = Len(nodes) /\ \A m \in RAM .. Len(nodes) : Alike(all[m], nodes[m]) /\ all[m].list = nodes[m].list
        <3>1. \A m \in RAM .. Len(nodes) : m \in 1 .. Len(nodes) /\ m # ROOT
              BY <2>2, Sized DEF ROOT
        <3> QED BY <2>3, <3>1 DEF EntryAdded
    <2>6. TreeOf(disk, nodes, i) => TreeOf(disk, all, i)
          BY <2>2, <2>5, TreeStays
    <2> QED BY <2>1, <2>4, <2>6 DEF PlainInv
<1> QED BY <1>1, <1>2, <1>3, <1>4, <1>5, <1>6, <1>7 DEF FNext

\* Nothing changes after it, and what goes wrong has another name.
LEMMA PlainRest ==
    ASSUME PlainInv, UNCHANGED boot, phase \in {"up", "gui"}, phase' \in {"gui", "stopped"}, "disk" \notin harm' \/ "disk" \in harm
    PROVE  PlainInv'
  BY DEF PlainInv, boot, disk

-----------------------------------------------------------------------------
(* /ram lists the archive.                                                  *)

LEMMA MountNames == "ram" \in Proper /\ "dev" \in Proper /\ "ram" # "dev"
<1>1. "ram" # NoName /\ "dev" # NoName
      BY Zenon DEF NoName
<1>2. "ram" \in Name /\ "dev" \in Name /\ "ram" # "/" /\ "dev" # "/" /\ "ram" # "dev"
      BY DEF Name
<1> QED BY <1>1, <1>2 DEF Proper

\* What the root gives for a name.
LEMMA RootLooks ==
    ASSUME NEW all, IsTree(all), Devices(all), Mount(all), all[ROOT].list = <<DEV, RAM>>
    PROVE  /\ Look(all, ROOT, "ram") = RAM /\ Look(all, ROOT, "dev") = DEV
           /\ \A c : c # "ram" /\ c # "dev" => Look(all, ROOT, c) = NULL
<1> DEFINE list == <<DEV, RAM>>
           Found(c) == FindName(all, list, c)
<1>1. /\ all[DEV].name = "dev" /\ all[RAM].name = "ram" /\ all[ROOT].dir /\ ROOT # NULL /\ DEV # NULL /\ RAM # NULL
      /\ RAM \in Nat /\ DEV \in Nat
      BY Sized DEF Devices, Mount, ROOT, DEV, NULL
<1>2. \A c : Look(all, ROOT, c) = Found(c)
      BY <1>1 DEF Look
<1>3. list \in Seq(Nat) /\ Len(list) = 2 /\ list[1] = DEV /\ list[2] = RAM
      BY <1>1
<1> HIDE DEF list
<1>4. \A c : FoundIs(all, list, c, Found(c))
      BY <1>3, FindFirst
<1> HIDE DEF Found
<1>5. 1 \in 1 .. Len(list) /\ 2 \in 1 .. Len(list) /\ (\A k \in 1 .. Len(list) : k = 1 \/ k = 2) /\ 1 \in 1 .. 2 - 1
      BY <1>3
<1>6. Found("ram") = RAM
    <2>1. FoundIs(all, list, "ram", Found("ram"))
          BY <1>4
    <2> QED BY <1>1, <1>3, <1>5, <2>1, MountNames DEF FoundIs
<1>7. Found("dev") = DEV
    <2>1. FoundIs(all, list, "dev", Found("dev"))
          BY <1>4
    <2> QED BY <1>1, <1>3, <1>5, <2>1, MountNames DEF FoundIs
<1>8. ASSUME NEW c, c # "ram", c # "dev" PROVE Found(c) = NULL
    <2>1. FoundIs(all, list, c, Found(c))
          BY <1>4
    <2> QED BY <1>1, <1>3, <1>5, <1>8, <2>1 DEF FoundIs
<1> QED BY <1>2, <1>6, <1>7, <1>8

\* The "/" that a path starts with may stand before it instead.
LEMMA Rejoin ==
    ASSUME NEW t \in Seq(Name), t # <<>>, t[1] = "/"
    PROVE  <<"/", "ram", "/">> \o Tail(t) = <<"/", "ram">> \o t
<1> DEFINE three == <<"/", "ram", "/">>
           two == <<"/", "ram">>
           u == Tail(t)
           a == three \o u
           b == two \o t
<1>1. "/" \in Name /\ "ram" \in Name
      BY DEF Name
<1>2. three \in Seq(Name) /\ Len(three) = 3 /\ three[1] = "/" /\ three[2] = "ram" /\ three[3] = "/"
      BY <1>1
<1>3. two \in Seq(Name) /\ Len(two) = 2 /\ two[1] = "/" /\ two[2] = "ram"
      BY <1>1
<1>4. u \in Seq(Name) /\ Len(t) = Len(u) + 1 /\ Len(u) \in Nat /\ \A k \in 1 .. Len(u) : u[k] = t[k + 1]
      OBVIOUS
<1> HIDE DEF three, two, u
<1>5. a \in Seq(Name) /\ Len(a) = 3 + Len(u)
      /\ \A k \in 1 .. 3 + Len(u) : a[k] = IF k <= 3 THEN three[k] ELSE u[k - 3]
    <2>1. a \in Seq(Name) /\ Len(a) = Len(three) + Len(u)
          /\ \A k \in 1 .. Len(three) + Len(u) : a[k] = IF k <= Len(three) THEN three[k] ELSE u[k - Len(three)]
          BY <1>2, <1>4, ConcatProperties
    <2> HIDE DEF a
    <2> QED BY <1>2, <2>1
<1>6. b \in Seq(Name) /\ Len(b) = 2 + Len(t)
      /\ \A k \in 1 .. 2 + Len(t) : b[k] = IF k <= 2 THEN two[k] ELSE t[k - 2]
    <2>1. b \in Seq(Name) /\ Len(b) = Len(two) + Len(t)
          /\ \A k \in 1 .. Len(two) + Len(t) : b[k] = IF k <= Len(two) THEN two[k] ELSE t[k - Len(two)]
          BY <1>3, ConcatProperties
    <2> HIDE DEF b
    <2> QED BY <1>3, <2>1
<1> HIDE DEF a, b
<1>7. ASSUME NEW k \in 1 .. Len(a) PROVE a[k] = b[k]
    <2>1. k \in 1 .. 3 + Len(u) /\ k \in 1 .. 2 + Len(t)
          BY <1>4, <1>5
    <2>2. CASE k = 1 \/ k = 2
        <3>1. a[k] = three[k] /\ b[k] = two[k]
              BY <1>5, <1>6, <2>1, <2>2
        <3> QED BY <1>2, <1>3, <2>2, <3>1
    <2>3. CASE k = 3
        <3>1. a[k] = three[3] /\ b[k] = t[1]
              BY <1>5, <1>6, <2>1, <2>3
        <3> QED BY <1>2, <3>1
    <2>4. CASE k > 3
        <3>1. a[k] = u[k - 3] /\ b[k] = t[k - 2]
              BY <1>5, <1>6, <2>1, <2>4
        <3>2. k - 3 \in 1 .. Len(u) /\ (k - 3) + 1 = k - 2
              BY <1>4, <2>1, <2>4
        <3> QED BY <1>4, <3>1, <3>2
    <2> QED BY <1>4, <2>1, <2>2, <2>3, <2>4
<1>8. a = b
    <2>1. Len(a) = Len(b)
          BY <1>4, <1>5, <1>6
    <2> QED BY <1>5, <1>6, <1>7, <2>1, SeqEqual
<1> QED BY <1>8 DEF a, b, three, two, u

\* What a path into /ram is split into.
LEMMA RamPathIs ==
    ASSUME NEW name \in Seq(Name), SpellsNames(name)
    PROVE  path(RamPath(name)) = <<"ram">> \o Names(name) /\ RamPath(name) # <<"/">>
<1> DEFINE segs == Names(name)
           t == Slashed(segs)
           u == Tail(t)
           more == <<"ram">> \o segs
           three == <<"/", "ram", "/">>
           two == <<"/", "ram">>
<1>1. segs \in Seq(Proper) /\ segs # <<>> /\ name = (IF Last(name) = "/" THEN Append(u, "/") ELSE u)
      BY DEF SpellsNames
<1> HIDE DEF segs
<1>2. t \in Seq(Name) /\ t # <<>> /\ t[1] = "/" /\ u \in Seq(Name) /\ "/" \in Name /\ "ram" \in Name /\ segs \in Seq(Name)
    <2>1. t \in Seq(Name) /\ t # <<>> /\ t[1] = "/" /\ u \in Seq(Name)
          BY <1>1, SpelledIs DEF SplitsAsSpelled
    <2> QED BY <1>1, <2>1, ProperIs DEF Name
<1>3. more \in Seq(Proper) /\ more # <<>>
    <2>1. more \in Seq(Proper)
          BY <1>1, MountNames
    <2>2. more # <<>>
          BY <1>1, <1>2, ConcatIs
    <2> QED BY <2>1, <2>2
<1>4. Slashed(more) = two \o t
      BY <1>2, SlashedUnder
<1>5. three \o u = two \o t
      BY <1>2, Rejoin
<1>6. three \in Seq(Name) /\ Len(three) = 3
      BY <1>2
<1> HIDE DEF three, two, t, u, more
<1>7. RamPath(name) = three \o name
      BY DEF RamPath, three
<1>8. path(three \o name) = more
    <2>1. CASE Last(name) = "/"
        <3>1. three \o Append(u, "/") = Append(three \o u, "/")
              BY <1>2, <1>6
        <3>2. three \o name = Append(Slashed(more), "/")
              BY <1>1, <1>4, <1>5, <2>1, <3>1
        <3> QED BY <1>3, <3>2, PathSpelled
    <2>2. CASE Last(name) # "/"
        <3>1. three \o name = Slashed(more)
              BY <1>1, <1>4, <1>5, <2>2
        <3> QED BY <1>3, <3>1, PathSpelled
    <2> QED BY <2>1, <2>2
<1>9. three \o name # <<"/">>
    <2> DEFINE whole == three \o name
    <2>1. Len(whole) = 3 + Len(name) /\ Len(name) \in Nat
        <3>1. Len(whole) = Len(three) + Len(name)
              BY <1>6, ConcatProperties
        <3> HIDE DEF whole
        <3> QED BY <1>6, <3>1
    <2>2. Len(<<"/">>) = 1
          OBVIOUS
    <2> HIDE DEF whole
    <2>3. whole # <<"/">>
          BY <2>1, <2>2
    <2> QED BY <2>3 DEF whole
<1> QED BY <1>7, <1>8, <1>9 DEF more, segs

\* A directory lists the entries of the archive in it.
ListsIn(n, p) ==
    /\ nodes[n].dir
    /\ [k \in DOMAIN nodes[n].list |-> nodes[nodes[n].list[k]].name]
       = [k \in DOMAIN Listed(p, files) |-> Last(Segments(Listed(p, files)[k]))]

LEMMA ListsShifted ==
    ASSUME TreeOf(disk, nodes, files), files \in Nat, NEW p, NEW n, nodes[n].dir,
           nodes[n].list = Shifted(ListedIn(disk, p, files))
    PROVE  ListsIn(n, p)
<1> DEFINE L == ListedIn(disk, p, files)
           list == nodes[n].list
<1>1. L = Listed(p, files) /\ IsListing(disk, p, files, L) /\ list = Shifted(L)
      BY ListedOf, ListedIs
<1> HIDE DEF L, list
<1>2. L \in Seq(Nat) /\ \A k \in 1 .. Len(L) : L[k] \in 1 .. files
      BY <1>1 DEF IsListing
<1>3. list \in Seq(Nat) /\ Len(list) = Len(L) /\ \A k \in 1 .. Len(L) : list[k] = RAM + L[k]
      BY <1>1, <1>2, ShiftedIs
<1>4. DOMAIN list = 1 .. Len(L) /\ DOMAIN L = 1 .. Len(L)
      BY <1>2, <1>3
<1>5. \A k \in 1 .. Len(L) : nodes[list[k]].name = Last(Segments(L[k]))
    <2> TAKE k \in 1 .. Len(L)
    <2>1. nodes[RAM + L[k]].name = Last(SegmentsOf(disk, L[k]))
          BY <1>2 DEF TreeOf
    <2> QED BY <1>3, <2>1 DEF SegmentsOf, Segments
<1>6. [k \in DOMAIN list |-> nodes[list[k]].name] = [k \in DOMAIN L |-> Last(Segments(L[k]))]
      BY <1>4, <1>5
<1> QED BY <1>1, <1>6 DEF ListsIn, list

\* The first header of its path is what a lookup of the path finds.
LEMMA FindHeader ==
    ASSUME FilesInv, phase \in {"up", "gui"}, disk.end # 0, PlainDisk(disk), TreeOf(disk, nodes, files),
           NEW k \in 1 .. files, Leads(disk, k)
    PROVE  find(RamPath(disk.entries[k].name)) = RAM + k
<1> DEFINE name == disk.entries[k].name
           q == SegmentsOf(disk, k)
<1>1. /\ IsTree(nodes) /\ nodes[ROOT].list = <<DEV, RAM>> /\ Mount(nodes) /\ Devices(nodes)
      /\ module \in DOMAIN Disks /\ files \in 0 .. Len(disk.entries) /\ Len(disk.entries) \in Nat
      BY Constants DEF FilesInv, Mounts, disk
<1>2. k \in 1 .. Len(disk.entries) /\ files \in Nat
      BY <1>1
<1>3. name \in Seq(Name) /\ SpellsNames(name) /\ q \in Seq(Proper) /\ q # <<>> /\ q = Names(name)
    <2>1. name \in Spellings
          BY <1>1, <1>2, Constants DEF disk
    <2>2. SpellsNames(name) /\ q \in Seq(Proper) /\ q # <<>>
          BY <1>2 DEF PlainDisk
    <2> QED BY <2>1, <2>2 DEF Spellings, SegmentsOf
<1> HIDE DEF name, q
<1>4. path(RamPath(name)) = <<"ram">> \o q /\ RamPath(name) # <<"/">>
      BY <1>3, RamPathIs
<1>5. find(RamPath(name)) = Reached(nodes, ROOT, <<"ram">> \o q)
      BY <1>4, FindReached
<1>6. Reached(nodes, ROOT, <<"ram">> \o q) = Reached(nodes, RAM, q)
    <2>1. ROOT \in NodeOf(nodes) /\ "ram" \in Name /\ q \in Seq(Name)
          BY <1>1, <1>3, ProperIs, TreeIs DEF FilesInv, NodeOf, ROOT, Name
    <2>2. Look(nodes, ROOT, "ram") = RAM
          BY <1>1, RootLooks
    <2>3. Reached(nodes, ROOT, <<"ram">> \o q) = Reached(nodes, Look(nodes, ROOT, "ram"), q)
          BY <1>1, <2>1, ReachUnder
    <2> QED BY <2>2, <2>3
<1>7. IsAt(disk, files, q, Reached(nodes, RAM, q))
      BY <1>1, <1>3, LookedUp
<1>8. \A j \in 1 .. files : Leads(disk, j) /\ SegmentsOf(disk, j) = q => j = k
    <2> SUFFICES ASSUME NEW j \in 1 .. files, Leads(disk, j), SegmentsOf(disk, j) = q PROVE j = k
        OBVIOUS
    <2>1. ~(j \in 1 .. k - 1) /\ ~(k \in 1 .. j - 1)
          BY DEF Leads, q
    <2> QED BY <1>2, <2>1
<1>9. Reached(nodes, RAM, q) = RAM + k
      BY <1>3, <1>7, <1>8 DEF IsAt, q
<1> QED BY <1>5, <1>6, <1>9 DEF name

LEMMA ArchiveListed ==
    ASSUME FilesInv, PlainInv
    PROVE  DiskIsArchive
<1> SUFFICES ASSUME phase = "up", disk.end > 0, PlainArchive(disk)
             PROVE  /\ find(<<"/", "ram">>) = RAM /\ ListsIn(RAM, <<>>)
                    /\ \A k \in 1 .. files :
                          \/ \E j \in 1 .. k - 1 : Segments(j) = Segments(k)
                          \/ LET n == find(RamPath(disk.entries[k].name))
                             IN  /\ n # NULL
                                 /\ IF disk.entries[k].type = "dir" THEN ListsIn(n, Segments(k))
                                    ELSE nodes[n].read = "ram" /\ nodes[n].inode = k
    BY DEF DiskIsArchive, ListsIn
<1>1. /\ IsTree(nodes) /\ nodes[ROOT].list = <<DEV, RAM>> /\ Mount(nodes) /\ Devices(nodes)
      /\ module \in DOMAIN Disks /\ files \in 0 .. Len(disk.entries) /\ Len(disk.entries) \in Nat
      /\ disk.end # 0 /\ RAM \in Nat /\ RAM >= 3 /\ files \in Nat
    <2>1. disk.end # 0
          OBVIOUS
    <2>2. module \in DOMAIN Disks /\ files \in 0 .. Len(disk.entries)
          BY DEF FilesInv
    <2>3. Len(disk.entries) \in Nat
          BY <2>2, Constants DEF disk
    <2> QED BY <2>1, <2>2, <2>3, Sized DEF FilesInv, Mounts
<1>2. PlainDisk(disk)
      BY <1>1, PlainIs DEF disk
<1>3. TreeOf(disk, nodes, files)
    <2>1. i = files /\ TreeOf(disk, nodes, i)
          BY <1>1, <1>2 DEF PlainInv
    <2> QED BY <2>1
<1>4. find(<<"/", "ram">>) = RAM
    <2> DEFINE one == <<"ram">>
               two == <<"/", "ram">>
               none == <<>>
    <2>1. one \in Seq(Proper) /\ one # none /\ none \in Seq(Name) /\ "ram" \in Name /\ one \o none = one
          BY MountNames, ProperIs
    <2>2. Slashed(one \o none) = two \o Slashed(none) /\ Slashed(none) = none /\ two \o none = two
        <3>1. Slashed(one \o none) = two \o Slashed(none)
              BY <2>1, SlashedUnder
        <3>2. two \o none = two
              OBVIOUS
        <3> QED BY <3>1, <3>2, SlashedEmpty
    <2>3. two # <<"/">>
        <3>1. Len(two) = 2 /\ Len(<<"/">>) = 1
              OBVIOUS
        <3> HIDE DEF two
        <3> QED BY <3>1
    <2>4. path(two) = one
        <3>1. Slashed(one) = two
              BY <2>1, <2>2
        <3> HIDE DEF one, two, none
        <3>2. path(Slashed(one)) = one
              BY <2>1, PathSpelled DEF none
        <3> QED BY <3>1, <3>2
    <2>5. find(two) = Reached(nodes, ROOT, one)
          BY <2>3, <2>4, FindReached
    <2>6. ROOT \in NodeOf(nodes) /\ Look(nodes, ROOT, "ram") = RAM
          BY <1>1, RootLooks, TreeIs DEF FilesInv, NodeOf, ROOT
    <2>7. Reached(nodes, ROOT, one \o none) = Reached(nodes, Look(nodes, ROOT, "ram"), none)
          BY <1>1, <2>1, <2>6, ReachUnder
    <2>8. Reached(nodes, RAM, none) = RAM
        <3>1. RAM \in NodeOf(nodes)
              BY <1>1, TreeIs DEF Mount, NodeOf
        <3> QED BY <1>1, <3>1, ReachEmpty
    <2> QED BY <2>1, <2>5, <2>6, <2>7, <2>8
<1>5. ListsIn(RAM, <<>>)
    <2>1. nodes[RAM].dir /\ nodes[RAM].list = Shifted(ListedIn(disk, <<>>, files))
          BY <1>1, <1>3 DEF Mount, TreeOf
    <2> QED BY <1>1, <1>3, <2>1, ListsShifted
<1>6. ASSUME NEW k \in 1 .. files, ~(\E j \in 1 .. k - 1 : Segments(j) = Segments(k))
      PROVE  LET n == find(RamPath(disk.entries[k].name))
             IN  /\ n # NULL
                 /\ IF disk.entries[k].type = "dir" THEN ListsIn(n, Segments(k))
                    ELSE nodes[n].read = "ram" /\ nodes[n].inode = k
    <2> DEFINE n == find(RamPath(disk.entries[k].name))
    <2>1. Leads(disk, k) /\ k \in 1 .. Len(disk.entries) /\ disk.entries[k].type \in {"file", "dir"}
        <3>1. k \in 1 .. Len(disk.entries)
              BY <1>1
        <3> QED BY <1>2, <1>6, <3>1 DEF Leads, Segments, SegmentsOf, PlainDisk
    <2>2. n = RAM + k
          BY <1>1, <1>2, <1>3, <2>1, FindHeader
    <2> HIDE DEF n
    <2>3. n # NULL
          BY <1>1, <2>2 DEF NULL
    <2>4. CASE disk.entries[k].type = "dir"
        <3>1. nodes[n].dir /\ nodes[n].list = Shifted(ListedIn(disk, Segments(k), files))
              BY <1>3, <2>1, <2>2, <2>4 DEF TreeOf, Segments, SegmentsOf
        <3>2. ListsIn(n, Segments(k))
              BY <1>1, <1>3, <3>1, ListsShifted
        <3> QED BY <2>3, <2>4, <3>2 DEF n
    <2>5. CASE disk.entries[k].type # "dir"
        <3>1. nodes[n].read = "ram" /\ nodes[n].inode = k
              BY <1>3, <2>1, <2>2, <2>5 DEF TreeOf
        <3> QED BY <2>3, <2>5, <3>1 DEF n
    <2> QED BY <2>4, <2>5
<1> QED BY <1>4, <1>5, <1>6

-----------------------------------------------------------------------------
(* Where a path leads once the boot is over.                                *)

\* No entry has a name without characters.
Named == \A n \in DOMAIN nodes : n # ROOT => nodes[n].name # NoName

\* d spells segs, as the navigator does, maybe with a "/" at its end.
IsPath(d, segs) == /\ segs \in Seq(Proper)
                   /\ \/ d = Append(Slashed(segs), "/")
                      \/ segs # <<>> /\ d = Slashed(segs)

\* The root is in no directory.
LEMMA NoRootListed ==
    ASSUME FilesInv, phase = "gui", NEW n \in 1 .. Len(nodes), NEW k \in 1 .. Len(nodes[n].list)
    PROVE  nodes[n].list[k] # ROOT
<1> DEFINE e == nodes[n].list[k]
<1>1. /\ IsTree(nodes) /\ Devices(nodes) /\ Apart(nodes) /\ RAM \in Nat /\ RAM >= 3
      /\ nodes[ROOT].list = <<DEV>> \/ nodes[ROOT].list = <<DEV, RAM>>
      BY Sized DEF FilesInv, Mounts
<1>2. n \in Nat /\ Len(nodes) \in Nat /\ nodes[n].list \in Seq(Nat) /\ e \in Nat
    <2>1. n \in Nat /\ Len(nodes) \in Nat /\ nodes[n].list \in Seq(Nat)
          BY <1>1, TreeIs
    <2> QED BY <2>1
<1>3. CASE n = ROOT
    <2>1. e = DEV \/ e = RAM
        <3>1. nodes[n].list = <<DEV>> \/ nodes[n].list = <<DEV, RAM>>
              BY <1>1, <1>3
        <3>2. CASE nodes[n].list = <<DEV>>
            <4>1. Len(<<DEV>>) = 1 /\ <<DEV>>[1] = DEV
                  OBVIOUS
            <4> QED BY <3>2, <4>1
        <3>3. CASE nodes[n].list = <<DEV, RAM>>
            <4>1. Len(<<DEV, RAM>>) = 2 /\ <<DEV, RAM>>[1] = DEV /\ <<DEV, RAM>>[2] = RAM
                  OBVIOUS
            <4>2. k = 1 \/ k = 2
                  BY <3>3, <4>1
            <4> QED BY <3>3, <4>1, <4>2
        <3> QED BY <3>1, <3>2, <3>3
    <2> QED BY <1>1, <2>1 DEF ROOT, DEV
<1>4. CASE n = DEV
      BY <1>1, <1>4 DEF Devices, DevList, ROOT
<1>5. CASE n >= 3 /\ n < RAM
    <2>1. nodes[n].list = <<>>
          BY <1>1, <1>2, <1>5 DEF Devices
    <2>2. Len(nodes[n].list) = 0
          BY <2>1
    <2> QED BY <2>2
<1>6. CASE n >= RAM
    <2>1. n \in DEV .. Len(nodes)
          BY <1>1, <1>2, <1>6 DEF DEV
    <2>2. e >= RAM
          BY <1>1, <1>6, <2>1 DEF Apart
    <2> QED BY <1>1, <2>2 DEF ROOT
<1> QED BY <1>1, <1>2, <1>3, <1>4, <1>5, <1>6 DEF ROOT, DEV

\* An entry has a name, and is what its name leads to or comes after it.
LEMMA EntryFound ==
    ASSUME FilesInv, phase = "gui", Named, NEW n \in 1 .. Len(nodes), NEW k \in 1 .. Len(nodes[n].list)
    PROVE  LET e == nodes[n].list[k]
               f == FindName(nodes, nodes[n].list, nodes[e].name)
           IN  /\ e \in 1 .. Len(nodes) /\ nodes[e].name \in Proper
               /\ f \in 1 .. Len(nodes) /\ nodes[f].name = nodes[e].name
               /\ \E j \in 1 .. Len(nodes[n].list) : f = nodes[n].list[j]
               /\ nodes[f].read # "none" => f <= e
<1> DEFINE list == nodes[n].list
           e == list[k]
           c == nodes[e].name
           f == FindName(nodes, list, c)
<1>1. /\ IsTree(nodes) /\ NodeInv(nodes, disk) /\ Ordered(nodes) /\ Len(nodes) \in Nat
      BY TreeIs DEF FilesInv
<1>2. list \in Seq(Nat) /\ \A j \in 1 .. Len(list) : list[j] \in 1 .. Len(nodes)
      BY <1>1, TreeIs DEF IsTree, Closed
<1>3. e \in 1 .. Len(nodes) /\ e # ROOT
      BY <1>2, NoRootListed
<1>4. c \in Proper
    <2>1. c \in Name /\ c # "/"
          BY <1>1, <1>3, TreeIs DEF NodeInv
    <2>2. DOMAIN nodes = 1 .. Len(nodes)
          BY <1>1 DEF IsTree
    <2>3. c # NoName
          BY <1>3, <2>2 DEF Named
    <2> QED BY <2>1, <2>3 DEF Proper
<1>5. \A j \in 1 .. Len(list) : \A x \in 1 .. j - 1 : nodes[list[x]].read # "none" => list[x] <= list[j]
      BY <1>1 DEF Ordered
<1>6. FoundIs(nodes, list, c, f)
    <2> HIDE DEF list, c
    <2> QED BY <1>2, FindFirst
<1>7. nodes[list[k]].name = c /\ k \in 1 .. Len(list)
      OBVIOUS
<1> HIDE DEF f, c
<1>8. PICK x \in 1 .. Len(list) : f = list[x] /\ nodes[f].name = c /\ \A j \in 1 .. x - 1 : nodes[list[j]].name # c
      BY <1>6, <1>7 DEF FoundIs
<1>9. f \in 1 .. Len(nodes)
      BY <1>2, <1>8
<1>10. nodes[f].read # "none" => f <= e
    <2>1. ~(k \in 1 .. x - 1)
          BY <1>7, <1>8
    <2>2. x = k \/ x \in 1 .. k - 1
        <3>1. x \in Nat /\ k \in Nat /\ x >= 1 /\ k >= 1
              BY <1>2
        <3> QED BY <2>1, <3>1
    <2>3. CASE x = k
        <3>1. f = e /\ e \in Nat
              BY <1>3, <1>8, <2>3
        <3> QED BY <3>1
    <2>4. CASE x \in 1 .. k - 1
          BY <1>5, <1>8, <2>4
    <2> QED BY <2>2, <2>3, <2>4
<1> QED BY <1>3, <1>4, <1>8, <1>9, <1>10 DEF f, c

\* Where no name is without characters, a path with an empty segment leads nowhere.
LEMMA LookNoName ==
    ASSUME FilesInv, phase = "gui", Named, NEW n \in NodeOf(nodes)
    PROVE  Look(nodes, n, NoName) = NULL
<1> SUFFICES ASSUME Look(nodes, n, NoName) # NULL PROVE FALSE
    OBVIOUS
<1> DEFINE list == nodes[n].list
           f == FindName(nodes, list, NoName)
<1>1. n \in 1 .. Len(nodes) /\ f # NULL /\ IsTree(nodes)
      BY LookIs DEF FilesInv
<1>2. list \in Seq(Nat) /\ (\A j \in 1 .. Len(list) : list[j] \in 1 .. Len(nodes)) /\ DOMAIN nodes = 1 .. Len(nodes)
      BY <1>1, TreeIs DEF IsTree, Closed
<1>5. \A j \in 1 .. Len(list) : list[j] # ROOT
      BY <1>1, NoRootListed
<1> HIDE DEF list
<1>3. FoundIs(nodes, list, NoName, f)
      BY <1>2, FindFirst
<1> HIDE DEF f
<1>4. PICK x \in 1 .. Len(list) : f = list[x] /\ nodes[f].name = NoName
      BY <1>1, <1>3 DEF FoundIs
<1> QED BY <1>2, <1>4, <1>5 DEF Named

\* What a path in a directory leads to.
LEMMA PathMore ==
    ASSUME NEW segs \in Seq(Proper), NEW c \in Proper
    PROVE  /\ Append(segs, c) \in Seq(Proper)
           /\ Slashed(Append(segs, c)) = Append(Append(Slashed(segs), "/"), c)
<1>1. segs \in Seq(Name) /\ c \in Name
      BY ProperIs
<1> QED BY <1>1, SlashedAppend DEF AddSlashed

LEMMA FindPath ==
    ASSUME IsTree(nodes), Len(nodes) >= 1, NEW d, NEW segs, IsPath(d, segs)
    PROVE  /\ find(d) = Reached(nodes, ROOT, segs) /\ find(d) \in NodeOf(nodes)
           /\ segs \in Seq(Proper) /\ (d = <<"/">> <=> segs = <<>>)
<1>1. segs \in Seq(Proper) /\ segs \in Seq(Name)
      BY ProperIs DEF IsPath
<1>2. ROOT \in NodeOf(nodes) /\ NoName \in Name
      BY TreeIs DEF ROOT, NodeOf, Name
<1>3. Reached(nodes, ROOT, segs) \in NodeOf(nodes)
      BY <1>1, <1>2, ReachAppend
<1>4. CASE segs = <<>>
    <2>1. d = Append(Slashed(segs), "/")
          BY <1>4 DEF IsPath
    <2>2. Slashed(segs) = <<>>
          BY <1>4, SlashedEmpty
    <2>3. d = <<"/">>
          BY <2>1, <2>2
    <2>4. find(d) = ROOT
          BY <2>3, FindReached
    <2>5. Reached(nodes, ROOT, segs) = ROOT
          BY <1>2, <1>4, ReachEmpty
    <2> QED BY <1>1, <1>3, <1>4, <2>3, <2>4, <2>5
<1>5. CASE segs # <<>>
    <2> DEFINE s == Slashed(segs)
    <2>1. s \in Seq(Name) /\ Len(s) = 2 * Len(segs) /\ "/" \in Name
          BY <1>1, <1>5, SpelledIs DEF SplitsAsSpelled, Name
    <2>2. path(s) = segs /\ path(Append(s, "/")) = segs
          BY <1>1, <1>5, PathSpelled
    <2> HIDE DEF s
    <2>3. path(d) = segs
          BY <2>2 DEF IsPath, s
    <2>4. Len(segs) >= 1 /\ Len(segs) \in Nat
          BY <1>1, <1>5, EmptySeq
    <2>5. Len(d) # 1
        <3>1. d = s \/ d = Append(s, "/")
              BY DEF IsPath, s
        <3>2. Len(Append(s, "/")) = Len(s) + 1
              BY <2>1
        <3>3. Len(s) # 1 /\ Len(Append(s, "/")) # 1
              BY <2>1, <2>4, <3>2
        <3>4. CASE d = s
              BY <3>3, <3>4, Zenon
        <3>5. CASE d = Append(s, "/")
              BY <3>3, <3>5, Zenon
        <3> QED BY <3>1, <3>4, <3>5
    <2> DEFINE top == <<"/">>
    <2>6. Len(top) = 1
          OBVIOUS
    <2> HIDE DEF top
    <2>7. d # top
          BY <2>5, <2>6, Zenon
    <2> QED BY <1>1, <1>3, <1>5, <2>3, <2>7, FindReached DEF top
<1> QED BY <1>4, <1>5

\* The way down to a directory: none of its segments, or those below /ram.
IsSpot(segs, n) ==
    \/ n = NULL
    \/ segs = <<>> /\ n = ROOT
    \/ segs = <<"dev">> /\ n = DEV
    \/ n \in 3 .. RAM - 1
    \/ disk.end # 0 /\ \E q \in Seq(Proper) : segs = <<"ram">> \o q /\ IsAt(disk, files, q, n)

\* What a plain archive has left when the boot is over.
PlainBoot ==
    /\ FilesInv /\ phase = "gui" /\ PlainDisk(disk)
    /\ disk.end # 0 => TreeOf(disk, nodes, files)

LEMMA PlainBootIs == ASSUME FilesInv, PlainInv, phase = "gui", PlainDisk(disk) PROVE PlainBoot
<1>1. disk.end # 0 => i = files /\ TreeOf(disk, nodes, i)
      BY DEF PlainInv
<1> QED BY <1>1 DEF PlainBoot

\* Its facts.
LEMMA PlainBootFacts ==
    ASSUME PlainBoot
    PROVE  /\ IsTree(nodes) /\ Devices(nodes) /\ Apart(nodes) /\ Len(nodes) \in Nat /\ RAM \in Nat /\ RAM >= 3
           /\ files \in 0 .. Len(disk.entries) /\ Len(disk.entries) \in Nat /\ PlainDisk(disk)
           /\ IF disk.end = 0 THEN nodes[ROOT].list = <<DEV>> /\ Len(nodes) = RAM - 1
              ELSE nodes[ROOT].list = <<DEV, RAM>> /\ Mount(nodes) /\ TreeOf(disk, nodes, files)
<1>1. FilesInv /\ phase = "gui" /\ PlainDisk(disk) /\ (disk.end # 0 => TreeOf(disk, nodes, files))
      BY DEF PlainBoot
<1>2. module \in DOMAIN Disks /\ IsTree(nodes)
      BY <1>1 DEF FilesInv
<1>3. Len(disk.entries) \in Nat /\ Len(nodes) \in Nat
      BY <1>2, Constants, TreeIs DEF disk
<1>4. IF disk.end = 0 THEN nodes[ROOT].list = <<DEV>> /\ Len(nodes) = RAM - 1
      ELSE nodes[ROOT].list = <<DEV, RAM>> /\ Mount(nodes)
      BY <1>1 DEF FilesInv, Mounts
<1> QED BY <1>1, <1>2, <1>3, <1>4, Sized DEF FilesInv, Mounts

\* A step further down.
LEMMA SpotStep ==
    ASSUME PlainBoot, NEW segs \in Seq(Proper), NEW n, IsSpot(segs, n), NEW c \in Proper
    PROVE  IsSpot(Append(segs, c), Look(nodes, n, c))
<1> DEFINE more == Append(segs, c)
           f == Look(nodes, n, c)
<1>1. /\ IsTree(nodes) /\ Devices(nodes) /\ Apart(nodes) /\ Len(nodes) \in Nat /\ RAM \in Nat /\ RAM >= 3
      /\ files \in 0 .. Len(disk.entries) /\ PlainDisk(disk)
      BY PlainBootFacts
<1>2. \A one : Append(<<>>, one) = <<one>>
      OBVIOUS
<1>3. CASE n = NULL
    <2>1. f = NULL
          BY <1>3 DEF Look
    <2> QED BY <2>1 DEF IsSpot
<1>4. CASE segs = <<>> /\ n = ROOT
    <2>1. more = <<c>>
          BY <1>2, <1>4
    <2>2. CASE disk.end = 0
        <3> DEFINE list == <<DEV>>
        <3>1. nodes[ROOT].list = list /\ nodes[ROOT].dir /\ nodes[DEV].name = "dev" /\ ROOT # NULL
              BY <1>1, <2>2, PlainBootFacts DEF Devices, ROOT, NULL
        <3>2. list \in Seq(Nat) /\ Len(list) = 1 /\ list[1] = DEV
              BY DEF DEV
        <3> HIDE DEF list
        <3>3. f = FindName(nodes, list, c)
              BY <1>4, <3>1 DEF Look
        <3> HIDE DEF f
        <3>4. FoundIs(nodes, list, c, f)
              BY <3>2, <3>3, FindFirst
        <3>5. f = NULL \/ (f = DEV /\ c = "dev")
              BY <3>1, <3>2, <3>4 DEF FoundIs
        <3> HIDE DEF more
        <3> QED BY <2>1, <3>5 DEF IsSpot, f, more
    <2>3. CASE disk.end # 0
        <3>1. nodes[ROOT].list = <<DEV, RAM>> /\ Mount(nodes)
              BY <2>3, PlainBootFacts
        <3>2. /\ Look(nodes, ROOT, "ram") = RAM /\ Look(nodes, ROOT, "dev") = DEV
              /\ \A x : x # "ram" /\ x # "dev" => Look(nodes, ROOT, x) = NULL
              BY <1>1, <3>1, RootLooks
        <3>3. CASE c = "ram"
            <4> DEFINE none == <<>>
            <4>1. none \in Seq(Proper) /\ <<"ram">> \o none = <<"ram">> /\ none = <<>>
                  OBVIOUS
            <4> HIDE DEF none
            <4>2. IsAt(disk, files, none, RAM)
                  BY <4>1 DEF IsAt
            <4>3. f = RAM /\ more = <<"ram">> \o none
                  BY <1>4, <2>1, <3>2, <3>3, <4>1
            <4> HIDE DEF f, more
            <4> QED BY <2>3, <4>1, <4>2, <4>3 DEF IsSpot, f, more
        <3>4. CASE c = "dev"
            <4>1. f = DEV /\ more = <<"dev">>
                  BY <1>4, <2>1, <3>2, <3>4
            <4> QED BY <4>1 DEF IsSpot
        <3>5. CASE c # "ram" /\ c # "dev"
            <4>1. f = NULL
                  BY <1>4, <3>2, <3>5
            <4> QED BY <4>1 DEF IsSpot
        <3> QED BY <3>3, <3>4, <3>5
    <2> QED BY <2>2, <2>3
<1>5. CASE segs = <<"dev">> /\ n = DEV
    <2> DEFINE list == nodes[DEV].list
    <2>1. DEV \in 1 .. Len(nodes) /\ DEV \in DEV .. Len(nodes) /\ nodes[DEV].dir /\ DEV # NULL
          BY <1>1 DEF Devices, DEV, NULL
    <2>2. list \in Seq(Nat)
          BY <1>1, <2>1, TreeIs
    <2>3. \A k \in 1 .. Len(list) : list[k] \in 3 .. RAM - 1
        <3>1. \A k \in 1 .. Len(list) : list[k] \in 3 .. Len(nodes)
              BY <1>1 DEF Devices, DevList
        <3>2. \A k \in 1 .. Len(list) : ~(list[k] >= RAM)
              BY <1>1, <2>1 DEF Apart, DEV
        <3> QED BY <1>1, <3>1, <3>2
    <2>4. f = FindName(nodes, list, c)
          BY <1>5, <2>1 DEF Look
    <2> HIDE DEF list, f
    <2>5. f = NULL \/ \E k \in 1 .. Len(list) : f = list[k]
          BY <2>2, <2>4, FindNameIs
    <2> QED BY <2>3, <2>5 DEF IsSpot, f
<1>6. CASE n \in 3 .. RAM - 1
    <2>1. n # NULL /\ n \in 3 .. Len(nodes) /\ n < RAM
        <3>1. Len(nodes) >= RAM - 1
              BY <1>1, PlainBootFacts DEF Mount
        <3> QED BY <1>1, <1>6, <3>1 DEF NULL
    <2>2. ~nodes[n].dir
          BY <1>1, <2>1 DEF Devices
    <2>3. f = NULL
          BY <2>1, <2>2 DEF Look
    <2> QED BY <2>3 DEF IsSpot
<1>7. CASE disk.end # 0 /\ \E q \in Seq(Proper) : segs = <<"ram">> \o q /\ IsAt(disk, files, q, n)
    <2>1. PICK q \in Seq(Proper) : segs = <<"ram">> \o q /\ IsAt(disk, files, q, n)
          BY <1>7
    <2>2. Mount(nodes) /\ TreeOf(disk, nodes, files)
          BY <1>7, PlainBootFacts
    <2>3. IsAt(disk, files, Append(q, c), f)
          BY <1>1, <2>1, <2>2, LookPlain
    <2>4. more = <<"ram">> \o Append(q, c)
          BY <2>1, ConcatIs, MountNames
    <2>5. Append(q, c) \in Seq(Proper)
          OBVIOUS
    <2> HIDE DEF f, more
    <2> QED BY <1>7, <2>3, <2>4, <2>5 DEF IsSpot, f, more
<1> QED BY <1>3, <1>4, <1>5, <1>6, <1>7 DEF IsSpot

\* Whatever the path.
LEMMA SpotIs ==
    ASSUME PlainBoot, NEW segs \in Seq(Proper)
    PROVE  IsSpot(segs, Reached(nodes, ROOT, segs))
<1> DEFINE P(q) == IsSpot(q, Reached(nodes, ROOT, q))
           T == {q \in Seq(Proper) : P(q)}
<1>1. IsTree(nodes) /\ ROOT \in NodeOf(nodes)
      BY PlainBootFacts, TreeIs DEF Devices, NodeOf, ROOT, DEV
<1>2. P(<<>>)
    <2>1. Reached(nodes, ROOT, <<>>) = ROOT
          BY <1>1, ReachEmpty
    <2> QED BY <2>1 DEF IsSpot
<1>3. ASSUME NEW q \in Seq(Proper), NEW c \in Proper, P(q) PROVE P(Append(q, c))
    <2>1. q \in Seq(Name) /\ c \in Name
          BY ProperIs
    <2>2. Reached(nodes, ROOT, Append(q, c)) = Look(nodes, Reached(nodes, ROOT, q), c)
          BY <1>1, <2>1, ReachAppend
    <2> DEFINE n == Reached(nodes, ROOT, q)
    <2>3. IsSpot(q, n)
          BY <1>3
    <2> HIDE DEF n
    <2>4. IsSpot(Append(q, c), Look(nodes, n, c))
          BY <2>3, SpotStep
    <2> QED BY <2>2, <2>4 DEF n
<1>4. \A q \in Seq(Proper), c \in Proper : Append(q, c) \in Seq(Proper)
      OBVIOUS
<1> HIDE DEF P
<1>5. <<>> \in T /\ \A q \in Seq(Proper), c \in Proper : q \in T => Append(q, c) \in T
    <2>1. <<>> \in Seq(Proper)
          OBVIOUS
    <2> QED BY <1>2, <1>3, <1>4, <2>1
<1> HIDE DEF T
<1>6. segs \in T
      BY <1>5, SeqInduction
<1>7. P(segs)
      BY <1>6 DEF T
<1> QED BY <1>7 DEF P

\* A plain archive has a name for every entry.
LEMMA PlainNamed == ASSUME PlainBoot PROVE Named
<1> SUFFICES ASSUME NEW n \in 1 .. Len(nodes), n # ROOT PROVE nodes[n].name # NoName
    <2>1. DOMAIN nodes = 1 .. Len(nodes)
          BY PlainBootFacts DEF IsTree
    <2> QED BY <2>1 DEF Named
<1>1. /\ Devices(nodes) /\ Len(nodes) \in Nat /\ RAM \in Nat /\ RAM >= 3
      /\ files \in 0 .. Len(disk.entries) /\ Len(disk.entries) \in Nat /\ PlainDisk(disk)
      /\ IF disk.end = 0 THEN Len(nodes) = RAM - 1 ELSE Mount(nodes) /\ TreeOf(disk, nodes, files)
      BY PlainBootFacts
<1>2. \A c \in Proper : c # NoName
      BY DEF Proper
<1>3. CASE n = DEV
      BY <1>1, <1>2, <1>3, MountNames DEF Devices
<1>4. CASE n \in 3 .. RAM - 1
      BY <1>1, <1>2, <1>4 DEF Devices
<1>5. CASE n = RAM
      BY <1>1, <1>2, <1>5, MountNames DEF Mount
<1>6. CASE n > RAM
    <2> DEFINE k == n - RAM
    <2>1. Len(nodes) = RAM + files /\ TreeOf(disk, nodes, files)
          BY <1>1, <1>6, SMTT(30) DEF TreeOf
    <2>2. k \in 1 .. files /\ n = RAM + k /\ k \in 1 .. Len(disk.entries)
          BY <1>1, <1>6, <2>1
    <2> HIDE DEF k
    <2>3. SegmentsOf(disk, k) \in Seq(Proper) /\ SegmentsOf(disk, k) # <<>>
          BY <1>1, <2>2 DEF PlainDisk
    <2>4. Last(SegmentsOf(disk, k)) \in Proper
          BY <2>3, FrontIs
    <2>5. nodes[n].name = Last(SegmentsOf(disk, k))
          BY <2>1, <2>2 DEF TreeOf
    <2> QED BY <1>2, <2>4, <2>5
<1>7. n = DEV \/ n \in 3 .. RAM - 1 \/ n = RAM \/ n > RAM
      BY <1>1 DEF ROOT, DEV
<1> QED BY <1>3, <1>4, <1>5, <1>6, <1>7

\* What a directory of the ramdisk lists are headers with its path.
LEMMA RamLists ==
    ASSUME PlainBoot, NEW D \in 1 .. Len(nodes), D >= RAM, NEW k \in 1 .. Len(nodes[D].list)
    PROVE  \E p, h : /\ h \in 1 .. files /\ nodes[D].list[k] = RAM + h
                     /\ Front(SegmentsOf(disk, h)) = p
                     /\ \A j \in 1 .. Len(nodes[D].list) :
                           \E g \in 1 .. files : nodes[D].list[j] = RAM + g /\ Front(SegmentsOf(disk, g)) = p
<1> DEFINE list == nodes[D].list
<1>1. /\ Len(nodes) \in Nat /\ RAM \in Nat /\ files \in 0 .. Len(disk.entries) /\ Len(disk.entries) \in Nat
      /\ IF disk.end = 0 THEN Len(nodes) = RAM - 1 ELSE TreeOf(disk, nodes, files)
      BY PlainBootFacts
<1>2. TreeOf(disk, nodes, files) /\ Len(nodes) = RAM + files
      BY <1>1 DEF TreeOf
<1>3. \E p : list = Shifted(ListedIn(disk, p, files))
    <2>1. CASE D = RAM
          BY <1>2, <2>1 DEF TreeOf
    <2>2. CASE D > RAM
        <3> DEFINE h == D - RAM
        <3>1. h \in 1 .. files /\ D = RAM + h
              BY <1>1, <1>2, <2>2
        <3> HIDE DEF h
        <3>2. \/ list = Shifted(ListedIn(disk, SegmentsOf(disk, h), files))
              \/ list = <<>>
              BY <1>2, <3>1 DEF TreeOf
        <3>3. ASSUME list = <<>> PROVE FALSE
            <4>1. Len(<<>>) = 0
                  OBVIOUS
            <4>2. k \in 1 .. Len(list)
                  OBVIOUS
            <4> HIDE DEF list
            <4>3. Len(list) = 0
                  BY <3>3, <4>1
            <4> QED BY <4>2, <4>3
        <3> QED BY <3>2, <3>3
    <2> QED BY <1>1, <2>1, <2>2
<1>4. PICK p : list = Shifted(ListedIn(disk, p, files))
      BY <1>3
<1> DEFINE L == ListedIn(disk, p, files)
<1>5. L \in Seq(Nat) /\ \A j \in 1 .. Len(L) : L[j] \in 1 .. files /\ Front(SegmentsOf(disk, L[j])) = p
    <2>1. files \in Nat
          BY <1>1
    <2> QED BY <2>1, ListedIs DEF IsListing
<1>6. k \in 1 .. Len(list)
      OBVIOUS
<1>7. list = Shifted(L)
      BY <1>4
<1> HIDE DEF L, list
<1>8. Len(list) = Len(L) /\ \A j \in 1 .. Len(L) : list[j] = RAM + L[j]
      BY <1>5, <1>7, ShiftedIs
<1>9. \A j \in 1 .. Len(list) : \E g \in 1 .. files : list[j] = RAM + g /\ Front(SegmentsOf(disk, g)) = p
      BY <1>5, <1>8
<1> QED BY <1>6, <1>9 DEF list

\* The name of a directory that is listed leads to a directory, if not to that one.
LEMMA SameKind ==
    ASSUME PlainBoot, NEW D \in 1 .. Len(nodes), NEW k \in 1 .. Len(nodes[D].list), NEW n, n = nodes[D].list[k],
           nodes[n].dir
    PROVE  LET f == FindName(nodes, nodes[D].list, nodes[n].name)
           IN  f \in 1 .. Len(nodes) /\ nodes[f].dir
<1> DEFINE list == nodes[D].list
           f == FindName(nodes, list, nodes[n].name)
<1>1. /\ IsTree(nodes) /\ Devices(nodes) /\ Apart(nodes) /\ Len(nodes) \in Nat /\ RAM \in Nat /\ RAM >= 3
      /\ files \in 0 .. Len(disk.entries) /\ Len(disk.entries) \in Nat /\ PlainDisk(disk)
      /\ IF disk.end = 0 THEN nodes[ROOT].list = <<DEV>> /\ Len(nodes) = RAM - 1
         ELSE nodes[ROOT].list = <<DEV, RAM>> /\ Mount(nodes) /\ TreeOf(disk, nodes, files)
      BY PlainBootFacts
<1>2. FilesInv /\ phase = "gui" /\ Named
      BY PlainNamed DEF PlainBoot
<1>3. f \in 1 .. Len(nodes) /\ nodes[f].name = nodes[n].name /\ \E j \in 1 .. Len(list) : f = list[j]
      BY <1>2, EntryFound
<1> HIDE DEF f
<1>4. PICK j \in 1 .. Len(list) : f = list[j]
      BY <1>3
<1>5. CASE D = ROOT
    <2>1. f = DEV \/ (f = RAM /\ Mount(nodes))
        <3>1. CASE list = <<DEV>>
            <4>1. Len(<<DEV>>) = 1 /\ <<DEV>>[1] = DEV
                  OBVIOUS
            <4>2. j = 1
                  BY <1>4, <3>1, <4>1
            <4> QED BY <1>4, <3>1, <4>1, <4>2
        <3>2. CASE list = <<DEV, RAM>> /\ Mount(nodes)
            <4>1. Len(<<DEV, RAM>>) = 2 /\ <<DEV, RAM>>[1] = DEV /\ <<DEV, RAM>>[2] = RAM
                  OBVIOUS
            <4>2. j = 1 \/ j = 2
                  BY <1>4, <3>2, <4>1
            <4> QED BY <1>4, <3>2, <4>1, <4>2
        <3> QED BY <1>1, <1>5, <3>1, <3>2
    <2>2. nodes[DEV].dir /\ (Mount(nodes) => nodes[RAM].dir)
          BY <1>1 DEF Devices, Mount
    <2> QED BY <1>3, <2>1, <2>2 DEF f
<1>6. CASE D = DEV
    <2>1. n \in 3 .. Len(nodes)
          BY <1>1, <1>6 DEF Devices, DevList
    <2>2. ~(n >= RAM)
          BY <1>1, <1>6 DEF Apart, DEV
    <2>3. n < RAM
          BY <1>1, <2>1, <2>2
    <2> QED BY <1>1, <2>1, <2>3 DEF Devices
<1>7. CASE D >= 3 /\ D < RAM
    <2>1. list = <<>>
          BY <1>1, <1>7 DEF Devices
    <2>2. Len(list) = 0
          BY <2>1
    <2> QED BY <1>4, <2>2
<1>8. CASE D >= RAM
    <2>1. PICK p, h : /\ h \in 1 .. files /\ n = RAM + h
                      /\ Front(SegmentsOf(disk, h)) = p
                      /\ \A x \in 1 .. Len(list) :
                            \E g \in 1 .. files : list[x] = RAM + g /\ Front(SegmentsOf(disk, g)) = p
          BY <1>8, RamLists
    <2>2. PICK g \in 1 .. files : f = RAM + g /\ Front(SegmentsOf(disk, g)) = p
          BY <1>4, <2>1
    <2>3. TreeOf(disk, nodes, files)
          BY <1>1, <1>8
    <2>4. Last(SegmentsOf(disk, g)) = Last(SegmentsOf(disk, h))
          BY <1>3, <2>1, <2>2, <2>3 DEF TreeOf
    <2>5. g \in 1 .. Len(disk.entries) /\ h \in 1 .. Len(disk.entries)
        <3>1. files \in 0 .. Len(disk.entries) /\ Len(disk.entries) \in Nat
              BY <1>1
        <3>2. g \in 1 .. files /\ h \in 1 .. files
              BY <2>1, <2>2
        <3> QED BY ONLY <3>1, <3>2
    <2>6. SegmentsOf(disk, g) = SegmentsOf(disk, h)
        <3> DEFINE a == SegmentsOf(disk, g)
                   b == SegmentsOf(disk, h)
        <3>1. a \in Seq(Proper) /\ a # <<>> /\ b \in Seq(Proper) /\ b # <<>>
              BY <1>1, <2>5 DEF PlainDisk
        <3>2. Front(a) = Front(b) /\ Last(a) = Last(b)
              BY <2>1, <2>2, <2>4
        <3> HIDE DEF a, b
        <3>3. a = Append(Front(a), Last(a)) /\ b = Append(Front(b), Last(b))
              BY <3>1, FrontIs
        <3>4. a = b
              BY <3>2, <3>3
        <3> QED BY <3>4 DEF a, b
    <2>7. disk.entries[g].type = disk.entries[h].type
          BY <1>1, <2>5, <2>6 DEF PlainDisk
    <2>8. /\ nodes[RAM + g].dir = (disk.entries[g].type = "dir")
          /\ nodes[RAM + h].dir = (disk.entries[h].type = "dir")
          BY <2>1, <2>2, <2>3 DEF TreeOf
    <2>9. nodes[f].dir
          BY <2>1, <2>2, <2>7, <2>8
    <2> QED BY <1>3, <2>9 DEF f
<1>9. D = ROOT \/ D = DEV \/ (D >= 3 /\ D < RAM) \/ D >= RAM
      BY <1>1 DEF ROOT, DEV
<1> QED BY <1>5, <1>6, <1>7, <1>8, <1>9

\* A directory far down has a header with its path.
LEMMA DirLong ==
    ASSUME PlainBoot, NEW segs \in Seq(Proper), NEW n, n = Reached(nodes, ROOT, segs), n # NULL, nodes[n].dir
    PROVE  \/ Len(segs) <= 1
           \/ \E k \in 1 .. Len(disk.entries) : /\ disk.entries[k].type = "dir"
                                                /\ Len(SegmentsOf(disk, k)) + 1 = Len(segs)
<1>1. /\ Devices(nodes) /\ Len(nodes) \in Nat /\ RAM \in Nat /\ RAM >= 3
      /\ files \in 0 .. Len(disk.entries) /\ Len(disk.entries) \in Nat
      /\ IF disk.end = 0 THEN Len(nodes) = RAM - 1 ELSE Mount(nodes) /\ TreeOf(disk, nodes, files)
      BY PlainBootFacts
<1>2. IsSpot(segs, n)
      BY SpotIs
<1>3. CASE segs = <<>>
    <2>1. Len(<<>>) = 0
          OBVIOUS
    <2>2. Len(segs) = 0
          BY <1>3, <2>1
    <2> QED BY <2>2
<1>4. CASE segs = <<"dev">>
    <2>1. Len(<<"dev">>) = 1
          OBVIOUS
    <2>2. Len(segs) = 1
          BY <1>4, <2>1
    <2> QED BY <2>2
<1>5. CASE n \in 3 .. RAM - 1
    <2>1. Len(nodes) >= RAM - 1
          BY <1>1 DEF Mount
    <2>2. n \in 3 .. Len(nodes) /\ n < RAM
          BY <1>1, <1>5, <2>1
    <2> QED BY <1>1, <2>2 DEF Devices
<1>6. CASE disk.end # 0 /\ \E q \in Seq(Proper) : segs = <<"ram">> \o q /\ IsAt(disk, files, q, n)
    <2>1. PICK q \in Seq(Proper) : segs = <<"ram">> \o q /\ IsAt(disk, files, q, n)
          BY <1>6
    <2> DEFINE one == <<"ram">>
    <2>2. one \in Seq(Proper)
          BY MountNames
    <2>7. Len(one) = 1
          OBVIOUS
    <2> HIDE DEF one
    <2>3. Len(one \o q) = Len(one) + Len(q) /\ Len(q) \in Nat
          BY <2>2
    <2>8. segs = one \o q
          BY <2>1 DEF one
    <2>4. Len(segs) = 1 + Len(q)
          BY <2>3, <2>7, <2>8
    <2>5. CASE q = <<>>
        <3>1. Len(<<>>) = 0
              OBVIOUS
        <3>2. Len(q) = 0
              BY <2>5, <3>1
        <3> QED BY <2>4, <3>2
    <2>6. CASE q # <<>>
        <3>1. PICK k \in 1 .. files : n = RAM + k /\ SegmentsOf(disk, k) = q
              BY <2>1, <2>6 DEF IsAt
        <3>2. k \in 1 .. Len(disk.entries) /\ TreeOf(disk, nodes, files)
              BY <1>1, <1>6, <3>1
        <3>3. disk.entries[k].type = "dir"
              BY <3>1, <3>2 DEF TreeOf
        <3>4. Len(SegmentsOf(disk, k)) + 1 = Len(segs)
              BY <2>3, <2>4, <3>1
        <3> QED BY <3>2, <3>3, <3>4
    <2> QED BY <2>5, <2>6
<1> QED BY <1>2, <1>3, <1>4, <1>5, <1>6 DEF IsSpot

=============================================================================
